------------------------ MODULE MCCuckooFilterExpire ------------------------
(* Two buckets of one place.  Keys 1 and 2 may be in either, the hash of key *)
(* 3 leaves it only one, so that keys are displaced and the filter is full   *)
(* for a key when the interval it expires has no entry.                      *)
EXTENDS CuckooFilterExpire

MCKeys == 1 .. 3
MCHome == [k \in MCKeys |-> IF k = 1 THEN 1 ELSE 0]
MCPartner == [k \in MCKeys |-> [b \in 0 .. 1 |-> IF k <= 2 THEN 1 - b ELSE b]]
=============================================================================
