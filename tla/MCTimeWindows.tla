--------------------------- MODULE MCTimeWindows ---------------------------
(* The two structures that keep a window of the latest times, the circular *)
(* buffer and the expiring cuckoo filter: a behaviour is one of either, and *)
(* the other structure stays as it was created.                             *)
EXTENDS CircularBuffer, MCCuckooFilterExpire

VARIABLE structure

WindowsInit ==
  /\ Init /\ FilterInit
  /\ structure \in IF headers = [c \in Columns |-> "sum"] THEN {"buffer", "filter"}
                   ELSE {"buffer"}

BufferStep == structure = "buffer" /\ Next /\ UNCHANGED <<filterVars, structure>>
FilterStep == structure = "filter" /\ FilterNext /\ UNCHANGED <<vars, structure>>

WindowsSpec == WindowsInit /\ [][BufferStep \/ FilterStep]_<<vars, filterVars, structure>>
=============================================================================
