-------------------------- MODULE MCKinesisConsumer --------------------------
(***************************************************************************)
(* KinesisConsumer on a small instance: the first shard is split.          *)
(***************************************************************************)
EXTENDS KinesisConsumer

MCChildren == [s \in 1 .. NumShards |-> IF s = 1 THEN 2 .. NumShards ELSE {}]
=============================================================================
