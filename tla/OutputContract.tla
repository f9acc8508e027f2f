--------------------------- MODULE OutputContract ---------------------------
(***************************************************************************)
(* What an output plugin promises the host about its checkpoint, whatever  *)
(* it buffers, batches or retries in between: a message the checkpoint     *)
(* covers is settled, so that a restart, which resumes after the           *)
(* checkpoint, loses nothing.  Messages are numbered in the order the host *)
(* offers them; a message is settled when it has been delivered, or its    *)
(* failure is final.                                                       *)
(***************************************************************************)
EXTENDS Naturals

CONSTANT NumMsgs

VARIABLES settled, checkpoint

Init == settled = {} /\ checkpoint = 0

\* A callback may settle messages and then move the checkpoint over settled
\* ones; neither is ever taken back.
Step ==
  /\ settled' \in SUBSET (1 .. NumMsgs) /\ settled \subseteq settled'
  /\ checkpoint' \in checkpoint .. NumMsgs
  /\ 1 .. checkpoint' \subseteq settled'

Next == Step

Spec == Init /\ [][Next]_<<settled, checkpoint>>

\* What the host relies on.
NothingLost == 1 .. checkpoint \subseteq settled
=============================================================================
