------------------------------- MODULE MCKafka -------------------------------
(***************************************************************************)
(* Kafka on a small instance.  The input only reads the log, and the log   *)
(* only grows: whatever the input does while the output works it can do    *)
(* after the output has ended, which is when it runs here.                 *)
(***************************************************************************)
EXTENDS Kafka

InputIdle == consumer = "none" /\ stored = Zero /\ handled = {} /\ crashes = 0

\* The output ended for good after everything was delivered.
OutputDone ==
  /\ producer = "none" /\ stops = MaxStops /\ checkpoint = NumMsgs
  /\ failed = {} /\ unsendable = {} /\ dropped = {}

MCNext ==
  \/ InputIdle /\ (Output \/ Broker)
  \/ (OutputDone \/ ~hosted) /\ Input

MCSpec == Init /\ [][MCNext]_vars /\ Fairness
=============================================================================
