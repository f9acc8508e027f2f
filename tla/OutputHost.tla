----------------------------- MODULE OutputHost -----------------------------
(***************************************************************************)
(* The host of a batching output plugin (Hindsight, external), as far as   *)
(* the plugins of this repository rely on it.  It offers the messages in   *)
(* order, the same one again when process_message returns -3; a 0 moves    *)
(* its checkpoint to the offered message, a -4 leaves it where it is, and  *)
(* update_checkpoint() moves it to the last message answered.  After a     *)
(* stop or a crash it resumes behind its checkpoint with a new plugin.     *)
(* Modules of batching outputs extend this one.                            *)
(***************************************************************************)
EXTENDS Naturals, FiniteSets

CONSTANTS NumMsgs,     \* messages the host offers (bound of the models)
          MaxRestarts  \* stops and crashes (bound of the models)

ASSUME NumMsgsAssumption == NumMsgs \in Nat
ASSUME RestartAssumption == MaxRestarts \in Nat

VARIABLES
  next,        \* message offered next
  batching,    \* messages answered "batch" are waiting for the checkpoint
  checkpoint,  \* last message the host will not offer again after a restart
  restarts

host == <<next, batching, checkpoint, restarts>>

Msgs == 1 .. NumMsgs

HostInit == next = 1 /\ batching = FALSE /\ checkpoint = 0 /\ restarts = 0

HostTypeOK ==
  /\ next \in 1 .. NumMsgs + 1 /\ batching \in BOOLEAN
  /\ checkpoint \in 0 .. NumMsgs /\ restarts \in 0 .. MaxRestarts

\* process_message answers the offered message with sent (0), batch (-4),
\* retry (-3) or fail (-1, and -2 for a message it skips).  A failed message
\* moves the checkpoint only if no earlier message is waiting.
HostReturn(rv) ==
  /\ next' = IF rv = "retry" THEN next ELSE next + 1
  /\ batching' = CASE rv = "sent" -> FALSE [] rv = "batch" -> TRUE
                   [] OTHER -> batching
  /\ checkpoint' = IF rv = "sent" \/ (rv = "fail" /\ ~batching)
                   THEN next ELSE checkpoint
  /\ UNCHANGED restarts

\* The checkpoint after update_checkpoint(): every message answered so far.
LastAnswered == next - 1

\* timer_event returned, after calling update_checkpoint() or not.
HostTicked(updated) ==
  /\ checkpoint' = IF updated THEN LastAnswered ELSE checkpoint
  /\ batching' = (batching /\ ~updated)
  /\ UNCHANGED <<next, restarts>>

\* The host starts again, after the last update of its checkpoint if any.
HostRestarts(updated) ==
  /\ restarts < MaxRestarts /\ restarts' = restarts + 1
  /\ checkpoint' = IF updated THEN LastAnswered ELSE checkpoint
  /\ next' = checkpoint' + 1
  /\ batching' = FALSE
=============================================================================
