----------------------------- MODULE KinesisPack -----------------------------
(***************************************************************************)
(* The Kinesis output with packing, aws/sandboxes/heka/output/kinesis.lua  *)
(* (pack_percentage > 0), over the blocking send of aws/kinesis.cpp: small *)
(* messages are joined into one record until the last payload unit of the  *)
(* record is full enough, the record is as large as it may be, or the      *)
(* timer runs.  The host is that of OutputHost.                            *)
(***************************************************************************)
EXTENDS OutputHost, Sequences, SequencesExt

CONSTANTS PUT_MAX,              \* largest record (1 MiB in the code)
          PUT_UNIT,             \* payload unit (25 KiB in the code)
          pack_percentage,      \* configured fill, already scaled to the unit
          pack_delimiter_size,  \* length of the record delimiter, 0 without
          Sizes                 \* lengths of encoded messages to try

ASSUME PackAssumption ==
  /\ PUT_MAX \in Nat \ {0} /\ PUT_UNIT \in 1 .. PUT_MAX
  /\ pack_percentage \in 1 .. PUT_UNIT
  /\ pack_delimiter_size \in Nat
  /\ Sizes \subseteq Nat /\ Sizes # {}

VARIABLES
  pack,       \* [msgs, size, timer] of kinesis.lua; cnt is Len(msgs)
  dlen,       \* length of each message once encoded
  delivered,  \* messages of records put into the stream
  rejected,   \* messages of records discarded after an error
  refused     \* messages refused before packing (encoder, too large)

history == <<delivered, rejected, refused>>
vars == <<pack, dlen, host, history>>

Outcomes == {"ok", "retry", "error"}

Packed == Range(pack.msgs)

EmptyPack == [msgs |-> <<>>, size |-> 0, timer |-> TRUE]

Init ==
  /\ pack = EmptyPack
  /\ dlen \in [Msgs -> Sizes]
  /\ HostInit
  /\ delivered = {} /\ rejected = {} /\ refused = {}

-----------------------------------------------------------------------------
(* send(p), and the packing arithmetic, on a pack p.                       *)

\* simple_send maps throttling and retryable errors to -3.
Code(outcome) == CASE outcome = "ok" -> "sent" [] outcome = "retry" -> "retry"
                   [] OTHER -> "fail"

\* The pack is reset unless the record must be sent again.
AfterSend(p, outcome) == IF outcome = "retry" THEN p ELSE EmptyPack

\* What appending message m adds to the pack.
AddedSize(p, m) ==
  dlen[m] + IF p.msgs = <<>> THEN 0 ELSE pack_delimiter_size

Append1(p, m) ==
  [p EXCEPT !.msgs = Append(@, m), !.size = @ + AddedSize(p, m)]

\* mutant: only the size is undone
UndoSize(p, dsize) == [p EXCEPT !.size = @ - dsize]

\* The message just appended is taken out again.
Undo(p, dsize) == [p EXCEPT !.msgs = Front(@), !.size = @ - dsize]

\* The record would become too large with m.
Overflows(p, m) == p.size + AddedSize(p, m) > PUT_MAX

\* The last payload unit of the record is full, or full enough.
FullEnough(p) ==
  LET remainder == p.size % PUT_UNIT
  IN remainder = 0 \/ remainder >= pack_percentage

\* Messages of pack p that a send with this outcome put into the stream, and
\* those it discarded.
Put(p, outcome)  == IF outcome = "ok" THEN Range(p.msgs) ELSE {}
Drop(p, outcome) == IF outcome = "error" THEN Range(p.msgs) ELSE {}

-----------------------------------------------------------------------------
(* process_message.                                                        *)

\* The encoder fails or skips the message, or it is larger than a record.
Refuse ==
  /\ next \in Msgs
  /\ HostReturn("fail")
  /\ refused' = refused \cup {next}
  /\ UNCHANGED <<pack, dlen, delivered, rejected>>

\* No room left: the pack is sent first; the message waits if that must be
\* retried.
OverflowRetry ==
  /\ next \in Msgs /\ dlen[next] <= PUT_MAX /\ Overflows(pack, next)
  /\ HostReturn("retry")
  /\ UNCHANGED <<pack, dlen, history>>

\* The offered message is added to pack p, rv being the answer so far: "batch",
\* or what sending the previous pack returned.  The new pack is sent at once if
\* it is full enough, except after an error; when that must be retried the
\* message is taken out again.
Add(p, rv, outcome) ==
  LET q == Append1(p, next)
  IN IF rv # "fail" /\ FullEnough(q)
     THEN [pack |-> [IF outcome = "retry" THEN Undo(q, AddedSize(p, next))
                     ELSE EmptyPack EXCEPT !.timer = FALSE],
           rv |-> Code(outcome), put |-> Put(q, outcome), drop |-> Drop(q, outcome)]
     ELSE [pack |-> q, rv |-> rv, put |-> {}, drop |-> {}]

\* The message fits in the pack.
Pack(outcome) ==
  /\ next \in Msgs /\ dlen[next] <= PUT_MAX /\ ~Overflows(pack, next)
  /\ LET added == Add(pack, "batch", outcome)
     IN /\ pack' = added.pack
        /\ HostReturn(added.rv)
        /\ delivered' = delivered \cup added.put
        /\ rejected' = rejected \cup added.drop
  /\ UNCHANGED <<dlen, refused>>

\* The full pack was sent or discarded, and a new one is started.
OverflowPack(first, outcome) ==
  /\ next \in Msgs /\ dlen[next] <= PUT_MAX /\ Overflows(pack, next)
  /\ first # "retry"
  /\ LET added == Add([EmptyPack EXCEPT !.timer = FALSE], Code(first), outcome)
     IN /\ pack' = added.pack
        /\ HostReturn(added.rv)
        /\ delivered' = delivered \cup Put(pack, first) \cup added.put
        /\ rejected' = rejected \cup Drop(pack, first) \cup added.drop
  /\ UNCHANGED <<dlen, refused>>

ProcessMessage(outcome) ==
  \/ Refuse \/ OverflowRetry \/ Pack(outcome)
  \/ \E first \in Outcomes : OverflowPack(first, outcome)

-----------------------------------------------------------------------------
(* timer_event.                                                            *)

FlushTwo == pack.timer /\ Len(pack.msgs) > 1  \* mutant: off by one

\* The pack is due and not empty.
FlushDue == pack.timer /\ pack.msgs # <<>>

CheckpointAnyway(outcome) == TRUE  \* mutant: rv is not looked at

\* update_checkpoint() is called when send returned 0.
Acknowledged(outcome) == outcome = "ok"

TimerEvent(outcome) ==
  /\ IF FlushDue
     THEN /\ pack' = [AfterSend(pack, outcome) EXCEPT !.timer = TRUE]
          /\ delivered' = delivered \cup Put(pack, outcome)
          /\ rejected' = rejected \cup Drop(pack, outcome)
          /\ HostTicked(Acknowledged(outcome))
     ELSE /\ pack' = [pack EXCEPT !.timer = TRUE]
          /\ HostTicked(FALSE) /\ UNCHANGED <<delivered, rejected>>
  /\ UNCHANGED <<dlen, refused>>

\* timer_event(ns, true), then the Lua state is gone.
Shutdown(outcome) ==
  /\ delivered' = delivered \cup Put(pack, outcome)
  /\ rejected' = rejected \cup Drop(pack, outcome)
  /\ HostRestarts(pack.msgs # <<>> /\ Acknowledged(outcome))
  /\ pack' = EmptyPack
  /\ UNCHANGED <<dlen, refused>>

Crash ==
  /\ HostRestarts(FALSE) /\ pack' = EmptyPack
  /\ UNCHANGED <<dlen, history>>

-----------------------------------------------------------------------------
Next == \/ \E outcome \in Outcomes :
             ProcessMessage(outcome) \/ TimerEvent(outcome) \/ Shutdown(outcome)
        \/ Crash

Spec == Init /\ [][Next]_vars

\* The host keeps offering messages and calling timer_event, and Kinesis does
\* not ask for a retry for ever.
Answered == Outcomes \ {"retry"}

FairSpec == /\ Spec
            /\ WF_vars(\E outcome \in Answered : Pack(outcome))
            /\ WF_vars(\E outcome \in Answered : TimerEvent(outcome))

-----------------------------------------------------------------------------
(* Properties.                                                             *)

\* The type invariant.
TypeOK ==
  /\ HostTypeOK
  /\ pack.msgs \in Seq(Msgs) /\ pack.size \in 0 .. PUT_MAX /\ pack.timer \in BOOLEAN
  /\ dlen \in [Msgs -> Sizes]
  /\ delivered \subseteq Msgs /\ rejected \subseteq Msgs /\ refused \subseteq Msgs

\* Without a restart, a message answered is packed, delivered, discarded or
\* refused; a message to be retried is not in the pack, to be sent twice.
AnsweredAccounted ==
  /\ restarts = 0 =>
       1 .. next - 1 \subseteq Packed \cup delivered \cup rejected \cup refused
  /\ next \notin Packed

\* The pack holds messages once each and in the order of arrival.
PackInOrder == \A i, j \in 1 .. Len(pack.msgs) : i < j => pack.msgs[i] < pack.msgs[j]

\* At most one packed message is covered by the checkpoint, the first: what the
\* answer for a message that overflowed the pack exposes to a crash.
ExposureIsOneMessage ==
  \A i \in 1 .. Len(pack.msgs) : pack.msgs[i] <= checkpoint => i = 1

\* A packed message is eventually sent or discarded, or offered again after a
\* restart: the timer flag, cleared by every full record, never holds it back.
PackDrains == \A m \in Msgs : m \in Packed ~> m \notin Packed
=============================================================================
