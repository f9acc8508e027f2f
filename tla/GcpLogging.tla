------------------------------ MODULE GcpLogging ------------------------------
(***************************************************************************)
(* The writer of gcp/logging.cpp driven by output/gcp_logging.lua, in both *)
(* of its modes: blocking writes (max_async_requests = 0) and requests     *)
(* whose completion a later callback polls for.  Callbacks do not overlap, *)
(* and what gRPC completes during one is as if completed after it, so that *)
(* a callback is one action.                                               *)
(*                                                                         *)
(* A message that send() rejects has left an entry in the batch.  Without  *)
(* its log name or resource the service (external) refuses the request; an *)
(* entry rejected for one of its own labels lacks only what follows them.  *)
(* The host is that of OutputHost, answered "batch" for an asynchronous    *)
(* message; update_checkpoint(id) moves its checkpoint to id.              *)
(***************************************************************************)
EXTENDS OutputHost, Sequences

CONSTANTS batch_size,  \* configuration, gcp_logging.lua asserts 1..1000
          Limits       \* the values of max_async_requests considered

ASSUME LoggingAssumption == batch_size \in Nat \ {0} /\ Limits \subseteq Nat

VARIABLES
  max_async_requests,    \* configuration, 0 selects the blocking mode
  bad,                   \* messages that send() rejects (configuration of the fields)
  mislabelled,           \* those of them with a label whose key is no string
  request,               \* entries of the request being built
  inflight,              \* requests handed to gRPC and not deleted
  outstanding_requests,
  timer, sid,            \* Lua locals of gcp_logging.lua (sid 0 is nil)
  written, failed,       \* messages of requests that went through, that did not
  ignored,               \* messages that found a full batch and were not added (history)
  dropped,               \* messages gRPC had when the host crashed (history)
  closing                \* writer_gc waits for the calls

config  == <<max_async_requests, bad, mislabelled>>
pending == <<request, inflight, outstanding_requests>>
history == <<written, failed, ignored, dropped>>
vars == <<config, pending, timer, sid, host, history, closing>>

Incomplete == 0           \* an entry without a log name or a resource
Partial == NumMsgs + 1    \* an entry without its payload
Entries == 0 .. NumMsgs + 1

Init ==
  /\ max_async_requests \in Limits /\ bad \in SUBSET Msgs /\ mislabelled \in SUBSET bad
  /\ request = <<>> /\ inflight = {} /\ outstanding_requests = 0
  /\ timer = TRUE /\ sid = 0
  /\ HostInit
  /\ written = {} /\ failed = {} /\ ignored = {} /\ dropped = {}
  /\ closing = FALSE

Async == max_async_requests > 0

Messages(req) == {req[i] : i \in DOMAIN req} \ {Incomplete, Partial}

\* What can become of a request.
Outcomes(req) == {"ok", "error"} \ (IF Incomplete \in {req[i] : i \in DOMAIN req} THEN {"ok"} ELSE {})

-----------------------------------------------------------------------------
(* writer_poll_internal.                                                   *)

\* A call finishes: its status is stored and its tag is queued (external).
Complete(awr, outcome) ==
  /\ awr \in inflight /\ awr.status = "pending" /\ outcome \in Outcomes(awr.msgs)
  /\ inflight' = (inflight \ {awr}) \cup {[awr EXCEPT !.status = outcome]}
  /\ written' = IF outcome = "ok" THEN written \cup Messages(awr.msgs) ELSE written
  /\ failed' = IF outcome = "error" THEN failed \cup Messages(awr.msgs) ELSE failed
  /\ UNCHANGED <<config, request, outstanding_requests, timer, sid, host, ignored,
                 dropped, closing>>

Completed == {awr \in inflight : awr.status # "pending"}

PollSidsEarly == {0} \cup {awr.sequence_id : awr \in inflight}  \* mutant: as soon as sent

\* The ids that may be the last one of a request that went through, 0 if none did.
PollSids ==
  LET sids == {awr.sequence_id : awr \in {a \in Completed : a.status = "ok"}}
  IN IF sids = {} THEN {0} ELSE sids

\* The checkpoint after update_checkpoint, which is called with an id only.
Polled(id) == IF id # 0 THEN id ELSE checkpoint

\* The calls deleted by a poll.
Deleted == Cardinality(Completed)

-----------------------------------------------------------------------------
(* write_async, write_sync.                                                *)

\* What gRPC owns after write_async, or a poll alone, in one callback.
Owned(sent, id) ==
  (inflight \ Completed) \cup
    (IF sent = <<>> THEN {} ELSE {[msgs |-> sent, sequence_id |-> id, status |-> "pending"]})

Counted(sent) == outstanding_requests - Deleted + (IF sent = <<>> THEN 0 ELSE 1)

\* write_sync: the batch is cleared whatever the outcome.
write_sync(req, outcome) ==
  /\ written' = IF outcome = "ok" THEN written \cup Messages(req) ELSE written
  /\ failed' = IF outcome = "error" THEN failed \cup Messages(req) ELSE failed

-----------------------------------------------------------------------------
(* send.                                                                   *)

Offered == next \in Msgs

\* Otherwise the message is not looked at at all.
HasRoom == Len(request) < batch_size

\* The fields without which a message is rejected: log name, resource, and its
\* type and labels.
Identified(m) == m \notin bad \/ m \in mislabelled

\* add_labels: the first key that is no string ends it.
add_labels(m) == m \notin mislabelled

\* The entry made of a message: what its fields hold, each if it is there and of
\* the right type, up to the label that rejects it.
Entry(m) ==
  CASE ~Identified(m)                   -> Incomplete
    [] Identified(m) /\ ~add_labels(m)  -> Partial
    [] Identified(m) /\ add_labels(m)   -> m

\* The entries after send() has looked at the message.
WithEntry == IF HasRoom THEN Append(request, Entry(next)) ELSE request

\* send() returns -1 with the entry left in the batch.
Rejected == HasRoom /\ Entry(next) # next

Ignored == IF HasRoom THEN ignored ELSE ignored \cup {next}

Full == Len(WithEntry) = batch_size

\* The blocking process_message: the batch is complete and sent (0), or that
\* fails and the message is answered with -1.
SendFull(outcome) ==
  /\ ~Async /\ Offered /\ ~Rejected /\ Full /\ outcome \in Outcomes(WithEntry)
  /\ write_sync(WithEntry, outcome)
  /\ request' = <<>>
  /\ timer' = (timer /\ outcome # "ok")
  /\ ignored' = Ignored
  /\ HostReturn(IF outcome = "ok" THEN "sent" ELSE "fail")
  /\ UNCHANGED <<config, inflight, outstanding_requests, sid, dropped, closing>>

SendBatchedSent ==  \* mutant: 0 in place of -4
  /\ ~Async /\ Offered /\ (Rejected \/ ~Full)
  /\ request' = WithEntry
  /\ HostReturn(IF Rejected THEN "fail" ELSE "sent")
  /\ UNCHANGED <<config, inflight, outstanding_requests, timer, sid, history, closing>>

\* -1, or -4 for a message of a batch that is not complete.
SendBatched ==
  /\ ~Async /\ Offered /\ (Rejected \/ ~Full)
  /\ request' = WithEntry
  /\ HostReturn(IF Rejected THEN "fail" ELSE "batch")
  /\ UNCHANGED <<config, inflight, outstanding_requests, timer, sid, history, closing>>

\* The asynchronous process_message answers rv after a poll.
AsyncReturn(rv, id) ==
  /\ next' = IF rv = "retry" THEN next ELSE next + 1
  /\ batching' = (batching \/ rv = "batch")
  /\ checkpoint' = IF rv = "fail" /\ ~batching THEN next ELSE Polled(id)
  /\ UNCHANGED restarts

TooManyByOne == Counted(<<>>) > max_async_requests  \* mutant

\* After the poll.
TooManyOutstanding == Counted(<<>>) >= max_async_requests

\* -3, -1, or -5 with the request sent if it is complete.
SendAsync(id) ==
  /\ Async /\ ~closing /\ Offered
  /\ sid' = next
  /\ LET sent == IF ~TooManyOutstanding /\ ~Rejected /\ Full THEN WithEntry ELSE <<>>
     IN /\ inflight' = Owned(sent, next) /\ outstanding_requests' = Counted(sent)
        /\ timer' = (timer /\ sent = <<>>)
        /\ request' = IF TooManyOutstanding THEN request ELSE IF sent # <<>> THEN <<>> ELSE WithEntry
  /\ ignored' = IF TooManyOutstanding THEN ignored ELSE Ignored
  /\ AsyncReturn(IF TooManyOutstanding THEN "retry" ELSE IF Rejected THEN "fail" ELSE "batch", id)
  /\ UNCHANGED <<config, written, failed, dropped, closing>>

-----------------------------------------------------------------------------
(* timer_event.                                                            *)

NeverFlushed(shutdown) == shutdown  \* mutant: the timer does not flush

FlushDue(shutdown) == timer \/ shutdown

\* The blocking one calls flush through a name that is nil, inside pcall: it
\* flushes nothing, at a shutdown neither.
TimerSync ==
  /\ ~Async
  /\ timer' = TRUE
  /\ UNCHANGED <<config, pending, sid, host, history, closing>>

\* The asynchronous one polls and flushes; flush does not look at the limit.
FlushAsync(id, shutdown) ==
  LET sent == IF FlushDue(shutdown) THEN request ELSE <<>>
  IN /\ Async /\ ~closing
     /\ inflight' = Owned(sent, sid) /\ outstanding_requests' = Counted(sent)
     /\ request' = IF sent # <<>> THEN <<>> ELSE request
     /\ timer' = TRUE
     /\ checkpoint' = Polled(id)
     /\ UNCHANGED <<config, sid, next, batching, restarts, history>>

TimerAsync(id) == FlushAsync(id, FALSE) /\ UNCHANGED closing

\* timer_event(ns, true), then the destructor.
Shutdown(id) ==
  /\ restarts < MaxRestarts
  /\ FlushAsync(id, TRUE) /\ closing' = TRUE

-----------------------------------------------------------------------------
(* The end of the plugin; the host starts a new one behind its checkpoint. *)

Restarted ==
  /\ restarts < MaxRestarts /\ restarts' = restarts + 1
  /\ next' = checkpoint' + 1 /\ batching' = FALSE
  /\ request' = <<>> /\ inflight' = {} /\ outstanding_requests' = 0
  /\ timer' = TRUE /\ sid' = 0 /\ closing' = FALSE

\* writer_gc polls until all calls have ended.
GcAsync(id) ==
  /\ closing /\ inflight = Completed
  /\ checkpoint' = Polled(id)
  /\ Restarted
  /\ UNCHANGED <<config, history>>

\* The blocking plugin is stopped, or the host crashes.
Crash ==
  /\ ~closing
  /\ checkpoint' = checkpoint
  /\ Restarted
  /\ dropped' = dropped \cup UNION {Messages(awr.msgs) : awr \in inflight \ Completed}
  /\ UNCHANGED <<config, written, failed, ignored>>

-----------------------------------------------------------------------------
ProcessMessage ==
  \/ \E outcome \in {"ok", "error"} : SendFull(outcome)
  \/ SendBatched
  \/ \E id \in PollSids : SendAsync(id)

TimerEvent == TimerSync \/ \E id \in PollSids : TimerAsync(id)

Service == \E awr \in inflight, outcome \in {"ok", "error"} : Complete(awr, outcome)

Next ==
  \/ ProcessMessage \/ TimerEvent \/ Service \/ Crash
  \/ \E id \in PollSids : Shutdown(id) \/ GcAsync(id)

Spec == Init /\ [][Next]_vars

\* gRPC ends every call, and Hindsight's ticker does not starve behind a message
\* that is offered again and again.
Fairness == WF_vars(Service) /\ SF_vars(TimerEvent) /\ WF_vars(\E id \in PollSids : GcAsync(id))

FairSpec == Spec /\ Fairness

-----------------------------------------------------------------------------
(* Properties.                                                             *)

\* The type invariant.
TypeOK ==
  /\ HostTypeOK
  /\ max_async_requests \in Limits /\ bad \subseteq Msgs /\ mislabelled \subseteq bad
  /\ request \in Seq(Entries) /\ Len(request) <= batch_size
  /\ inflight \subseteq [msgs: Seq(Entries), sequence_id: 0 .. NumMsgs,
                         status: {"pending", "ok", "error"}]
  /\ outstanding_requests \in Nat
  /\ timer \in BOOLEAN /\ closing \in BOOLEAN /\ sid \in 0 .. NumMsgs
  /\ written \subseteq Msgs /\ failed \subseteq Msgs /\ ignored \subseteq Msgs
  /\ dropped \subseteq Msgs

InflightMsgs == UNION {Messages(awr.msgs) : awr \in inflight}

\* A message the checkpoint covers was written, failed or was rejected, or found
\* the batch full; only with more than one outstanding request it can also be in
\* a request that is under way, and be dropped by a crash (logging.cpp:131-151, 281).
CheckpointAccounts ==
  \A m \in 1 .. checkpoint :
    \/ m \in written \cup failed \cup bad \cup ignored
    \/ max_async_requests > 1 /\ m \in InflightMsgs \cup dropped

\* The checkpoint never covers a message that waits in the batch: the id of a
\* flush is that of the last message offered, also of one that was put off or
\* rejected (gcp_logging.lua:155, 171).
CheckpointBelowRequest == \A m \in Messages(request) : checkpoint < m

\* At the limit of outstanding requests the batch is empty, so that flush, which
\* does not look at the limit, stays within it, and a message that is put off has
\* no message in front of it that its id would cover (logging.cpp:281, 554-567).
NothingBatchedAtLimit ==
  /\ outstanding_requests = Cardinality(inflight)
  /\ Async => outstanding_requests + (IF request = <<>> THEN 0 ELSE 1) <= max_async_requests

\* With requests under way an incomplete batch is sent some time, by the timer at
\* the latest (the blocking plugin keeps it until it is complete).
BatchDrains == (Async /\ request # <<>>) ~> request = <<>>
=============================================================================
