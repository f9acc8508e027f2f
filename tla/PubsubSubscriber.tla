-------------------------- MODULE PubsubSubscriber --------------------------
(***************************************************************************)
(* The subscriber of gcp/pubsub.cpp driven by input/gcp_pubsub.lua, with   *)
(* pull requests under way (pull) or one at a time (pull_sync, which       *)
(* max_async_requests = 0 selects).  Pub/Sub (external) hands a message    *)
(* out, keeps it back for a while, and offers it again until it is acked.  *)
(*                                                                         *)
(* The ids of a batch are acknowledged with the next pull.  A batch is a   *)
(* set; an empty response, one with an error and a request that ran into   *)
(* its timeout are all {}, and so is an acknowledgement without ids.       *)
(* A Lua error in the middle of a batch (the memory limit of the sandbox)  *)
(* leaves pull by a long jump: nothing behind it is executed.              *)
(***************************************************************************)
EXTENDS Integers, Sequences, FiniteSets, FiniteSetsExt

CONSTANTS
  Published, max_messages,
  Limits,       \* the values of max_async_requests considered
  Bads,         \* the values of bad considered
  RetryCounts,  \* what the uninitialised async_ack_request.retry_cnt may be
  MaxAcks,      \* bound: a pull waits for the end of earlier acknowledgements
  MaxFaults     \* bound: restarts, and Lua errors inside pull

ASSUME SubscriberAssumption ==
  /\ max_messages \in Nat \ {0} /\ Limits \subseteq Nat /\ Bads \subseteq SUBSET Published
  /\ RetryCounts \subseteq Int /\ RetryCounts # {}
  /\ MaxAcks \in Nat \ {0} /\ MaxFaults \in Nat

VARIABLES
  max_async_requests,  \* configuration
  bad,                 \* messages whose attributes raise an error outside pcall
  acked, leased,       \* the subscription: acknowledged, handed out
  pending, cq,         \* pull requests under way; responses in the order of completion
  outstanding_requests,
  aar,                 \* ids of the batch not yet acknowledged (sar with pull_sync)
  acks,                \* acknowledgements handed to gRPC
  batch,               \* msgs, the Lua local: handed to the script and not decoded
  phase,               \* of the input: between calls, in the loop, in gc, stopped
  handled,             \* injected, or reported as a decode error (history)
  abandoned,           \* ids in aar that a Lua error kept from the script (history)
  ackLost,             \* ids whose acknowledgement was given up (history)
  starts, errors

config       == <<max_async_requests, bad>>
subscription == <<acked, leased>>
pulls        == <<pending, cq, outstanding_requests>>
acking       == <<aar, acks>>
script       == <<batch, phase>>
past      == <<handled, abandoned, ackLost>>
subscriberVars == <<config, subscription, pulls, acking, script, past, starts, errors>>

\* subscriber_new.
SubscriberInit ==
  /\ max_async_requests \in Limits /\ bad \in Bads
  /\ acked = {} /\ leased = {}
  /\ pending = 0 /\ cq = <<>> /\ outstanding_requests = 0
  /\ aar = {} /\ acks = {}
  /\ batch = {} /\ phase = "idle"
  /\ handled = {} /\ abandoned = {} /\ ackLost = {}
  /\ starts = 0 /\ errors = 0

Async == max_async_requests > 0

Ids(requests) == UNION {a.ids : a \in requests}

-----------------------------------------------------------------------------
(* Pub/Sub and gRPC.                                                       *)

\* What a pull may get.
Responses == {S \in SUBSET (Published \ (acked \cup leased)) : Cardinality(S) <= max_messages}

\* A pull request completes.
Respond(S) ==
  /\ pending > 0 /\ S \in Responses
  /\ pending' = pending - 1 /\ cq' = Append(cq, S)
  /\ leased' = leased \cup S
  /\ UNCHANGED <<config, acked, outstanding_requests, acking, script, past, starts, errors>>

\* The acknowledgement deadline of a message passes.
Expire(m) ==
  /\ m \in leased \ acked
  /\ leased' = leased \ {m}
  /\ UNCHANGED <<config, acked, pulls, acking, script, past, starts, errors>>

\* ack_poll sends an acknowledgement again that the service could not take, but
\* not in gc, where that aborts the process: its queue is shut down.
Retried(a, status) == status = "unavailable" /\ a.retry_cnt < 3 /\ phase # "closing"

\* An acknowledgement completes.  That it is deleted or sent again by the next
\* ack_poll only is not visible.
AckEnds(a, status) ==
  /\ a \in acks
  /\ acked' = IF status = "ok" THEN acked \cup a.ids ELSE acked
  /\ acks' = (acks \ {a}) \cup
               (IF Retried(a, status) THEN {[a EXCEPT !.retry_cnt = @ + 1]} ELSE {})
  /\ ackLost' = IF status # "ok" /\ ~Retried(a, status) THEN ackLost \cup a.ids ELSE ackLost
  /\ UNCHANGED <<config, leased, pulls, aar, script, handled, abandoned, starts, errors>>

-----------------------------------------------------------------------------
(* What a poll finds, and send_async_ack.                                  *)

\* The responses a poll takes: up to the first with messages.
Taken ==
  LET full == {i \in DOMAIN cq : cq[i] # {}}
  IN IF full = {} THEN Len(cq) ELSE Min(full)

Received == IF Taken = 0 THEN {} ELSE cq[Taken]

SentAhead(retry_cnt) ==  \* mutant: with the ids of the batch just received
  IF aar \cup Received = {} THEN acks
  ELSE acks \cup {[ids |-> aar \cup Received, retry_cnt |-> retry_cnt]}

\* The acknowledgements gRPC owns after send_async_ack.
Sent(retry_cnt) == IF aar = {} THEN acks ELSE acks \cup {[ids |-> aar, retry_cnt |-> retry_cnt]}

AckRoom(requests) == Cardinality(requests) <= MaxAcks

-----------------------------------------------------------------------------
(* subscriber_poll, subscriber_pull_async.                                 *)

CreatedOnTraffic(n) ==  \* mutant: only behind a batch, or once none was ever created
  IF Received = {} /\ (n # 0 \/ handled # {}) THEN 0
  ELSE Min({IF Received # {} THEN 2 ELSE 1, max_async_requests - n})

\* The pull requests created once n are left.
Created(n) ==
  IF (Received = {} /\ n # 0) \/ n >= max_async_requests THEN 0
  ELSE Min({IF Received # {} THEN 2 ELSE 1, max_async_requests - n})

PullAsync(retry_cnt) ==
  /\ Async /\ phase = "loop" /\ batch = {} /\ AckRoom(Sent(retry_cnt))
  /\ LET left == outstanding_requests - Taken
     IN /\ outstanding_requests' = left + Created(left)
        /\ pending' = pending + Created(left)
  /\ cq' = SubSeq(cq, Taken + 1, Len(cq))
  /\ acks' = Sent(retry_cnt) /\ aar' = Received
  /\ batch' = Received
  /\ UNCHANGED <<config, subscription, phase, past, starts, errors>>

\* pull fails behind the ids of some; the response is not counted down.
PullAsyncFails(retry_cnt, some) ==
  /\ Async /\ phase = "loop" /\ batch = {} /\ starts + errors < MaxFaults /\ AckRoom(Sent(retry_cnt))
  /\ Received # {} /\ some \subseteq Received /\ some # Received
  /\ outstanding_requests' = outstanding_requests - Taken + 1
  /\ cq' = SubSeq(cq, Taken + 1, Len(cq))
  /\ acks' = Sent(retry_cnt) /\ aar' = some
  /\ abandoned' = abandoned \cup some
  /\ phase' = "idle" /\ errors' = errors + 1
  /\ UNCHANGED <<config, subscription, pending, batch, handled, ackLost, starts>>

-----------------------------------------------------------------------------
(* send_sync_ack, subscriber_pull_sync.                                    *)

\* The outcome of Acknowledge is not looked at.
AckSync(done) ==
  /\ acked' = IF done THEN acked \cup aar ELSE acked
  /\ ackLost' = IF done THEN ackLost ELSE ackLost \cup aar

\* Nothing received ends the loop, with ack(), which has nothing to send; a
\* pull with an error ends it with -1.
PullSync(done, S) ==
  /\ ~Async /\ phase = "loop" /\ batch = {}
  /\ S \in Responses
  /\ AckSync(done)
  /\ leased' = leased \cup S /\ aar' = S /\ batch' = S
  /\ phase' = IF S = {} THEN "idle" ELSE "loop"
  /\ UNCHANGED <<config, pulls, acks, handled, abandoned, starts, errors>>

PullSyncFails(done, S, some) ==
  /\ ~Async /\ phase = "loop" /\ batch = {} /\ starts + errors < MaxFaults
  /\ S \in Responses /\ some \subseteq S /\ some # S
  /\ AckSync(done)
  /\ leased' = leased \cup S /\ aar' = some
  /\ abandoned' = abandoned \cup some
  /\ phase' = "idle" /\ errors' = errors + 1
  /\ UNCHANGED <<config, pulls, acks, batch, handled, starts>>

-----------------------------------------------------------------------------
(* process_message.                                                        *)

\* The host calls it, at every ticker_interval.
Called ==
  /\ phase = "idle" /\ phase' = "loop"
  /\ UNCHANGED <<config, subscription, pulls, acking, batch, past, starts, errors>>

\* decode, under pcall; a failure is injected as an error message.
Inject(m) ==
  /\ m \in batch \ bad
  /\ batch' = batch \ {m} /\ handled' = handled \cup {m}
  /\ UNCHANGED <<config, subscription, pulls, acking, phase, abandoned, ackLost, starts, errors>>

\* An attribute that has no value for its type's grammar, or no name, raises an
\* error outside pcall: the host ends the input, without ack().
Uncaught ==
  /\ batch \cap bad # {}
  /\ phase' = "closing" /\ batch' = {} /\ aar' = {}
  /\ ackLost' = ackLost \cup aar
  /\ UNCHANGED <<config, subscription, pulls, acks, handled, abandoned, starts, errors>>

StopSilently(retry_cnt, done) ==  \* mutant: without ack()
  /\ phase = "loop" /\ batch = {} /\ starts + errors < MaxFaults
  /\ phase' = "closing" /\ aar' = {}
  /\ UNCHANGED <<config, subscription, pulls, acks, batch, past, starts, errors>>

\* is_running() is false: ack(), and the destructor.
Stop(retry_cnt, done) ==
  /\ phase = "loop" /\ batch = {} /\ starts + errors < MaxFaults
  /\ phase' = "closing" /\ aar' = {}
  /\ IF Async THEN acks' = Sent(retry_cnt) /\ UNCHANGED <<acked, ackLost>>
              ELSE AckSync(done) /\ UNCHANGED acks
  /\ UNCHANGED <<config, leased, pulls, batch, handled, abandoned, starts, errors>>

\* The host stops between two calls: the destructor alone.
StopIdle ==
  /\ phase = "idle" /\ starts + errors < MaxFaults
  /\ phase' = "closing" /\ aar' = {}
  /\ UNCHANGED <<config, subscription, pulls, acks, batch, past, starts, errors>>

-----------------------------------------------------------------------------
(* subscriber_gc, subscriber_discard, crashes.                             *)

\* gc waits for the calls and discards the responses.
Gc ==
  /\ phase = "closing" /\ pending = 0 /\ acks = {}
  /\ phase' = "stopped" /\ cq' = <<>> /\ outstanding_requests' = 0
  /\ UNCHANGED <<config, subscription, pending, acking, batch, past, starts, errors>>

SubscriberCrash ==
  /\ phase # "stopped" /\ starts + errors < MaxFaults
  /\ phase' = "stopped" /\ batch' = {}
  /\ pending' = 0 /\ cq' = <<>> /\ outstanding_requests' = 0
  /\ aar' = {} /\ acks' = {}
  /\ ackLost' = ackLost \cup aar \cup Ids(acks)
  /\ UNCHANGED <<config, subscription, handled, abandoned, starts, errors>>

Restart ==
  /\ phase = "stopped" /\ starts + errors < MaxFaults
  /\ phase' = "idle" /\ starts' = starts + 1
  /\ UNCHANGED <<config, subscription, pulls, acking, batch, past, errors>>

-----------------------------------------------------------------------------
Pull ==
  \/ \E retry_cnt \in RetryCounts : PullAsync(retry_cnt)
  \/ \E done \in BOOLEAN, S \in Responses : PullSync(done, S)

PullFails ==
  \/ \E retry_cnt \in RetryCounts : \E some \in SUBSET Received : PullAsyncFails(retry_cnt, some)
  \/ \E done \in BOOLEAN, S \in Responses : \E some \in SUBSET S : PullSyncFails(done, S, some)

Answer == \E S \in Responses : Respond(S)

AckAnswer ==
  \E a \in acks, status \in {"ok", "unavailable", "error"} : AckEnds(a, status)

Input ==
  \/ Called \/ Pull \/ \E m \in Published : Inject(m)
  \/ Uncaught \/ Gc \/ Restart

SubscriberNext ==
  \/ Input \/ PullFails \/ Answer \/ AckAnswer \/ SubscriberCrash \/ StopIdle
  \/ \E m \in Published : Expire(m)
  \/ \E retry_cnt \in RetryCounts, done \in BOOLEAN : Stop(retry_cnt, done)

SubscriberSpec == SubscriberInit /\ [][SubscriberNext]_subscriberVars

\* A message that is offered again and again is in some response.
Delivered(m) ==
  \E S \in Responses : m \in S /\ (Respond(S) \/ \E done \in BOOLEAN : PullSync(done, S))

\* The host runs the input, gRPC ends every call, and deadlines pass.
SubscriberFairness ==
  /\ WF_subscriberVars(Input) /\ WF_subscriberVars(Answer) /\ WF_subscriberVars(AckAnswer)
  /\ \A m \in Published : WF_subscriberVars(Expire(m)) /\ SF_subscriberVars(Delivered(m))

SubscriberFairSpec == SubscriberSpec /\ SubscriberFairness

-----------------------------------------------------------------------------
(* Properties.                                                             *)

\* At least once: a message that is acknowledged was handled by the script, but
\* for those of a batch that a Lua error cut off, whose ids the next pull sends
\* all the same (pubsub.cpp:752, 762-784).
AckedWereHandled == acked \subseteq handled \cup abandoned

\* A message that was handled is acknowledged, or will be with the next pull, or
\* its acknowledgement was given up or lost with the process: nothing replaces
\* the ids of a batch before they are sent, and ack() sends the last ones of a
\* clean stop (pubsub.cpp:738, gcp_pubsub.lua:161).
HandledAreAcked == handled \subseteq acked \cup aar \cup Ids(acks) \cup ackLost

\* The pulls gRPC owns are those counted, but for one lost with every Lua error,
\* and never more than the limit (pubsub.cpp:794-795, 821-836).
PullsBounded ==
  /\ pending + Len(cq) <= outstanding_requests
  /\ outstanding_requests <= pending + Len(cq) + errors
  /\ outstanding_requests <= max_async_requests

\* Without such an error the pulls never dry up: every message of the
\* subscription is handled some time, over empty responses, restarts and
\* acknowledgements that fail (pubsub.cpp:820-837).
AllHandled == \A m \in Published : <>(m \in handled \/ bad # {} \/ errors > 0)
=============================================================================
