----------------------------- MODULE PubsubSync -----------------------------
(***************************************************************************)
(* The synchronous GCP Pub/Sub output: publish_sync and flush of           *)
(* gcp/pubsub.cpp driven by the max_async_requests = 0 branch of           *)
(* gcp/sandboxes/heka/output/gcp_pubsub.lua.  Callbacks do not overlap and *)
(* each makes at most one blocking call, so a callback is one action and   *)
(* the outcome of its call is chosen in it.                                *)
(*                                                                         *)
(* The host is that of OutputHost.  It calls timer_event between any two   *)
(* process_message calls, also while a message waits to be retried.        *)
(***************************************************************************)
EXTENDS OutputHost, Sequences

CONSTANTS batch_size,  \* configuration, gcp_pubsub.lua asserts 1..1000
          EmptyData    \* BOOLEAN: the encoder may return zero-copy data
                       \* that has no byte (encoders/payload.lua does)

ASSUME BatchAssumption == batch_size \in Nat \ {0}
ASSUME EmptyAssumption == EmptyData \in BOOLEAN

VARIABLES
  request,     \* the PublishRequest of the publisher, its messages in order
  timer,       \* Lua local of gcp_pubsub.lua
  delivered,   \* messages of published requests
  rejected,    \* messages of requests the service refused for good
  refused,     \* messages answered with fail or skip, or empty
  emptied      \* an empty message was answered (history)

plugin  == <<request, timer>>
history == <<delivered, rejected, refused, emptied>>
vars == <<plugin, host, history>>

\* The grpc::Status of a blocking Publish.
Outcomes == {"ok", "unavailable", "error"}

\* The messages of a request.
Messages(req) == {req[i] : i \in DOMAIN req}

Init ==
  /\ request = <<>> /\ timer = TRUE
  /\ HostInit
  /\ delivered = {} /\ rejected = {} /\ refused = {} /\ emptied = FALSE

\* publish_sync: what becomes of the messages of the request, and what of the
\* request itself, which is kept only when the service was unavailable.
publish_sync(req, outcome) ==
  /\ delivered' = IF outcome = "ok"
                  THEN delivered \cup Messages(req) ELSE delivered
  /\ rejected'  = IF outcome = "error"
                  THEN rejected \cup Messages(req) ELSE rejected

Kept(req, outcome) == IF outcome = "unavailable" THEN req ELSE <<>>

-----------------------------------------------------------------------------
(* process_message.                                                        *)

\* The encoder throws (-1) or returns nil (-2).  It is the same encoder for
\* a retried message, which is in the request already.
EncodeRefuses ==
  /\ next \in Msgs \ Messages(request)
  /\ HostReturn("fail")
  /\ refused' = refused \cup {next}
  /\ UNCHANGED <<plugin, delivered, rejected, emptied>>

\* publish of zero-copy data without a byte pushes 0 and adds nothing.
PublishEmpty ==
  /\ EmptyData /\ next \in Msgs \ Messages(request)
  /\ timer' = FALSE
  /\ HostReturn("sent")
  /\ refused' = refused \cup {next} /\ emptied' = TRUE
  /\ UNCHANGED <<request, delivered, rejected>>

\* The message is added unless the request is full, as it is when the message
\* is offered again.
WithMessage == IF Len(request) < batch_size
               THEN Append(request, next) ELSE request

PublishBatched ==
  /\ next \in Msgs /\ Len(WithMessage) # batch_size
  /\ request' = WithMessage
  /\ HostReturn("batch")
  /\ UNCHANGED <<timer, history>>

\* mutant: an unavailable service is answered like any other error
NeverRetry(outcome) == IF outcome = "ok" THEN "sent" ELSE "fail"

\* The return value of publish_sync.
Code(outcome) == CASE outcome = "ok" -> "sent"
                   [] outcome = "unavailable" -> "retry"
                   [] OTHER -> "fail"

\* A full request is sent.
PublishFull(outcome) ==
  /\ next \in Msgs /\ Len(WithMessage) = batch_size
  /\ publish_sync(WithMessage, outcome)
  /\ request' = Kept(WithMessage, outcome)
  /\ timer' = (timer /\ outcome # "ok")
  /\ HostReturn(Code(outcome))
  /\ UNCHANGED <<refused, emptied>>

ProcessMessage(outcome) ==
  EncodeRefuses \/ PublishEmpty \/ PublishBatched \/ PublishFull(outcome)

-----------------------------------------------------------------------------
(* timer_event.                                                            *)

FlushNeverThrows(outcome) == TRUE  \* mutant: the pcall result is ignored

\* mutant: nothing to send counts as nothing to acknowledge
FlushSent(outcome) == request # <<>> /\ outcome = "ok"

\* publisher:flush() throws unless there is nothing to send or it was sent.
FlushOk(outcome) == request = <<>> \/ outcome = "ok"

\* update_checkpoint() is called if flush did not throw; a request the service
\* refused for good is cleared all the same.
TimerEvent(outcome) ==
  /\ IF timer
     THEN /\ publish_sync(request, outcome)
          /\ request' = Kept(request, outcome)
          /\ HostTicked(FlushOk(outcome))
     ELSE HostTicked(FALSE) /\ UNCHANGED <<request, delivered, rejected>>
  /\ timer' = TRUE
  /\ UNCHANGED <<refused, emptied>>

\* timer_event(ns, true), then publisher_gc drops what is left.
Shutdown(outcome) ==
  /\ publish_sync(request, outcome)
  /\ HostRestarts(FlushOk(outcome))
  /\ request' = <<>> /\ timer' = TRUE
  /\ UNCHANGED <<refused, emptied>>

Crash ==
  /\ HostRestarts(FALSE)
  /\ request' = <<>> /\ timer' = TRUE
  /\ UNCHANGED history

-----------------------------------------------------------------------------
Next == \/ \E outcome \in Outcomes :
             ProcessMessage(outcome) \/ TimerEvent(outcome) \/ Shutdown(outcome)
        \/ Crash

Spec == Init /\ [][Next]_vars

\* The host keeps offering messages and calling timer_event, and the service
\* does not stay unavailable for ever.
Answered == Outcomes \ {"unavailable"}

Fairness ==
  /\ WF_vars(\E outcome \in Answered : ProcessMessage(outcome))
  /\ WF_vars(\E outcome \in Answered : TimerEvent(outcome))

FairSpec == Spec /\ Fairness

-----------------------------------------------------------------------------
(* Properties.                                                             *)

\* The type invariant.
TypeOK ==
  /\ HostTypeOK
  /\ request \in Seq(Msgs) /\ Len(request) <= batch_size /\ timer \in BOOLEAN
  /\ delivered \subseteq Msgs /\ rejected \subseteq Msgs
  /\ refused \subseteq Msgs

\* The checkpoint never covers a message still in the request, although it is
\* moved by three different paths (a sent batch, a failed message, the timer)
\* and the timer may run while a full request waits for its retry.  (An empty
\* message, answered 0 whatever waits in the request, breaks it: pubsub.cpp:571.)
CheckpointBelowRequest == ~emptied => \A m \in Messages(request) : checkpoint < m

\* A message offered again after a retry is not sent twice in one request.
NoDuplicates ==
  \A i, j \in DOMAIN request : request[i] = request[j] => i = j

\* No answered message is forgotten: it waits in the request until it is
\* published or rejected.
AnsweredAccounted ==
  1 .. next - 1 \subseteq Messages(request) \cup delivered \cup rejected \cup refused

\* The output implements the contract of OutputContract, a request the service
\* refuses for good counting as settled, up to the first empty message.
settled == delivered \cup rejected \cup refused
Contract == INSTANCE OutputContract
ImplementsContract ==
  Contract!Init /\ [][~emptied' => Contract!Next]_<<settled, checkpoint>>

\* The checkpoint reaches the last message: the timer flag, which skips a tick
\* after a full batch, never keeps a partial batch back for good.
CheckpointCatchesUp == <>(checkpoint = NumMsgs)
=============================================================================
