----------------------------- MODULE PubsubAsync -----------------------------
(***************************************************************************)
(* The asynchronous GCP Pub/Sub output: the gRPC publisher of              *)
(* gcp/pubsub.cpp driven by process_message and timer_event of             *)
(* gcp/sandboxes/heka/output/gcp_pubsub.lua (max_async_requests > 0).      *)
(*                                                                         *)
(* The Lua state runs one callback at a time, so a callback is a chain of  *)
(* steps (pc) during which only the gRPC threads may interfere: they       *)
(* complete requests at any moment, in any order.  The host (Hindsight,    *)
(* outside this repository) offers messages 1, 2, ... whose sequence ids   *)
(* are their numbers, calls timer_event from time to time, and shuts the   *)
(* plugin down with a last timer_event.                                    *)
(***************************************************************************)
EXTENDS Naturals, FiniteSets

CONSTANTS NumMsgs,            \* messages the host offers (bound of the model)
          max_async_requests, \* configuration, > 0 selects this mode
          batch_size,         \* configuration, gcp_pubsub.lua asserts 1..1000
          MAX_RETRIES         \* the 3 of "apr->retry_cnt < 3"

ASSUME NumMsgsAssumption == NumMsgs \in Nat
ASSUME AsyncAssumption   == max_async_requests \in Nat \ {0}
ASSUME BatchAssumption   == batch_size \in Nat \ {0}
ASSUME RetryAssumption   == MAX_RETRIES \in Nat

VARIABLES
  request,              \* messages added to the request being built
  inflight,             \* async_pub_requests handed to gRPC and not deleted
  outstanding_requests, \* the counter of struct publisher
  timer, sid,           \* Lua locals of gcp_pubsub.lua (sid 0 is nil)
  pc, caller,           \* next step of the running callback, and which one
  poll_sid, failures,   \* locals of publisher_poll_internal (0 is nullptr)
  next,                 \* message the host offers next
  status,               \* value process_message last returned
  checkpoint,           \* last sequence id given to update_checkpoint
  reported,             \* failures given to update_checkpoint, in total
  delivered,            \* messages whose batch was published
  lost,                 \* messages of batches given up by the poll loop
  failed_batches,       \* batches given up by the poll loop, in total
  refused               \* messages answered with fail, skip, or sent empty

pubvars  == <<request, inflight, outstanding_requests>>
luavars  == <<timer, sid>>
pollvars == <<poll_sid, failures>>
callvars == <<pc, caller>>
hostvars == <<next, status, checkpoint, reported>>
history  == <<delivered, lost, failed_batches, refused>>
vars == <<pubvars, luavars, pollvars, callvars, hostvars, history>>

Msgs == 1 .. NumMsgs

\* The grpc::Status of a request: not yet known, or the outcome Finish stores.
Outcomes == {"ok", "unavailable", "error"}

\* struct async_pub_request, with "done" set once its tag is in the
\* completion queue.
AsyncPubRequest ==
  [msgs: SUBSET Msgs, sequence_id: 0 .. NumMsgs,
   retry_cnt: 0 .. MAX_RETRIES, status: Outcomes \cup {"pending"}]

\* What publish returns to Lua: a status code, or no value of its own.
StatusCodes == {"fail", "skip", "retry", "async"}
NoValue == "none"

Completed == {apr \in inflight : apr.status # "pending"}

\* publisher_new and the top level of gcp_pubsub.lua.
Init ==
  /\ request = {} /\ inflight = {} /\ outstanding_requests = 0
  /\ timer = TRUE /\ sid = 0
  /\ pc = "idle" /\ caller = "none"
  /\ poll_sid = 0 /\ failures = 0
  /\ next = 1 /\ status = "async" /\ checkpoint = 0 /\ reported = 0
  /\ delivered = {} /\ lost = {} /\ failed_batches = 0 /\ refused = {}

-----------------------------------------------------------------------------
(* The gRPC library and the service behind it (external).                  *)

\* A call finishes: its status is stored and its tag is queued.
Complete(apr, outcome) ==
  /\ apr \in inflight /\ apr.status = "pending"
  /\ inflight' = (inflight \ {apr}) \cup {[apr EXCEPT !.status = outcome]}
  /\ delivered' = IF outcome = "ok" THEN delivered \cup apr.msgs ELSE delivered
  /\ UNCHANGED <<request, outstanding_requests, luavars, pollvars, callvars,
                 hostvars, lost, failed_batches, refused>>

-----------------------------------------------------------------------------
(* publisher_poll_internal: the first thing every callback does.           *)

BeginPoll(who) ==
  /\ pc = "idle"
  /\ pc' = "poll" /\ caller' = who
  /\ poll_sid' = 0 /\ failures' = 0
  /\ UNCHANGED <<pubvars, luavars, hostvars, history>>

\* The host hands over its next message, or the same one after a retry.
ProcessMessage == next <= NumMsgs /\ BeginPoll("process_message")

TimerEvent == BeginPoll("timer_event")

\* The host stops the plugin: timer_event(ns, true), then the destructor.
Shutdown == BeginPoll("shutdown")

\* lua_sandbox may end the plugin when process_message returned no number
\* (external); the publisher is then destroyed without a last timer_event.
HostTerminates ==
  /\ pc = "idle" /\ status = NoValue
  /\ pc' = "gc"
  /\ UNCHANGED <<pubvars, luavars, caller, pollvars, hostvars, history>>

Polling == pc \in {"poll", "gc"}

MayRetry(apr) == apr.status = "unavailable" /\ apr.retry_cnt < MAX_RETRIES

\* mutant: the counter is forgotten
DeleteUncounted(apr) ==
  inflight' = inflight \ {apr} /\ UNCHANGED outstanding_requests

\* The cleanup of a request.
Delete(apr) ==
  /\ inflight' = inflight \ {apr}
  /\ outstanding_requests' = outstanding_requests - 1

\* mutant: the id of the last message offered is taken instead
SidOffered(apr) == sid

SidOf(apr) == apr.sequence_id

\* A completed call: remember its sequence id and delete it.
PollOk(apr) ==
  /\ Polling /\ apr \in Completed /\ apr.status = "ok"
  /\ poll_sid' = SidOf(apr)
  /\ Delete(apr)
  /\ UNCHANGED <<request, luavars, callvars, failures, hostvars, history>>

\* The service was unavailable: the same request is sent again.
PollRetry(apr) ==
  /\ Polling /\ apr \in Completed /\ MayRetry(apr)
  /\ inflight' = (inflight \ {apr})
       \cup {[apr EXCEPT !.retry_cnt = @ + 1, !.status = "pending"]}
  /\ UNCHANGED <<request, outstanding_requests, luavars, pollvars, callvars,
                 hostvars, history>>

\* The same in the destructor, after cq.Shutdown(): gRPC allows no new call on
\* the queue and may abort the process.
RetryAfterShutdown(apr) ==
  /\ pc = "gc" /\ apr \in Completed /\ MayRetry(apr)
  /\ pc' = "aborted"
  /\ UNCHANGED <<pubvars, luavars, caller, pollvars, hostvars, history>>

\* Any other failure: the batch is given up.
PollFail(apr) ==
  /\ Polling /\ apr \in Completed
  /\ apr.status # "ok" /\ ~MayRetry(apr)
  /\ failures' = failures + 1
  /\ Delete(apr)
  /\ lost' = lost \cup apr.msgs
  /\ failed_batches' = failed_batches + 1
  /\ UNCHANGED <<request, luavars, callvars, poll_sid, hostvars, delivered,
                 refused>>

\* The queue has no tag left: the checkpoint is updated if a batch went
\* through, and the callback goes on.  In the destructor the queue reports
\* SHUTDOWN only when no call is left, until then the poll is repeated.
PollEnd ==
  /\ Polling /\ Completed = {}
  /\ IF poll_sid # 0
     THEN checkpoint' = poll_sid /\ reported' = reported + failures
     ELSE UNCHANGED <<checkpoint, reported>>
  /\ poll_sid' = 0 /\ failures' = 0
  /\ pc' = CASE pc = "gc" /\ inflight = {}     -> "closed"
             [] pc = "gc" /\ inflight # {}     -> "gc"
             [] pc = "poll" /\ caller = "process_message" -> "publish"
             [] OTHER                          -> "flush"
  /\ UNCHANGED <<pubvars, luavars, caller, next, status, history>>

-----------------------------------------------------------------------------
(* publish and flush.                                                      *)

\* publish_async: the request is handed to gRPC and a new one is started.
publish_async(msgs, sequence_id) ==
  /\ inflight' = inflight \cup
       {[msgs |-> msgs, sequence_id |-> sequence_id,
         retry_cnt |-> 0, status |-> "pending"]}
  /\ request' = {}
  /\ outstanding_requests' = outstanding_requests + 1

\* The callback returns rv for the offered message; the host keeps a message
\* it must retry and goes on to the next one otherwise.
Return(rv) ==
  /\ pc' = "idle" /\ caller' = "none"
  /\ status' = rv
  /\ next' = IF rv = "retry" THEN next ELSE next + 1

\* The encoder fails (-1) or has nothing to say about this message (-2).
EncodeRefuses ==
  /\ pc = "publish"
  /\ sid' = next
  /\ \E rv \in {"fail", "skip"} : Return(rv)
  /\ refused' = refused \cup {next}
  /\ UNCHANGED <<pubvars, timer, pollvars, checkpoint, reported, delivered,
                 lost, failed_batches>>

TooManyByOne == outstanding_requests > max_async_requests  \* mutant

TooManyOutstanding == outstanding_requests >= max_async_requests

\* publish: refused before anything is added to the request.
PublishRefused ==
  /\ pc = "publish" /\ TooManyOutstanding
  /\ sid' = next
  /\ Return("retry")
  /\ UNCHANGED <<pubvars, timer, pollvars, checkpoint, reported, history>>

\* publish of zero-copy data without a byte: 0, nothing is added.
PublishEmpty ==
  /\ pc = "publish" /\ ~TooManyOutstanding
  /\ sid' = next
  /\ timer' = FALSE
  /\ Return("async")
  /\ refused' = refused \cup {next}
  /\ UNCHANGED <<pubvars, pollvars, checkpoint, reported, delivered, lost,
                 failed_batches>>

\* mutant: the last free place is not used
RequestTooShort == IF Cardinality(request) + 1 < batch_size
                   THEN request \cup {next} ELSE request

\* The message is added if there is room.
WithMessage == IF Cardinality(request) < batch_size
               THEN request \cup {next} ELSE request

\* publish: the message is added; a full request is sent at once, and then no
\* status code is pushed on the Lua stack.
PublishData ==
  /\ pc = "publish" /\ ~TooManyOutstanding
  /\ sid' = next
  /\ IF Cardinality(WithMessage) = batch_size
     THEN publish_async(WithMessage, next) /\ Return(NoValue)
     ELSE /\ request' = WithMessage
          /\ Return("async")
          /\ UNCHANGED <<inflight, outstanding_requests>>
  /\ UNCHANGED <<timer, pollvars, checkpoint, reported, history>>

FlushTicked == timer /\ caller = "shutdown"  \* mutant: never by the ticker

FlushDue == timer \/ caller = "shutdown"

\* The rest of timer_event.  flush does not look at outstanding_requests.
Flush ==
  /\ pc = "flush"
  /\ IF FlushDue /\ request # {}
     THEN publish_async(request, sid) ELSE UNCHANGED pubvars
  /\ timer' = TRUE
  /\ pc' = IF caller = "shutdown" THEN "gc" ELSE "idle"
  /\ caller' = "none"
  /\ UNCHANGED <<sid, pollvars, hostvars, history>>

-----------------------------------------------------------------------------
Poll == \/ \E apr \in inflight :
             PollOk(apr) \/ PollRetry(apr) \/ PollFail(apr) \/ RetryAfterShutdown(apr)
        \/ PollEnd

Publish == EncodeRefuses \/ PublishRefused \/ PublishEmpty \/ PublishData

Callback == Poll \/ Publish \/ Flush

Service == \E apr \in inflight, outcome \in Outcomes : Complete(apr, outcome)

Next == \/ ProcessMessage \/ TimerEvent \/ Shutdown \/ HostTerminates
        \/ Callback \/ Service

Spec == Init /\ [][Next]_vars

\* A running callback goes on, gRPC ends every call, and Hindsight's ticker
\* does not starve behind a message that is offered again and again.
Fairness == WF_vars(Callback) /\ WF_vars(Service) /\ SF_vars(TimerEvent)

FairSpec == Spec /\ Fairness

-----------------------------------------------------------------------------
(* Properties.                                                             *)

\* The type invariant.
TypeOK ==
  /\ request \subseteq Msgs
  /\ inflight \subseteq AsyncPubRequest
  /\ outstanding_requests \in Nat
  /\ timer \in BOOLEAN /\ sid \in 0 .. NumMsgs
  /\ pc \in {"idle", "poll", "publish", "flush", "gc", "closed", "aborted"}
  /\ caller \in {"none", "process_message", "timer_event", "shutdown"}
  /\ poll_sid \in 0 .. NumMsgs /\ failures \in Nat
  /\ next \in 1 .. NumMsgs + 1
  /\ status \in StatusCodes \cup {NoValue}
  /\ checkpoint \in 0 .. NumMsgs /\ reported \in Nat
  /\ delivered \subseteq Msgs /\ lost \subseteq Msgs
  /\ failed_batches \in Nat /\ refused \subseteq Msgs

\* Accepted messages whose batch gRPC still owns.
InflightMsgs == UNION {apr.msgs : apr \in inflight}

\* The counter is the number of calls gRPC owns: no retry, failure or
\* shutdown leaks or drops one (pubsub.cpp:323, 479).
OutstandingIsInflight == outstanding_requests = Cardinality(inflight)

\* What the plugin holds unacknowledged fits the host's async_buffer_size =
\* max_async_requests * batch_size (gcp_pubsub.lua:19): calls and the request
\* under construction are batches, and together no more than the limit, although
\* flush sends the request without looking at the counter (pubsub.cpp:704).
BufferBound ==
  /\ outstanding_requests + (IF request = {} THEN 0 ELSE 1) <= max_async_requests
  /\ \A apr \in inflight : Cardinality(apr.msgs) <= batch_size

\* The checkpoint never covers a message that is still waiting in the request
\* under construction, which a crash would lose: the sid of a flush is that of
\* the last message offered, accepted or not (gcp_pubsub.lua:57, 77).
CheckpointBelowRequest == \A m \in request : checkpoint < m

\* A message the checkpoint covers was delivered, refused, given up, or is in
\* a batch gRPC still owns: nothing else is lost by a restart.
CheckpointAccounts ==
  \A m \in 1 .. checkpoint :
     m \in delivered \cup lost \cup refused \cup InflightMsgs

\* With a single outstanding request the checkpoint overtakes nothing: every
\* message it covers is settled (with more, completions reorder it).
SerialCheckpoint ==
  max_async_requests = 1 =>
     \A m \in 1 .. checkpoint : m \in delivered \cup lost \cup refused

\* When the plugin is gone nothing it accepted is left behind in the request
\* or in gRPC (the shutdown flush and the loop of publisher_gc).
ShutdownDrains ==
  pc = "closed" => /\ request = {} /\ outstanding_requests = 0
                   /\ \A m \in 1 .. next - 1 :
                        m \in delivered \cup lost \cup refused

\* Every message accepted into the request is eventually delivered or given
\* up, by a full batch, the ticker or the shutdown (unless gRPC aborts).
EveryMessageSettles ==
  \A m \in Msgs :
    m \in request ~> (m \in delivered \cup lost \/ pc = "aborted")

=============================================================================
