-------------------------- MODULE PubsubAsync_proofs --------------------------
(***************************************************************************)
(* Proofs about PubsubAsync, for every number of messages, batch size,     *)
(* limit of outstanding requests and number of retries.                    *)
(*                                                                         *)
(* None of the invariants is inductive alone.  They rest on the order of   *)
(* things: whatever the request under construction holds was offered after *)
(* everything gRPC, the poll loop or the checkpoint knows (Behind), and it *)
(* is empty whenever the limit is reached (Room).                          *)
(***************************************************************************)
EXTENDS PubsubAsync, FiniteSetTheorems, TLAPS

-----------------------------------------------------------------------------
(* The inductive invariant, by parts.                                      *)

\* A message that is about to be published was offered by the host.
Offered ==
  (pc = "publish" \/ (pc = "poll" /\ caller = "process_message")) => next \in Msgs

\* The counter counts the calls gRPC owns.
Counted == IsFiniteSet(inflight) /\ outstanding_requests = Cardinality(inflight)

\* A full request is handed over at once.
Partial == IsFiniteSet(request) /\ Cardinality(request) < batch_size

\* No message is in two requests, and no call carries nothing.
Separate ==
  /\ \A apr \in inflight : apr.msgs # {} /\ apr.msgs \cap request = {}
  /\ \A a, b \in inflight : a # b => a.msgs \cap b.msgs = {}

\* Everything the plugin knows was offered before the next message.
Past ==
  /\ \A m \in request : m < next
  /\ \A apr \in inflight : apr.sequence_id < next /\ \A m \in apr.msgs : m < next
  /\ poll_sid < next /\ checkpoint < next
  /\ request # {} => sid < next

\* There is room for the request under construction when it has a message.
Room ==
  /\ outstanding_requests <= max_async_requests
  /\ request # {} => outstanding_requests < max_async_requests

\* Calls, poll and checkpoint are behind the request under construction.
Behind ==
  \A m \in request : /\ checkpoint < m /\ poll_sid < m
                     /\ \A apr \in inflight : apr.sequence_id < m

\* Where an offered message is.
Accounted ==
  /\ \A apr \in inflight : apr.status = "ok" => apr.msgs \subseteq delivered
  /\ \A m \in 1 .. next - 1 :
       m \in request \cup InflightMsgs \cup delivered \cup lost \cup refused

\* A plugin that is going away has flushed its request.
Closing ==
  /\ pc \in {"gc", "closed"} \/ status = NoValue => request = {}
  /\ pc = "closed" => inflight = {}

\* With one call at a time the checkpoint stays behind that call.
Serial ==
  max_async_requests = 1 =>
    \A apr \in inflight : \A m \in apr.msgs : checkpoint < m /\ poll_sid < m

IInv == /\ TypeOK /\ Offered /\ Counted /\ Partial /\ Separate /\ Past /\ Room
        /\ Behind /\ Accounted /\ Closing /\ Serial

-----------------------------------------------------------------------------
(* Lemmas.                                                                 *)

\* A call taken from a finite set of calls leaves one less.
LEMMA RemoveCall ==
  ASSUME NEW S, IsFiniteSet(S), NEW apr \in S
  PROVE  /\ IsFiniteSet(S \ {apr})
         /\ Cardinality(S \ {apr}) = Cardinality(S) - 1
         /\ Cardinality(S) \in Nat \ {0}
<1>1. Cardinality(S) \in Nat
  BY FS_CardinalityType
<1>2. S # {}
  OBVIOUS
<1>3. Cardinality(S) # 0
  BY <1>2, FS_EmptySet
<1> QED
  BY <1>1, <1>3, FS_RemoveElement

\* A call whose messages no other call has is a new member.
LEMMA AddCall ==
  ASSUME NEW S, IsFiniteSet(S), NEW new, new.msgs # {},
         \A apr \in S : apr.msgs \cap new.msgs = {}
  PROVE  /\ IsFiniteSet(S \cup {new})
         /\ Cardinality(S \cup {new}) = Cardinality(S) + 1
<1>1. new \notin S
  OBVIOUS
<1> QED
  BY <1>1, FS_AddElement

\* A call replaced by itself in a new state: as many calls as before.
LEMMA ReplaceCall ==
  ASSUME Counted, Separate, NEW apr \in inflight, NEW new, new.msgs = apr.msgs
  PROVE  /\ IsFiniteSet((inflight \ {apr}) \cup {new})
         /\ Cardinality((inflight \ {apr}) \cup {new}) = Cardinality(inflight)
<1> DEFINE Rest == inflight \ {apr}
<1>1. IsFiniteSet(Rest) /\ Cardinality(Rest) = Cardinality(inflight) - 1
      /\ Cardinality(inflight) \in Nat
  BY RemoveCall DEF Counted
<1>2. new.msgs # {} /\ \A a \in Rest : a.msgs \cap new.msgs = {}
  BY DEF Separate
<1>3. IsFiniteSet(Rest \cup {new}) /\ Cardinality(Rest \cup {new}) = Cardinality(Rest) + 1
  BY <1>1, <1>2, AddCall
<1> QED
  BY <1>1, <1>3

\* The invariant holds initially.
LEMMA InitIInv == Init => IInv
<1> SUFFICES ASSUME Init PROVE IInv
  OBVIOUS
<1> USE NumMsgsAssumption, RetryAssumption, AsyncAssumption, BatchAssumption
<1>1. TypeOK
  BY DEF Init, TypeOK, StatusCodes, Msgs
<1>2. Cardinality({}) = 0 /\ IsFiniteSet({})
  BY FS_EmptySet
<1>3. Counted /\ Partial /\ Room
  BY <1>2 DEF Init, Counted, Partial, Room
<1>4. Offered /\ Separate /\ Past /\ Behind /\ Accounted /\ Closing /\ Serial
  BY DEF Init, Offered, Separate, Past, Behind, Accounted, Closing, Serial, NoValue
<1> QED
  BY <1>1, <1>3, <1>4 DEF IInv
\* gRPC may finish any call at any time.
LEMMA CompleteIInv ==
  ASSUME IInv, NEW apr \in inflight, NEW outcome \in Outcomes, Complete(apr, outcome)
  PROVE  IInv'
<1> DEFINE new == [apr EXCEPT !.status = outcome]
<1>1. /\ inflight' = (inflight \ {apr}) \cup {new}
      /\ delivered' = IF outcome = "ok" THEN delivered \cup apr.msgs ELSE delivered
      /\ UNCHANGED <<request, outstanding_requests, luavars, pollvars, callvars,
                     hostvars, lost, failed_batches, refused>>
  BY DEF Complete
<1> USE <1>1 DEF IInv, luavars, pollvars, callvars, hostvars
<1>2. apr \in AsyncPubRequest
  BY DEF TypeOK
<1>3. /\ new \in AsyncPubRequest /\ new.msgs = apr.msgs
      /\ new.sequence_id = apr.sequence_id /\ new.status = outcome
  BY <1>2 DEF AsyncPubRequest, Outcomes
<1>4. TypeOK'
  BY <1>2, <1>3 DEF TypeOK, AsyncPubRequest
<1>5. Counted'
  BY <1>3, ReplaceCall DEF Counted
<1>6. Separate' /\ Past' /\ Behind' /\ Serial'
  BY <1>3 DEF Separate, Past, Behind, Serial
<1>7. InflightMsgs' = InflightMsgs
  BY <1>3 DEF InflightMsgs
<1>8. Accounted'
  BY <1>3, <1>7 DEF Accounted
<1>9. Offered' /\ Partial' /\ Room' /\ Closing'
  BY DEF Offered, Partial, Room, Closing
<1> QED
  BY <1>4, <1>5, <1>6, <1>8, <1>9

\* A callback begins; only process_message goes on to publish.
LEMMA BeginPollIInv ==
  ASSUME IInv, ProcessMessage \/ TimerEvent \/ Shutdown
  PROVE  IInv'
<1> USE DEF IInv, pubvars, luavars, hostvars, history
<1>1. PICK who \in {"process_message", "timer_event", "shutdown"} :
         /\ BeginPoll(who)
         /\ who = "process_message" => next <= NumMsgs
  BY DEF ProcessMessage, TimerEvent, Shutdown
<1>2. /\ pc' = "poll" /\ caller' = who /\ poll_sid' = 0 /\ failures' = 0
      /\ UNCHANGED <<pubvars, luavars, hostvars, history>>
  BY <1>1 DEF BeginPoll
<1>3. TypeOK'
  BY <1>2, NumMsgsAssumption DEF TypeOK
<1>4. Offered'
  BY <1>1, <1>2, NumMsgsAssumption DEF Offered, TypeOK, Msgs
<1>5. Past' /\ Behind' /\ Serial'
  BY <1>2 DEF Past, Behind, Serial, TypeOK, Msgs, AsyncPubRequest
<1>6. Counted' /\ Partial' /\ Separate' /\ Room' /\ Accounted' /\ Closing'
  BY <1>2 DEF Counted, Partial, Separate, Room, Accounted, Closing, InflightMsgs
<1> QED
  BY <1>3, <1>4, <1>5, <1>6

\* The host ends the plugin after a publish that returned no value: the
\* request has just been sent.
LEMMA HostTerminatesIInv ==
  ASSUME IInv, HostTerminates
  PROVE  IInv'
<1> USE DEF IInv, pubvars, luavars, pollvars, hostvars, history
<1>1. /\ pc = "idle" /\ status = NoValue /\ pc' = "gc"
      /\ UNCHANGED <<pubvars, luavars, caller, pollvars, hostvars, history>>
  BY DEF HostTerminates
<1>2. TypeOK'
  BY <1>1 DEF TypeOK
<1>3. Offered' /\ Closing'
  BY <1>1 DEF Offered, Closing
<1>4. Past' /\ Behind' /\ Serial' /\ Accounted'
  BY <1>1 DEF Past, Behind, Serial, Accounted, InflightMsgs
<1>5. Counted' /\ Partial' /\ Separate' /\ Room'
  BY <1>1 DEF Counted, Partial, Separate, Room
<1> QED
  BY <1>2, <1>3, <1>4, <1>5

\* The poll loop takes a call that went through.
LEMMA PollOkIInv ==
  ASSUME IInv, NEW apr \in inflight, PollOk(apr)
  PROVE  IInv'
<1> USE DEF IInv, luavars, callvars, hostvars, history
<1>1. /\ apr.status = "ok" /\ poll_sid' = apr.sequence_id
      /\ inflight' = inflight \ {apr}
      /\ outstanding_requests' = outstanding_requests - 1
      /\ Polling
      /\ UNCHANGED <<request, luavars, callvars, failures, hostvars, history>>
  BY DEF PollOk, SidOf, Delete
<1>2. apr \in AsyncPubRequest
  BY DEF TypeOK
<1>3. /\ IsFiniteSet(inflight') /\ outstanding_requests' = Cardinality(inflight')
      /\ outstanding_requests \in Nat \ {0}
  BY <1>1, RemoveCall DEF Counted
<1>4. TypeOK'
  BY <1>1, <1>2, <1>3 DEF TypeOK, AsyncPubRequest
<1>5. Counted'
  BY <1>3 DEF Counted
<1>6. Separate' /\ Past' /\ Behind'
  BY <1>1 DEF Separate, Past, Behind
<1>7. Accounted'
  BY <1>1 DEF Accounted, InflightMsgs
<1>8. Offered' /\ Partial' /\ Room' /\ Closing'
  BY <1>1, <1>3, AsyncAssumption DEF Offered, Partial, Room, Closing
<1>9. Serial'
  <2> SUFFICES ASSUME max_async_requests = 1 PROVE inflight' = {}
    BY DEF Serial
  <2>1. outstanding_requests = 1
    BY <1>3 DEF Room
  <2>2. Cardinality(inflight') = 0
    BY <1>1, <1>3, <2>1
  <2> QED
    BY <1>3, <2>2, FS_EmptySet
<1> QED
  BY <1>4, <1>5, <1>6, <1>7, <1>8, <1>9

\* The poll loop sends a call again.
LEMMA PollRetryIInv ==
  ASSUME IInv, NEW apr \in inflight, PollRetry(apr)
  PROVE  IInv'
<1> DEFINE new == [apr EXCEPT !.retry_cnt = @ + 1, !.status = "pending"]
<1>1. /\ inflight' = (inflight \ {apr}) \cup {new}
      /\ apr.status = "unavailable" /\ apr.retry_cnt < MAX_RETRIES
      /\ UNCHANGED <<request, outstanding_requests, luavars, pollvars, callvars,
                     hostvars, history>>
  BY DEF PollRetry, MayRetry
<1> USE <1>1 DEF IInv, luavars, pollvars, callvars, hostvars, history
<1>2. apr \in AsyncPubRequest
  BY DEF TypeOK
<1>3. /\ new \in AsyncPubRequest /\ new.msgs = apr.msgs
      /\ new.sequence_id = apr.sequence_id /\ new.status = "pending"
  <2>1. apr.retry_cnt + 1 \in 0 .. MAX_RETRIES
    BY <1>2, RetryAssumption DEF AsyncPubRequest
  <2> QED
    BY <1>2, <2>1 DEF AsyncPubRequest
<1> HIDE DEF new
<1>4. TypeOK'
  BY <1>2, <1>3 DEF TypeOK, AsyncPubRequest
<1>5. Counted'
  BY <1>3, ReplaceCall DEF Counted
<1>6. Separate' /\ Past' /\ Behind' /\ Serial'
  BY <1>3 DEF Separate, Past, Behind, Serial
<1>7. InflightMsgs' = InflightMsgs
  BY <1>3 DEF InflightMsgs
<1>8. Accounted'
  BY <1>3, <1>7 DEF Accounted
<1>9. Offered' /\ Partial' /\ Room' /\ Closing'
  <2>1. pc = "closed" => inflight' = {}
    BY DEF Closing
  <2> QED
    BY <2>1 DEF Offered, Partial, Room, Closing
<1> QED
  BY <1>4, <1>5, <1>6, <1>8, <1>9

\* The poll loop gives a call up.
LEMMA PollFailIInv ==
  ASSUME IInv, NEW apr \in inflight, PollFail(apr)
  PROVE  IInv'
<1> USE DEF IInv, luavars, callvars, hostvars
<1>1. /\ inflight' = inflight \ {apr} /\ failures' = failures + 1
      /\ outstanding_requests' = outstanding_requests - 1
      /\ lost' = lost \cup apr.msgs /\ failed_batches' = failed_batches + 1
      /\ UNCHANGED <<request, luavars, callvars, poll_sid, hostvars, delivered,
                     refused>>
  BY DEF PollFail, Delete
<1>2. apr \in AsyncPubRequest
  BY DEF TypeOK
<1>3. /\ IsFiniteSet(inflight') /\ outstanding_requests' = Cardinality(inflight')
      /\ outstanding_requests \in Nat \ {0}
  BY <1>1, RemoveCall DEF Counted
<1>4. TypeOK'
  BY <1>1, <1>2, <1>3 DEF TypeOK, AsyncPubRequest
<1>5. Counted'
  BY <1>3 DEF Counted
<1>6. Separate' /\ Past' /\ Behind' /\ Serial'
  BY <1>1 DEF Separate, Past, Behind, Serial
<1>7. Accounted'
  BY <1>1 DEF Accounted, InflightMsgs
<1>8. Offered' /\ Partial' /\ Room' /\ Closing'
  BY <1>1, <1>3, AsyncAssumption DEF Offered, Partial, Room, Closing
<1> QED
  BY <1>4, <1>5, <1>6, <1>7, <1>8

\* A retry on the queue that was shut down.
LEMMA RetryAfterShutdownIInv ==
  ASSUME IInv, NEW apr \in inflight, RetryAfterShutdown(apr)
  PROVE  IInv'
<1> USE DEF IInv, pubvars, luavars, pollvars, hostvars, history
<1>1. /\ pc' = "aborted"
      /\ UNCHANGED <<pubvars, luavars, caller, pollvars, hostvars, history>>
  BY DEF RetryAfterShutdown
<1>2. TypeOK'
  BY <1>1 DEF TypeOK
<1>3. Offered' /\ Closing'
  BY <1>1 DEF Offered, Closing
<1>4. Past' /\ Behind' /\ Serial' /\ Accounted'
  BY <1>1 DEF Past, Behind, Serial, Accounted, InflightMsgs
<1>5. Counted' /\ Partial' /\ Separate' /\ Room'
  BY <1>1 DEF Counted, Partial, Separate, Room
<1> QED
  BY <1>2, <1>3, <1>4, <1>5

\* The poll loop ends; the checkpoint moves to the last call that went through.
LEMMA PollEndIInv ==
  ASSUME IInv, PollEnd
  PROVE  IInv'
<1> USE DEF IInv, pubvars, luavars, history
<1>1. /\ Polling
      /\ checkpoint' = poll_sid \/ checkpoint' = checkpoint
      /\ reported' = reported + failures \/ reported' = reported
      /\ poll_sid' = 0 /\ failures' = 0
      /\ UNCHANGED <<pubvars, luavars, caller, next, status, history>>
  BY DEF PollEnd
<1>2. \/ pc = "gc" /\ inflight = {} /\ pc' = "closed"
      \/ pc = "gc" /\ pc' = "gc"
      \/ pc = "poll" /\ caller = "process_message" /\ pc' = "publish"
      \/ pc = "poll" /\ pc' = "flush"
  BY <1>1 DEF PollEnd, Polling
<1>3. TypeOK'
  BY <1>1, <1>2, NumMsgsAssumption DEF TypeOK
<1>4. Offered' /\ Closing'
  BY <1>1, <1>2 DEF Offered, Closing
<1>5. Past' /\ Behind' /\ Serial'
  BY <1>1 DEF Past, Behind, Serial, TypeOK, Msgs, AsyncPubRequest
<1>6. Counted' /\ Partial' /\ Separate' /\ Room' /\ Accounted'
  BY <1>1 DEF Counted, Partial, Separate, Room, Accounted, InflightMsgs
<1> QED
  BY <1>3, <1>4, <1>5, <1>6

\* process_message answers without touching the request under construction,
\* which has no message if the answer is "retry".
LEMMA AnsweredIInv ==
  ASSUME IInv, EncodeRefuses \/ PublishRefused \/ PublishEmpty
  PROVE  IInv'
<1> USE DEF IInv, pubvars, pollvars
<1>1. /\ next \in Msgs /\ sid' = next /\ timer' \in BOOLEAN
      /\ pc' = "idle" /\ caller' = "none"
      /\ UNCHANGED <<pubvars, pollvars, checkpoint, reported, delivered, lost,
                     failed_batches>>
  BY DEF EncodeRefuses, PublishRefused, PublishEmpty, Return, Offered, TypeOK, history
<1>2. \/ /\ next' = next + 1 /\ refused' = refused \cup {next}
         /\ status' \in StatusCodes
      \/ /\ next' = next /\ refused' = refused /\ request = {}
         /\ status' \in StatusCodes
  BY AsyncAssumption DEF EncodeRefuses, PublishRefused, PublishEmpty, Return, history,
     TooManyOutstanding, Room, TypeOK, StatusCodes
<1>a. next' \in 1 .. NumMsgs + 1 /\ refused' \subseteq Msgs
  <2>1. next \in 1 .. NumMsgs /\ refused \subseteq Msgs
    BY <1>1 DEF TypeOK, Msgs
  <2>2. next + 1 \in 1 .. NumMsgs + 1 /\ next \in 1 .. NumMsgs + 1
    BY <2>1, NumMsgsAssumption
  <2>3. refused \cup {next} \subseteq Msgs
    BY <1>1, <2>1
  <2> QED
    BY <1>2, <2>1, <2>2, <2>3
<1>b. next' >= next /\ (request # {} => next' = next + 1)
  BY <1>1, <1>2, NumMsgsAssumption DEF Msgs
<1>3. TypeOK'
  BY <1>1, <1>2, <1>a, NumMsgsAssumption DEF TypeOK, Msgs
<1>4. Past'
  <2>1. next \in Nat /\ next' \in Nat /\ poll_sid \in Nat /\ checkpoint \in Nat
    BY <1>a, NumMsgsAssumption DEF TypeOK
  <2>2. /\ \A m \in request : m \in Nat
        /\ \A apr \in inflight : apr.sequence_id \in Nat /\ \A m \in apr.msgs : m \in Nat
    BY DEF TypeOK, Msgs, AsyncPubRequest
  <2> QED
    BY <1>1, <1>b, <2>1, <2>2 DEF Past
<1>5. Accounted'
  BY <1>1, <1>2 DEF Accounted, InflightMsgs, Msgs
<1>6. Offered' /\ Closing'
  BY <1>1, <1>2 DEF Offered, Closing, StatusCodes, NoValue
<1>7. Counted' /\ Partial' /\ Separate' /\ Room' /\ Behind' /\ Serial'
  BY <1>1 DEF Counted, Partial, Separate, Room, Behind, Serial
<1> QED
  BY <1>3, <1>4, <1>5, <1>6, <1>7

\* publish_async, whose callers are PublishData and Flush: messages no other
\* call has are handed to gRPC while there is room for one more call.
LEMMA SendCall ==
  ASSUME IInv, NEW msgs, msgs # {}, msgs \subseteq Msgs,
         \A apr \in inflight : apr.msgs \cap msgs = {},
         NEW sequence_id \in 0 .. NumMsgs, publish_async(msgs, sequence_id),
         outstanding_requests < max_async_requests
  PROVE  /\ request' = {} /\ inflight' \subseteq AsyncPubRequest
         /\ outstanding_requests' \in Nat
         /\ \A apr \in inflight' : \/ apr \in inflight
                                 \/ /\ apr.msgs = msgs /\ apr.status = "pending"
                                    /\ apr.sequence_id = sequence_id
         /\ InflightMsgs' = InflightMsgs \cup msgs
         /\ Counted' /\ Partial' /\ Separate' /\ Room' /\ Behind'
<1> DEFINE new == [msgs |-> msgs, sequence_id |-> sequence_id,
                   retry_cnt |-> 0, status |-> "pending"]
<1> USE DEF IInv
<1>1. /\ inflight' = inflight \cup {new} /\ request' = {}
      /\ outstanding_requests' = outstanding_requests + 1
  BY DEF publish_async
<1>2. new \in AsyncPubRequest
  BY RetryAssumption DEF AsyncPubRequest
<1>3. /\ new.msgs = msgs /\ new.status = "pending" /\ new.sequence_id = sequence_id
  OBVIOUS
<1> HIDE DEF new
<1>4. /\ IsFiniteSet(inflight') /\ Cardinality(inflight') = Cardinality(inflight) + 1
  BY <1>1, <1>3, AddCall DEF Counted
<1>5. inflight' \subseteq AsyncPubRequest /\ outstanding_requests' \in Nat
  BY <1>1, <1>2 DEF TypeOK
<1>6. Counted' /\ Room' /\ Behind'
  BY <1>1, <1>4, AsyncAssumption DEF Counted, Room, Behind, TypeOK
<1>7. Partial'
  BY <1>1, FS_EmptySet, BatchAssumption DEF Partial
<1>8. Separate'
  BY <1>1, <1>3 DEF Separate
<1>9. InflightMsgs' = InflightMsgs \cup msgs
  BY <1>1, <1>3 DEF InflightMsgs
<1> QED
  BY <1>1, <1>3, <1>5, <1>6, <1>7, <1>8, <1>9

\* process_message adds the offered message and sends a full request.
LEMMA PublishDataIInv ==
  ASSUME IInv, PublishData
  PROVE  IInv'
<1> USE DEF IInv, pollvars, history
<1>1. /\ next \in Msgs /\ sid' = next /\ outstanding_requests < max_async_requests
      /\ pc' = "idle" /\ caller' = "none" /\ next' = next + 1
      /\ UNCHANGED <<timer, pollvars, checkpoint, reported, history>>
  BY AsyncAssumption DEF PublishData, Return, Offered, TooManyOutstanding, TypeOK, NoValue
<1>2. /\ WithMessage = request \cup {next} /\ next \notin request
      /\ IsFiniteSet(WithMessage)
      /\ Cardinality(WithMessage) = Cardinality(request) + 1
  <2>1. next \notin request
    BY <1>1, NumMsgsAssumption DEF Past, Msgs
  <2> QED
    BY <2>1, FS_AddElement DEF WithMessage, Partial
<1>3. /\ WithMessage # {} /\ WithMessage \subseteq Msgs
      /\ \A apr \in inflight : apr.msgs \cap WithMessage = {}
  <2>1. \A apr \in inflight : next \notin apr.msgs
    BY <1>1, NumMsgsAssumption DEF Past, Msgs
  <2> QED
    BY <1>1, <1>2, <2>1 DEF TypeOK, Separate
<1>4. next \in 0 .. NumMsgs /\ next + 1 \in 1 .. NumMsgs + 1
  BY <1>1, NumMsgsAssumption DEF Msgs
<1>5. /\ next \in Nat /\ poll_sid \in Nat /\ checkpoint \in Nat
      /\ \A m \in request : m \in Nat
      /\ \A apr \in inflight : apr.sequence_id \in Nat /\ \A m \in apr.msgs : m \in Nat
  BY <1>4, NumMsgsAssumption DEF TypeOK, Msgs, AsyncPubRequest
<1>6. \A m \in 1 .. next' - 1 : m \in 1 .. next - 1 \/ m = next
  BY <1>1, <1>5
<1>7. CASE Cardinality(WithMessage) = batch_size
  <2>1. /\ publish_async(WithMessage, next) /\ status' = NoValue
    BY <1>7 DEF PublishData, Return
  <2> DEFINE sent(apr) == /\ apr.msgs = WithMessage /\ apr.status = "pending"
                          /\ apr.sequence_id = next
  <2>2. /\ request' = {} /\ inflight' \subseteq AsyncPubRequest
        /\ outstanding_requests' \in Nat
        /\ \A apr \in inflight' : apr \in inflight \/ sent(apr)
        /\ InflightMsgs' = InflightMsgs \cup WithMessage
        /\ Counted' /\ Partial' /\ Separate' /\ Room' /\ Behind'
    BY <1>1, <1>3, <1>4, <2>1, SendCall
  <2>3. TypeOK'
    BY <1>1, <1>4, <2>1, <2>2 DEF TypeOK
  <2>4. Past'
    BY <1>1, <1>2, <1>5, <2>2 DEF Past
  <2>5. Accounted'
    BY <1>1, <1>2, <1>6, <2>2 DEF Accounted
  <2>6. Offered' /\ Closing'
    BY <1>1, <2>2 DEF Offered, Closing
  <2>7. Serial'
    BY <1>1, <1>2, <1>5, <2>2 DEF Serial, Past, Behind
  <2> QED
    BY <2>2, <2>3, <2>4, <2>5, <2>6, <2>7
<1>8. CASE Cardinality(WithMessage) # batch_size
  <2>1. /\ request' = WithMessage /\ status' = "async"
        /\ UNCHANGED <<inflight, outstanding_requests>>
    BY <1>8 DEF PublishData, Return
  <2>2. TypeOK'
    BY <1>1, <1>3, <1>4, <2>1 DEF TypeOK, StatusCodes
  <2>3. Partial'
    BY <1>2, <1>8, <2>1, FS_CardinalityType, BatchAssumption DEF Partial
  <2>4. Past' /\ Behind'
    BY <1>1, <1>2, <1>5, <2>1 DEF Past, Behind
  <2>5. Accounted'
    BY <1>1, <1>2, <1>6, <2>1 DEF Accounted, InflightMsgs
  <2>6. Separate' /\ Counted' /\ Room' /\ Serial'
    BY <1>1, <1>3, <2>1 DEF Separate, Counted, Room, Serial, TypeOK
  <2>7. Offered' /\ Closing'
    BY <1>1, <2>1 DEF Offered, Closing, NoValue
  <2> QED
    BY <2>2, <2>3, <2>4, <2>5, <2>6, <2>7
<1> QED
  BY <1>7, <1>8

\* timer_event sends a partial request, which Room leaves a place for.
LEMMA FlushIInv ==
  ASSUME IInv, Flush
  PROVE  IInv'
<1> USE DEF IInv, pollvars, hostvars, history, pubvars
<1>1. /\ timer' = TRUE /\ pc' \in {"gc", "idle"} /\ caller' = "none"
      /\ pc' = "gc" => FlushDue
      /\ UNCHANGED <<sid, pollvars, hostvars, history>>
  BY DEF Flush, FlushDue
<1>2. CASE FlushDue /\ request # {}
  <2>1. /\ publish_async(request, sid) /\ outstanding_requests < max_async_requests
        /\ sid < next
    BY <1>2 DEF Flush, Room, Past
  <2> DEFINE sent(apr) == /\ apr.msgs = request /\ apr.status = "pending"
                          /\ apr.sequence_id = sid
  <2>2. /\ request' = {} /\ inflight' \subseteq AsyncPubRequest
        /\ outstanding_requests' \in Nat
        /\ \A apr \in inflight' : apr \in inflight \/ sent(apr)
        /\ InflightMsgs' = InflightMsgs \cup request
        /\ Counted' /\ Partial' /\ Separate' /\ Room' /\ Behind'
    BY <1>2, <2>1, SendCall DEF TypeOK, Separate
  <2>3. TypeOK'
    BY <1>1, <2>2 DEF TypeOK
  <2>4. Past' /\ Serial'
    BY <1>1, <2>1, <2>2 DEF Past, Behind, Serial
  <2>5. Accounted'
    BY <1>1, <2>2 DEF Accounted
  <2>6. Offered' /\ Closing'
    BY <1>1, <2>2 DEF Offered, Closing
  <2> QED
    BY <2>2, <2>3, <2>4, <2>5, <2>6
<1>3. CASE ~(FlushDue /\ request # {})
  <2>1. UNCHANGED pubvars /\ (pc' = "gc" => request = {})
    BY <1>1, <1>3 DEF Flush
  <2>2. TypeOK'
    BY <1>1, <2>1 DEF TypeOK
  <2>3. Past' /\ Behind' /\ Serial' /\ Accounted'
    BY <1>1, <2>1 DEF Past, Behind, Serial, Accounted, InflightMsgs
  <2>4. Offered' /\ Closing'
    BY <1>1, <2>1 DEF Offered, Closing
  <2>5. Counted' /\ Partial' /\ Separate' /\ Room'
    BY <2>1 DEF Counted, Partial, Separate, Room
  <2> QED
    BY <2>2, <2>3, <2>4, <2>5
<1> QED
  BY <1>2, <1>3

\* A step that changes nothing keeps the inductive invariant.
LEMMA StutterIInv ==
  ASSUME IInv, UNCHANGED vars
  PROVE  IInv'
<1> USE DEF IInv, vars, pubvars, luavars, pollvars, callvars, hostvars, history
<1>1. TypeOK' /\ Offered' /\ Counted' /\ Partial' /\ Separate' /\ Past'
  BY DEF TypeOK, Offered, Counted, Partial, Separate, Past
<1>2. Room' /\ Behind' /\ Accounted' /\ Closing' /\ Serial'
  BY DEF Room, Behind, Accounted, Closing, Serial, InflightMsgs
<1> QED
  BY <1>1, <1>2

-----------------------------------------------------------------------------
(* The theorems.                                                           *)

\* The strengthening holds in every reachable state.
THEOREM InvariantHolds == Spec => []IInv
<1>1. IInv /\ [Next]_vars => IInv'
  <2> SUFFICES ASSUME IInv, [Next]_vars PROVE IInv'
    OBVIOUS
  <2>1. CASE ProcessMessage \/ TimerEvent \/ Shutdown
    BY <2>1, BeginPollIInv
  <2>2. CASE HostTerminates
    BY <2>2, HostTerminatesIInv
  <2>3. CASE Poll
    BY <2>3, PollOkIInv, PollRetryIInv, PollFailIInv, RetryAfterShutdownIInv,
       PollEndIInv DEF Poll
  <2>4. CASE Publish
    BY <2>4, AnsweredIInv, PublishDataIInv DEF Publish
  <2>5. CASE Flush
    BY <2>5, FlushIInv
  <2>6. CASE Service
    BY <2>6, CompleteIInv DEF Service
  <2>7. CASE UNCHANGED vars
    BY <2>7, StutterIInv
  <2> QED
    BY <2>1, <2>2, <2>3, <2>4, <2>5, <2>6, <2>7 DEF Next, Callback
<1> QED
  BY InitIInv, <1>1, PTL DEF Spec

\* The type invariant: the bounds of the counters, sets and program counter of
\* the publisher and the Lua plugin hold in every reachable state.
THEOREM TypeCorrect == Spec => []TypeOK
<1>1. IInv => TypeOK
  BY DEF IInv
<1> QED
  BY <1>1, InvariantHolds, PTL

\* outstanding_requests of pubsub.cpp counts the calls gRPC owns.
THEOREM CounterCorrect == Spec => []OutstandingIsInflight
<1>1. IInv => OutstandingIsInflight
  BY DEF IInv, Counted, OutstandingIsInflight
<1> QED
  BY <1>1, InvariantHolds, PTL

\* No call carries more than a batch.
Sized == \A apr \in inflight : Cardinality(apr.msgs) <= batch_size

\* A request that is handed to gRPC is a batch: publish adds one message to a
\* request with room for it, flush sends the request as it is.
LEMMA SizedStep == IInv /\ Sized /\ [Next]_vars => Sized'
<1> SUFFICES ASSUME IInv, Sized, [Next]_vars PROVE Sized'
  OBVIOUS
<1> USE BatchAssumption DEF Sized
<1>1. IsFiniteSet(request) /\ Cardinality(request) \in Nat
  BY FS_CardinalityType DEF IInv, Partial
<1>2. Cardinality(request) < batch_size
  BY DEF IInv, Partial
<1>3. CASE ProcessMessage \/ TimerEvent \/ Shutdown \/ HostTerminates \/ UNCHANGED vars
  BY <1>3 DEF ProcessMessage, TimerEvent, Shutdown, BeginPoll, HostTerminates, vars, pubvars
<1>4. CASE Poll
  <2>1. CASE \E apr \in inflight : PollRetry(apr)
    <3>1. PICK apr \in inflight : PollRetry(apr)
      BY <2>1
    <3>2. [apr EXCEPT !.retry_cnt = @ + 1, !.status = "pending"].msgs = apr.msgs
      BY DEF IInv, TypeOK, AsyncPubRequest
    <3> QED
      BY <3>1, <3>2 DEF PollRetry
  <2>2. CASE ~ \E apr \in inflight : PollRetry(apr)
    BY <1>4, <2>2 DEF Poll, PollOk, PollFail, RetryAfterShutdown, PollEnd, Delete, pubvars
  <2> QED
    BY <2>1, <2>2
<1>5. CASE EncodeRefuses \/ PublishRefused \/ PublishEmpty
  BY <1>5 DEF EncodeRefuses, PublishRefused, PublishEmpty, pubvars
<1>6. CASE PublishData
  <2>1. CASE Cardinality(WithMessage) = batch_size
    BY <1>6, <2>1 DEF PublishData, publish_async
  <2>2. CASE Cardinality(WithMessage) # batch_size
    BY <1>6, <2>2 DEF PublishData
  <2> QED
    BY <2>1, <2>2
<1>7. CASE Flush
  BY <1>1, <1>2, <1>7 DEF Flush, publish_async, pubvars
<1>8. CASE Service
  <2>1. PICK apr \in inflight, outcome \in Outcomes : Complete(apr, outcome)
    BY <1>8 DEF Service
  <2>2. [apr EXCEPT !.status = outcome].msgs = apr.msgs
    BY DEF IInv, TypeOK, AsyncPubRequest
  <2> QED
    BY <2>1, <2>2 DEF Complete
<1> QED
  BY <1>3, <1>4, <1>5, <1>6, <1>7, <1>8 DEF Next, Callback, Publish

\* The limit max_async_requests holds, though flush does not check it, and the
\* unacknowledged messages fit the host's buffer.
THEOREM LimitHolds == Spec => []BufferBound
<1>1. Init => Sized
  BY DEF Init, Sized
<1>2. IInv /\ Sized => BufferBound
  <2> SUFFICES ASSUME IInv, Sized PROVE BufferBound
    OBVIOUS
  <2>1. outstanding_requests \in Nat
    BY DEF IInv, TypeOK
  <2> QED
    BY <2>1, AsyncAssumption DEF IInv, Room, Sized, BufferBound
<1> QED
  BY <1>1, <1>2, InvariantHolds, SizedStep, PTL DEF Spec

\* The checkpoint never covers a message of the request under construction.
THEOREM RequestUncovered == Spec => []CheckpointBelowRequest
<1>1. IInv => CheckpointBelowRequest
  BY DEF IInv, Behind, CheckpointBelowRequest
<1> QED
  BY <1>1, InvariantHolds, PTL

\* A message the checkpoint covers is settled or with gRPC.
THEOREM CheckpointSound == Spec => []CheckpointAccounts
<1>1. IInv => CheckpointAccounts
  <2> SUFFICES ASSUME IInv, NEW m \in 1 .. checkpoint
      PROVE m \in delivered \cup lost \cup refused \cup InflightMsgs
    BY DEF CheckpointAccounts
  <2>1. m \in 1 .. next - 1 /\ m \notin request
    BY NumMsgsAssumption DEF IInv, TypeOK, Past, Behind
  <2> QED
    BY <2>1 DEF IInv, Accounted
<1> QED
  BY <1>1, InvariantHolds, PTL

\* With one outstanding request every message the checkpoint covers is settled.
THEOREM SerialSound == Spec => []SerialCheckpoint
<1>1. IInv => SerialCheckpoint
  <2> SUFFICES ASSUME IInv, max_async_requests = 1, NEW m \in 1 .. checkpoint
      PROVE m \in delivered \cup lost \cup refused
    BY DEF SerialCheckpoint
  <2>1. m \in 1 .. next - 1 /\ m \notin request
    BY NumMsgsAssumption DEF IInv, TypeOK, Past, Behind
  <2>2. m \notin InflightMsgs
    BY NumMsgsAssumption DEF IInv, TypeOK, Serial, InflightMsgs
  <2> QED
    BY <2>1, <2>2 DEF IInv, Accounted
<1> QED
  BY <1>1, InvariantHolds, PTL

\* A plugin that closed has settled every message it answered.
THEOREM DrainsAtShutdown == Spec => []ShutdownDrains
<1>1. IInv => ShutdownDrains
  <2> SUFFICES ASSUME IInv, pc = "closed"
      PROVE /\ request = {} /\ outstanding_requests = 0
            /\ \A m \in 1 .. next - 1 : m \in delivered \cup lost \cup refused
    BY DEF ShutdownDrains
  <2>1. request = {} /\ inflight = {}
    BY DEF IInv, Closing
  <2>2. outstanding_requests = 0
    BY <2>1, FS_EmptySet DEF IInv, Counted
  <2>3. InflightMsgs = {}
    BY <2>1 DEF InflightMsgs
  <2> QED
    BY <2>1, <2>2, <2>3 DEF IInv, Accounted
<1> QED
  BY <1>1, InvariantHolds, PTL
=============================================================================
