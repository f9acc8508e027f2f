---------------------------- MODULE Pubsub_proofs ----------------------------
(***************************************************************************)
(* Proofs about the publisher without outstanding calls (PubsubSync) and   *)
(* about the subscriber (PubsubSubscriber); PubsubAsync_proofs is about    *)
(* the publisher with outstanding calls.                                   *)
(*                                                                         *)
(* PubsubSync, for every number of messages and restarts and every batch   *)
(* size.  The proofs speak of the states before the first message of empty *)
(* zero-copy data: publish answers 0 (sent) for it whatever waits in the   *)
(* request, and the checkpoint is wrong from then on.  The checkpoint is   *)
(* safe because the request is what has been answered and not yet settled  *)
(* (AnsweredAccounted, Ahead), and a failed message cannot move the        *)
(* checkpoint past it while batching is set (Held).                        *)
(*                                                                         *)
(* PubsubSubscriber, for every set of messages, batch size, limit of pull  *)
(* requests, and number of acknowledgements, restarts and Lua errors.  The *)
(* ids kept for the next acknowledgement are those of the batch in the     *)
(* script's hands (IdsKept, BatchHeld): whatever happens to the batch,     *)
(* only ids of messages that left it can be sent, because a pull, which    *)
(* sends them, waits for the batch to be empty.                            *)
(***************************************************************************)
EXTENDS PubsubSync, PubsubSubscriber, TLAPS, WellFoundedInduction

-----------------------------------------------------------------------------
(* The inductive invariant, by parts.                                      *)

\* The request holds messages above the checkpoint, in the worst case up to
\* the one that is offered again.
Ahead == \A m \in Messages(request) : checkpoint < m /\ m <= next

\* The offered message is in the request exactly when the request is full and
\* waits for the service to be available.
Waiting == next \in Messages(request) <=> Len(request) = batch_size

\* The host knows of the earlier messages of the request that they wait.
Held == \A m \in Messages(request) : m < next => batching

Behind == checkpoint < next

\* What follows for the contract: the messages the checkpoint covers are settled.
Covered == 1 .. checkpoint \subseteq settled

IInv == /\ TypeOK /\ Ahead /\ Waiting /\ Held /\ Behind
        /\ AnsweredAccounted /\ NoDuplicates

-----------------------------------------------------------------------------
(* Lemmas.                                                                 *)

\* The messages of an empty request, and of one with a message added.
LEMMA MessagesEmpty == Messages(<<>>) = {}
BY DEF Messages

\* Appending a message to a request adds it to the messages of the request.
LEMMA MessagesAppend ==
  ASSUME NEW S, NEW req \in Seq(S), NEW m \in S
  PROVE  Messages(Append(req, m)) = Messages(req) \cup {m}
<1>1. Len(req) \in Nat /\ DOMAIN req = 1 .. Len(req)
  OBVIOUS
<1>2. DOMAIN Append(req, m) = 1 .. Len(req) + 1
  OBVIOUS
<1>3. \A i \in 1 .. Len(req) : Append(req, m)[i] = req[i]
  OBVIOUS
<1>4. Append(req, m)[Len(req) + 1] = m
  OBVIOUS
<1>5. 1 .. Len(req) + 1 = (1 .. Len(req)) \cup {Len(req) + 1}
  BY <1>1
<1>6. Messages(req) = {req[i] : i \in 1 .. Len(req)}
  BY <1>1 DEF Messages
<1>7. Messages(Append(req, m)) = {Append(req, m)[i] : i \in (1 .. Len(req)) \cup {Len(req) + 1}}
  BY <1>2, <1>5 DEF Messages
<1> DEFINE app == Append(req, m)
<1>8. /\ \A i \in 1 .. Len(req) : app[i] = req[i]
      /\ app[Len(req) + 1] = m
  BY <1>3, <1>4
<1> HIDE DEF app
<1>9. Messages(app) = {app[i] : i \in (1 .. Len(req)) \cup {Len(req) + 1}}
  BY <1>7 DEF app
<1>10. Messages(app) = Messages(req) \cup {m}
  BY <1>6, <1>8, <1>9
<1> QED
  BY <1>10 DEF app

\* The messages of a well-typed request are messages of the host.
LEMMA MessagesTyped == TypeOK => Messages(request) \subseteq Msgs
BY DEF TypeOK, Messages

\* The invariant holds initially.
LEMMA InitIInv == Init => IInv
<1> SUFFICES ASSUME Init PROVE IInv
  OBVIOUS
<1> USE NumMsgsAssumption, RestartAssumption, BatchAssumption DEF Init, HostInit
<1>1. TypeOK
  <2>1. request \in Seq(Msgs) /\ Len(request) = 0
    OBVIOUS
  <2>2. HostTypeOK
    <3>1. next \in 1 .. NumMsgs + 1 /\ checkpoint \in 0 .. NumMsgs /\ restarts \in 0 .. MaxRestarts
      OBVIOUS
    <3>2. batching \in BOOLEAN
      BY Zenon
    <3> QED
      BY <3>1, <3>2 DEF HostTypeOK
  <2> QED
    BY <2>1, <2>2 DEF TypeOK
<1>2. Ahead /\ Waiting /\ Held /\ Behind /\ AnsweredAccounted /\ NoDuplicates
  BY MessagesEmpty DEF Ahead, Waiting, Held, Behind, AnsweredAccounted, NoDuplicates
<1> QED
  BY <1>1, <1>2 DEF IInv

\* What the offered message does to the request.
LEMMA Added ==
  ASSUME IInv, next \in Msgs
  PROVE  /\ WithMessage \in Seq(Msgs) /\ Len(WithMessage) <= batch_size
         /\ WithMessage # <<>>
         /\ Messages(WithMessage) = Messages(request) \cup {next}
         /\ \A i, j \in DOMAIN WithMessage :
              WithMessage[i] = WithMessage[j] => i = j
<1> USE DEF IInv
<1>1. request \in Seq(Msgs) /\ Len(request) \in Nat /\ Len(request) <= batch_size
  BY DEF TypeOK
<1>2. CASE Len(request) < batch_size
  <2>1. WithMessage = Append(request, next) /\ next \notin Messages(request)
    BY <1>2, BatchAssumption, <1>1 DEF WithMessage, Waiting
  <2>2. Messages(WithMessage) = Messages(request) \cup {next}
    BY <1>1, <2>1, MessagesAppend
  <2>3. WithMessage \in Seq(Msgs) /\ Len(WithMessage) = Len(request) + 1
    BY <1>1, <2>1
  <2>4. ASSUME NEW i \in DOMAIN WithMessage, NEW j \in DOMAIN WithMessage,
               WithMessage[i] = WithMessage[j]
        PROVE  i = j
    <3>1. \A k \in DOMAIN request : k \in Nat /\ request[k] # next
      BY <1>1, <2>1 DEF Messages
    <3>2. \A k \in DOMAIN WithMessage :
            \/ k \in DOMAIN request /\ WithMessage[k] = request[k]
            \/ k = Len(request) + 1 /\ WithMessage[k] = next
      BY <1>1, <2>1
    <3> QED
      BY <2>4, <3>1, <3>2 DEF NoDuplicates
  <2> QED
    BY <1>1, <1>2, <2>2, <2>3, <2>4, BatchAssumption
<1>3. CASE Len(request) = batch_size
  <2>1. WithMessage = request /\ next \in Messages(request)
    BY <1>3, BatchAssumption DEF WithMessage, Waiting
  <2> QED
    BY <1>1, <1>3, <2>1, BatchAssumption DEF NoDuplicates
<1> QED
  BY <1>1, <1>2, <1>3, BatchAssumption

\* Nothing changes.
LEMMA StutterIInv ==
  ASSUME IInv, UNCHANGED vars
  PROVE  IInv'
<1> USE DEF IInv, vars, plugin, host, history
<1>1. TypeOK'
  BY DEF TypeOK, HostTypeOK
<1>2. Ahead' /\ Waiting' /\ Held' /\ Behind' /\ AnsweredAccounted' /\ NoDuplicates'
  BY DEF Ahead, Waiting, Held, Behind, AnsweredAccounted, NoDuplicates, Messages
<1> QED
  BY <1>1, <1>2

\* The encoder refuses a message that is not in the request.
LEMMA EncodeRefusesIInv ==
  ASSUME IInv, EncodeRefuses
  PROVE  IInv'
<1> USE NumMsgsAssumption DEF IInv, plugin
<1>1. /\ next \in Msgs /\ next \notin Messages(request) /\ next' = next + 1
      /\ batching' = batching /\ restarts' = restarts
      /\ checkpoint' = IF ~batching THEN next ELSE checkpoint
      /\ refused' = refused \cup {next}
      /\ UNCHANGED <<plugin, delivered, rejected>>
  <2>1. /\ next \in Msgs /\ next \notin Messages(request) /\ HostReturn("fail")
        /\ refused' = refused \cup {next}
        /\ UNCHANGED <<plugin, delivered, rejected>>
    BY DEF EncodeRefuses
  <2>2. batching' = batching
    BY <2>1, Zenon DEF HostReturn
  <2> QED
    BY <2>1, <2>2 DEF HostReturn
<1>2. /\ next' \in 1 .. NumMsgs + 1 /\ checkpoint' \in 0 .. NumMsgs
      /\ checkpoint' < next'
  BY <1>1 DEF TypeOK, HostTypeOK, Msgs, Behind
<1>3. TypeOK'
  BY <1>1, <1>2 DEF TypeOK, HostTypeOK, Msgs
<1>4. \A m \in Messages(request) : m \in Msgs /\ m < next /\ batching
  BY <1>1, MessagesTyped DEF Ahead, Held, TypeOK, Msgs
<1>5. Messages(request)' = Messages(request)
  BY <1>1 DEF Messages
<1>6. Ahead' /\ Held'
  BY <1>1, <1>4, <1>5 DEF Ahead, Held, Msgs
<1>7. Waiting'
  BY <1>1, <1>4, <1>5 DEF Waiting, Msgs
<1>8. AnsweredAccounted'
  BY <1>1, <1>5 DEF AnsweredAccounted, Msgs
<1>9. Behind' /\ NoDuplicates'
  BY <1>1, <1>2 DEF Behind, NoDuplicates
<1> QED
  BY <1>3, <1>6, <1>7, <1>8, <1>9

\* The message is added and the request is not full yet.
LEMMA PublishBatchedIInv ==
  ASSUME IInv, PublishBatched
  PROVE  IInv'
<1> USE NumMsgsAssumption DEF IInv, history
<1>1. /\ next \in Msgs /\ Len(WithMessage) # batch_size
      /\ request' = WithMessage /\ next' = next + 1
      /\ batching' = TRUE /\ restarts' = restarts /\ checkpoint' = checkpoint
      /\ UNCHANGED <<timer, history>>
  BY DEF PublishBatched, HostReturn
<1>2. /\ request' \in Seq(Msgs) /\ Len(request') <= batch_size
      /\ Messages(request)' = Messages(request) \cup {next}
  BY <1>1, Added DEF Messages
<1>3. NoDuplicates'
  BY <1>1, Added DEF NoDuplicates
<1>4. next' \in 1 .. NumMsgs + 1 /\ batching' \in BOOLEAN /\ Behind'
  BY <1>1 DEF TypeOK, HostTypeOK, Msgs, Behind
<1>5. TypeOK'
  BY <1>1, <1>2, <1>4 DEF TypeOK, HostTypeOK
<1>6. \A m \in Messages(request) : m \in Msgs /\ m <= next /\ checkpoint < m
  BY MessagesTyped DEF Ahead
<1>7. Ahead' /\ Held'
  BY <1>1, <1>2, <1>6 DEF Ahead, Held, Msgs, Behind
<1>8. Waiting'
  BY <1>1, <1>2, <1>6 DEF Waiting, Msgs
<1>9. AnsweredAccounted'
  BY <1>1, <1>2 DEF AnsweredAccounted, Msgs
<1> QED
  BY <1>3, <1>4, <1>5, <1>7, <1>8, <1>9

\* What publish_sync does to the messages of a request and to the request.
LEMMA AfterPublish ==
  ASSUME TypeOK, NEW req \in Seq(Msgs), NEW outcome \in Outcomes,
         publish_sync(req, outcome), request' = Kept(req, outcome)
  PROVE  /\ delivered' \subseteq Msgs /\ rejected' \subseteq Msgs
         /\ delivered \subseteq delivered' /\ rejected \subseteq rejected'
         /\ \/ /\ outcome = "unavailable" /\ request' = req
            \/ /\ outcome # "unavailable" /\ request' = <<>>
               /\ Messages(req) \subseteq delivered' \cup rejected'
<1>1. Messages(req) \subseteq Msgs
  BY DEF Messages
<1> QED
  BY <1>1 DEF publish_sync, Kept, Outcomes, TypeOK

\* An empty request satisfies what the invariant says of requests.
LEMMA EmptyRequest ==
  ASSUME request' = <<>>
  PROVE  /\ Messages(request)' = {} /\ request' \in Seq(Msgs) /\ Len(request') = 0
         /\ Ahead' /\ Held' /\ Waiting' /\ NoDuplicates'
<1>1. Messages(request)' = {} /\ request' \in Seq(Msgs) /\ Len(request') = 0
  BY DEF Messages
<1>2. Ahead' /\ Held' /\ Waiting'
  BY <1>1, BatchAssumption DEF Ahead, Held, Waiting
<1>3. NoDuplicates'
  BY DEF NoDuplicates
<1> QED
  BY <1>1, <1>2, <1>3

\* A full request is sent; it is kept if the service is unavailable, with the
\* offered message as its last.
LEMMA PublishFullIInv ==
  ASSUME IInv, NEW outcome \in Outcomes, PublishFull(outcome)
  PROVE  IInv'
<1> USE NumMsgsAssumption, BatchAssumption DEF IInv
<1>1. /\ next \in Msgs /\ Len(WithMessage) = batch_size
      /\ publish_sync(WithMessage, outcome)
      /\ request' = Kept(WithMessage, outcome)
      /\ timer' \in BOOLEAN /\ refused' = refused
      /\ HostReturn(Code(outcome))
  BY DEF PublishFull
<1>2. /\ WithMessage \in Seq(Msgs)
      /\ Messages(WithMessage) = Messages(request) \cup {next}
      /\ \A i, j \in DOMAIN WithMessage : WithMessage[i] = WithMessage[j] => i = j
  BY <1>1, Added
<1>3. /\ delivered' \subseteq Msgs /\ rejected' \subseteq Msgs
      /\ delivered \subseteq delivered' /\ rejected \subseteq rejected'
      /\ \/ /\ outcome = "unavailable" /\ request' = WithMessage
         \/ /\ outcome # "unavailable" /\ request' = <<>>
            /\ Messages(WithMessage) \subseteq delivered' \cup rejected'
  BY <1>1, <1>2, AfterPublish
<1>4. \A m \in Messages(request) : m \in Msgs /\ m <= next /\ checkpoint < m
  BY MessagesTyped DEF Ahead
<1>5. CASE outcome = "unavailable"
  <2>1. /\ next' = next /\ checkpoint' = checkpoint /\ restarts' = restarts
        /\ batching' = batching /\ request' = WithMessage
    <3>1. HostReturn("retry")
      BY <1>1, <1>5 DEF Code
    <3>2. batching' = batching
      BY <3>1, Zenon DEF HostReturn
    <3> QED
      BY <1>3, <1>5, <3>1, <3>2 DEF HostReturn
  <2>2. Messages(request)' = Messages(request) \cup {next}
    BY <1>2, <2>1 DEF Messages
  <2>3. TypeOK'
    BY <1>1, <1>2, <1>3, <2>1 DEF TypeOK, HostTypeOK
  <2>4. Ahead' /\ Waiting' /\ Held' /\ Behind'
    BY <1>1, <1>4, <2>1, <2>2 DEF Ahead, Waiting, Held, Behind, Msgs
  <2>5. AnsweredAccounted'
    BY <1>1, <1>3, <2>1, <2>2 DEF AnsweredAccounted
  <2>6. NoDuplicates'
    BY <1>2, <2>1 DEF NoDuplicates
  <2> QED
    BY <2>3, <2>4, <2>5, <2>6
<1>6. CASE outcome # "unavailable"
  <2>1. /\ next' = next + 1 /\ checkpoint' \in {next, checkpoint} /\ restarts' = restarts
        /\ batching' \in BOOLEAN /\ request' = <<>>
    <3>1. HostReturn("sent") \/ HostReturn("fail")
      BY <1>1, <1>6 DEF Code
    <3>2. batching' \in BOOLEAN
      BY <3>1, Zenon DEF HostReturn, TypeOK, HostTypeOK
    <3> QED
      BY <1>3, <1>6, <3>1, <3>2 DEF HostReturn
  <2>2. /\ Ahead' /\ Waiting' /\ Held' /\ NoDuplicates'
        /\ Messages(request)' = {} /\ request' \in Seq(Msgs) /\ Len(request') = 0
    BY <2>1, EmptyRequest
  <2>3. /\ next' \in 1 .. NumMsgs + 1 /\ checkpoint' \in 0 .. NumMsgs /\ Behind'
    BY <1>1, <2>1 DEF TypeOK, HostTypeOK, Msgs, Behind
  <2>4. TypeOK'
    BY <1>1, <1>3, <2>1, <2>2, <2>3 DEF TypeOK, HostTypeOK
  <2>5. AnsweredAccounted'
    BY <1>1, <1>2, <1>3, <1>6, <2>1, <2>2 DEF AnsweredAccounted, Msgs
  <2> QED
    BY <2>2, <2>3, <2>4, <2>5
<1> QED
  BY <1>5, <1>6

\* In every invariant state the checkpoint covers settled messages only.
LEMMA CoveredSettled == IInv => Covered
<1> SUFFICES ASSUME IInv, NEW m \in 1 .. checkpoint PROVE m \in settled
  BY DEF Covered
<1>1. checkpoint \in Nat /\ next \in Nat /\ checkpoint < next
  BY NumMsgsAssumption DEF IInv, TypeOK, HostTypeOK, Behind
<1>2. m \in 1 .. next - 1 /\ m \notin Messages(request)
  BY <1>1 DEF IInv, Ahead
<1> QED
  BY <1>2 DEF IInv, AnsweredAccounted, settled

\* The ticker sends a partial request, or a full one that waits, and the
\* checkpoint moves over everything answered if nothing is left in it.
LEMMA TimerEventIInv ==
  ASSUME IInv, NEW outcome \in Outcomes, TimerEvent(outcome)
  PROVE  IInv' /\ checkpoint <= checkpoint'
<1> USE NumMsgsAssumption DEF IInv
<1>1. /\ next' = next /\ restarts' = restarts /\ timer' = TRUE /\ refused' = refused
      /\ \/ /\ ~timer /\ HostTicked(FALSE)
            /\ UNCHANGED <<request, delivered, rejected>>
         \/ /\ publish_sync(request, outcome) /\ request' = Kept(request, outcome)
            /\ HostTicked(FlushOk(outcome))
  BY DEF TimerEvent, HostTicked
<1>2. next \in 1 .. NumMsgs + 1 /\ checkpoint \in 0 .. NumMsgs
  BY DEF TypeOK, HostTypeOK
<1>3. CASE request' = request /\ HostTicked(FALSE)
                 /\ UNCHANGED <<delivered, rejected>>
  <2>1. checkpoint' = checkpoint /\ UNCHANGED <<next, restarts, request, delivered, rejected, refused>>
    BY <1>1, <1>3 DEF HostTicked
  <2>2. batching' = batching /\ batching' \in BOOLEAN
    BY <1>3, Zenon DEF HostTicked, TypeOK, HostTypeOK
  <2>3. TypeOK'
    BY <1>1, <2>1, <2>2 DEF TypeOK, HostTypeOK
  <2>4. Ahead' /\ Waiting' /\ Held' /\ Behind' /\ AnsweredAccounted' /\ NoDuplicates'
    BY <2>1, <2>2 DEF Ahead, Waiting, Held, Behind, AnsweredAccounted, NoDuplicates, Messages
  <2> QED
    BY <1>2, <2>1, <2>3, <2>4
<1>4. CASE publish_sync(request, outcome) /\ request' = Kept(request, outcome)
                 /\ HostTicked(FlushOk(outcome))
  <2>1. /\ delivered' \subseteq Msgs /\ rejected' \subseteq Msgs
        /\ delivered \subseteq delivered' /\ rejected \subseteq rejected'
        /\ \/ /\ outcome = "unavailable" /\ request' = request
           \/ /\ outcome # "unavailable" /\ request' = <<>>
              /\ Messages(request) \subseteq delivered' \cup rejected'
    BY <1>4, AfterPublish DEF TypeOK
  <2>2. CASE request' = <<>>
    <3>1. /\ Ahead' /\ Waiting' /\ Held' /\ NoDuplicates'
          /\ Messages(request)' = {} /\ request' \in Seq(Msgs) /\ Len(request') = 0
      BY <2>2, EmptyRequest
    <3>2. /\ checkpoint' \in {next - 1, checkpoint}
          /\ checkpoint' \in 0 .. NumMsgs /\ Behind' /\ checkpoint <= checkpoint'
      BY <1>1, <1>2, <1>4 DEF HostTicked, LastAnswered, Behind
    <3>3. batching' \in BOOLEAN
      BY <1>4, Zenon DEF HostTicked
    <3>4. TypeOK'
      BY <1>1, <1>2, <2>1, <3>1, <3>2, <3>3, BatchAssumption DEF TypeOK, HostTypeOK
    <3>5. AnsweredAccounted'
      <4>1. Messages(request) \subseteq delivered' \cup rejected'
        BY <2>1, <2>2, MessagesEmpty
      <4> QED
        BY <1>1, <2>1, <3>1, <4>1 DEF AnsweredAccounted
    <3> QED
      BY <3>1, <3>2, <3>4, <3>5
  <2>3. CASE request' # <<>>
    <3>1. outcome = "unavailable" /\ request' = request /\ HostTicked(FALSE)
      BY <1>4, <2>1, <2>3 DEF FlushOk
    <3>2. UNCHANGED <<delivered, rejected>>
      BY <1>4, <3>1 DEF publish_sync
    <3> QED
      BY <1>3, <3>1, <3>2
  <2> QED
    BY <2>2, <2>3
<1> QED
  BY <1>1, <1>3, <1>4

\* A stop or a crash throws the request away: what it held is above the
\* checkpoint, so the host offers it again.
LEMMA RestartIInv ==
  ASSUME IInv, Crash \/ \E outcome \in Outcomes : Shutdown(outcome)
  PROVE  IInv' /\ checkpoint <= checkpoint'
<1> USE NumMsgsAssumption, RestartAssumption DEF IInv
<1> DEFINE Dropped ==
      /\ request' = <<>> /\ timer' = TRUE /\ refused' = refused
      /\ delivered' \subseteq Msgs /\ rejected' \subseteq Msgs
      /\ delivered \subseteq delivered' /\ rejected \subseteq rejected'
      /\ restarts < MaxRestarts /\ restarts' = restarts + 1
      /\ batching' = FALSE /\ next' = checkpoint' + 1
      /\ \/ checkpoint' = checkpoint
         \/ /\ checkpoint' = next - 1
            /\ Messages(request) \subseteq delivered' \cup rejected'
<1>1. Dropped
  <2>1. CASE Crash
    BY <2>1 DEF Crash, HostRestarts, history, TypeOK
  <2>2. ASSUME NEW outcome \in Outcomes, Shutdown(outcome)
        PROVE  Dropped
    <3>1. /\ publish_sync(request, outcome) /\ HostRestarts(FlushOk(outcome))
          /\ request' = <<>> /\ timer' = TRUE /\ refused' = refused
      BY <2>2 DEF Shutdown
    <3>2. Messages(request) \subseteq Msgs
      BY MessagesTyped
    <3>3. FlushOk(outcome) => Messages(request) \subseteq delivered'
      BY <3>1, MessagesEmpty DEF FlushOk, publish_sync
    <3> QED
      BY <3>1, <3>2, <3>3 DEF HostRestarts, LastAnswered, publish_sync, TypeOK
  <2> QED
    BY <2>1, <2>2
<1>2. next \in 1 .. NumMsgs + 1 /\ checkpoint \in 0 .. NumMsgs /\ checkpoint < next
  BY DEF TypeOK, HostTypeOK, Behind
<1>b. batching' \in BOOLEAN /\ timer' \in BOOLEAN
  BY <1>1, Zenon
<1>3. /\ checkpoint <= checkpoint' /\ checkpoint' \in 0 .. NumMsgs
      /\ next' \in 1 .. NumMsgs + 1 /\ checkpoint' < next'
      /\ restarts' \in 0 .. MaxRestarts /\ next' - 1 = checkpoint'
  BY <1>1, <1>2 DEF TypeOK, HostTypeOK
<1>4. /\ Ahead' /\ Waiting' /\ Held' /\ NoDuplicates'
      /\ Messages(request)' = {} /\ request' \in Seq(Msgs) /\ Len(request') = 0
  BY <1>1, EmptyRequest
<1>5. TypeOK'
  <2>1. /\ delivered' \subseteq Msgs /\ rejected' \subseteq Msgs
        /\ refused' \subseteq Msgs /\ Len(request') <= batch_size
    BY <1>1, <1>4, BatchAssumption DEF TypeOK
  <2> HIDE DEF Dropped
  <2> QED
    BY <1>b, <1>3, <1>4, <2>1 DEF TypeOK, HostTypeOK
<1>6. AnsweredAccounted'
  <2>1. 1 .. checkpoint' \subseteq delivered' \cup rejected' \cup refused'
    <3>1. CASE checkpoint' = checkpoint
      BY <1>1, <3>1, CoveredSettled DEF settled, Covered
    <3>2. CASE checkpoint' = next - 1 /\ Messages(request) \subseteq delivered' \cup rejected'
      BY <1>1, <3>2 DEF AnsweredAccounted
    <3> QED
      BY <1>1, <3>1, <3>2
  <2> QED
    BY <1>3, <2>1 DEF AnsweredAccounted
<1> QED
  BY <1>3, <1>4, <1>5, <1>6 DEF Behind

-----------------------------------------------------------------------------
(* The theorems.                                                           *)

\* Nothing takes an empty message back: a step that ends without one began
\* without one.
LEMMA EmptiedStays ==
  ASSUME ~emptied', [Next]_vars
  PROVE  ~emptied
<1>1. ~PublishEmpty
  BY DEF PublishEmpty
<1>2. CASE UNCHANGED vars
  BY <1>2 DEF vars, history
<1>3. CASE Crash
  BY <1>3 DEF Crash, history
<1>4. ASSUME NEW outcome \in Outcomes,
             ProcessMessage(outcome) \/ TimerEvent(outcome) \/ Shutdown(outcome)
      PROVE  ~emptied
  BY <1>1, <1>4 DEF ProcessMessage, EncodeRefuses, PublishBatched, PublishFull,
                    TimerEvent, Shutdown, history
<1> QED
  BY <1>2, <1>3, <1>4 DEF Next

\* What every step but that of an empty message does: the invariant is kept,
\* the checkpoint does not go back, and nothing settled is taken back.
LEMMA StepCorrect ==
  ASSUME ~emptied', IInv, [Next]_vars
  PROVE  /\ IInv' /\ checkpoint <= checkpoint' /\ settled \subseteq settled'
<1>1. checkpoint \in Nat /\ next \in Nat /\ checkpoint < next
  BY NumMsgsAssumption DEF IInv, TypeOK, HostTypeOK, Behind
<1>2. CASE EncodeRefuses
  BY <1>1, <1>2, EncodeRefusesIInv DEF EncodeRefuses, HostReturn, settled
<1>3. CASE PublishBatched
  BY <1>1, <1>3, PublishBatchedIInv DEF PublishBatched, HostReturn, settled, history
<1>4. ASSUME NEW outcome \in Outcomes, PublishFull(outcome)
      PROVE  IInv' /\ checkpoint <= checkpoint' /\ settled \subseteq settled'
  <2>1. publish_sync(WithMessage, outcome) /\ refused' = refused
        /\ checkpoint' \in {next, checkpoint}
    BY <1>4 DEF PublishFull, HostReturn
  <2>2. settled \subseteq settled'
    BY <2>1 DEF publish_sync, settled
  <2> QED
    BY <1>1, <1>4, <2>1, <2>2, PublishFullIInv
<1>5. ASSUME NEW outcome \in Outcomes, TimerEvent(outcome)
      PROVE  IInv' /\ checkpoint <= checkpoint' /\ settled \subseteq settled'
  BY <1>5, TimerEventIInv DEF TimerEvent, publish_sync, settled
<1>6. ASSUME NEW outcome \in Outcomes, Shutdown(outcome)
      PROVE  IInv' /\ checkpoint <= checkpoint' /\ settled \subseteq settled'
  BY <1>6, RestartIInv DEF Shutdown, publish_sync, settled
<1>7. CASE Crash
  BY <1>7, RestartIInv DEF Crash, history, settled
<1>8. CASE UNCHANGED vars
  BY <1>1, <1>8, StutterIInv DEF vars, host, history, settled
<1>9. ~PublishEmpty
  BY DEF PublishEmpty
<1> QED
  BY <1>2, <1>3, <1>4, <1>5, <1>6, <1>7, <1>8, <1>9 DEF Next, ProcessMessage

\* The strengthening holds in every reachable state without an empty message.
THEOREM InvariantHolds == Spec => [](~emptied => IInv)
<1>1. Init => (~emptied => IInv)
  BY InitIInv
<1>2. (~emptied => IInv) /\ [Next]_vars => (~emptied' => IInv')
  BY EmptiedStays, StepCorrect
<1> QED
  BY <1>1, <1>2, PTL DEF Spec

\* The checkpoint never covers a message of the request.
THEOREM RequestUncovered == Spec => []CheckpointBelowRequest
<1>1. (~emptied => IInv) => CheckpointBelowRequest
  BY DEF IInv, Ahead, CheckpointBelowRequest
<1> QED
  BY <1>1, InvariantHolds, PTL

\* An encoder that never returns empty data never makes the flag true.
LEMMA NeverEmptied ==
  ASSUME EmptyData = FALSE
  PROVE  Spec => []~emptied
<1>1. Init => ~emptied
  BY DEF Init
<1>2. ASSUME ~emptied, [Next]_vars PROVE ~emptied'
  <2>1. ~PublishEmpty
    BY Zenon DEF PublishEmpty
  <2>2. CASE UNCHANGED vars
    BY <1>2, <2>2 DEF vars, history
  <2>3. CASE Crash
    BY <1>2, <2>3 DEF Crash, history
  <2>4. ASSUME NEW outcome \in Outcomes,
               ProcessMessage(outcome) \/ TimerEvent(outcome) \/ Shutdown(outcome)
        PROVE  ~emptied'
    BY <1>2, <2>1, <2>4 DEF ProcessMessage, EncodeRefuses, PublishBatched,
                            PublishFull, TimerEvent, Shutdown, history
  <2> QED
    BY <1>2, <2>2, <2>3, <2>4 DEF Next
<1> QED
  BY <1>1, <1>2, PTL DEF Spec

\* The type invariant: with such an encoder the request never exceeds the
\* batch size and every variable of plugin and host keeps its bounds.
THEOREM TypeCorrect ==
  ASSUME EmptyData = FALSE
  PROVE  Spec => []TypeOK
<1>1. IInv => TypeOK
  BY DEF IInv
<1> QED
  BY <1>1, InvariantHolds, NeverEmptied, PTL

\* With such an encoder no message is twice in a request, however often it is
\* offered.
THEOREM NoneTwice ==
  ASSUME EmptyData = FALSE
  PROVE  Spec => []NoDuplicates
<1>1. IInv => NoDuplicates
  BY DEF IInv
<1> QED
  BY <1>1, InvariantHolds, NeverEmptied, PTL

\* With such an encoder an answered message is in the request or settled.
THEOREM NoneForgotten ==
  ASSUME EmptyData = FALSE
  PROVE  Spec => []AnsweredAccounted
<1>1. IInv => AnsweredAccounted
  BY DEF IInv
<1> QED
  BY <1>1, InvariantHolds, NeverEmptied, PTL

\* The synchronous output implements the contract of OutputContract up to the
\* first empty message: every step is a step of the contract or leaves settled
\* and checkpoint alone.
THEOREM ContractHolds == Spec => ImplementsContract
<1>1. Init => Contract!Init
  BY DEF Init, HostInit, Contract!Init, settled
<1>2. IInv => Covered
  BY CoveredSettled
<1>3. (~emptied => IInv) /\ (~emptied' => IInv' /\ Covered') /\ [Next]_vars
        => [~emptied' => Contract!Next]_<<settled, checkpoint>>
  <2> SUFFICES ASSUME ~emptied', IInv, IInv', Covered', [Next]_vars
               PROVE  Contract!Step
    BY EmptiedStays DEF Contract!Next
  <2>1. checkpoint <= checkpoint' /\ settled \subseteq settled'
    BY StepCorrect
  <2>2. checkpoint \in 0 .. NumMsgs
    BY DEF IInv, TypeOK, HostTypeOK
  <2>3. checkpoint' \in 0 .. NumMsgs /\ settled' \subseteq 1 .. NumMsgs
    BY DEF IInv, TypeOK, HostTypeOK, settled, Msgs
  <2>4. 1 .. checkpoint' \subseteq settled'
    BY DEF Covered
  <2> QED
    BY <2>1, <2>2, <2>3, <2>4, NumMsgsAssumption DEF Contract!Step
<1> QED
  BY <1>1, <1>2, <1>3, InvariantHolds, PTL DEF Spec, ImplementsContract

-----------------------------------------------------------------------------
(* The subscriber: its inductive invariants, by parts.                     *)

Typed ==
  /\ max_async_requests \in Nat /\ errors \in Nat
  /\ pending \in Nat /\ outstanding_requests \in Nat /\ cq \in Seq(SUBSET Published)
  /\ aar \subseteq Published /\ batch \subseteq Published
  /\ acks \subseteq [ids: SUBSET Published, retry_cnt: Int]

\* The messages the script is done with, or never sees again.
Done == handled \cup abandoned

\* What an acknowledgement under way names was handed to the script before.
Sound == \A a \in acks : a.ids \subseteq Done

\* The ids kept are those of messages done with or in the batch.
IdsKept == aar \subseteq Done \cup batch

\* The ids of the batch are kept, and there is a batch in the loop only.
BatchHeld == batch \subseteq aar /\ (batch # {} => phase = "loop")

\* Between two calls the ids kept may be forgotten (StopIdle): they are those of
\* a batch that a Lua error cut off, or settled already.
Settled == phase # "loop" => handled \subseteq acked \cup Ids(acks) \cup ackLost

SafeInv == AckedWereHandled /\ Sound /\ IdsKept
CoverInv == HandledAreAcked /\ BatchHeld /\ Settled
CountInv == Typed /\ PullsBounded

-----------------------------------------------------------------------------
(* Lemmas about a poll.                                                    *)

\* A nonempty set of naturals has a least element, and Min is that.
LEMMA MinOfNaturals ==
  ASSUME NEW S, S \subseteq Nat, S # {}
  PROVE  Min(S) \in S /\ \A y \in S : Min(S) <= y
<1> DEFINE R == OpToRel(<, Nat)
<1>1. PICK x \in S : \A y \in S : ~ (<<y, x>> \in R)
  <2>1. IsWellFoundedOn(R, Nat)
    BY NatLessThanWellFounded
  <2> HIDE DEF R
  <2> QED
    BY <2>1, WFMin
<1>2. \A y \in S : x <= y
  <2> SUFFICES ASSUME NEW y \in S PROVE x <= y
    OBVIOUS
  <2>1. x \in Nat /\ y \in Nat
    OBVIOUS
  <2>2. y < x => <<y, x>> \in R
    BY <2>1 DEF OpToRel
  <2> HIDE DEF R
  <2> QED
    BY <1>1, <2>1, <2>2
<1> QED
  BY <1>2 DEF Min

\* A poll takes no more responses than there are, and one at least if it
\* receives messages.
LEMMA TakenBounds ==
  ASSUME cq \in Seq(SUBSET Published)
  PROVE  /\ Taken \in 0 .. Len(cq)
         /\ Received \subseteq Published
         /\ Received # {} => Taken >= 1
<1> DEFINE full == {i \in DOMAIN cq : cq[i] # {}}
<1>1. Len(cq) \in Nat /\ DOMAIN cq = 1 .. Len(cq)
  OBVIOUS
<1>2. full \subseteq 1 .. Len(cq)
  BY <1>1
<1>3. Taken = IF full = {} THEN Len(cq) ELSE Min(full)
  BY DEF Taken
<1>4. full # {} => Min(full) \in full
  <2>1. full \subseteq Nat
    BY <1>1, <1>2
  <2> HIDE DEF full
  <2> QED
    BY <2>1, MinOfNaturals
<1>5. Taken \in 0 .. Len(cq)
  BY <1>1, <1>2, <1>3, <1>4
<1>6. Received \subseteq Published
  BY <1>1, <1>5 DEF Received
<1> QED
  BY <1>5, <1>6 DEF Received

\* The responses that remain when the first n are taken.
LEMMA RestFacts ==
  ASSUME NEW S, NEW q \in Seq(S), NEW n \in 0 .. Len(q)
  PROVE  SubSeq(q, n + 1, Len(q)) \in Seq(S) /\ Len(SubSeq(q, n + 1, Len(q))) = Len(q) - n
<1>1. Len(q) \in Nat /\ n \in Nat /\ n <= Len(q)
  OBVIOUS
<1>2. SubSeq(q, n + 1, Len(q)) \in Seq(S)
  BY <1>1
<1>3. Len(SubSeq(q, n + 1, Len(q))) = Len(q) - n
  BY <1>1
<1> QED
  BY <1>2, <1>3

\* An acknowledgement sent again is counted.
LEMMA AgainFacts ==
  ASSUME NEW a \in [ids: SUBSET Published, retry_cnt: Int]
  PROVE  [a EXCEPT !.retry_cnt = @ + 1] \in [ids: SUBSET Published, retry_cnt: Int]
<1>1. a.retry_cnt + 1 \in Int /\ a.ids \in SUBSET Published /\ a = [ids |-> a.ids, retry_cnt |-> a.retry_cnt]
  OBVIOUS
<1>2. [a EXCEPT !.retry_cnt = @ + 1] = [ids |-> a.ids, retry_cnt |-> a.retry_cnt + 1]
  BY <1>1
<1> QED
  BY <1>1, <1>2

\* The pulls created keep the number of them within the limit.
LEMMA CreatedBounds ==
  ASSUME max_async_requests \in Nat, NEW n \in Nat, n <= max_async_requests
  PROVE  Created(n) \in Nat /\ n + Created(n) <= max_async_requests
<1> DEFINE pair == {IF Received # {} THEN 2 ELSE 1, max_async_requests - n}
<1>1. CASE (Received = {} /\ n # 0) \/ n >= max_async_requests
  BY <1>1 DEF Created
<1>2. CASE ~((Received = {} /\ n # 0) \/ n >= max_async_requests)
  <2>1. pair \subseteq Nat /\ pair # {}
    BY <1>2
  <2>2. Min(pair) \in pair /\ \A y \in pair : Min(pair) <= y
    <3> HIDE DEF pair
    <3> QED
      BY <2>1, MinOfNaturals
  <2>3. Min(pair) \in Nat /\ Min(pair) <= max_async_requests - n
    BY <2>1, <2>2
  <2>4. Created(n) = Min(pair)
    BY <1>2 DEF Created
  <2> HIDE DEF pair
  <2> QED
    BY <2>3, <2>4
<1> QED
  BY <1>1, <1>2

-----------------------------------------------------------------------------
(* The invariants are inductive.                                           *)

\* The state is well typed and the pulls are counted, over every step.
LEMMA CountInvInductive == CountInv /\ [SubscriberNext]_subscriberVars => CountInv'
<1> SUFFICES ASSUME CountInv, [SubscriberNext]_subscriberVars PROVE CountInv'
  OBVIOUS
<1> USE SubscriberAssumption
<1> USE DEF CountInv, Typed, PullsBounded, config, subscription, pulls, acking, script, past, subscriberVars
<1>1. ASSUME NEW retry_cnt \in RetryCounts, PullAsync(retry_cnt)
      PROVE  CountInv'
  <2> DEFINE left == outstanding_requests - Taken
  <2>1. Taken \in 0 .. Len(cq) /\ Received \subseteq Published /\ Len(cq) \in Nat
    BY TakenBounds
  <2>2. left \in Nat /\ left <= max_async_requests
    BY <2>1
  <2>3. Created(left) \in Nat /\ left + Created(left) <= max_async_requests
    <3> HIDE DEF left
    <3> QED
      BY <2>2, CreatedBounds
  <2>4. cq' \in Seq(SUBSET Published) /\ Len(cq') = Len(cq) - Taken
    <3>1. cq' = SubSeq(cq, Taken + 1, Len(cq))
      BY <1>1 DEF PullAsync
    <3> QED
      BY <2>1, <3>1, RestFacts
  <2>5. /\ outstanding_requests' = left + Created(left)
        /\ pending' = pending + Created(left)
        /\ UNCHANGED <<max_async_requests, errors>>
    BY <1>1 DEF PullAsync
  <2>6. acks' \subseteq [ids: SUBSET Published, retry_cnt: Int]
    BY <1>1 DEF PullAsync, Sent
  <2>7. aar' \subseteq Published /\ batch' \subseteq Published
    BY <1>1, <2>1 DEF PullAsync
  <2> DEFINE n == Created(left)
  <2>8. left + Taken = outstanding_requests
    BY <2>1
  <2> HIDE DEF left, n
  <2>9. n \in Nat /\ outstanding_requests' = left + n /\ pending' = pending + n
    BY <2>3, <2>5 DEF n
  <2>10. outstanding_requests' \in Nat /\ pending' \in Nat
    BY <2>2, <2>9
  <2>11. Typed'
    BY <2>4, <2>5, <2>6, <2>7, <2>10
  <2>12. PullsBounded'
    <3>1. pending + Len(cq) <= left + Taken /\ left + Taken <= pending + Len(cq) + errors
      BY <2>8
    <3>5. /\ pending \in Nat /\ errors \in Nat /\ Len(cq) \in Nat /\ Taken \in Nat /\ left \in Nat
          /\ n \in Nat
      BY <2>1, <2>2, <2>9
    <3>6. pending' + Len(cq') = pending + n + (Len(cq) - Taken) /\ errors' = errors
      BY <2>4, <2>5, <2>9
    <3>2. pending' + Len(cq') <= outstanding_requests'
      <4>1. pending + n + (Len(cq) - Taken) <= left + n
        BY <3>1, <3>5
      <4> QED
        BY <2>9, <3>6, <4>1
    <3>3. outstanding_requests' <= pending' + Len(cq') + errors'
      <4>1. left + n <= pending + n + (Len(cq) - Taken) + errors
        BY <3>1, <3>5
      <4> QED
        BY <2>9, <3>6, <4>1
    <3>4. outstanding_requests' <= max_async_requests'
      BY <2>3, <2>5, <2>9 DEF n
    <3> QED
      BY <3>2, <3>3, <3>4
  <2> QED
    BY <2>11, <2>12
<1>2. ASSUME NEW retry_cnt \in RetryCounts, NEW some \in SUBSET Received,
             PullAsyncFails(retry_cnt, some)
      PROVE  CountInv'
  <2>1. Taken \in 1 .. Len(cq) /\ Received \subseteq Published /\ Len(cq) \in Nat
    BY <1>2, TakenBounds DEF PullAsyncFails
  <2>2. cq' \in Seq(SUBSET Published) /\ Len(cq') = Len(cq) - Taken
    <3>1. cq' = SubSeq(cq, Taken + 1, Len(cq))
      BY <1>2 DEF PullAsyncFails
    <3> QED
      BY <2>1, <3>1, RestFacts
  <2>3. /\ outstanding_requests' = outstanding_requests - Taken + 1
        /\ errors' = errors + 1
        /\ UNCHANGED <<max_async_requests, pending, batch>>
    BY <1>2 DEF PullAsyncFails
  <2>4. acks' \subseteq [ids: SUBSET Published, retry_cnt: Int]
    BY <1>2 DEF PullAsyncFails, Sent
  <2>5. aar' \subseteq Published
    BY <1>2, <2>1 DEF PullAsyncFails
  <2> QED
    BY <2>1, <2>2, <2>3, <2>4, <2>5
<1>3. ASSUME NEW done \in BOOLEAN, NEW S \in Responses, PullSync(done, S)
      PROVE  CountInv'
  BY <1>3 DEF PullSync, Responses
<1>4. ASSUME NEW done \in BOOLEAN, NEW S \in Responses, NEW some \in SUBSET S,
             PullSyncFails(done, S, some)
      PROVE  CountInv'
  BY <1>4 DEF PullSyncFails, Responses
<1>5. ASSUME NEW S \in Responses, Respond(S)
      PROVE  CountInv'
  <2>1. cq' \in Seq(SUBSET Published) /\ Len(cq') = Len(cq) + 1
    BY <1>5 DEF Respond, Responses
  <2> QED
    BY <1>5, <2>1 DEF Respond
<1>6. ASSUME NEW a \in acks, NEW status \in {"ok", "unavailable", "error"}, AckEnds(a, status)
      PROVE  CountInv'
  <2>1. [a EXCEPT !.retry_cnt = @ + 1] \in [ids: SUBSET Published, retry_cnt: Int]
    BY AgainFacts
  <2>2. acks' \subseteq [ids: SUBSET Published, retry_cnt: Int]
    BY <1>6, <2>1 DEF AckEnds
  <2> QED
    BY <1>6, <2>2 DEF AckEnds
<1>7. ASSUME NEW retry_cnt \in RetryCounts, NEW done \in BOOLEAN, Stop(retry_cnt, done)
      PROVE  CountInv'
  <2>1. acks' \subseteq [ids: SUBSET Published, retry_cnt: Int]
    BY <1>7 DEF Stop, Sent
  <2> QED
    BY <1>7, <2>1 DEF Stop
<1>8. CASE Called
  BY <1>8 DEF Called
<1>9. ASSUME NEW m \in Published, Inject(m) \/ Expire(m)
      PROVE  CountInv'
  BY <1>9 DEF Inject, Expire
<1>10. CASE Uncaught
  BY <1>10 DEF Uncaught
<1>11. CASE StopIdle
  BY <1>11 DEF StopIdle
<1>12. CASE Gc
  BY <1>12 DEF Gc
<1>13. CASE SubscriberCrash
  BY <1>13 DEF SubscriberCrash
<1>14. CASE Restart
  BY <1>14 DEF Restart
<1>15. CASE UNCHANGED subscriberVars
  BY <1>15
<1> QED
  BY <1>1, <1>2, <1>3, <1>4, <1>5, <1>6, <1>7, <1>8, <1>9, <1>10, <1>11, <1>12, <1>13, <1>14,
     <1>15, Zenon DEF SubscriberNext, Input, Pull, PullFails, Answer, AckAnswer

\* Only ids of messages the script is done with are sent, over every step.
LEMMA SafeInvInductive == Typed /\ SafeInv /\ [SubscriberNext]_subscriberVars => SafeInv'
<1> SUFFICES ASSUME Typed, SafeInv, [SubscriberNext]_subscriberVars PROVE SafeInv'
  OBVIOUS
<1> USE DEF SafeInv, AckedWereHandled, Sound, IdsKept, Done,
            config, subscription, pulls, acking, script, past, subscriberVars
<1>1. ASSUME NEW retry_cnt \in RetryCounts, PullAsync(retry_cnt)
      PROVE  SafeInv'
  <2>1. \A a \in acks' : a.ids \subseteq Done
    BY <1>1 DEF PullAsync, Sent
  <2> QED
    BY <1>1, <2>1 DEF PullAsync
<1>2. ASSUME NEW retry_cnt \in RetryCounts, NEW some \in SUBSET Received,
             PullAsyncFails(retry_cnt, some)
      PROVE  SafeInv'
  <2>1. \A a \in acks' : a.ids \subseteq Done
    BY <1>2 DEF PullAsyncFails, Sent
  <2> QED
    BY <1>2, <2>1 DEF PullAsyncFails
<1>3. ASSUME NEW done \in BOOLEAN, NEW S \in Responses, PullSync(done, S)
      PROVE  SafeInv'
  BY <1>3 DEF PullSync, AckSync
<1>4. ASSUME NEW done \in BOOLEAN, NEW S \in Responses, NEW some \in SUBSET S,
             PullSyncFails(done, S, some)
      PROVE  SafeInv'
  BY <1>4 DEF PullSyncFails, AckSync
<1>5. ASSUME NEW S \in Responses, Respond(S)
      PROVE  SafeInv'
  BY <1>5 DEF Respond
<1>6. ASSUME NEW a \in acks, NEW status \in {"ok", "unavailable", "error"}, AckEnds(a, status)
      PROVE  SafeInv'
  <2>1. [a EXCEPT !.retry_cnt = @ + 1].ids = a.ids
    BY DEF Typed
  <2>2. \A b \in acks' : b.ids \subseteq Done
    BY <1>6, <2>1 DEF AckEnds
  <2> QED
    BY <1>6, <2>2 DEF AckEnds
<1>7. ASSUME NEW retry_cnt \in RetryCounts, NEW done \in BOOLEAN, Stop(retry_cnt, done)
      PROVE  SafeInv'
  <2>1. \A a \in acks' : a.ids \subseteq Done
    BY <1>7 DEF Stop, Sent
  <2> QED
    BY <1>7, <2>1 DEF Stop, AckSync
<1>8. CASE Called
  BY <1>8 DEF Called
<1>9. ASSUME NEW m \in Published, Inject(m) \/ Expire(m)
      PROVE  SafeInv'
  BY <1>9 DEF Inject, Expire
<1>10. CASE Uncaught
  BY <1>10 DEF Uncaught
<1>11. CASE StopIdle
  BY <1>11 DEF StopIdle
<1>12. CASE Gc
  BY <1>12 DEF Gc
<1>13. CASE SubscriberCrash
  BY <1>13 DEF SubscriberCrash
<1>14. CASE Restart
  BY <1>14 DEF Restart
<1>15. CASE UNCHANGED subscriberVars
  BY <1>15
<1> QED
  BY <1>1, <1>2, <1>3, <1>4, <1>5, <1>6, <1>7, <1>8, <1>9, <1>10, <1>11, <1>12, <1>13, <1>14,
     <1>15, Zenon DEF SubscriberNext, Input, Pull, PullFails, Answer, AckAnswer

\* Ids of acknowledgements, when one is added, and when one is ended.
LEMMA IdsAdd == \A requests, a : Ids(requests \cup {a}) = Ids(requests) \cup a.ids
BY DEF Ids

\* An acknowledgement that ended leaves the ids of the others.
LEMMA IdsEnd ==
  \A requests, a : a \in requests => Ids(requests) = Ids(requests \ {a}) \cup a.ids
BY DEF Ids

\* What send_async_ack hands to gRPC are the ids kept.
LEMMA IdsSent == \A retry_cnt : Ids(Sent(retry_cnt)) = Ids(acks) \cup aar
<1> SUFFICES ASSUME NEW retry_cnt PROVE Ids(Sent(retry_cnt)) = Ids(acks) \cup aar
  OBVIOUS
<1> DEFINE a == [ids |-> aar, retry_cnt |-> retry_cnt]
<1>1. a.ids = aar
  OBVIOUS
<1>2. CASE aar = {}
  BY <1>2 DEF Sent
<1>3. CASE aar # {}
  BY <1>1, <1>3, IdsAdd DEF Sent
<1> QED
  BY <1>2, <1>3

\* No id of a message that was handled is forgotten, over every step.
LEMMA CoverInvInductive == Typed /\ CoverInv /\ [SubscriberNext]_subscriberVars => CoverInv'
<1> SUFFICES ASSUME Typed, CoverInv, [SubscriberNext]_subscriberVars PROVE CoverInv'
  OBVIOUS
<1> USE DEF CoverInv, HandledAreAcked, BatchHeld, Settled,
            config, subscription, pulls, acking, script, past, subscriberVars
<1>0. acks' = acks => Ids(acks)' = Ids(acks)
  BY DEF Ids
<1>1. ASSUME NEW retry_cnt \in RetryCounts, PullAsync(retry_cnt)
      PROVE  CoverInv'
  <2>1. Ids(acks)' = Ids(acks) \cup aar
    BY <1>1, IdsSent DEF PullAsync, Ids
  <2> QED
    BY <1>1, <2>1 DEF PullAsync
<1>2. ASSUME NEW retry_cnt \in RetryCounts, NEW some \in SUBSET Received,
             PullAsyncFails(retry_cnt, some)
      PROVE  CoverInv'
  <2>1. Ids(acks)' = Ids(acks) \cup aar
    BY <1>2, IdsSent DEF PullAsyncFails, Ids
  <2> QED
    BY <1>2, <2>1 DEF PullAsyncFails
<1>3. ASSUME NEW done \in BOOLEAN, NEW S \in Responses, PullSync(done, S)
      PROVE  CoverInv'
  BY <1>0, <1>3 DEF PullSync, AckSync
<1>4. ASSUME NEW done \in BOOLEAN, NEW S \in Responses, NEW some \in SUBSET S,
             PullSyncFails(done, S, some)
      PROVE  CoverInv'
  BY <1>0, <1>4 DEF PullSyncFails, AckSync
<1>5. ASSUME NEW S \in Responses, Respond(S)
      PROVE  CoverInv'
  BY <1>0, <1>5 DEF Respond
<1>6. ASSUME NEW a \in acks, NEW status \in {"ok", "unavailable", "error"}, AckEnds(a, status)
      PROVE  CoverInv'
  <2> DEFINE b == [a EXCEPT !.retry_cnt = @ + 1]
  <2>1. b.ids = a.ids
    BY DEF Typed
  <2>2. Ids(acks) = Ids(acks \ {a}) \cup a.ids
    BY IdsEnd
  <2>3. Ids(acks)' = IF Retried(a, status) THEN Ids(acks) ELSE Ids(acks \ {a})
    <3>1. acks' = IF Retried(a, status) THEN (acks \ {a}) \cup {b} ELSE acks \ {a}
      BY <1>6 DEF AckEnds
    <3> HIDE DEF b
    <3>2. Ids((acks \ {a}) \cup {b}) = Ids(acks \ {a}) \cup a.ids
      BY <2>1, IdsAdd
    <3> QED
      BY <2>2, <3>1, <3>2 DEF Ids
  <2>4. acked \cup Ids(acks) \cup ackLost \subseteq acked' \cup Ids(acks)' \cup ackLost'
    BY <1>6, <2>2, <2>3 DEF AckEnds, Retried
  <2> QED
    BY <1>6, <2>4 DEF AckEnds
<1>7. ASSUME NEW retry_cnt \in RetryCounts, NEW done \in BOOLEAN, Stop(retry_cnt, done)
      PROVE  CoverInv'
  <2>1. Async => Ids(acks)' = Ids(acks) \cup aar
    BY <1>7, IdsSent DEF Stop, Ids
  <2> QED
    BY <1>0, <1>7, <2>1 DEF Stop, AckSync
<1>8. CASE Called
  BY <1>0, <1>8 DEF Called
<1>9. ASSUME NEW m \in Published, Inject(m) \/ Expire(m)
      PROVE  CoverInv'
  BY <1>0, <1>9 DEF Inject, Expire
<1>10. CASE Uncaught
  BY <1>0, <1>10 DEF Uncaught
<1>11. CASE StopIdle
  BY <1>0, <1>11 DEF StopIdle
<1>12. CASE Gc
  BY <1>0, <1>12 DEF Gc
<1>13. CASE SubscriberCrash
  BY <1>13 DEF SubscriberCrash
<1>14. CASE Restart
  BY <1>0, <1>14 DEF Restart
<1>15. CASE UNCHANGED subscriberVars
  BY <1>0, <1>15
<1> QED
  BY <1>1, <1>2, <1>3, <1>4, <1>5, <1>6, <1>7, <1>8, <1>9, <1>10, <1>11, <1>12, <1>13, <1>14,
     <1>15, Zenon DEF SubscriberNext, Input, Pull, PullFails, Answer, AckAnswer

\* The invariants hold initially.
LEMMA InitInvs == SubscriberInit => CountInv /\ SafeInv /\ CoverInv
BY SubscriberAssumption DEF SubscriberInit, CountInv, Typed, PullsBounded, SafeInv, AckedWereHandled,
   Sound, IdsKept, Done, CoverInv, HandledAreAcked, BatchHeld, Settled

-----------------------------------------------------------------------------
(* Theorems.                                                               *)

\* The pulls gRPC owns are those that outstanding_requests counts, but for one
\* that every Lua error inside pull leaves counted, and no more than
\* max_async_requests (pubsub.cpp:794-795, 821-836).
THEOREM PullsCounted == SubscriberSpec => []PullsBounded
<1>1. CountInv /\ [SubscriberNext]_subscriberVars => CountInv'
  BY CountInvInductive
<1>2. CountInv => PullsBounded
  BY DEF CountInv
<1> QED
  BY InitInvs, <1>1, <1>2, PTL DEF SubscriberSpec

\* At least once: only what the script handled is acknowledged, but for the part
\* of a batch that a Lua error cut off (pubsub.cpp:752, 762-784).
THEOREM AtLeastOnce == SubscriberSpec => []AckedWereHandled
<1>1. CountInv /\ SafeInv /\ [SubscriberNext]_subscriberVars => CountInv' /\ SafeInv'
  BY CountInvInductive, SafeInvInductive DEF CountInv
<1>2. SafeInv => AckedWereHandled
  BY DEF SafeInv
<1> QED
  BY InitInvs, <1>1, <1>2, PTL DEF SubscriberSpec

\* What was handled is acknowledged, or will be, or its acknowledgement was given
\* up or lost with the process: no id is forgotten (pubsub.cpp:738, gcp_pubsub.lua:161).
THEOREM NothingForgotten == SubscriberSpec => []HandledAreAcked
<1>1. CountInv /\ CoverInv /\ [SubscriberNext]_subscriberVars => CountInv' /\ CoverInv'
  BY CountInvInductive, CoverInvInductive DEF CountInv
<1>2. CoverInv => HandledAreAcked
  BY DEF CoverInv
<1> QED
  BY InitInvs, <1>1, <1>2, PTL DEF SubscriberSpec
=============================================================================
