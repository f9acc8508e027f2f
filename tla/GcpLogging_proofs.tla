--------------------------- MODULE GcpLogging_proofs ---------------------------
(***************************************************************************)
(* Proofs about GcpLogging, for every number of messages and restarts,     *)
(* every batch size and limit of outstanding requests, and every set of    *)
(* messages that are rejected.                                             *)
(*                                                                         *)
(* Flush neither looks at the limit nor at which message its id is that    *)
(* of.  Both are safe for one reason: a message is put off at the limit    *)
(* only, and there the batch is empty (Limit, PutOff).  The ids then grow  *)
(* with the order of the requests (Ordered), and stay below what still     *)
(* waits in the batch (Ahead).                                             *)
(***************************************************************************)
EXTENDS GcpLogging, TLAPS, FiniteSetTheorems

-----------------------------------------------------------------------------
(* The inductive invariants, by parts.                                     *)

Finite == IsFiniteSet(inflight)

Blocking == ~Async => inflight = {}

\* Ids are those of messages offered before, and no two requests share one.
Named ==
  /\ \A awr \in inflight : awr.sequence_id < next
  /\ \A a, b \in inflight : a.sequence_id = b.sequence_id => a = b

\* The batch will be sent under an id that is higher than those in flight.
Ordered == request # <<>> => \A awr \in inflight : awr.sequence_id < sid

\* A message that is offered again found no batch in front of it.
PutOff == sid <= next /\ (sid = next => request = <<>>)

CountInv == TypeOK /\ Finite /\ Blocking /\ Named /\ Ordered /\ PutOff /\ NothingBatchedAtLimit

\* The batch holds messages above the checkpoint and above every id in flight.
Ahead ==
  /\ checkpoint < next
  /\ \A m \in Messages(request) : checkpoint < m /\ m < next
  /\ \A awr \in inflight : \A m \in Messages(request) : awr.sequence_id < m

\* The host knows of them that they wait.
Waiting == Messages(request) # {} => batching

BelowInv == Ahead /\ Waiting

\* What a completed request became is on record.
Recorded == \A awr \in Completed : Messages(awr.msgs) \subseteq written \cup failed

\* The requests a poll leaves with gRPC, and their messages.
Kept == inflight \ Completed
KeptMsgs == UNION {Messages(awr.msgs) : awr \in Kept}

\* Written, failed, or never to be written.
Settled == written \cup failed \cup bad \cup ignored

Covered == \A m \in Msgs : m <= checkpoint =>
  m \in Settled \/ (max_async_requests > 1 /\ m \in KeptMsgs \cup dropped)

\* A message that was offered is somewhere.
Known == \A m \in Msgs : m < next =>
  m \in Settled \cup Messages(request) \cup KeptMsgs \/ (max_async_requests > 1 /\ m \in dropped)

\* One request at a time is not overtaken by the checkpoint.
Single == max_async_requests <= 1 => \A m \in KeptMsgs : checkpoint < m

AccountInv == Recorded /\ Covered /\ Known /\ Single

-----------------------------------------------------------------------------
(* Lemmas about the batch.                                                 *)

\* An entry added to a request adds its message, if it is one.
LEMMA MessagesAppend ==
  ASSUME NEW req \in Seq(Entries), NEW e \in Entries
  PROVE  Messages(Append(req, e)) = Messages(req) \cup ({e} \ {Incomplete, Partial})
<1> DEFINE app == Append(req, e)
<1>1. Len(req) \in Nat /\ DOMAIN req = 1 .. Len(req) /\ DOMAIN app = (1 .. Len(req)) \cup {Len(req) + 1}
  OBVIOUS
<1>2. \A i \in 1 .. Len(req) : app[i] = req[i]
  OBVIOUS
<1>3. app[Len(req) + 1] = e
  OBVIOUS
<1> HIDE DEF app
<1>4. {app[i] : i \in DOMAIN app} = {req[i] : i \in DOMAIN req} \cup {e}
  BY <1>1, <1>2, <1>3
<1>5. Messages(app) = Messages(req) \cup ({e} \ {Incomplete, Partial})
  BY <1>4 DEF Messages
<1> QED
  BY <1>5 DEF app

\* An empty request has no messages.
LEMMA MessagesEmpty == Messages(<<>>) = {}
BY DEF Messages

\* The messages of a request are messages of the host.
LEMMA MessagesTyped == \A req \in Seq(Entries) : Messages(req) \subseteq Msgs
<1> SUFFICES ASSUME NEW req \in Seq(Entries), NEW i \in DOMAIN req,
                    req[i] \notin {Incomplete, Partial}
             PROVE  req[i] \in Msgs
  BY DEF Messages
<1>1. req[i] \in Entries
  OBVIOUS
<1> QED
  BY <1>1, NumMsgsAssumption DEF Entries, Incomplete, Partial, Msgs

\* Only messages that send rejects leave another entry than themselves.
LEMMA EntryOfNext ==
  ASSUME TypeOK, Offered
  PROVE  /\ Entry(next) \in Entries /\ next \notin {Incomplete, Partial}
         /\ Entry(next) # next => Entry(next) \in {Incomplete, Partial} /\ next \in bad
<1>1. next \in 1 .. NumMsgs /\ mislabelled \subseteq bad
  BY DEF TypeOK, Offered, Msgs
<1>2. Incomplete \in Entries /\ Partial \in Entries /\ next \in Entries
  BY <1>1, NumMsgsAssumption DEF Entries, Incomplete, Partial
<1>3. next \notin {Incomplete, Partial}
  BY <1>1, NumMsgsAssumption DEF Incomplete, Partial
<1>4. CASE ~Identified(next)
  BY <1>1, <1>2, <1>3, <1>4 DEF Entry, Identified
<1>5. CASE Identified(next) /\ ~add_labels(next)
  BY <1>1, <1>2, <1>3, <1>5 DEF Entry, add_labels
<1>6. CASE Identified(next) /\ add_labels(next)
  BY <1>1, <1>2, <1>3, <1>6 DEF Entry
<1> QED
  BY <1>4, <1>5, <1>6

\* The batch after send() has looked at the message.
LEMMA BatchWithEntry ==
  ASSUME TypeOK, Offered
  PROVE  /\ WithEntry \in Seq(Entries) /\ Len(WithEntry) <= batch_size /\ WithEntry # <<>>
         /\ Messages(WithEntry) =
              IF HasRoom /\ ~Rejected THEN Messages(request) \cup {next} ELSE Messages(request)
         /\ ~HasRoom => Full
<1>1. request \in Seq(Entries) /\ Len(request) <= batch_size /\ Len(request) \in Nat
  BY DEF TypeOK
<1>2. batch_size \in Nat \ {0}
  BY LoggingAssumption
<1>3. CASE HasRoom
  <2>1. WithEntry = Append(request, Entry(next)) /\ Entry(next) \in Entries
    BY <1>3, EntryOfNext DEF WithEntry
  <2>2. WithEntry \in Seq(Entries) /\ Len(WithEntry) = Len(request) + 1
    BY <1>1, <2>1
  <2>3. Messages(WithEntry) = Messages(request) \cup ({Entry(next)} \ {Incomplete, Partial})
    BY <1>1, <2>1, MessagesAppend
  <2>4. CASE Rejected
    BY <1>1, <1>2, <1>3, <2>2, <2>3, <2>4, EntryOfNext DEF Rejected, HasRoom
  <2>5. CASE ~Rejected
    BY <1>1, <1>2, <1>3, <2>2, <2>3, <2>5, EntryOfNext DEF Rejected, HasRoom
  <2> QED
    BY <2>4, <2>5
<1>4. CASE ~HasRoom
  <2>1. WithEntry = request /\ Len(request) = batch_size
    BY <1>1, <1>2, <1>4 DEF WithEntry, HasRoom
  <2> QED
    BY <1>1, <1>2, <1>4, <2>1 DEF Full
<1> QED
  BY <1>3, <1>4

-----------------------------------------------------------------------------
(* Lemmas about a poll.                                                    *)

AsyncRequests == [msgs: Seq(Entries), sequence_id: 0 .. NumMsgs, status: {"pending", "ok", "error"}]

\* The id a poll reports is of a request that completed, and moves the checkpoint
\* to a message that was offered before.
LEMMA PollReports ==
  ASSUME CountInv, NEW id \in PollSids
  PROVE  /\ id # 0 => \E awr \in Completed : awr.sequence_id = id
         /\ Polled(id) \in 0 .. NumMsgs
         /\ checkpoint < next => Polled(id) < next
<1>1. inflight \subseteq AsyncRequests /\ checkpoint \in 0 .. NumMsgs
  BY DEF CountInv, TypeOK, HostTypeOK, AsyncRequests
<1>2. id # 0 => \E awr \in Completed : awr.sequence_id = id
  BY DEF PollSids, Completed
<1>3. id # 0 => id \in 0 .. NumMsgs /\ id < next
  BY <1>1, <1>2 DEF Completed, CountInv, Named, AsyncRequests
<1> QED
  BY <1>1, <1>2, <1>3 DEF Polled

\* The requests deleted are counted down.
LEMMA KeptCounted ==
  ASSUME CountInv
  PROVE  /\ IsFiniteSet(Kept) /\ Counted(<<>>) = Cardinality(Kept)
         /\ Cardinality(Kept) \in Nat /\ Cardinality(Kept) <= outstanding_requests
<1>1. IsFiniteSet(inflight) /\ Completed \subseteq inflight
  BY DEF CountInv, Finite, Completed
<1>2. IsFiniteSet(Kept) /\ Cardinality(Kept) = Cardinality(inflight) - Cardinality(inflight \cap Completed)
  BY <1>1, FS_Difference DEF Kept
<1>3. inflight \cap Completed = Completed
  BY <1>1
<1>4. IsFiniteSet(Completed) /\ Cardinality(Completed) \in Nat
  BY <1>1, FS_Subset, FS_CardinalityType
<1>5. Cardinality(Kept) \in Nat /\ Cardinality(inflight) \in Nat
  BY <1>1, <1>2, FS_CardinalityType
<1>6. outstanding_requests = Cardinality(inflight)
  BY DEF CountInv, NothingBatchedAtLimit
<1>7. Counted(<<>>) = outstanding_requests - Cardinality(Completed) + 0
  BY DEF Counted, Deleted
<1>8. Cardinality(Kept) = outstanding_requests - Cardinality(Completed)
  BY <1>2, <1>3, <1>6
<1> QED
  BY <1>2, <1>4, <1>5, <1>6, <1>7, <1>8

\* A request sent under an id above those in flight is counted, and keeps the ids apart.
LEMMA OwnedCounted ==
  ASSUME CountInv, NEW sent \in Seq(Entries), NEW id \in 0 .. NumMsgs,
         sent # <<>> => \A awr \in Kept : awr.sequence_id < id
  PROVE  /\ Owned(sent, id) \subseteq AsyncRequests
         /\ IsFiniteSet(Owned(sent, id)) /\ Counted(sent) = Cardinality(Owned(sent, id))
         /\ Counted(sent) \in Nat
         /\ Counted(sent) = Cardinality(Kept) + (IF sent = <<>> THEN 0 ELSE 1)
         /\ \A a, b \in Owned(sent, id) : a.sequence_id = b.sequence_id => a = b
<1> DEFINE new == [msgs |-> sent, sequence_id |-> id, status |-> "pending"]
<1>1. IsFiniteSet(Kept) /\ Counted(<<>>) = Cardinality(Kept) /\ Cardinality(Kept) \in Nat
  BY KeptCounted
<1>2. Kept \subseteq AsyncRequests /\ Kept \subseteq inflight
  BY DEF Kept, CountInv, TypeOK, AsyncRequests
<1>3. \A a, b \in Kept : a.sequence_id = b.sequence_id => a = b
  BY <1>2 DEF CountInv, Named
<1>4. new \in AsyncRequests /\ new.sequence_id = id
  BY DEF AsyncRequests
<1>5. Owned(sent, id) = Kept \cup (IF sent = <<>> THEN {} ELSE {new})
  BY DEF Owned, Kept
<1>6. Counted(sent) = Counted(<<>>) + (IF sent = <<>> THEN 0 ELSE 1)
  <2>1. outstanding_requests \in Nat /\ Deleted \in Nat
    <3>1. IsFiniteSet(inflight) /\ Completed \in SUBSET inflight
      BY DEF CountInv, Finite, Completed
    <3>2. IsFiniteSet(Completed)
      BY <3>1, FS_Subset
    <3> QED
      BY <3>2, FS_CardinalityType DEF CountInv, TypeOK, Deleted
  <2> QED
    BY <2>1 DEF Counted
<1>7. CASE sent = <<>>
  BY <1>1, <1>2, <1>3, <1>5, <1>6, <1>7
<1>8. CASE sent # <<>>
  <2> HIDE DEF new
  <2>1. \A awr \in Kept : awr.sequence_id \in 0 .. NumMsgs /\ awr.sequence_id < id
    BY <1>2, <1>8 DEF AsyncRequests
  <2>2. new \notin Kept
    BY <1>4, <2>1
  <2>3. Owned(sent, id) = Kept \cup {new}
    BY <1>5, <1>8
  <2>4. IsFiniteSet(Kept \cup {new}) /\ Cardinality(Kept \cup {new}) = Cardinality(Kept) + 1
    BY <1>1, <2>2, FS_AddElement
  <2>5. \A a, b \in Kept \cup {new} : a.sequence_id = b.sequence_id => a = b
    BY <1>3, <1>4, <2>1
  <2> QED
    BY <1>1, <1>2, <1>4, <1>6, <1>8, <2>3, <2>4, <2>5
<1> QED
  BY <1>7, <1>8

-----------------------------------------------------------------------------
(* Type correctness is inductive.                                          *)

\* What the actions have in common.
RestTyped ==
  /\ max_async_requests \in Limits /\ bad \subseteq Msgs /\ mislabelled \subseteq bad
  /\ written \subseteq Msgs /\ failed \subseteq Msgs /\ ignored \subseteq Msgs
  /\ dropped \subseteq Msgs

\* The type invariant, variable by variable.
LEMMA TypeParts ==
  TypeOK <=> /\ HostTypeOK /\ RestTyped
             /\ request \in Seq(Entries) /\ Len(request) <= batch_size
             /\ inflight \subseteq AsyncRequests /\ outstanding_requests \in Nat
             /\ timer \in BOOLEAN /\ closing \in BOOLEAN /\ sid \in 0 .. NumMsgs
BY Zenon DEF TypeOK, RestTyped, AsyncRequests

\* Every step leads to a well typed state.
LEMMA TypeInductive == CountInv /\ [Next]_vars => TypeOK'
<1> SUFFICES ASSUME CountInv, [Next]_vars PROVE TypeOK'
  OBVIOUS
<1> DEFINE Goal == /\ HostTypeOK /\ RestTyped
                   /\ request \in Seq(Entries) /\ Len(request) <= batch_size
                   /\ inflight \subseteq AsyncRequests /\ outstanding_requests \in Nat
                   /\ timer \in BOOLEAN /\ closing \in BOOLEAN /\ sid \in 0 .. NumMsgs
<1>0. Goal /\ TypeOK /\ Goal' = TypeOK'
  <2>1. TypeOK /\ Goal
    BY TypeParts DEF CountInv
  <2>2. Goal' <=> TypeOK'
    BY Zenon DEF TypeOK, RestTyped, AsyncRequests
  <2>3. Goal' \in BOOLEAN /\ TypeOK' \in BOOLEAN
    BY Zenon DEF TypeOK
  <2> QED
    BY <2>1, <2>2, <2>3
<1> SUFFICES Goal'
  BY <1>0
<1>e. <<>> \in Seq(Entries) /\ Len(<<>>) <= batch_size
  BY LoggingAssumption
<1>h. next \in 1 .. NumMsgs + 1 /\ checkpoint \in 0 .. NumMsgs /\ restarts \in 0 .. MaxRestarts
  BY <1>0 DEF HostTypeOK
<1> USE NumMsgsAssumption, RestartAssumption DEF config, pending, history, host, vars
<1>1. ASSUME NEW awr \in inflight, NEW outcome \in {"ok", "error"}, Complete(awr, outcome)
      PROVE  Goal'
  <2>1. Messages(awr.msgs) \subseteq Msgs
    BY <1>0, MessagesTyped DEF AsyncRequests
  <2>2. [awr EXCEPT !.status = outcome] \in AsyncRequests
    BY <1>0 DEF AsyncRequests
  <2>3. inflight' \subseteq AsyncRequests
    BY <1>0, <1>1, <2>2 DEF Complete
  <2>4. RestTyped'
    BY <1>0, <1>1, <2>1 DEF Complete, RestTyped
  <2>5. HostTypeOK'
    BY <1>0, <1>1 DEF Complete, HostTypeOK
  <2> QED
    BY <1>0, <1>1, <2>3, <2>4, <2>5 DEF Complete
<1>2. ASSUME NEW outcome \in {"ok", "error"}, SendFull(outcome)
      PROVE  Goal'
  <2>1. Messages(WithEntry) \subseteq Msgs /\ next \in Msgs
    BY <1>0, <1>2, BatchWithEntry, MessagesTyped DEF SendFull, Offered
  <2>2. RestTyped'
    BY <1>0, <1>2, <2>1 DEF SendFull, RestTyped, write_sync, Ignored
  <2>3. timer' \in BOOLEAN /\ batching' \in BOOLEAN
    BY <1>0, <1>2, Zenon DEF SendFull, HostReturn, HostTypeOK
  <2>4. next' \in 1 .. NumMsgs + 1 /\ checkpoint' \in 0 .. NumMsgs /\ restarts' = restarts
    BY <1>h, <1>2, <2>1 DEF SendFull, HostReturn, Msgs
  <2> QED
    BY <1>0, <1>e, <1>h, <1>2, <2>2, <2>3, <2>4 DEF SendFull, HostTypeOK
<1>3. CASE SendBatched
  <2>1. next \in Msgs /\ WithEntry \in Seq(Entries) /\ Len(WithEntry) <= batch_size
    BY <1>0, <1>3, BatchWithEntry DEF SendBatched, Offered
  <2>2. RestTyped'
    BY <1>0, <1>3 DEF SendBatched, RestTyped
  <2>3. batching' \in BOOLEAN
    BY <1>0, <1>3, Zenon DEF SendBatched, HostReturn, HostTypeOK
  <2>4. next' \in 1 .. NumMsgs + 1 /\ checkpoint' \in 0 .. NumMsgs /\ restarts' = restarts
    BY <1>h, <1>3, <2>1 DEF SendBatched, HostReturn, Msgs
  <2> QED
    BY <1>0, <1>h, <1>3, <2>1, <2>2, <2>3, <2>4 DEF SendBatched, HostTypeOK
<1>4. ASSUME NEW id \in PollSids, SendAsync(id)
      PROVE  Goal'
  <2> DEFINE sent == IF ~TooManyOutstanding /\ ~Rejected /\ Full THEN WithEntry ELSE <<>>
  <2>1. next \in Msgs /\ WithEntry \in Seq(Entries) /\ Len(WithEntry) <= batch_size
    BY <1>0, <1>4, BatchWithEntry DEF SendAsync, Offered
  <2>2. sent \in Seq(Entries) /\ next \in 0 .. NumMsgs
    BY <1>e, <2>1 DEF Msgs
  <2>3. \A awr \in Kept : awr.sequence_id < next
    BY DEF CountInv, Named, Kept
  <2>4. inflight' = Owned(sent, next) /\ outstanding_requests' = Counted(sent)
    BY <1>4 DEF SendAsync
  <2>5. inflight' \subseteq AsyncRequests /\ outstanding_requests' \in Nat
    <3> HIDE DEF sent
    <3> QED
      BY <2>2, <2>3, <2>4, OwnedCounted
  <2>6. request' \in Seq(Entries) /\ Len(request') <= batch_size
    BY <1>0, <1>e, <1>4, <2>1 DEF SendAsync
  <2>7. RestTyped'
    BY <1>0, <1>4, <2>1 DEF SendAsync, RestTyped, Ignored
  <2>8. timer' \in BOOLEAN /\ batching' \in BOOLEAN
    BY <1>0, <1>4, Zenon DEF SendAsync, AsyncReturn, HostTypeOK
  <2>9. next' \in 1 .. NumMsgs + 1 /\ checkpoint' \in 0 .. NumMsgs /\ restarts' = restarts
    BY <1>h, <1>4, <2>1, PollReports DEF SendAsync, AsyncReturn, Msgs
  <2>10. sid' \in 0 .. NumMsgs /\ UNCHANGED closing
    BY <1>4, <2>2 DEF SendAsync
  <2> QED
    BY <1>0, <1>h, <2>5, <2>6, <2>7, <2>8, <2>9, <2>10 DEF HostTypeOK
<1>5. ASSUME NEW id \in PollSids, NEW shutdown \in BOOLEAN, FlushAsync(id, shutdown), closing' \in BOOLEAN
      PROVE  Goal'
  <2> DEFINE sent == IF FlushDue(shutdown) THEN request ELSE <<>>
  <2>1. sent \in Seq(Entries) /\ sid \in 0 .. NumMsgs
    BY <1>0, <1>e
  <2>2. sent # <<>> => \A awr \in Kept : awr.sequence_id < sid
    BY DEF CountInv, Ordered, Kept
  <2>3. inflight' = Owned(sent, sid) /\ outstanding_requests' = Counted(sent)
    BY <1>5 DEF FlushAsync
  <2>4. inflight' \subseteq AsyncRequests /\ outstanding_requests' \in Nat
    <3> HIDE DEF sent
    <3> QED
      BY <2>1, <2>2, <2>3, OwnedCounted
  <2>5. RestTyped'
    BY <1>0, <1>5 DEF FlushAsync, RestTyped
  <2>6. HostTypeOK'
    BY <1>0, <1>5, PollReports DEF FlushAsync, HostTypeOK
  <2>7. request' \in Seq(Entries) /\ Len(request') <= batch_size
    BY <1>0, <1>e, <1>5 DEF FlushAsync
  <2> QED
    BY <1>0, <1>5, <2>4, <2>5, <2>6, <2>7 DEF FlushAsync
<1>6. CASE TimerSync
  BY <1>0, <1>6 DEF TimerSync, RestTyped, HostTypeOK
<1>7. ASSUME NEW id \in PollSids, TimerAsync(id)
      PROVE  Goal'
  BY <1>0, <1>5, <1>7 DEF TimerAsync
<1>8. ASSUME NEW id \in PollSids, Shutdown(id)
      PROVE  Goal'
  BY <1>5, <1>8 DEF Shutdown
<1>9. ASSUME Restarted, RestTyped', checkpoint' \in 0 .. NumMsgs
      PROVE  Goal'
  <2>1. HostTypeOK'
    <3>1. batching' \in BOOLEAN
      BY <1>9, Zenon DEF Restarted
    <3>2. restarts < MaxRestarts /\ restarts' = restarts + 1 /\ next' = checkpoint' + 1
      BY <1>9 DEF Restarted
    <3>3. restarts' \in 0 .. MaxRestarts
      BY <1>h, <3>2
    <3>4. next' \in 1 .. NumMsgs + 1
      <4>1. \A c \in 0 .. NumMsgs : c + 1 \in 1 .. NumMsgs + 1
        OBVIOUS
      <4> QED
        BY <1>9, <3>2, <4>1, Zenon
    <3> QED
      BY <1>9, <3>1, <3>3, <3>4 DEF HostTypeOK
  <2>2. /\ request' = <<>> /\ inflight' = {} /\ outstanding_requests' = 0
        /\ timer' = TRUE /\ sid' = 0 /\ closing' = FALSE
    BY <1>9 DEF Restarted
  <2>3. timer' \in BOOLEAN /\ closing' \in BOOLEAN
    BY <2>2
  <2>4. request' \in Seq(Entries) /\ Len(request') <= batch_size
    BY <1>e, <2>2
  <2>5. inflight' \subseteq AsyncRequests /\ outstanding_requests' \in Nat /\ sid' \in 0 .. NumMsgs
    BY <2>2
  <2> QED
    BY <1>9, <2>1, <2>3, <2>4, <2>5
<1>10. ASSUME NEW id \in PollSids, GcAsync(id)
       PROVE  Goal'
  <2>1. RestTyped'
    BY <1>0, <1>10 DEF GcAsync, RestTyped
  <2> QED
    BY <1>9, <1>10, <2>1, PollReports DEF GcAsync
<1>11. CASE Crash
  <2>1. UNION {Messages(awr.msgs) : awr \in inflight \ Completed} \subseteq Msgs
    <3>1. \A awr \in inflight : Messages(awr.msgs) \subseteq Msgs
      BY <1>0, MessagesTyped DEF AsyncRequests
    <3> QED
      BY <3>1
  <2>2. RestTyped'
    BY <1>0, <1>11, <2>1 DEF Crash, RestTyped
  <2>3. Restarted /\ checkpoint' \in 0 .. NumMsgs
    BY <1>h, <1>11 DEF Crash
  <2> QED
    BY <1>9, <2>2, <2>3
<1>12. CASE UNCHANGED vars
  BY <1>0, <1>12 DEF RestTyped, HostTypeOK
<1> QED
  BY <1>1, <1>2, <1>3, <1>4, <1>6, <1>7, <1>8, <1>10, <1>11, <1>12, Zenon
     DEF Next, ProcessMessage, TimerEvent, Service

-----------------------------------------------------------------------------
(* The limit and the order of the ids are inductive.                       *)

\* Requests and the batch together stay within the limit, over every step.
LEMMA CountInductive == CountInv /\ [Next]_vars => CountInv'
<1> SUFFICES ASSUME CountInv, [Next]_vars PROVE CountInv'
  OBVIOUS
<1> DEFINE Goal == Finite /\ Blocking /\ Named /\ Ordered /\ PutOff /\ NothingBatchedAtLimit
<1>0. TypeOK' /\ (Goal' => CountInv')
  BY TypeInductive DEF CountInv
<1> SUFFICES Goal'
  BY <1>0
<1>t. /\ next \in 1 .. NumMsgs + 1 /\ sid \in 0 .. NumMsgs /\ max_async_requests \in Nat
      /\ outstanding_requests \in Nat /\ inflight \subseteq AsyncRequests
      /\ request \in Seq(Entries)
  BY LoggingAssumption DEF CountInv, TypeOK, HostTypeOK, AsyncRequests
<1>c. /\ Finite /\ Blocking /\ Named /\ Ordered /\ PutOff
      /\ outstanding_requests = Cardinality(inflight)
      /\ Async => outstanding_requests + (IF request = <<>> THEN 0 ELSE 1) <= max_async_requests
  BY DEF CountInv, NothingBatchedAtLimit
<1> USE NumMsgsAssumption DEF config, pending, history, host, vars, Async
<1>1. ASSUME NEW awr \in inflight, NEW outcome \in {"ok", "error"}, Complete(awr, outcome)
      PROVE  Goal'
  <2> DEFINE new == [awr EXCEPT !.status = outcome]
             rest == inflight \ {awr}
  <2>1. new.sequence_id = awr.sequence_id
    BY <1>t DEF AsyncRequests
  <2>2. inflight' = rest \cup {new}
        /\ UNCHANGED <<max_async_requests, request, outstanding_requests, sid, next>>
    BY <1>1 DEF Complete
  <2> HIDE DEF new
  <2>3. \A b \in rest : b.sequence_id # awr.sequence_id
    BY <1>c DEF Named
  <2>4. new \notin rest
    BY <2>1, <2>3
  <2>5. IsFiniteSet(rest) /\ Cardinality(rest) = Cardinality(inflight) - 1
    BY <1>c, FS_RemoveElement DEF Finite
  <2>6. IsFiniteSet(rest \cup {new}) /\ Cardinality(rest \cup {new}) = Cardinality(rest) + 1
    BY <2>4, <2>5, FS_AddElement
  <2>7. Finite' /\ outstanding_requests' = Cardinality(inflight')
    BY <1>t, <1>c, <2>2, <2>5, <2>6 DEF Finite
  <2>8. Named'
    BY <1>c, <2>1, <2>2, <2>3 DEF Named
  <2>9. Blocking' /\ Ordered' /\ PutOff'
    BY <1>c, <2>1, <2>2 DEF Blocking, Ordered, PutOff
  <2> QED
    BY <1>c, <2>2, <2>7, <2>8, <2>9 DEF NothingBatchedAtLimit
<1>2. ASSUME ~Async, next' = next + 1 \/ next' = next, next' = next => UNCHANGED request,
             UNCHANGED <<max_async_requests, inflight, outstanding_requests, sid>>
      PROVE  Goal'
  <2>1. inflight = {} /\ inflight' = {} /\ ~Async'
    BY <1>c, <1>2 DEF Blocking
  <2>2. PutOff'
    BY <1>t, <1>c, <1>2 DEF PutOff
  <2> QED
    BY <1>c, <1>2, <2>1, <2>2 DEF Finite, Blocking, Named, Ordered, NothingBatchedAtLimit
<1>3. ASSUME NEW outcome \in {"ok", "error"}, SendFull(outcome)
      PROVE  Goal'
  <2>1. next' = next + 1
    BY <1>3 DEF SendFull, HostReturn
  <2>2. next' # next
    BY <1>t, <2>1
  <2> QED
    BY <1>2, <1>3, <2>1, <2>2 DEF SendFull
<1>4. CASE SendBatched
  <2>1. next' = next + 1
    BY <1>4 DEF SendBatched, HostReturn
  <2>2. next' # next
    BY <1>t, <2>1
  <2> QED
    BY <1>2, <1>4, <2>1, <2>2 DEF SendBatched
<1>5. CASE TimerSync
  BY <1>2, <1>5 DEF TimerSync
<1>6. ASSUME NEW id \in PollSids, SendAsync(id)
      PROVE  Goal'
  <2> DEFINE sent == IF ~TooManyOutstanding /\ ~Rejected /\ Full THEN WithEntry ELSE <<>>
  <2>1. next \in Msgs /\ WithEntry \in Seq(Entries) /\ WithEntry # <<>>
    BY <1>6, BatchWithEntry DEF SendAsync, Offered, CountInv
  <2>2. sent \in Seq(Entries) /\ next \in 0 .. NumMsgs
    BY <2>1 DEF Msgs
  <2>3. \A awr \in Kept : awr.sequence_id < next
    BY <1>c DEF Named, Kept
  <2>4. /\ inflight' = Owned(sent, next) /\ outstanding_requests' = Counted(sent)
        /\ request' = IF TooManyOutstanding THEN request ELSE IF sent # <<>> THEN <<>> ELSE WithEntry
        /\ sid' = next /\ UNCHANGED max_async_requests
    BY <1>6 DEF SendAsync
  <2>5. next' = IF TooManyOutstanding THEN next ELSE next + 1
    BY <1>6 DEF SendAsync, AsyncReturn
  <2>6. TooManyOutstanding => sent = <<>>
    OBVIOUS
  <2>7. sent # <<>> => ~TooManyOutstanding
    OBVIOUS
  <2>8. TooManyOutstanding <=> Cardinality(Kept) >= max_async_requests
    BY KeptCounted DEF TooManyOutstanding
  <2>9. Cardinality(Kept) \in Nat /\ Cardinality(Kept) <= outstanding_requests
    BY KeptCounted
  <2> HIDE DEF sent
  <2>10. /\ IsFiniteSet(inflight') /\ outstanding_requests' = Cardinality(inflight')
         /\ outstanding_requests' = Cardinality(Kept) + (IF sent = <<>> THEN 0 ELSE 1)
         /\ \A a, b \in inflight' : a.sequence_id = b.sequence_id => a = b
    BY <2>2, <2>3, <2>4, OwnedCounted
  <2>11. TooManyOutstanding => request = <<>>
    BY <1>t, <1>c, <1>6, <2>8, <2>9 DEF SendAsync
  <2>12. \A awr \in inflight' : awr \in Kept \/ (sent # <<>> /\ awr.sequence_id = next)
    BY <2>4 DEF Owned, Kept
  <2>13. \A awr \in inflight' : awr.sequence_id \in Int
    <3>1. \A awr \in Kept : awr.sequence_id \in Int
      BY <1>t DEF Kept, AsyncRequests
    <3> QED
      BY <1>t, <2>12, <3>1
  <2>14. Named'
    BY <1>t, <2>3, <2>5, <2>7, <2>10, <2>12, <2>13 DEF Named
  <2>15. Ordered'
    BY <2>3, <2>4, <2>7, <2>11, <2>12 DEF Ordered
  <2>16. PutOff'
    BY <1>t, <2>4, <2>5, <2>11 DEF PutOff
  <2>17. NothingBatchedAtLimit'
    <3>1. outstanding_requests' + (IF request' = <<>> THEN 0 ELSE 1) <= max_async_requests
      <4>1. CASE TooManyOutstanding
        BY <1>t, <1>c, <1>6, <2>4, <2>6, <2>9, <2>10, <2>11, <4>1 DEF SendAsync
      <4>2. CASE ~TooManyOutstanding
        BY <1>t, <2>4, <2>8, <2>9, <2>10, <4>2
      <4> QED
        BY <4>1, <4>2
    <3> QED
      BY <2>4, <2>10, <3>1 DEF NothingBatchedAtLimit
  <2> QED
    BY <1>6, <2>4, <2>10, <2>14, <2>15, <2>16, <2>17 DEF Finite, Blocking, SendAsync
<1>7. ASSUME NEW id \in PollSids, NEW shutdown \in BOOLEAN, FlushAsync(id, shutdown)
      PROVE  Goal'
  <2> DEFINE sent == IF FlushDue(shutdown) THEN request ELSE <<>>
  <2>1. sent \in Seq(Entries)
    BY <1>t
  <2>2. sent # <<>> => \A awr \in Kept : awr.sequence_id < sid
    BY <1>c DEF Ordered, Kept
  <2>3. inflight' = Owned(sent, sid) /\ outstanding_requests' = Counted(sent)
        /\ request' = (IF sent # <<>> THEN <<>> ELSE request)
        /\ UNCHANGED <<max_async_requests, sid, next>>
    BY <1>7 DEF FlushAsync
  <2>4. sent # <<>> => request # <<>>
    OBVIOUS
  <2>5. Cardinality(Kept) \in Nat /\ Cardinality(Kept) <= outstanding_requests
    BY KeptCounted
  <2> HIDE DEF sent
  <2>6. /\ IsFiniteSet(inflight') /\ outstanding_requests' = Cardinality(inflight')
        /\ outstanding_requests' = Cardinality(Kept) + (IF sent = <<>> THEN 0 ELSE 1)
        /\ \A a, b \in inflight' : a.sequence_id = b.sequence_id => a = b
    BY <1>t, <2>1, <2>2, <2>3, OwnedCounted
  <2>7. \A awr \in inflight' : awr \in inflight \/ (sent # <<>> /\ awr.sequence_id = sid)
    BY <2>3 DEF Owned
  <2>8. Named'
    BY <1>t, <1>c, <2>3, <2>4, <2>6, <2>7 DEF Named, PutOff
  <2>9. Ordered' /\ PutOff'
    BY <1>c, <2>3, <2>4, <2>7 DEF Ordered, PutOff
  <2>10. NothingBatchedAtLimit'
    <3>1. outstanding_requests' + (IF request' = <<>> THEN 0 ELSE 1) <= max_async_requests
      BY <1>t, <1>c, <1>7, <2>3, <2>4, <2>5, <2>6 DEF FlushAsync
    <3> QED
      BY <2>3, <2>6, <3>1 DEF NothingBatchedAtLimit
  <2> QED
    BY <1>7, <2>3, <2>6, <2>8, <2>9, <2>10 DEF Finite, Blocking, FlushAsync
<1>8. ASSUME NEW id \in PollSids, TimerAsync(id) \/ Shutdown(id)
      PROVE  Goal'
  BY <1>7, <1>8 DEF TimerAsync, Shutdown
<1>9. ASSUME Restarted, UNCHANGED max_async_requests
      PROVE  Goal'
  <2>1. /\ inflight' = {} /\ request' = <<>> /\ outstanding_requests' = 0 /\ sid' = 0
    BY <1>9 DEF Restarted
  <2>2. next' \in Nat \ {0}
    BY <1>0 DEF TypeOK, HostTypeOK
  <2>3. IsFiniteSet(inflight') /\ Cardinality(inflight') = 0
    BY <2>1, FS_EmptySet
  <2>4. PutOff' /\ Named' /\ Ordered' /\ Blocking'
    BY <2>1, <2>2 DEF PutOff, Named, Ordered, Blocking
  <2> QED
    BY <1>t, <1>9, <2>1, <2>3, <2>4 DEF Finite, NothingBatchedAtLimit
<1>10. ASSUME NEW id \in PollSids, GcAsync(id)
       PROVE  Goal'
  BY <1>9, <1>10 DEF GcAsync
<1>11. CASE Crash
  BY <1>9, <1>11 DEF Crash
<1>12. CASE UNCHANGED vars
  BY <1>c, <1>12 DEF Finite, Blocking, Named, Ordered, PutOff, NothingBatchedAtLimit
<1> QED
  BY <1>1, <1>3, <1>4, <1>5, <1>6, <1>8, <1>10, <1>11, <1>12, Zenon
     DEF Next, ProcessMessage, TimerEvent, Service

-----------------------------------------------------------------------------
(* The checkpoint stays below the batch.                                   *)

\* The batch stays above the checkpoint and the ids in flight, over every step.
LEMMA BelowInductive == CountInv /\ BelowInv /\ [Next]_vars => BelowInv'
<1> SUFFICES ASSUME CountInv, BelowInv, [Next]_vars PROVE BelowInv'
  OBVIOUS
<1>t. /\ next \in 1 .. NumMsgs + 1 /\ checkpoint \in 0 .. NumMsgs /\ TypeOK
      /\ inflight \subseteq AsyncRequests /\ request \in Seq(Entries)
  BY DEF CountInv, TypeOK, HostTypeOK, AsyncRequests
<1>m. \A m \in Messages(request) : m \in Nat
  BY <1>t, MessagesTyped DEF Msgs
<1>i. \A awr \in inflight : awr.sequence_id \in Nat /\ awr.sequence_id < next
  BY <1>t DEF AsyncRequests, CountInv, Named
<1>c. Ahead /\ Waiting
  BY DEF BelowInv
<1> USE DEF config, pending, history, host, vars, BelowInv
<1>1. ASSUME NEW awr \in inflight, NEW outcome \in {"ok", "error"}, Complete(awr, outcome)
      PROVE  BelowInv'
  <2> DEFINE new == [awr EXCEPT !.status = outcome]
  <2>1. new.sequence_id = awr.sequence_id
    BY <1>t DEF AsyncRequests
  <2>2. inflight' = (inflight \ {awr}) \cup {new} /\ UNCHANGED <<request, next, checkpoint, batching>>
    BY <1>1 DEF Complete
  <2> HIDE DEF new
  <2> QED
    BY <1>c, <2>1, <2>2 DEF Ahead, Waiting
<1>2. ASSUME NEW outcome \in {"ok", "error"}, SendFull(outcome)
      PROVE  BelowInv'
  <2>1. next' = next + 1 /\ checkpoint' \in {next, checkpoint} /\ request' = <<>>
    BY <1>2 DEF SendFull, HostReturn
  <2> QED
    BY <1>t, <1>c, <2>1, MessagesEmpty DEF Ahead, Waiting
<1>3. CASE SendBatched
  <2>1. next' = next + 1 /\ request' = WithEntry /\ HasRoom /\ ~Async /\ UNCHANGED inflight
    BY <1>t, <1>3, BatchWithEntry DEF SendBatched, HostReturn, Rejected
  <2>2. inflight' = {}
    BY <2>1 DEF CountInv, Blocking
  <2>3. Messages(request') = IF Rejected THEN Messages(request) ELSE Messages(request) \cup {next}
    BY <1>t, <1>3, <2>1, BatchWithEntry DEF SendBatched
  <2>4. /\ checkpoint' = IF Rejected /\ ~batching THEN next ELSE checkpoint
        /\ Rejected => batching' = batching
        /\ ~Rejected => batching' = TRUE
    BY <1>3 DEF SendBatched, HostReturn
  <2>5. \A m \in Messages(request') : checkpoint' < m /\ m < next'
    BY <1>t, <1>m, <1>c, <2>1, <2>3, <2>4 DEF Ahead, Waiting
  <2>6. checkpoint' < next'
    BY <1>t, <1>c, <2>1, <2>4 DEF Ahead
  <2>7. Waiting'
    BY <1>c, <2>3, <2>4 DEF Waiting
  <2> QED
    BY <2>2, <2>5, <2>6, <2>7 DEF Ahead
<1>4. ASSUME NEW id \in PollSids
      PROVE  /\ Polled(id) \in Nat /\ Polled(id) < next
             /\ \A m \in Messages(request) : Polled(id) < m
  <2>1. Polled(id) \in Nat /\ Polled(id) < next
    BY <1>c, <1>4, PollReports DEF Ahead
  <2>2. id # 0 => \E awr \in inflight : awr.sequence_id = id
    BY <1>4, PollReports DEF Completed
  <2> QED
    BY <1>c, <2>1, <2>2 DEF Polled, Ahead
<1>5. ASSUME NEW id \in PollSids, SendAsync(id)
      PROVE  BelowInv'
  <2> DEFINE sent == IF ~TooManyOutstanding /\ ~Rejected /\ Full THEN WithEntry ELSE <<>>
  <2>1. /\ request' = IF TooManyOutstanding THEN request ELSE IF sent # <<>> THEN <<>> ELSE WithEntry
        /\ inflight' = Owned(sent, next)
    BY <1>5 DEF SendAsync
  <2>2. next' = IF TooManyOutstanding THEN next ELSE next + 1
    BY <1>5 DEF SendAsync, AsyncReturn
  <2>3. checkpoint' = IF ~TooManyOutstanding /\ Rejected /\ ~batching THEN next ELSE Polled(id)
    BY <1>5 DEF SendAsync, AsyncReturn
  <2>4. batching' = (batching \/ (~TooManyOutstanding /\ ~Rejected))
    BY <1>5 DEF SendAsync, AsyncReturn
  <2>5. TooManyOutstanding => sent = <<>>
    OBVIOUS
  <2> HIDE DEF sent
  <2>6. Messages(WithEntry) = IF HasRoom /\ ~Rejected THEN Messages(request) \cup {next} ELSE Messages(request)
    BY <1>t, <1>5, BatchWithEntry DEF SendAsync
  <2>7. \A m \in Messages(request') :
          m \in Messages(request) \/ (m = next /\ ~TooManyOutstanding /\ ~Rejected)
    BY <2>1, <2>6, MessagesEmpty
  <2>8. sent # <<>> => Messages(request') = {}
    BY <2>1, <2>5, MessagesEmpty
  <2>9. checkpoint' < next'
    BY <1>t, <1>4, <2>2, <2>3
  <2>10. \A m \in Messages(request') : checkpoint' < m /\ m < next'
    BY <1>t, <1>m, <1>c, <1>4, <2>2, <2>3, <2>7 DEF Ahead, Waiting
  <2>11. \A awr \in inflight' : awr \in inflight \/ sent # <<>>
    BY <2>1 DEF Owned
  <2>12. \A awr \in inflight' : \A m \in Messages(request') : awr.sequence_id < m
    BY <1>i, <1>c, <2>7, <2>8, <2>11 DEF Ahead
  <2>13. Waiting'
    BY <1>c, <2>4, <2>7 DEF Waiting
  <2> QED
    BY <2>9, <2>10, <2>12, <2>13 DEF Ahead
<1>6. ASSUME NEW id \in PollSids, NEW shutdown \in BOOLEAN, FlushAsync(id, shutdown)
      PROVE  BelowInv'
  <2> DEFINE sent == IF FlushDue(shutdown) THEN request ELSE <<>>
  <2>1. /\ inflight' = Owned(sent, sid)
        /\ request' = (IF sent # <<>> THEN <<>> ELSE request)
        /\ checkpoint' = Polled(id) /\ UNCHANGED <<next, batching>>
    BY <1>6 DEF FlushAsync
  <2> HIDE DEF sent
  <2>2. \A awr \in inflight' : awr \in inflight \/ sent # <<>>
    BY <2>1 DEF Owned
  <2> QED
    BY <1>c, <1>4, <2>1, <2>2, MessagesEmpty DEF Ahead, Waiting
<1>7. ASSUME NEW id \in PollSids, TimerAsync(id) \/ Shutdown(id)
      PROVE  BelowInv'
  BY <1>6, <1>7 DEF TimerAsync, Shutdown
<1>8. CASE TimerSync
  BY <1>c, <1>8 DEF TimerSync, Ahead, Waiting
<1>9. ASSUME Restarted
      PROVE  BelowInv'
  <2>1. checkpoint' \in Nat
    BY CountInductive DEF CountInv, TypeOK, HostTypeOK
  <2>2. next' = checkpoint' + 1 /\ request' = <<>> /\ inflight' = {}
    BY <1>9 DEF Restarted
  <2>3. \A c \in Nat : c < c + 1
    OBVIOUS
  <2>4. checkpoint' < next'
    BY <2>1, <2>2, <2>3, Zenon
  <2> QED
    BY <2>2, <2>4, MessagesEmpty DEF Ahead, Waiting
<1>10. CASE Crash \/ \E id \in PollSids : GcAsync(id)
  BY <1>9, <1>10 DEF Crash, GcAsync
<1>11. CASE UNCHANGED vars
  BY <1>c, <1>11 DEF Ahead, Waiting
<1> QED
  BY <1>1, <1>2, <1>3, <1>5, <1>7, <1>8, <1>10, <1>11, Zenon
     DEF Next, ProcessMessage, TimerEvent, Service

-----------------------------------------------------------------------------
(* Every message is accounted for.                                         *)

\* What a poll moves the checkpoint over is accounted for.
LEMMA PollAccounts ==
  ASSUME CountInv, BelowInv, AccountInv, Async, NEW id \in PollSids
  PROVE  /\ \A m \in Msgs : m <= Polled(id) =>
              m \in Settled \/ (max_async_requests > 1 /\ m \in KeptMsgs \cup dropped)
         /\ max_async_requests <= 1 => \A m \in KeptMsgs : Polled(id) < m
         /\ \A m \in Messages(request) : Polled(id) < m
         /\ Polled(id) \in Nat /\ Polled(id) < next
<1>1. Polled(id) \in Nat /\ Polled(id) < next
  BY PollReports DEF BelowInv, Ahead
<1>2. id # 0 => \E awr \in Completed : awr.sequence_id = id
  BY PollReports
<1>3. \A m \in Messages(request) : Polled(id) < m
  BY <1>2 DEF Polled, BelowInv, Ahead, Completed
<1>4. max_async_requests <= 1 => \A m \in KeptMsgs : Polled(id) < m
  <2>1. CASE id = 0
    BY <2>1 DEF AccountInv, Single, Polled
  <2>2. CASE id # 0 /\ max_async_requests <= 1
    <3>1. PICK awr \in Completed : awr.sequence_id = id
      BY <1>2, <2>2
    <3>2. IsFiniteSet(inflight) /\ Cardinality(inflight) \in Nat /\ awr \in inflight
      BY FS_CardinalityType DEF CountInv, Finite, Completed
    <3>3. Cardinality(inflight) <= 1
      BY <2>2, <3>2, LoggingAssumption DEF CountInv, NothingBatchedAtLimit, TypeOK
    <3>4. Cardinality(inflight) # 0
      BY <3>2, FS_EmptySet
    <3>5. \E x : inflight = {x}
      BY <3>2, <3>3, <3>4, FS_Singleton
    <3>6. Kept = {}
      BY <3>1, <3>2, <3>5 DEF Kept
    <3> QED
      BY <3>6 DEF KeptMsgs
  <2> QED
    BY <2>1, <2>2
<1>5. ASSUME NEW m \in Msgs, m <= Polled(id)
      PROVE  m \in Settled \/ (max_async_requests > 1 /\ m \in KeptMsgs \cup dropped)
  <2>1. m < next /\ m \notin Messages(request) /\ max_async_requests \in Nat
    BY <1>1, <1>3, <1>5, LoggingAssumption DEF Msgs, CountInv, TypeOK, HostTypeOK
  <2>2. max_async_requests <= 1 => m \notin KeptMsgs
    BY <1>1, <1>4, <1>5 DEF Msgs
  <2> QED
    BY <2>1, <2>2 DEF AccountInv, Known
<1> QED
  BY <1>1, <1>3, <1>4, <1>5

\* What gRPC owns after a request was sent, or after a poll alone.
LEMMA SentKept ==
  ASSUME NEW sent \in Seq(Entries), NEW id, inflight' = Owned(sent, id)
  PROVE  Completed' = {} /\ KeptMsgs' = KeptMsgs \cup Messages(sent)
<1> DEFINE new == [msgs |-> sent, sequence_id |-> id, status |-> "pending"]
<1>1. new.msgs = sent /\ new.status = "pending"
  OBVIOUS
<1>2. inflight' = Kept \cup (IF sent = <<>> THEN {} ELSE {new})
  BY DEF Owned, Kept
<1> HIDE DEF new
<1>3. \A awr \in inflight' : awr.status = "pending"
  BY <1>1, <1>2 DEF Kept, Completed
<1>4. Completed' = {}
  BY <1>3 DEF Completed
<1>5. Kept' = inflight'
  BY <1>4 DEF Kept
<1>6. KeptMsgs' = UNION {Messages(awr.msgs) : awr \in inflight'}
  BY <1>5 DEF KeptMsgs
<1>7. ASSUME sent = <<>>
      PROVE  KeptMsgs' = KeptMsgs \cup Messages(sent)
  BY <1>2, <1>6, <1>7, MessagesEmpty DEF KeptMsgs
<1>8. ASSUME sent # <<>>
      PROVE  KeptMsgs' = KeptMsgs \cup Messages(sent)
  <2>1. inflight' = Kept \cup {new}
    BY <1>2, <1>8
  <2>2. {Messages(awr.msgs) : awr \in inflight'} = {Messages(awr.msgs) : awr \in Kept} \cup {Messages(sent)}
    BY <1>1, <2>1
  <2> QED
    BY <1>6, <2>2 DEF KeptMsgs
<1> QED
  BY <1>4, <1>7, <1>8

\* Every message that was offered stays accounted for, over every step.
LEMMA AccountInductive == CountInv /\ BelowInv /\ AccountInv /\ [Next]_vars => AccountInv'
<1> SUFFICES ASSUME CountInv, BelowInv, AccountInv, [Next]_vars PROVE AccountInv'
  OBVIOUS
<1>t. /\ next \in 1 .. NumMsgs + 1 /\ checkpoint \in 0 .. NumMsgs /\ max_async_requests \in Nat
      /\ inflight \subseteq AsyncRequests /\ request \in Seq(Entries) /\ TypeOK
  BY LoggingAssumption DEF CountInv, TypeOK, HostTypeOK, AsyncRequests
<1>m. Msgs \subseteq Nat
  BY DEF Msgs
<1>c. Recorded /\ Covered /\ Known /\ Single
  BY DEF AccountInv
<1>k. inflight' = inflight => Completed' = Completed /\ KeptMsgs' = KeptMsgs
  BY DEF Completed, Kept, KeptMsgs
<1>b. ~Async => inflight = {} /\ Completed = {} /\ KeptMsgs = {}
  BY DEF CountInv, Blocking, Completed, Kept, KeptMsgs
<1> USE DEF config, pending, history, host, vars
<1>1. ASSUME NEW awr \in inflight, NEW outcome \in {"ok", "error"}, Complete(awr, outcome)
      PROVE  AccountInv'
  <2> DEFINE new == [awr EXCEPT !.status = outcome]
  <2>1. new.msgs = awr.msgs /\ new.status = outcome /\ outcome # "pending"
    BY <1>t DEF AsyncRequests
  <2>2. /\ inflight' = (inflight \ {awr}) \cup {new} /\ awr.status = "pending"
        /\ UNCHANGED <<max_async_requests, request, next, checkpoint, bad, ignored, dropped>>
    BY <1>1 DEF Complete
  <2>3. written' \cup failed' = written \cup failed \cup Messages(awr.msgs)
    BY <1>1 DEF Complete
  <2> HIDE DEF new
  <2>4. Completed' = Completed \cup {new} /\ Kept' = Kept \ {awr}
    BY <2>1, <2>2 DEF Completed, Kept
  <2>5. KeptMsgs' \subseteq KeptMsgs /\ KeptMsgs \subseteq KeptMsgs' \cup Messages(awr.msgs)
    BY <2>4 DEF KeptMsgs
  <2>6. Settled' = Settled \cup Messages(awr.msgs)
    BY <2>2, <2>3 DEF Settled
  <2>7. Recorded'
    BY <1>c, <2>1, <2>3, <2>4 DEF Recorded
  <2>8. Covered' /\ Known' /\ Single'
    BY <1>c, <2>2, <2>5, <2>6 DEF Covered, Known, Single
  <2> QED
    BY <2>7, <2>8 DEF AccountInv
<1>2. ASSUME NEW outcome \in {"ok", "error"}, SendFull(outcome)
      PROVE  AccountInv'
  <2>1. next' = next + 1 /\ checkpoint' \in {next, checkpoint} /\ next \in Msgs
    BY <1>2 DEF SendFull, HostReturn, Offered
  <2>2. ~Async /\ UNCHANGED <<max_async_requests, inflight, bad, dropped>>
    BY <1>2 DEF SendFull
  <2>3. KeptMsgs = {} /\ KeptMsgs' = {} /\ Completed' = {}
    BY <1>b, <1>k, <2>2
  <2>4. Settled \cup Messages(WithEntry) \cup (IF HasRoom THEN {} ELSE {next}) \subseteq Settled'
    BY <1>2, <2>2 DEF SendFull, write_sync, Ignored, Settled
  <2>5. Messages(request) \cup {next} \subseteq Settled'
    BY <1>t, <1>2, <2>4, BatchWithEntry DEF SendFull
  <2>6. \A m \in Msgs : m < next + 1 => m < next \/ m = next
    BY <1>t, <1>m
  <2>7. \A m \in Msgs : m < next + 1 =>
          m \in Settled' \/ (max_async_requests > 1 /\ m \in dropped)
    BY <1>c, <2>3, <2>4, <2>5, <2>6 DEF Known
  <2>8. \A m \in Msgs : m <= checkpoint' => m < next + 1
    BY <1>t, <1>m, <2>1 DEF BelowInv, Ahead
  <2>9. Covered' /\ Known'
    BY <2>1, <2>2, <2>7, <2>8 DEF Covered, Known
  <2> QED
    BY <2>3, <2>9 DEF AccountInv, Recorded, Single
<1>3. CASE SendBatched
  <2>1. next' = next + 1 /\ request' = WithEntry /\ HasRoom /\ ~Async /\ next \in Msgs
    BY <1>t, <1>3, BatchWithEntry DEF SendBatched, HostReturn, Rejected, Offered
  <2>2. UNCHANGED <<max_async_requests, inflight, written, failed, bad, ignored, dropped>>
    BY <1>3 DEF SendBatched
  <2>3. KeptMsgs = {} /\ KeptMsgs' = {} /\ Completed' = {} /\ Settled' = Settled
    BY <1>b, <1>k, <2>1, <2>2 DEF Settled
  <2>4. /\ Messages(request') = IF Rejected THEN Messages(request) ELSE Messages(request) \cup {next}
        /\ Rejected => next \in Settled
    BY <1>t, <1>3, <2>1, BatchWithEntry, EntryOfNext DEF SendBatched, Rejected, Settled
  <2>5. checkpoint' = IF Rejected /\ ~batching THEN next ELSE checkpoint
    BY <1>3 DEF SendBatched, HostReturn
  <2>6. Rejected /\ ~batching => Messages(request) = {}
    BY DEF BelowInv, Waiting
  <2>7. \A m \in Msgs : m < next + 1 => m < next \/ m = next
    BY <1>t, <1>m
  <2>8. Known'
    BY <1>c, <2>1, <2>2, <2>3, <2>4, <2>7 DEF Known
  <2>9. Covered'
    <3>1. CASE Rejected /\ ~batching
      <4>1. \A m \in Msgs : m <= next => m < next \/ m = next
        BY <1>t, <1>m
      <4> QED
        BY <1>c, <2>2, <2>3, <2>4, <2>5, <2>6, <3>1, <4>1 DEF Known, Covered
    <3>2. CASE ~(Rejected /\ ~batching)
      BY <1>c, <2>2, <2>3, <2>5, <3>2 DEF Covered
    <3> QED
      BY <3>1, <3>2
  <2> QED
    BY <2>3, <2>8, <2>9 DEF AccountInv, Recorded, Single
<1>4. ASSUME NEW id \in PollSids, SendAsync(id)
      PROVE  AccountInv'
  <2> DEFINE sent == IF ~TooManyOutstanding /\ ~Rejected /\ Full THEN WithEntry ELSE <<>>
             jump == ~TooManyOutstanding /\ Rejected /\ ~batching
  <2>1. /\ request' = IF TooManyOutstanding THEN request ELSE IF sent # <<>> THEN <<>> ELSE WithEntry
        /\ inflight' = Owned(sent, next)
        /\ UNCHANGED <<max_async_requests, bad, written, failed, dropped>>
    BY <1>4 DEF SendAsync
  <2>2. /\ next' = IF TooManyOutstanding THEN next ELSE next + 1
        /\ checkpoint' = IF jump THEN next ELSE Polled(id)
    BY <1>4 DEF SendAsync, AsyncReturn
  <2>3. Async /\ next \in Msgs
    BY <1>4 DEF SendAsync, Offered
  <2>4. /\ Messages(WithEntry) = IF HasRoom /\ ~Rejected THEN Messages(request) \cup {next} ELSE Messages(request)
        /\ WithEntry \in Seq(Entries) /\ (Rejected => HasRoom /\ next \in bad)
    BY <1>t, <1>4, BatchWithEntry, EntryOfNext DEF SendAsync, Rejected
  <2>5. sent \in Seq(Entries)
    BY <2>4
  <2>6. sent # <<>> => sent = WithEntry /\ ~TooManyOutstanding /\ ~Rejected
    OBVIOUS
  <2> HIDE DEF sent
  <2>7. Completed' = {} /\ KeptMsgs' = KeptMsgs \cup Messages(sent)
    BY <2>1, <2>5, SentKept
  <2>8. /\ Settled \subseteq Settled'
        /\ ~TooManyOutstanding /\ (Rejected \/ ~HasRoom) => next \in Settled'
    BY <1>4, <2>4 DEF SendAsync, Ignored, Settled
  <2>9. /\ Messages(request) \subseteq Messages(request') \cup KeptMsgs'
        /\ ~TooManyOutstanding => next \in Settled' \cup Messages(request') \cup KeptMsgs'
    BY <2>1, <2>4, <2>6, <2>7, <2>8
  <2>10. \A m \in Msgs : m < next' => m < next \/ (m = next /\ ~TooManyOutstanding)
    BY <1>t, <1>m, <2>2
  <2>11. Known'
    <3>1. ASSUME NEW m \in Msgs, m < next'
          PROVE  \/ m \in Settled' \cup Messages(request') \cup KeptMsgs'
                 \/ max_async_requests' > 1 /\ m \in dropped'
      <4>1. CASE m < next
        BY <1>c, <2>1, <2>7, <2>8, <2>9, <4>1 DEF Known
      <4>2. CASE m = next /\ ~TooManyOutstanding
        BY <2>9, <4>2
      <4> QED
        BY <2>10, <3>1, <4>1, <4>2
    <3> QED
      BY <3>1 DEF Known
  <2>12. ~TooManyOutstanding /\ max_async_requests <= 1 => KeptMsgs = {}
    <3>1. IsFiniteSet(Kept) /\ Cardinality(Kept) \in Nat
      BY KeptCounted
    <3>2. TooManyOutstanding <=> Cardinality(Kept) >= max_async_requests
      BY KeptCounted DEF TooManyOutstanding
    <3>3. ~TooManyOutstanding /\ max_async_requests <= 1 => Cardinality(Kept) = 0
      BY <1>t, <3>1, <3>2
    <3> QED
      BY <3>1, <3>3, FS_EmptySet DEF KeptMsgs
  <2>13. Covered'
    <3>1. CASE jump
      <4>1. Messages(request) = {}
        BY <3>1 DEF BelowInv, Waiting
      <4>2. \A m \in Msgs : m <= next => m < next \/ m = next
        BY <1>t, <1>m
      <4>3. \A m \in Msgs : m <= next =>
              m \in Settled' \/ (max_async_requests > 1 /\ m \in KeptMsgs \cup dropped)
        <5>1. max_async_requests > 1 \/ max_async_requests <= 1
          BY <1>t
        <5> QED
          BY <1>c, <2>8, <2>12, <3>1, <4>1, <4>2, <5>1 DEF Known
      <4> QED
        BY <2>1, <2>2, <2>7, <3>1, <4>3 DEF Covered
    <3>2. CASE ~jump
      BY <2>1, <2>2, <2>3, <2>7, <2>8, <3>2, PollAccounts DEF Covered
    <3> QED
      BY <3>1, <3>2
  <2>14. Single'
    <3>1. CASE jump
      <4>1. sent = <<>>
        BY <2>6, <3>1
      <4> QED
        BY <2>1, <2>7, <2>12, <3>1, <4>1, MessagesEmpty DEF Single
    <3>2. CASE ~jump
      <4>1. \A m \in Messages(sent) : m \in Messages(request) \/ m = next
        BY <2>4, <2>6, MessagesEmpty
      <4> QED
        BY <2>1, <2>2, <2>3, <2>7, <3>2, <4>1, PollAccounts DEF Single
    <3> QED
      BY <3>1, <3>2
  <2> QED
    BY <2>7, <2>11, <2>13, <2>14 DEF AccountInv, Recorded
<1>5. ASSUME NEW id \in PollSids, NEW shutdown \in BOOLEAN, FlushAsync(id, shutdown)
      PROVE  AccountInv'
  <2> DEFINE sent == IF FlushDue(shutdown) THEN request ELSE <<>>
  <2>1. /\ inflight' = Owned(sent, sid) /\ Async
        /\ request' = (IF sent # <<>> THEN <<>> ELSE request)
        /\ checkpoint' = Polled(id)
        /\ UNCHANGED <<max_async_requests, bad, next, written, failed, ignored, dropped>>
    BY <1>5 DEF FlushAsync
  <2>2. sent \in Seq(Entries) /\ (sent # <<>> => sent = request)
    BY <1>t
  <2> HIDE DEF sent
  <2>3. Completed' = {} /\ KeptMsgs' = KeptMsgs \cup Messages(sent) /\ Settled' = Settled
    BY <2>1, <2>2, SentKept DEF Settled
  <2>4. Messages(request) \subseteq Messages(request') \cup KeptMsgs'
    BY <2>1, <2>2, <2>3
  <2>5. Known'
    BY <1>c, <2>1, <2>3, <2>4 DEF Known
  <2>6. Covered'
    BY <2>1, <2>3, PollAccounts DEF Covered
  <2>7. Single'
    <3>1. Messages(sent) \subseteq Messages(request)
      BY <2>2, MessagesEmpty
    <3> QED
      BY <2>1, <2>3, <3>1, PollAccounts DEF Single
  <2> QED
    BY <2>3, <2>5, <2>6, <2>7 DEF AccountInv, Recorded
<1>6. ASSUME NEW id \in PollSids, TimerAsync(id) \/ Shutdown(id)
      PROVE  AccountInv'
  BY <1>5, <1>6 DEF TimerAsync, Shutdown
<1>7. CASE TimerSync
  <2>1. UNCHANGED <<max_async_requests, bad, request, inflight, next, checkpoint,
                    written, failed, ignored, dropped>>
    BY <1>7 DEF TimerSync
  <2> QED
    BY <1>c, <1>k, <2>1 DEF AccountInv, Recorded, Covered, Known, Single, Settled
<1>8. ASSUME Restarted, UNCHANGED max_async_requests,
             \A m \in Msgs : m <= checkpoint' =>
               m \in Settled' \/ (max_async_requests > 1 /\ m \in dropped')
      PROVE  AccountInv'
  <2>1. next' = checkpoint' + 1 /\ inflight' = {}
    BY <1>8 DEF Restarted
  <2>2. Completed' = {} /\ KeptMsgs' = {}
    BY <2>1 DEF Completed, Kept, KeptMsgs
  <2>3. \A m \in Msgs : m < next' => m <= checkpoint'
    <3>1. checkpoint' \in Nat
      BY CountInductive DEF CountInv, TypeOK, HostTypeOK
    <3>2. \A c \in Nat : \A m \in Msgs : m < c + 1 => m <= c
      BY <1>m
    <3> QED
      BY <2>1, <3>1, <3>2, Zenon
  <2> QED
    BY <1>8, <2>2, <2>3 DEF AccountInv, Recorded, Covered, Known, Single
<1>9. ASSUME NEW id \in PollSids, GcAsync(id)
      PROVE  AccountInv'
  <2>1. checkpoint' = Polled(id) /\ Restarted /\ inflight = Completed
        /\ UNCHANGED <<max_async_requests, bad, written, failed, ignored, dropped>>
    BY <1>9 DEF GcAsync
  <2>2. KeptMsgs = {} /\ Settled' = Settled
    BY <2>1 DEF Kept, KeptMsgs, Settled
  <2>3. \A m \in Msgs : m <= Polled(id) =>
          m \in Settled \/ (max_async_requests > 1 /\ m \in dropped)
    <3>1. CASE Async
      BY <2>2, <3>1, PollAccounts
    <3>2. CASE ~Async
      <4>1. Polled(id) = checkpoint
        BY <1>b, <3>2, PollReports DEF Polled
      <4> QED
        BY <1>c, <2>2, <4>1 DEF Covered
    <3> QED
      BY <3>1, <3>2
  <2> QED
    BY <1>8, <2>1, <2>2, <2>3
<1>10. CASE Crash
  <2>1. /\ checkpoint' = checkpoint /\ Restarted
        /\ dropped' = dropped \cup KeptMsgs
        /\ UNCHANGED <<max_async_requests, bad, written, failed, ignored>>
    BY <1>10 DEF Crash, Kept, KeptMsgs
  <2>2. Settled' = Settled
    BY <2>1 DEF Settled
  <2> QED
    BY <1>c, <1>8, <2>1, <2>2 DEF Covered
<1>11. CASE UNCHANGED vars
  BY <1>c, <1>k, <1>11 DEF AccountInv, Recorded, Covered, Known, Single, Settled
<1> QED
  BY <1>1, <1>2, <1>3, <1>4, <1>6, <1>7, <1>9, <1>10, <1>11, Zenon
     DEF Next, ProcessMessage, TimerEvent, Service

\* The invariants hold initially.
LEMMA InitInvs == Init => CountInv /\ BelowInv /\ AccountInv
<1> SUFFICES ASSUME Init PROVE CountInv /\ BelowInv /\ AccountInv
  OBVIOUS
<1> USE DEF Init, HostInit
<1>1. inflight = {} /\ request = <<>> /\ next = 1 /\ checkpoint = 0 /\ sid = 0
  OBVIOUS
<1>2. TypeOK
  <2>1. HostTypeOK
    <3>1. next \in 1 .. NumMsgs + 1 /\ checkpoint \in 0 .. NumMsgs /\ restarts \in 0 .. MaxRestarts
      BY NumMsgsAssumption, RestartAssumption
    <3>2. batching \in BOOLEAN
      BY Zenon
    <3> QED
      BY <3>1, <3>2 DEF HostTypeOK
  <2>2. timer \in BOOLEAN /\ closing \in BOOLEAN
    BY Zenon
  <2>3. request \in Seq(Entries) /\ Len(request) <= batch_size /\ sid \in 0 .. NumMsgs
    BY NumMsgsAssumption, LoggingAssumption
  <2> QED
    BY <2>1, <2>2, <2>3 DEF TypeOK
<1>3. Finite /\ NothingBatchedAtLimit
  <2>1. max_async_requests \in Nat /\ outstanding_requests = 0
    BY LoggingAssumption
  <2> QED
    BY <1>1, <2>1, FS_EmptySet DEF Finite, NothingBatchedAtLimit
<1>4. Blocking /\ Named /\ Ordered /\ PutOff
  BY <1>1 DEF Blocking, Named, Ordered, PutOff
<1>5. BelowInv
  BY <1>1, MessagesEmpty DEF BelowInv, Ahead, Waiting
<1>6. Completed = {} /\ KeptMsgs = {}
  BY <1>1 DEF Completed, Kept, KeptMsgs
<1>7. \A m \in Msgs : ~(m < 1) /\ ~(m <= 0)
  BY DEF Msgs
<1>8. AccountInv
  BY <1>1, <1>6, <1>7 DEF AccountInv, Recorded, Covered, Known, Single
<1> QED
  BY <1>2, <1>3, <1>4, <1>5, <1>8 DEF CountInv

-----------------------------------------------------------------------------
(* Theorems.                                                               *)

\* Every reachable state is well typed; the batch is never longer than batch_size.
THEOREM TypeCorrect == Spec => []TypeOK
<1>1. CountInv => TypeOK
  BY DEF CountInv
<1> QED
  BY InitInvs, CountInductive, <1>1, PTL DEF Spec

\* outstanding_requests is the number of requests gRPC owns, and with the batch
\* they stay within max_async_requests, although flush does not look at it
\* (logging.cpp:281, 554-567).
THEOREM LimitHolds == Spec => []NothingBatchedAtLimit
<1>1. CountInv => NothingBatchedAtLimit
  BY DEF CountInv
<1> QED
  BY InitInvs, CountInductive, <1>1, PTL DEF Spec

\* The checkpoint stays below every message of the batch, in both modes, although
\* the id of a flush may be that of a message that is not in it
\* (gcp_logging.lua:155, 171).
THEOREM BatchUncovered == Spec => []CheckpointBelowRequest
<1>1. CountInv /\ BelowInv /\ [Next]_vars => CountInv' /\ BelowInv'
  BY CountInductive, BelowInductive
<1>2. BelowInv => CheckpointBelowRequest
  BY DEF BelowInv, Ahead, CheckpointBelowRequest
<1> QED
  BY InitInvs, <1>1, <1>2, PTL DEF Spec

\* A message the checkpoint covers was written, failed, was rejected or ignored;
\* with more than one request at a time it may still be under way, or dropped by
\* a crash (logging.cpp:131-151).
THEOREM CheckpointSound == Spec => []CheckpointAccounts
<1>1. CountInv /\ BelowInv /\ AccountInv /\ [Next]_vars => CountInv' /\ BelowInv' /\ AccountInv'
  BY CountInductive, BelowInductive, AccountInductive
<1>2. CountInv /\ AccountInv => CheckpointAccounts
  <2> SUFFICES ASSUME CountInv, AccountInv, NEW m \in 1 .. checkpoint
               PROVE  \/ m \in written \cup failed \cup bad \cup ignored
                      \/ max_async_requests > 1 /\ m \in InflightMsgs \cup dropped
    BY DEF CheckpointAccounts
  <2>1. m \in Msgs /\ m <= checkpoint
    BY NumMsgsAssumption DEF CountInv, TypeOK, HostTypeOK, Msgs
  <2>2. KeptMsgs \subseteq InflightMsgs
    BY DEF KeptMsgs, InflightMsgs, Kept
  <2> QED
    BY <2>1, <2>2 DEF AccountInv, Covered, Settled
<1> QED
  BY InitInvs, <1>1, <1>2, PTL DEF Spec
=============================================================================
