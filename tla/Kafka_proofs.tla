---------------------------- MODULE Kafka_proofs ----------------------------
(***************************************************************************)
(* Proofs about Kafka.tla, for every number of messages, topics, stops and *)
(* crashes: what a checkpoint of the output covers is accounted for,       *)
(* constructors and topics leak nothing, and the input loses one message   *)
(* per crash at most.                                                      *)
(***************************************************************************)
EXTENDS Kafka, TLAPS, FiniteSetTheorems

USE DEF given

-----------------------------------------------------------------------------
(* The inductive invariants, by parts.                                     *)

Reports == [msg : Msgs, ok : BOOLEAN]

Typed ==
  /\ topic_of \in [Msgs -> Topics]
  /\ queue \in [Topics -> Seq(Msgs)] /\ reports \in Seq(Reports) /\ log \in [Topics -> Seq(Msgs)]
  /\ next \in 1 .. NumMsgs + 1 /\ checkpoint \in 0 .. next - 1

\* A producer that is not open has no messages and no reports.
Quiet == producer # "open" => queue = Empty /\ reports = <<>>

\* A queue holds messages of its topic that were offered, in order.
Placed ==
  \A t \in Topics : \A i \in 1 .. Len(queue[t]) :
    /\ queue[t][i] < next /\ topic_of[queue[t][i]] = t
    /\ \A j \in 1 .. Len(queue[t]) : i < j => queue[t][i] < queue[t][j]

Reported == \A k \in 1 .. Len(reports) : reports[k].msg < next

\* All messages are of one topic ...
Alone == \A m, n \in Msgs : topic_of[m] = topic_of[n]

\* ... and then neither a report nor the checkpoint is ahead of the queue.
Ordered ==
  Alone => \A t \in Topics : \A i \in 1 .. Len(queue[t]) :
             /\ checkpoint < queue[t][i]
             /\ \A k \in 1 .. Len(reports) : reports[k].msg < queue[t][i]

Settled == Logged \cup failed \cup unsendable

Known == \A m \in Msgs : m < next => m \in Settled \cup Queued \/ (~Alone /\ m \in dropped)

OutInv == Typed /\ Quiet /\ Placed /\ Reported /\ Ordered /\ Known

-----------------------------------------------------------------------------
(* Lemmas about queues and reports.                                        *)

\* Who is in a queue, and in the log.
LEMMA Members ==
  ASSUME NEW q \in [Topics -> Seq(Msgs)], NEW m
  PROVE  m \in UNION {ToSet(q[t]) : t \in Topics} <=>
           \E t \in Topics : \E i \in 1 .. Len(q[t]) : q[t][i] = m
<1>1. \A t \in Topics : DOMAIN q[t] = 1 .. Len(q[t])
  OBVIOUS
<1> QED
  BY <1>1 DEF ToSet

\* A sequence of messages without its first one, and with one more.
LEMMA TailAppend ==
  ASSUME NEW S, NEW s \in Seq(S)
  PROVE  /\ s # <<>> => /\ Tail(s) \in Seq(S) /\ Len(Tail(s)) = Len(s) - 1 /\ Len(s) >= 1
                        /\ Head(s) = s[1] /\ s[1] \in S
                        /\ \A i \in 1 .. Len(s) - 1 : Tail(s)[i] = s[i + 1]
         /\ \A x \in S : /\ Append(s, x) \in Seq(S) /\ Len(Append(s, x)) = Len(s) + 1
                         /\ \A i \in 1 .. Len(s) : Append(s, x)[i] = s[i]
                         /\ Append(s, x)[Len(s) + 1] = x
OBVIOUS

\* Two topics are two elements of the range.
LEMMA TwoTopics ==
  ASSUME Typed, ~Alone
  PROVE  Cardinality(Range(topic_of)) > 1
<1>1. IsFiniteSet(Range(topic_of))
  <2>1. Range(topic_of) \in SUBSET Topics
    BY DEF Typed, Range
  <2> QED
    BY <2>1, KafkaAssumption, FS_Subset
<1>2. PICK m \in Msgs, n \in Msgs : topic_of[m] # topic_of[n]
  BY DEF Alone
<1>3. topic_of[m] \in Range(topic_of) /\ topic_of[n] \in Range(topic_of)
  BY DEF Typed, Range
<1>4. Cardinality(Range(topic_of)) \in Nat
  BY <1>1, FS_CardinalityType
<1>5. Cardinality(Range(topic_of)) # 0
  BY <1>1, <1>3, FS_EmptySet
<1>6. Cardinality(Range(topic_of)) # 1
  <2> SUFFICES ASSUME Cardinality(Range(topic_of)) = 1 PROVE FALSE
    OBVIOUS
  <2>1. \E x : Range(topic_of) = {x}
    BY <1>1, FS_Singleton
  <2> QED
    BY <1>2, <1>3, <2>1
<1> QED
  BY <1>4, <1>5, <1>6

\* The checkpoint after a poll is that of a message offered before, and with one
\* topic it is behind the queue.
LEMMA PollReports ==
  ASSUME OutInv, NEW served \in {reports, <<>>}
  PROVE  /\ producer_poll_heka(served) \in 0 .. next - 1
         /\ Alone => \A t \in Topics : \A i \in 1 .. Len(queue[t]) :
                       producer_poll_heka(served) < queue[t][i]
<1>1. CASE served = <<>>
  <2>1. producer_poll_heka(served) = checkpoint
    BY <1>1 DEF producer_poll_heka, msg_opaque
  <2> QED
    BY <2>1 DEF OutInv, Typed, Ordered
<1>2. CASE served # <<>>
  <2>1. served = reports /\ reports \in Seq(Reports) /\ Len(reports) \in 1 .. Len(reports)
    BY <1>2 DEF OutInv, Typed
  <2> DEFINE r == reports[Len(reports)]
  <2>2. r \in Reports
    BY <2>1
  <2>3. r.msg \in Msgs /\ r.msg < next /\ r.msg # 0 /\ r.msg \in Nat /\ next \in Nat
    BY <2>1, <2>2, KafkaAssumption DEF OutInv, Reported, Reports, Msgs, Typed
  <2>4. producer_poll_heka(served) = r.msg
    BY <1>2, <2>1, <2>3 DEF producer_poll_heka, msg_opaque, Last
  <2> QED
    BY <2>1, <2>3, <2>4 DEF OutInv, Ordered
<1> QED
  BY <1>1, <1>2

-----------------------------------------------------------------------------
(* The steps of the output and the broker.                                 *)

\* Collecting the producer drops its queue; the host starts again behind cp.
LEMMA Restarted ==
  ASSUME OutInv, NEW cp \in 0 .. next - 1,
         Alone => \A t \in Topics : \A i \in 1 .. Len(queue[t]) : cp < queue[t][i],
         checkpoint' = cp, next' = cp + 1,
         queue' = Empty, reports' = <<>>, dropped' = dropped \cup Queued,
         UNCHANGED <<topic_of, unsendable, log, failed>>
  PROVE  OutInv'
<1>1. next \in 1 .. NumMsgs + 1 /\ NumMsgs \in Nat
  BY KafkaAssumption DEF OutInv, Typed
<1>2. Typed'
  BY <1>1 DEF OutInv, Typed, Empty
<1>3. Quiet' /\ Placed' /\ Reported' /\ Ordered'
  BY DEF Quiet, Placed, Reported, Ordered, Empty
<1>4. Settled' = Settled /\ (Alone <=> Alone') /\ Msgs' = Msgs
  BY DEF Settled, Logged, Alone, Msgs
<1>5. Known'
  <2> SUFFICES ASSUME NEW m \in Msgs, m < next', m \notin Settled PROVE ~Alone /\ m \in dropped'
    BY <1>4 DEF Known
  <2>1. m < next /\ m <= cp
    BY <1>1 DEF Msgs
  <2>2. m \in Queued \/ (~Alone /\ m \in dropped)
    BY <2>1 DEF OutInv, Known
  <2>3. m \in Queued => ~Alone
    <3> SUFFICES ASSUME m \in Queued, Alone PROVE FALSE
      OBVIOUS
    <3>1. PICK t \in Topics : \E i \in 1 .. Len(queue[t]) : queue[t][i] = m
      BY Members DEF Queued, OutInv, Typed
    <3> QED
      BY <2>1, <3>1 DEF Msgs
  <2> QED
    BY <2>2, <2>3
<1> QED
  BY <1>2, <1>3, <1>5 DEF OutInv

\* A step that changes nothing of messages, reports and checkpoint.
LEMMA OutputRests ==
  ASSUME OutInv, producer' # "open" => producer # "open",
         UNCHANGED <<topic_of, unsendable, queue, reports, next, checkpoint, log, failed, dropped>>
  PROVE  OutInv'
<1>1. Typed' /\ Quiet'
  BY DEF OutInv, Typed, Quiet
<1>2. Placed' /\ Reported'
  BY DEF OutInv, Placed, Reported
<1>3. Ordered'
  BY DEF OutInv, Ordered, Alone
<1>4. Known'
  BY DEF OutInv, Known, Alone, Settled, Logged, Queued
<1> QED
  BY <1>1, <1>2, <1>3, <1>4 DEF OutInv

\* Reports are served, and nothing is queued.
LEMMA Served1 ==
  ASSUME OutInv, NEW served \in {reports, <<>>}, checkpoint' = producer_poll_heka(served),
         reports' \in {reports, <<>>}, next' \in {next, next + 1}, next' <= NumMsgs + 1,
         next' # next => next \in unsendable,
         producer = "open", UNCHANGED <<producer, topic_of, unsendable, queue, log, failed, dropped>>
  PROVE  OutInv'
<1>1. next \in 1 .. NumMsgs + 1 /\ NumMsgs \in Nat
  BY KafkaAssumption DEF OutInv, Typed
<1>2. checkpoint' \in 0 .. next - 1
      /\ (Alone => \A t \in Topics : \A i \in 1 .. Len(queue[t]) : checkpoint' < queue[t][i])
  BY PollReports
<1>3. Typed'
  <2>1. reports' \in Seq(Reports)
    <3>1. reports \in Seq(Reports)
      BY DEF OutInv, Typed
    <3>2. <<>> \in Seq(Reports)
      OBVIOUS
    <3> QED
      BY <3>1, <3>2
  <2>2. next' \in 1 .. NumMsgs + 1 /\ checkpoint' \in 0 .. next' - 1
    BY <1>1, <1>2
  <2> QED
    BY <2>1, <2>2 DEF OutInv, Typed
<1>4. Quiet'
  BY DEF Quiet
<1>5. \A t \in Topics : \A i \in 1 .. Len(queue[t]) : queue[t][i] \in Nat
  <2> SUFFICES ASSUME NEW t \in Topics, NEW i \in 1 .. Len(queue[t]) PROVE queue[t][i] \in Nat
    OBVIOUS
  <2>1. queue[t] \in Seq(Msgs)
    BY DEF OutInv, Typed
  <2>2. queue[t][i] \in Msgs
    BY <2>1
  <2> QED
    BY <2>2 DEF Msgs
<1>6. Placed'
  BY <1>1, <1>5 DEF OutInv, Placed
<1>7. Reported'
  <2>1. CASE reports' = <<>>
    BY <2>1 DEF Reported
  <2>2. CASE reports' = reports
    <3> SUFFICES ASSUME NEW k \in 1 .. Len(reports) PROVE reports[k].msg < next'
      BY <2>2 DEF Reported
    <3>1. reports[k] \in Reports
      BY DEF OutInv, Typed
    <3>2. reports[k].msg \in Nat /\ reports[k].msg < next
      BY <3>1 DEF OutInv, Reported, Reports, Msgs
    <3> QED
      BY <1>1, <3>2
  <2> QED
    BY <2>1, <2>2
<1>8. Alone' <=> Alone
  BY DEF Alone
<1>9. Ordered'
  BY <1>2, <1>8 DEF OutInv, Ordered
<1>10. Known'
  <2> SUFFICES ASSUME NEW m \in Msgs, m < next'
               PROVE  m \in Settled \cup Queued \/ (~Alone /\ m \in dropped)
    BY <1>8 DEF Known, Settled, Logged, Queued
  <2>1. CASE m < next
    BY <2>1 DEF OutInv, Known
  <2>2. CASE ~(m < next)
    <3>1. m = next /\ next' # next
      BY <1>1, <2>2 DEF Msgs
    <3> QED
      BY <3>1 DEF Settled
  <2> QED
    BY <2>1, <2>2
<1> QED
  BY <1>3, <1>4, <1>6, <1>7, <1>9, <1>10 DEF OutInv

\* The offered message is queued, behind all messages of its topic.
LEMMA Queues ==
  ASSUME OutInv, NEW served \in {reports, <<>>}, checkpoint' = producer_poll_heka(served),
         reports' \in {reports, <<>>}, next \in Msgs, next' = next + 1,
         queue' = [queue EXCEPT ![topic_of[next]] = Append(@, next)],
         producer = "open", UNCHANGED <<producer, topic_of, unsendable, log, failed, dropped>>
  PROVE  OutInv'
<1> DEFINE t0 == topic_of[next]
           old == queue[t0]
<1>1. next \in 1 .. NumMsgs /\ NumMsgs \in Nat /\ t0 \in Topics /\ next' \in 1 .. NumMsgs + 1
  BY KafkaAssumption DEF OutInv, Typed, Msgs
<1>2. checkpoint' \in 0 .. next - 1
      /\ (Alone => \A t \in Topics : \A i \in 1 .. Len(queue[t]) : checkpoint' < queue[t][i])
  BY PollReports
<1>3. /\ \A t \in Topics : queue[t] \in Seq(Msgs) /\ Len(queue[t]) \in Nat
      /\ \A t \in Topics : \A i \in 1 .. Len(queue[t]) : queue[t][i] \in Nat
  <2>1. \A t \in Topics : queue[t] \in Seq(Msgs)
    BY DEF OutInv, Typed
  <2>2. ASSUME NEW t \in Topics, NEW i \in 1 .. Len(queue[t]) PROVE queue[t][i] \in Nat
    <3>1. queue[t][i] \in Msgs
      BY <2>1
    <3> QED
      BY <3>1 DEF Msgs
  <2> QED
    BY <2>1, <2>2
<1>4. /\ Append(old, next) \in Seq(Msgs) /\ Len(Append(old, next)) = Len(old) + 1
      /\ \A i \in 1 .. Len(old) : Append(old, next)[i] = old[i]
      /\ Append(old, next)[Len(old) + 1] = next
  BY <1>1, <1>3, TailAppend
<1>5. queue' \in [Topics -> Seq(Msgs)]
  BY <1>4 DEF OutInv, Typed
<1>6. \A t \in Topics : IF t = t0 THEN queue'[t] = Append(old, next) ELSE queue'[t] = queue[t]
  BY <1>1 DEF OutInv, Typed
<1> HIDE DEF t0
<1>7. Typed' /\ Quiet'
  <2>1. reports' \in Seq(Reports)
    <3>1. reports \in Seq(Reports)
      BY DEF OutInv, Typed
    <3>2. <<>> \in Seq(Reports)
      OBVIOUS
    <3> QED
      BY <3>1, <3>2
  <2>2. checkpoint' \in 0 .. next' - 1
    BY <1>1, <1>2
  <2> QED
    BY <1>1, <1>5, <2>1, <2>2 DEF OutInv, Typed, Quiet
<1>8. ASSUME NEW t \in Topics, NEW i \in 1 .. Len(queue'[t])
      PROVE  \/ i \in 1 .. Len(queue[t]) /\ queue'[t][i] = queue[t][i]
             \/ t = t0 /\ i = Len(queue[t]) + 1 /\ queue'[t][i] = next
  <2>1. CASE t = t0
    <3>1. i \in 1 .. Len(old) + 1
      BY <1>4, <1>6, <1>8, <2>1
    <3>2. CASE i \in 1 .. Len(old)
      BY <1>4, <1>6, <2>1, <3>2
    <3>3. CASE i \notin 1 .. Len(old)
      <4>1. i = Len(old) + 1
        BY <1>1, <1>3, <3>1, <3>3
      <4> QED
        BY <1>4, <1>6, <2>1, <4>1
    <3> QED
      BY <3>2, <3>3
  <2>2. CASE t # t0
    BY <1>6, <1>8, <2>2
  <2> QED
    BY <2>1, <2>2
<1>9. Placed'
  <2> SUFFICES ASSUME NEW t \in Topics, NEW i \in 1 .. Len(queue'[t])
               PROVE  /\ queue'[t][i] < next' /\ topic_of[queue'[t][i]] = t
                      /\ \A j \in 1 .. Len(queue'[t]) : i < j => queue'[t][i] < queue'[t][j]
    BY DEF Placed
  <2>1. CASE i \in 1 .. Len(queue[t]) /\ queue'[t][i] = queue[t][i]
    <3>1. queue[t][i] < next /\ topic_of[queue[t][i]] = t /\ queue[t][i] \in Nat
      BY <1>3, <2>1 DEF OutInv, Placed
    <3>2. ASSUME NEW j \in 1 .. Len(queue'[t]), i < j PROVE queue'[t][i] < queue'[t][j]
      <4>1. CASE j \in 1 .. Len(queue[t]) /\ queue'[t][j] = queue[t][j]
        BY <2>1, <3>2, <4>1 DEF OutInv, Placed
      <4>2. CASE queue'[t][j] = next
        BY <2>1, <3>1, <4>2
      <4> QED
        BY <1>8, <4>1, <4>2
    <3> QED
      BY <1>1, <2>1, <3>1, <3>2
  <2>2. CASE t = t0 /\ i = Len(queue[t]) + 1 /\ queue'[t][i] = next
    <3>1. Len(queue'[t]) = Len(queue[t]) + 1
      BY <1>4, <1>6, <2>2
    <3>2. \A j \in 1 .. Len(queue'[t]) : ~(i < j)
      BY <1>3, <2>2, <3>1
    <3> QED
      BY <1>1, <2>2, <3>2 DEF t0
  <2> QED
    BY <1>8, <2>1, <2>2
<1>10. ASSUME NEW k \in 1 .. Len(reports') PROVE k \in 1 .. Len(reports) /\ reports'[k] = reports[k]
                                                /\ reports[k].msg \in Nat /\ reports[k].msg < next
  <2>1. reports' = reports
    BY <1>10
  <2>2. reports[k] \in Reports
    BY <1>10, <2>1 DEF OutInv, Typed
  <2> QED
    BY <1>10, <2>1, <2>2 DEF OutInv, Reported, Reports, Msgs
<1>11. Reported'
  BY <1>1, <1>10 DEF Reported
<1>12. Alone' <=> Alone
  BY DEF Alone
<1>13. Ordered'
  <2> SUFFICES ASSUME Alone, NEW t \in Topics, NEW i \in 1 .. Len(queue'[t])
               PROVE  /\ checkpoint' < queue'[t][i]
                      /\ \A k \in 1 .. Len(reports') : reports'[k].msg < queue'[t][i]
    BY <1>12 DEF Ordered
  <2>1. CASE i \in 1 .. Len(queue[t]) /\ queue'[t][i] = queue[t][i]
    BY <1>2, <1>10, <2>1 DEF OutInv, Ordered
  <2>2. CASE queue'[t][i] = next
    <3>1. ASSUME NEW k \in 1 .. Len(reports') PROVE reports'[k].msg < queue'[t][i]
      <4>1. reports'[k] = reports[k] /\ reports[k].msg < next
        BY <1>10
      <4> QED
        BY ONLY <2>2, <4>1
    <3>2. checkpoint' < queue'[t][i]
      BY <1>1, <1>2, <2>2
    <3> QED
      BY <3>1, <3>2
  <2> QED
    BY <1>8, <2>1, <2>2
<1>14. Queued \cup {next} \subseteq Queued'
  <2>1. ASSUME NEW m \in Queued PROVE m \in Queued'
    <3>1. PICK t \in Topics : \E i \in 1 .. Len(queue[t]) : queue[t][i] = m
      BY <2>1, Members DEF Queued, OutInv, Typed
    <3>2. PICK i \in 1 .. Len(queue[t]) : queue[t][i] = m
      BY <3>1
    <3>3. i \in 1 .. Len(queue'[t]) /\ queue'[t][i] = m
      BY <1>3, <1>4, <1>6, <3>2
    <3> QED
      BY <1>5, <3>3, Members DEF Queued
  <2>2. next \in Queued'
    <3>1. Len(old) + 1 \in 1 .. Len(queue'[t0]) /\ queue'[t0][Len(old) + 1] = next
      BY <1>1, <1>3, <1>4, <1>6
    <3>2. next \in UNION {ToSet(queue'[t]) : t \in Topics} <=>
            \E t \in Topics : \E i \in 1 .. Len(queue'[t]) : queue'[t][i] = next
      BY ONLY <1>5, Members
    <3>3. Len(queue'[t0]) = Len(old) + 1 /\ t0 \in Topics
      BY <1>1, <1>4, <1>6
    <3>4. next \in UNION {ToSet(queue'[t]) : t \in Topics}
      BY <3>1, <3>2, <3>3, <1>1, <1>4, <1>6
    <3> QED
      BY <3>4 DEF Queued
  <2> QED
    BY <2>1, <2>2
<1>15. Known'
  <2> SUFFICES ASSUME NEW m \in Msgs, m < next'
               PROVE  m \in Settled \cup Queued' \/ (~Alone /\ m \in dropped)
    BY <1>12 DEF Known, Settled, Logged
  <2>1. m < next \/ m = next
    BY <1>1 DEF Msgs
  <2> QED
    BY <1>14, <2>1 DEF OutInv, Known
<1> QED
  BY <1>7, <1>9, <1>11, <1>13, <1>15 DEF OutInv

\* The broker answers the first message of a queue: its report comes behind the
\* others, and is behind all that is left of its topic.
LEMMA Answers ==
  ASSUME OutInv, NEW t0 \in Topics, NEW result \in {"ok", "failed", "unacked"}, Answer(t0, result)
  PROVE  OutInv'
<1> DEFINE old == queue[t0]
           m == Head(old)
           report == [msg |-> m, ok |-> result = "ok"]
<1>1. old \in Seq(Msgs) /\ old # <<>> /\ reports \in Seq(Reports) /\ log[t0] \in Seq(Msgs)
  BY DEF Answer, OutInv, Typed
<1>2. /\ Tail(old) \in Seq(Msgs) /\ Len(Tail(old)) = Len(old) - 1 /\ Len(old) >= 1
      /\ m = old[1] /\ m \in Msgs
      /\ \A i \in 1 .. Len(old) - 1 : Tail(old)[i] = old[i + 1]
  BY <1>1, TailAppend
<1>3. report \in Reports
  BY <1>2 DEF Reports
<1>4. /\ Append(reports, report) \in Seq(Reports)
      /\ Len(Append(reports, report)) = Len(reports) + 1
      /\ \A k \in 1 .. Len(reports) : Append(reports, report)[k] = reports[k]
      /\ Append(reports, report)[Len(reports) + 1] = report
  BY <1>1, <1>3, TailAppend
<1>5. /\ Append(log[t0], m) \in Seq(Msgs) /\ Len(Append(log[t0], m)) = Len(log[t0]) + 1
      /\ \A i \in 1 .. Len(log[t0]) : Append(log[t0], m)[i] = log[t0][i]
      /\ Append(log[t0], m)[Len(log[t0]) + 1] = m
  BY <1>1, <1>2, TailAppend
<1>6. /\ queue' = [queue EXCEPT ![t0] = Tail(old)] /\ reports' = Append(reports, report)
      /\ log' = [log EXCEPT ![t0] = IF result = "failed" THEN @ ELSE Append(@, m)]
      /\ failed' = IF result = "ok" THEN failed ELSE failed \cup {m}
      /\ UNCHANGED <<topic_of, unsendable, producer, next, checkpoint, dropped>>
  BY DEF Answer, hostvars
<1>7. /\ queue' \in [Topics -> Seq(Msgs)] /\ log' \in [Topics -> Seq(Msgs)]
      /\ queue \in [Topics -> Seq(Msgs)] /\ log \in [Topics -> Seq(Msgs)]
  BY <1>2, <1>5, <1>6 DEF OutInv, Typed
<1>8. \A t \in Topics : IF t = t0 THEN queue'[t] = Tail(old) ELSE queue'[t] = queue[t]
  BY <1>6, <1>7
<1>9. \A t \in Topics : IF t = t0 /\ result # "failed" THEN log'[t] = Append(log[t0], m)
                                                     ELSE log'[t] = log[t]
  BY <1>6, <1>7
<1>10. Len(old) \in Nat /\ Len(reports) \in Nat /\ next \in Nat
  BY <1>1, KafkaAssumption DEF OutInv, Typed
<1> HIDE DEF m, report, old
<1>11. Typed'
  BY <1>4, <1>6, <1>7 DEF OutInv, Typed
<1>12. Quiet'
  <2>1. producer = "open"
    <3> SUFFICES ASSUME producer # "open" PROVE FALSE
      OBVIOUS
    <3>1. queue[t0] = <<>>
      BY DEF OutInv, Quiet, Empty
    <3> QED
      BY <1>1, <3>1 DEF old
  <2> QED
    BY <1>6, <2>1 DEF Quiet
<1>13. ASSUME NEW t \in Topics, NEW i \in 1 .. Len(queue'[t])
       PROVE  \/ t = t0 /\ i + 1 \in 1 .. Len(queue[t]) /\ queue'[t][i] = queue[t][i + 1]
              \/ t # t0 /\ i \in 1 .. Len(queue[t]) /\ queue'[t][i] = queue[t][i]
  <2>1. CASE t = t0
    <3>1. i \in 1 .. Len(old) - 1
      BY <1>2, <1>8, <1>13, <2>1
    <3>2. i + 1 \in 1 .. Len(old)
      BY <1>10, <3>1
    <3> QED
      BY <1>2, <1>8, <2>1, <3>1, <3>2 DEF old
  <2>2. CASE t # t0
    BY <1>8, <1>13, <2>2
  <2> QED
    BY <2>1, <2>2
<1>14. Placed'
  <2> SUFFICES ASSUME NEW t \in Topics, NEW i \in 1 .. Len(queue'[t])
               PROVE  /\ queue'[t][i] < next /\ topic_of[queue'[t][i]] = t
                      /\ \A j \in 1 .. Len(queue'[t]) : i < j => queue'[t][i] < queue'[t][j]
    BY <1>6 DEF Placed
  <2>1. CASE t = t0
    <3>1. i + 1 \in 1 .. Len(queue[t]) /\ queue'[t][i] = queue[t][i + 1]
      BY <1>13, <2>1
    <3>2. ASSUME NEW j \in 1 .. Len(queue'[t]), i < j PROVE queue'[t][i] < queue'[t][j]
      <4>1. j + 1 \in 1 .. Len(queue[t]) /\ queue'[t][j] = queue[t][j + 1] /\ i + 1 < j + 1
        BY <1>13, <2>1, <3>2
      <4> QED
        BY <3>1, <4>1 DEF OutInv, Placed
    <3> QED
      BY <3>1, <3>2 DEF OutInv, Placed
  <2>2. CASE t # t0
    BY <1>8, <2>2 DEF OutInv, Placed
  <2> QED
    BY <2>1, <2>2
<1>15. 1 \in 1 .. Len(queue[t0]) /\ m = queue[t0][1] /\ m < next /\ topic_of[m] = t0
  BY <1>2, <1>10 DEF OutInv, Placed, old
<1>16. ASSUME NEW k \in 1 .. Len(reports')
       PROVE  \/ k \in 1 .. Len(reports) /\ reports'[k] = reports[k]
              \/ k = Len(reports) + 1 /\ reports'[k].msg = m
  <2>1. CASE k \in 1 .. Len(reports)
    BY <1>4, <1>6, <2>1
  <2>2. CASE k \notin 1 .. Len(reports)
    <3>1. k = Len(reports) + 1
      BY <1>4, <1>6, <1>10, <1>16, <2>2
    <3>2. report.msg = m
      BY DEF report
    <3> QED
      BY <1>4, <1>6, <3>1, <3>2
  <2> QED
    BY <2>1, <2>2
<1>17. Reported'
  BY <1>6, <1>15, <1>16 DEF OutInv, Reported
<1>18. Alone' <=> Alone
  BY <1>6 DEF Alone
<1>19. Ordered'
  <2> SUFFICES ASSUME Alone, NEW t \in Topics, NEW i \in 1 .. Len(queue'[t])
               PROVE  /\ checkpoint < queue'[t][i]
                      /\ \A k \in 1 .. Len(reports') : reports'[k].msg < queue'[t][i]
    BY <1>6, <1>18 DEF Ordered
  <2>1. t = t0
    <3> SUFFICES ASSUME t # t0 PROVE FALSE
      OBVIOUS
    <3>1. i \in 1 .. Len(queue[t])
      BY <1>13
    <3>2. topic_of[queue[t][i]] = t
      BY <3>1 DEF OutInv, Placed
    <3>3. queue[t][i] \in Msgs
      BY <1>7, <3>1
    <3> QED
      BY <1>2, <1>15, <3>2, <3>3 DEF Alone
  <2>2. i + 1 \in 1 .. Len(queue[t]) /\ queue'[t][i] = queue[t][i + 1]
    BY <1>13, <2>1
  <2>3. checkpoint < queue[t][i + 1]
        /\ \A k \in 1 .. Len(reports) : reports[k].msg < queue[t][i + 1]
    BY <2>2 DEF OutInv, Ordered
  <2>4. m < queue[t][i + 1]
    <3>1. 1 < i + 1
      OBVIOUS
    <3> QED
      BY <1>15, <2>1, <2>2, <3>1 DEF OutInv, Placed
  <2> QED
    BY <1>16, <2>2, <2>3, <2>4
<1>20. Logged \subseteq Logged' /\ (result # "failed" => m \in Logged')
  <2>1. \A t \in Topics : \A i \in 1 .. Len(log[t]) :
          i \in 1 .. Len(log'[t]) /\ log'[t][i] = log[t][i]
    <3> SUFFICES ASSUME NEW t \in Topics, NEW i \in 1 .. Len(log[t])
                 PROVE  i \in 1 .. Len(log'[t]) /\ log'[t][i] = log[t][i]
      OBVIOUS
    <3>1. CASE t = t0 /\ result # "failed"
      <4>1. log'[t] = Append(log[t0], m)
        BY <1>9, <3>1
      <4>2. i \in 1 .. Len(log[t0]) /\ Len(log[t0]) \in Nat
        BY <1>1, <3>1
      <4>3. i \in 1 .. Len(log'[t]) /\ Append(log[t0], m)[i] = log[t0][i]
        BY <1>5, <4>1, <4>2
      <4> QED
        BY <3>1, <4>1, <4>3
    <3>2. CASE ~(t = t0 /\ result # "failed")
      BY <1>9, <3>2
    <3> QED
      BY <3>1, <3>2
  <2>2. ASSUME NEW n, n \in Logged PROVE n \in Logged'
    <3>1. PICK t \in Topics : \E i \in 1 .. Len(log[t]) : log[t][i] = n
      BY <1>7, <2>2, Members DEF Logged
    <3>2. \E i \in 1 .. Len(log'[t]) : log'[t][i] = n
      BY <2>1, <3>1
    <3> QED
      BY <1>7, <3>2, Members DEF Logged
  <2>3. ASSUME result # "failed" PROVE m \in Logged'
    <3>1. Len(log[t0]) + 1 \in 1 .. Len(log'[t0]) /\ log'[t0][Len(log[t0]) + 1] = m
      BY <1>1, <1>5, <1>9, <2>3
    <3> QED
      BY <1>7, <3>1, Members DEF Logged
  <2> QED
    BY <2>2, <2>3
<1>21. Settled \subseteq Settled' /\ m \in Settled'
  BY <1>6, <1>20 DEF Settled
<1>22. \A n \in Queued : n = m \/ n \in Queued'
  <2> SUFFICES ASSUME NEW n \in Queued, n # m PROVE n \in Queued'
    OBVIOUS
  <2>1. PICK t \in Topics : \E i \in 1 .. Len(queue[t]) : queue[t][i] = n
    BY <1>7, Members DEF Queued
  <2>2. PICK i \in 1 .. Len(queue[t]) : queue[t][i] = n
    BY <2>1
  <2>3. \E j \in 1 .. Len(queue'[t]) : queue'[t][j] = n
    <3>1. CASE t # t0
      BY <1>8, <2>2, <3>1
    <3>2. CASE t = t0
      <4>1. i # 1
        BY <1>15, <2>2, <3>2
      <4>2. i - 1 \in 1 .. Len(old) - 1 /\ (i - 1) + 1 = i
        BY <1>10, <2>2, <3>2, <4>1 DEF old
      <4>3. i - 1 \in 1 .. Len(queue'[t]) /\ queue'[t][i - 1] = old[i]
        BY <1>2, <1>8, <3>2, <4>2
      <4> QED
        BY <2>2, <3>2, <4>3 DEF old
    <3> QED
      BY <3>1, <3>2
  <2> QED
    BY <1>7, <2>3, Members DEF Queued
<1>23. Known'
  BY <1>6, <1>18, <1>21, <1>22 DEF OutInv, Known
<1> QED
  BY <1>11, <1>12, <1>14, <1>17, <1>19, <1>23 DEF OutInv

-----------------------------------------------------------------------------
(* What the checkpoint covers.                                             *)

\* No plugin has started, no message was offered.
LEMMA OutInit == Init => OutInv
<1> SUFFICES ASSUME Init PROVE OutInv
  OBVIOUS
<1>1. \A t \in Topics : queue[t] = <<>> /\ log[t] = <<>> /\ Len(queue[t]) = 0
  BY DEF Init, Empty
<1>2. Empty \in [Topics -> Seq(Msgs)] /\ <<>> \in Seq(Reports)
  BY DEF Empty
<1>3. Typed
  BY <1>2, KafkaAssumption DEF Init, Typed
<1>4. Quiet /\ Placed /\ Reported /\ Ordered
  BY <1>1 DEF Init, Quiet, Placed, Reported, Ordered
<1>5. Known
  BY DEF Init, Known, Msgs
<1> QED
  BY <1>3, <1>4, <1>5 DEF OutInv

\* Every callback of the output: those that poll take the reports, and either queue
\* the offered message, settle it, or leave it with the host.
LEMMA OutputSteps == OutInv /\ Output => OutInv'
<1> SUFFICES ASSUME OutInv, Output PROVE OutInv'
  OBVIOUS
<1>0. /\ next \in 1 .. NumMsgs + 1 /\ NumMsgs \in Nat /\ checkpoint \in 0 .. next - 1
      /\ Alone => \A t \in Topics : \A i \in 1 .. Len(queue[t]) : checkpoint < queue[t][i]
  BY KafkaAssumption DEF OutInv, Typed, Ordered
<1>1. ASSUME NEW conf \in Configs, NEW failure \in DOMAIN ProducerHeld, producer_new(conf, failure)
      PROVE  OutInv'
  BY <1>1, OutputRests DEF producer_new, hostvars, history
<1>2. CASE Collect
  <2>1. queue = Empty /\ reports = <<>> /\ producer # "open"
    BY <1>2 DEF Collect, OutInv, Quiet
  <2>2. Queued = {}
    <3>1. \A t \in Topics : Len(queue[t]) = 0
      BY <2>1 DEF Empty
    <3>2. queue \in [Topics -> Seq(Msgs)]
      BY DEF OutInv, Typed
    <3>3. ASSUME NEW m \in Queued PROVE FALSE
      <4>1. \E t \in Topics : \E i \in 1 .. Len(queue[t]) : queue[t][i] = m
        BY <3>2, <3>3, Members DEF Queued
      <4> QED
        BY <3>1, <4>1
    <3> QED
      BY <3>3
  <2> QED
    BY <1>2, <2>1, <2>2, OutputRests DEF Collect, producer_gc, hostvars
<1>3. ASSUME Polls
      PROVE  /\ checkpoint' = producer_poll_heka(reports) /\ reports' \in {reports, <<>>}
             /\ producer = "open" /\ next \in Msgs /\ next <= NumMsgs /\ next + 1 # next
             /\ UNCHANGED <<producer, topic_of, unsendable, log, failed, dropped>>
  BY <1>0, <1>3 DEF Polls, Offered, Served, Msgs
<1>4. CASE Settle
  <2>1. Polls /\ next' = next + 1 /\ next \in unsendable /\ UNCHANGED queue
    BY <1>4 DEF Settle
  <2>2. next' <= NumMsgs + 1
    BY <1>0, <1>3, <2>1
  <2> QED
    BY <1>3, <2>1, <2>2, Served1
<1>5. CASE Send
  <2>1. Polls
    BY <1>5 DEF Send
  <2>2. CASE Room
    <3>1. /\ next' = next + 1
          /\ queue' = [queue EXCEPT ![topic_of[next]] = Append(@, next)]
      BY <1>5, <2>2 DEF Send, Retried
    <3> QED
      BY <1>3, <2>1, <3>1, Queues
  <2>3. CASE ~Room
    <3>1. next' = next /\ UNCHANGED queue
      BY <1>5, <2>3 DEF Send, Retried
    <3>2. next' <= NumMsgs + 1
      BY <1>0, <3>1
    <3> QED
      BY <1>3, <2>1, <3>1, <3>2, Served1
  <2> QED
    BY <2>2, <2>3
<1>6. CASE timer_event
  <2>1. /\ producer = "open" /\ checkpoint' = producer_poll_heka(reports) /\ reports' = <<>>
        /\ UNCHANGED <<producer, topic_of, unsendable, queue, next, log, failed, dropped>>
    BY <1>6 DEF timer_event
  <2>2. next' <= NumMsgs + 1 /\ next' \in {next, next + 1}
    BY <1>0, <2>1
  <2> QED
    BY <2>1, <2>2, Served1
<1>7. CASE ThrowAtTopic
  BY <1>0, <1>7, Restarted DEF ThrowAtTopic, Stops, producer_gc
<1>8. CASE ThrowAtSend \/ Stop
  <2>1. /\ producer_poll_heka(reports) \in 0 .. next - 1
        /\ Alone => \A t \in Topics : \A i \in 1 .. Len(queue[t]) :
                      producer_poll_heka(reports) < queue[t][i]
    BY PollReports
  <2> QED
    BY <1>8, <2>1, Restarted DEF ThrowAtSend, Stop, Stops, producer_gc, Served
<1> QED
  BY <1>1, <1>2, <1>4, <1>5, <1>6, <1>7, <1>8 DEF Output, ProcessMessage

\* The input touches nothing of the output.
LEMMA InputSteps == OutInv /\ (Input \/ UNCHANGED vars) => OutInv'
<1> SUFFICES ASSUME OutInv, Input \/ UNCHANGED vars PROVE OutInv'
  OBVIOUS
<1>1. UNCHANGED outside
  BY DEF Input, consumer_new, consumer_receive, Commit, Handle, consumer_gc, Crash, vars, outside
<1> QED
  BY <1>1, OutputRests DEF outside, outvars, hostvars, history

\* kafka.c:93, output/kafka.lua:71: what update_checkpoint() was given stands for
\* messages that are in the log, failed or settled; with two topics some may still
\* be queued, or were dropped with the producer.
THEOREM CheckpointSound == Spec => []CheckpointAccounts
<1>1. OutInv /\ [Next]_vars => OutInv'
  BY OutputSteps, InputSteps, Answers DEF Next, Broker
<1>2. OutInv => CheckpointAccounts
  <2> SUFFICES ASSUME OutInv, NEW m \in 1 .. checkpoint
               PROVE  \/ m \in Logged \cup failed \cup unsendable
                      \/ Cardinality(Range(topic_of)) > 1 /\ m \in Queued \cup dropped
    BY DEF CheckpointAccounts
  <2>1. m \in Msgs /\ m < next /\ m <= checkpoint
    BY KafkaAssumption DEF OutInv, Typed, Msgs
  <2>2. m \in Settled \/ m \in Queued \/ (~Alone /\ m \in dropped)
    BY <2>1 DEF OutInv, Known
  <2>3. m \in Queued => ~Alone
    <3> SUFFICES ASSUME m \in Queued, Alone PROVE FALSE
      OBVIOUS
    <3>1. PICK t \in Topics : \E i \in 1 .. Len(queue[t]) : queue[t][i] = m
      BY Members DEF Queued, OutInv, Typed
    <3>2. checkpoint < m
      BY <3>1 DEF OutInv, Ordered
    <3> QED
      BY <2>1, <3>2 DEF OutInv, Typed, Msgs
  <2> QED
    BY <2>2, <2>3, TwoTopics DEF OutInv, Settled
<1> QED
  BY <1>1, <1>2, OutInit, PTL DEF Spec

-----------------------------------------------------------------------------
(* What exists of librdkafka.                                              *)

HeldInv ==
  /\ NothingLeaked
  /\ producer = "failed" => topics = {}
  /\ hosted => objects \subseteq {"rk", "topics"}
  /\ consumer \in {"none", "failed", "open"}
  /\ ~hosted => producer # "open" /\ topics = {}

\* Collecting a producer leaves none of its objects.
LEMMA Collected ==
  ASSUME HeldInv, NEW existing, producer_gc(existing),
         existing \subseteq live, UNCHANGED <<hosted, consumer, objects>>
  PROVE  HeldInv'
<1>1. topics' = {} /\ producer' = "none" /\ live' \subseteq existing
  BY DEF producer_gc
<1>2. CASE hosted
  <2>1. live' = {}
    BY <1>2 DEF HeldInv, NothingLeaked, producer_gc
  <2> QED
    BY <1>1, <1>2, <2>1 DEF HeldInv, NothingLeaked
<1>3. CASE ~hosted
  BY <1>1, <1>3 DEF HeldInv, NothingLeaked
<1> QED
  BY <1>2, <1>3

\* kafka.c:316-318, 339, 383-401, 628, 769-771, 808-819: whatever a constructor or
\* create_topic fails at, collection frees what is left, except that a constructor
\* that finds no sandbox loses its configuration, and nothing else.
THEOREM NothingStays == Spec => []NothingLeaked
<1>1. Init => HeldInv
  BY DEF Init, HeldInv, NothingLeaked
<1>2. HeldInv /\ [Next]_vars => HeldInv'
  <2> SUFFICES ASSUME HeldInv, [Next]_vars PROVE HeldInv'
    OBVIOUS
  <2>1. ASSUME NEW conf \in Configs, NEW failure \in DOMAIN ProducerHeld, producer_new(conf, failure)
        PROVE  HeldInv'
    <3>1. CASE hosted
      <4>1. failure # "this" /\ live = {}
        BY <2>1, <3>1 DEF producer_new, HeldInv, NothingLeaked
      <4>2. live' \subseteq {<<"rk">>}
        BY <2>1, <4>1 DEF producer_new, ProducerHeld, ProducerFreed
      <4> QED
        BY <2>1, <3>1, <4>2 DEF producer_new, invars, HeldInv, NothingLeaked
    <3>2. CASE ~hosted
      <4>1. failure \in {"conf", "this"}
        BY <2>1, <3>2 DEF producer_new
      <4>2. live' \subseteq live \cup {<<"conf">>}
        BY <2>1, <4>1 DEF producer_new, ProducerHeld, ProducerFreed
      <4> QED
        BY <2>1, <3>2, <4>1, <4>2 DEF producer_new, invars, HeldInv, NothingLeaked
    <3> QED
      BY <3>1, <3>2
  <2>2. CASE Collect
    BY <2>2, Collected DEF Collect, invars
  <2>3. CASE Polls
    BY <2>3 DEF Polls, Offered, Created, get_topic, invars, HeldInv, NothingLeaked
  <2>4. CASE timer_event
    BY <2>4 DEF timer_event, invars, HeldInv, NothingLeaked
  <2>5. CASE ThrowAtTopic
    BY <2>5, Collected DEF ThrowAtTopic, Stops, Created, invars
  <2>6. CASE ThrowAtSend \/ Stop
    BY <2>6, Collected DEF ThrowAtSend, Stop, Stops, invars
  <2>7. ASSUME NEW t \in Topics, NEW result \in {"ok", "failed", "unacked"}, Answer(t, result)
        PROVE  HeldInv'
    BY <2>7 DEF Answer, invars, HeldInv, NothingLeaked
  <2>8. CASE Input
    <3>1. UNCHANGED <<hosted, producer, topics, live>>
      BY <2>8 DEF Input, consumer_new, consumer_receive, Commit, Handle, consumer_gc, Crash,
                  outside, outvars
    <3>2. ASSUME NEW conf \in Configs, NEW tconf \in Configs, NEW list \in [Topics -> Entries],
                 NEW failure \in DOMAIN ConsumerHeld, consumer_new(conf, tconf, list, failure)
          PROVE  HeldInv'
      <4>1. consumer' \in {"failed", "open"} /\ consumer = "none" /\ hosted' = hosted
        BY <3>2 DEF consumer_new, outside
      <4>2. CASE hosted
        <5>1. failure # "this" /\ objects = {}
          BY <3>2, <4>2 DEF consumer_new, HeldInv, NothingLeaked
        <5>2. objects' \subseteq {"rk", "topics"}
          BY <3>2, <5>1 DEF consumer_new, ConsumerHeld, ConsumerFreed
        <5> QED
          BY <3>1, <4>1, <4>2, <5>2 DEF HeldInv, NothingLeaked
      <4>3. CASE ~hosted
        <5>1. failure \in {"conf", "this"}
          BY <3>2, <4>3 DEF consumer_new
        <5>2. objects' \subseteq objects \cup {"conf"}
          BY <3>2, <5>1 DEF consumer_new, ConsumerHeld, ConsumerFreed
        <5> QED
          BY <3>1, <4>1, <4>3, <5>2 DEF HeldInv, NothingLeaked
      <4> QED
        BY <4>2, <4>3
    <3>3. CASE consumer_gc \/ Crash
      BY <3>1, <3>3 DEF consumer_gc, Crash, HeldInv, NothingLeaked
    <3>4. CASE UNCHANGED <<consumer, objects>>
      BY <3>1, <3>4 DEF HeldInv, NothingLeaked
    <3> QED
      BY <2>8, <3>1, <3>2, <3>3, <3>4
      DEF Input, consumer_receive, Commit, Handle
  <2>9. CASE UNCHANGED vars
    BY <2>9 DEF vars, outvars, invars, HeldInv, NothingLeaked
  <2> QED
    BY <2>1, <2>2, <2>3, <2>4, <2>5, <2>6, <2>7, <2>8, <2>9
    DEF Next, Output, ProcessMessage, Send, Settle, Broker
<1> QED
  BY <1>1, <1>2, PTL DEF Spec, HeldInv

-----------------------------------------------------------------------------
(* What a crash of the input loses.                                        *)

Offsets == 1 .. NumMsgs * (MaxStops + 1)

\* The offsets that are committed, or may be committed before the next crash.
Claimed ==
  {p \in Topics \X Offsets :
     \/ p[2] <= committed[p[1]]
     \/ consumer # "none" /\ p[2] <= stored[p[1]]}

Unhandled == Claimed \ (handled \cup {hand})

LossInv ==
  /\ position = stored /\ stored \in [Topics -> Nat] /\ committed \in [Topics -> Nat]
  /\ Cardinality(Unhandled) <= crashes /\ crashes \in Nat

\* The set stays finite, whatever is claimed.
LEMMA ClaimsFinite == IsFiniteSet(Unhandled) /\ IsFiniteSet(Unhandled')
<1>1. NumMsgs * (MaxStops + 1) \in Nat
  BY KafkaAssumption
<1>2. IsFiniteSet(Offsets)
  BY <1>1, FS_Interval DEF Offsets
<1>3. IsFiniteSet(Topics \X Offsets)
  BY <1>2, KafkaAssumption, FS_Product
<1> QED
  BY <1>3, FS_Subset DEF Unhandled, Claimed

\* No step but a crash adds to it.
LEMMA NoneAdded ==
  ASSUME LossInv, Unhandled' \subseteq Unhandled, crashes' = crashes,
         position' = stored', stored' \in [Topics -> Nat], committed' \in [Topics -> Nat]
  PROVE  LossInv'
<1>1. Cardinality(Unhandled') <= Cardinality(Unhandled)
  BY ClaimsFinite, FS_Subset
<1>2. Cardinality(Unhandled) \in Nat /\ Cardinality(Unhandled') \in Nat
  BY ClaimsFinite, FS_CardinalityType
<1> QED
  BY <1>1, <1>2 DEF LossInv

\* A commit, a collection or a restart claims nothing new; receiving a message
\* claims the one at hand, which is handled or, with a crash, lost.
LEMMA LossSteps == LossInv /\ [Next]_vars => LossInv'
<1> SUFFICES ASSUME LossInv, [Next]_vars PROVE LossInv'
  OBVIOUS
<1>1. CASE UNCHANGED invars
  BY <1>1 DEF invars, LossInv, Unhandled, Claimed
<1>2. ASSUME NEW conf \in Configs, NEW tconf \in Configs, NEW list \in [Topics -> Entries],
             NEW failure \in DOMAIN ConsumerHeld, consumer_new(conf, tconf, list, failure)
      PROVE  LossInv'
  <2>1. /\ position' = committed /\ stored' = committed
        /\ UNCHANGED <<committed, hand, handled, crashes>>
    BY <1>2 DEF consumer_new
  <2>2. Unhandled' \subseteq Unhandled
    BY <2>1 DEF Unhandled, Claimed
  <2> QED
    BY <2>1, <2>2, NoneAdded DEF LossInv
<1>3. ASSUME NEW t \in Topics, consumer_receive(t)
      PROVE  LossInv'
  <2>1. /\ position' = [position EXCEPT ![t] = @ + 1] /\ stored' = [stored EXCEPT ![t] = position'[t]]
        /\ hand' = <<t, position'[t]>> /\ consumer = "open" /\ hand = <<>>
        /\ UNCHANGED <<consumer, committed, handled, crashes>>
    BY <1>3 DEF consumer_receive
  <2>2. position = stored /\ stored \in [Topics -> Nat]
    BY DEF LossInv
  <2>3. stored' = position' /\ stored' \in [Topics -> Nat] /\ position'[t] = stored[t] + 1
        /\ \A u \in Topics : u # t => stored'[u] = stored[u]
    BY <2>1, <2>2
  <2>4. ASSUME NEW p \in Unhandled' PROVE p \in Unhandled
    <3>1. /\ p \in Topics \X Offsets /\ p = <<p[1], p[2]>> /\ p[1] \in Topics /\ p[2] \in Offsets
          /\ p \notin handled /\ p # <<t, stored[t] + 1>>
      BY <2>1, <2>3, <2>4 DEF Unhandled, Claimed
    <3>2. p[2] \in Nat /\ stored[p[1]] \in Nat
      BY <2>2, <3>1 DEF Offsets
    <3>3. p[2] <= committed[p[1]] \/ p[2] <= stored[p[1]]
      <4>1. p[2] <= committed[p[1]] \/ p[2] <= stored'[p[1]]
        BY <2>1, <2>4 DEF Unhandled, Claimed
      <4>2. CASE p[1] = t
        <5>1. p[2] # stored[t] + 1
          BY <3>1, <4>2
        <5> QED
          BY <2>3, <3>2, <4>1, <4>2, <5>1
      <4> QED
        BY <2>3, <3>1, <4>1, <4>2
    <3>4. p # <<>>
      BY <3>1
    <3> QED
      BY <2>1, <3>1, <3>3, <3>4 DEF Unhandled, Claimed
  <2> QED
    BY <2>1, <2>3, <2>4, NoneAdded DEF LossInv
<1>4. ASSUME NEW t \in Topics, Commit(t)
      PROVE  LossInv'
  <2>1. /\ consumer = "open" /\ committed' = [committed EXCEPT ![t] = stored[t]]
        /\ UNCHANGED <<consumer, position, stored, hand, handled, crashes>>
    BY <1>4 DEF Commit
  <2>2. committed' \in [Topics -> Nat]
        /\ \A u \in Topics : committed'[u] = committed[u] \/ committed'[u] = stored[u]
    BY <2>1 DEF LossInv
  <2>3. Unhandled' \subseteq Unhandled
    BY <2>1, <2>2 DEF Unhandled, Claimed
  <2> QED
    BY <2>1, <2>2, <2>3, NoneAdded DEF LossInv
<1>5. ASSUME NEW result \in {"ok", "throws", "error"}, Handle(result)
      PROVE  LossInv'
  <2>1. /\ handled' = handled \cup {hand} /\ hand' = <<>>
        /\ UNCHANGED <<consumer, position, stored, committed, crashes>>
    BY <1>5 DEF Handle, ReportsError
  <2>2. Unhandled' \subseteq Unhandled
    BY <2>1 DEF Unhandled, Claimed
  <2> QED
    BY <2>1, <2>2, NoneAdded DEF LossInv
<1>6. CASE consumer_gc
  <2>1. /\ consumer # "none" /\ consumer' = "none"
        /\ committed' \in {committed, stored}
        /\ UNCHANGED <<position, stored, hand, handled, crashes>>
    BY <1>6 DEF consumer_gc
  <2>2. Unhandled' \subseteq Unhandled
    BY <2>1 DEF Unhandled, Claimed
  <2> QED
    BY <2>1, <2>2, NoneAdded DEF LossInv
<1>7. CASE Crash
  <2>1. /\ consumer' = "none" /\ hand' = <<>> /\ crashes' = crashes + 1
        /\ UNCHANGED <<position, stored, committed, handled>>
    BY <1>7 DEF Crash
  <2>2. Unhandled' \subseteq Unhandled \cup {hand}
    BY <2>1 DEF Unhandled, Claimed
  <2>3. IsFiniteSet(Unhandled \cup {hand})
        /\ Cardinality(Unhandled \cup {hand}) <= Cardinality(Unhandled) + 1
    <3>1. Cardinality(Unhandled) \in Nat
      BY ClaimsFinite, FS_CardinalityType
    <3>2. /\ IsFiniteSet(Unhandled \cup {hand})
          /\ Cardinality(Unhandled \cup {hand})
               = IF hand \in Unhandled THEN Cardinality(Unhandled) ELSE Cardinality(Unhandled) + 1
      BY ClaimsFinite, FS_AddElement
    <3> QED
      BY <3>1, <3>2
  <2>4. Cardinality(Unhandled') <= Cardinality(Unhandled \cup {hand})
    BY <2>2, <2>3, FS_Subset
  <2>5. /\ Cardinality(Unhandled) \in Nat /\ Cardinality(Unhandled') \in Nat
        /\ Cardinality(Unhandled \cup {hand}) \in Nat
    BY <2>3, ClaimsFinite, FS_CardinalityType
  <2> QED
    BY <2>1, <2>3, <2>4, <2>5 DEF LossInv
<1>8. Output \/ Broker \/ UNCHANGED vars => UNCHANGED invars
  BY DEF Output, Broker, vars, producer_new, Collect, ProcessMessage, Send, Settle, Polls,
         ThrowAtTopic, ThrowAtSend, timer_event, Stop, Answer
<1> QED
  BY <1>1, <1>2, <1>3, <1>4, <1>5, <1>6, <1>7, <1>8 DEF Next, Input

\* kafka.c:798-801: the offsets committed in the background and never handled are
\* at most as many as the crashes.
THEOREM LossBounded == Spec => []OneLostPerCrash
<1>1. Init => LossInv
  <2> SUFFICES ASSUME Init PROVE LossInv
    OBVIOUS
  <2>1. \A t \in Topics : stored[t] = 0 /\ committed[t] = 0
    BY DEF Init, Zero
  <2>2. Unhandled = {}
    BY <2>1 DEF Init, Unhandled, Claimed, Offsets
  <2>3. Cardinality(Unhandled) = 0
    BY <2>2, FS_EmptySet
  <2>4. stored \in [Topics -> Nat] /\ committed = stored /\ position = stored /\ crashes = 0
    BY DEF Init, Zero
  <2> QED
    BY <2>3, <2>4 DEF LossInv
<1>2. LossInv => OneLostPerCrash
  <2> SUFFICES ASSUME LossInv PROVE OneLostPerCrash
    OBVIOUS
  <2> DEFINE below == {p \in Topics \X Offsets : p[2] <= committed[p[1]]}
             lost == below \ (handled \cup {hand})
  <2>1. lost \subseteq Unhandled
    BY DEF Unhandled, Claimed
  <2>2. Cardinality(lost) <= Cardinality(Unhandled) /\ IsFiniteSet(lost)
    BY <2>1, ClaimsFinite, FS_Subset
  <2>3. Cardinality(lost) \in Nat /\ Cardinality(Unhandled) \in Nat
    BY <2>2, ClaimsFinite, FS_CardinalityType
  <2>4. Cardinality(lost) <= crashes
    BY <2>2, <2>3 DEF LossInv
  <2> QED
    BY <2>4 DEF OneLostPerCrash, Offsets
<1> QED
  BY <1>1, <1>2, LossSteps, PTL DEF Spec
=============================================================================
