--------------------------- MODULE Kinesis_proofs ---------------------------
(***************************************************************************)
(* Proofs about the two Kinesis plugins.                                   *)
(*                                                                         *)
(* The output (KinesisPack): for every number of messages and restarts,    *)
(* every size of messages, of the record and of its payload unit.  The     *)
(* pack is what it was after a message is added and taken out again        *)
(* (AddResult), and the checkpoint moves over a message in the pack only   *)
(* when that has no message before it, because the answer for a second     *)
(* one is "batch", which holds the checkpoint back (Held).                 *)
(*                                                                         *)
(* The input (KinesisConsumer): for every number of shards, however they   *)
(* are split or merged, and every number of records and crashes.  A        *)
(* sequence id or an iterator says where reading goes on; everything       *)
(* before it must have been injected or be in the batch at hand.  That is  *)
(* kept for every shard known, since a checkpoint goes out with a batch of *)
(* one shard but carries the sequence ids of all.                          *)
(***************************************************************************)
EXTENDS KinesisPack, KinesisConsumer, TLAPS, SequenceTheorems

-----------------------------------------------------------------------------
(* The output: the inductive invariant, by parts.                          *)

Packs == [msgs: Seq(Msgs), size: 0 .. PUT_MAX, timer: BOOLEAN]

\* The pack holds messages offered before.
Earlier == checkpoint < next /\ \A m \in Packed : m < next

\* A pack of two messages holds the checkpoint back.
Held == Len(pack.msgs) > 1 => batching

IInv == /\ TypeOK /\ pack \in Packs /\ Earlier /\ Held
        /\ PackInOrder /\ ExposureIsOneMessage /\ AnsweredAccounted

-----------------------------------------------------------------------------
(* Lemmas about the pack.                                                  *)

\* A message appended to a sequence of messages.
LEMMA AppendMessage ==
  ASSUME NEW s \in Seq(Msgs), NEW m \in Msgs
  PROVE  /\ Append(s, m) \in Seq(Msgs) /\ Len(Append(s, m)) = Len(s) + 1
         /\ Append(s, m)[Len(s) + 1] = m
         /\ \A i \in 1 .. Len(s) : Append(s, m)[i] = s[i]
         /\ Range(Append(s, m)) = Range(s) \cup {m}
         /\ Front(Append(s, m)) = s
<1> DEFINE app == Append(s, m)
<1>1. /\ app \in Seq(Msgs) /\ Len(app) = Len(s) + 1 /\ Len(s) \in Nat
      /\ app[Len(s) + 1] = m /\ \A i \in 1 .. Len(s) : app[i] = s[i]
      /\ DOMAIN s = 1 .. Len(s) /\ DOMAIN app = (1 .. Len(s)) \cup {Len(s) + 1}
  OBVIOUS
<1> HIDE DEF app
<1>2. Range(app) = Range(s) \cup {m}
  BY <1>1 DEF Range
<1>3. Front(app) = s
  <2>1. Front(app) = SubSeq(app, 1, Len(s))
    BY <1>1 DEF Front
  <2>2. \A i \in 1 .. Len(s) : app[i] \in Msgs
    BY <1>1
  <2>3. /\ SubSeq(app, 1, Len(s)) \in Seq(Msgs)
        /\ Len(SubSeq(app, 1, Len(s))) = Len(s)
        /\ \A i \in 1 .. Len(s) : SubSeq(app, 1, Len(s))[i] = app[i]
    BY <1>1, <2>2, SubSeqProperties
  <2>4. SubSeq(app, 1, Len(s)) = s
    BY <1>1, <2>3, SeqEqual
  <2> QED
    BY <2>1, <2>4
<1> QED
  BY <1>1, <1>2, <1>3 DEF app

\* The empty pack.
LEMMA EmptyPackIs ==
  /\ EmptyPack \in Packs /\ EmptyPack.msgs = <<>> /\ Len(<<>>) = 0 /\ EmptyPack.size = 0
  /\ Range(<<>>) = {}
<1>1. <<>> \in Seq(Msgs) /\ 0 \in 0 .. PUT_MAX
  BY PackAssumption
<1>2. Range(<<>>) = {}
  BY DEF Range
<1> QED
  BY <1>1, <1>2 DEF EmptyPack, Packs

\* Adding the offered message leaves it at the end of the pack, or the pack as it
\* was, or an empty one when the record with it is out.
LEMMA AddResult ==
  ASSUME TypeOK, NEW p \in Packs, next \in Msgs, p.size + AddedSize(p, next) <= PUT_MAX,
         NEW rv, NEW outcome \in Outcomes
  PROVE  LET added == Add(p, rv, outcome) IN
         /\ added.pack \in Packs
         /\ \/ /\ added.pack.msgs = Append(p.msgs, next)
               /\ added.rv = rv /\ added.put = {} /\ added.drop = {}
            \/ /\ added.pack.msgs = p.msgs
               /\ added.rv = "retry" /\ added.put = {} /\ added.drop = {}
            \/ /\ added.pack.msgs = <<>> /\ added.rv \in {"sent", "fail"}
               /\ added.put \cup added.drop = Range(p.msgs) \cup {next}
<1> DEFINE q == Append1(p, next)
           added == Add(p, rv, outcome)
           a == AddedSize(p, next)
<1>1. p.msgs \in Seq(Msgs) /\ p.size \in 0 .. PUT_MAX /\ p.timer \in BOOLEAN
  BY DEF Packs
<1>2. a \in Nat
  <2>1. dlen[next] \in Nat /\ pack_delimiter_size \in Nat
    BY PackAssumption DEF TypeOK
  <2>2. a = dlen[next] + 0 \/ a = dlen[next] + pack_delimiter_size
    BY DEF AddedSize
  <2> HIDE DEF a
  <2> QED
    BY <2>1, <2>2
<1>3. Append(p.msgs, next) \in Seq(Msgs) /\ Front(Append(p.msgs, next)) = p.msgs
  BY <1>1, AppendMessage
<1>4. p.size + a \in 0 .. PUT_MAX /\ p.size + a - a = p.size
  BY <1>1, <1>2, PackAssumption
<1>5. q \in Packs /\ q.msgs = Append(p.msgs, next) /\ q.size = p.size + a /\ q.timer = p.timer
  <2>1. q = [p EXCEPT !.msgs = Append(p.msgs, next), !.size = p.size + a]
    BY DEF Append1
  <2> DEFINE m == Append(p.msgs, next)
             n == p.size + a
  <2>2. m \in Seq(Msgs) /\ n \in 0 .. PUT_MAX /\ q = [p EXCEPT !.msgs = m, !.size = n]
    BY <1>3, <1>4, <2>1
  <2> HIDE DEF q, m, n
  <2>3. q \in Packs /\ q.msgs = m /\ q.size = n /\ q.timer = p.timer
    BY <2>2 DEF Packs
  <2> QED
    BY <2>3 DEF m, n
<1>6. Undo(q, a) = p
  <2> HIDE DEF q, a
  <2> DEFINE u == Undo(q, a)
             m == Front(q.msgs)
             n == q.size - a
  <2>1. u = [q EXCEPT !.msgs = m, !.size = n]
    BY DEF Undo
  <2> HIDE DEF q, a
  <2>2. m = p.msgs /\ n = p.size
    <3>1. m = p.msgs
      BY <1>3, <1>5
    <3>2. n = p.size
      BY <1>1, <1>2, <1>5
    <3> QED
      BY <3>1, <3>2
  <2> HIDE DEF u, m, n
  <2>3. m \in Seq(Msgs) /\ n \in 0 .. PUT_MAX
    BY <1>1, <2>2
  <2>4. u \in Packs /\ u.msgs = m /\ u.size = n /\ u.timer = q.timer
    BY <1>5, <2>1, <2>3 DEF Packs
  <2>5. u = p
    BY <1>5, <2>2, <2>4 DEF Packs
  <2> QED
    BY <2>5 DEF u
<1>7. Range(q.msgs) = Range(p.msgs) \cup {next}
  BY <1>1, <1>5, AppendMessage
<1> HIDE DEF q, a
<1>8. CASE ~(rv # "fail" /\ FullEnough(q))
  <2>1. added = [pack |-> q, rv |-> rv, put |-> {}, drop |-> {}]
    BY <1>8 DEF Add, q
  <2> HIDE DEF added
  <2>2. /\ added.pack = q /\ added.rv = rv /\ added.put = {} /\ added.drop = {}
    BY <2>1
  <2> QED
    BY <1>5, <2>2 DEF added
<1>9. CASE rv # "fail" /\ FullEnough(q) /\ outcome = "retry"
  <2>1. added = [pack |-> [p EXCEPT !.timer = FALSE], rv |-> Code(outcome),
                 put |-> Put(q, outcome), drop |-> Drop(q, outcome)]
    BY <1>6, <1>9 DEF Add, q, a
  <2>2. Code(outcome) = "retry" /\ Put(q, outcome) = {} /\ Drop(q, outcome) = {}
    BY <1>9 DEF Code, Put, Drop
  <2>3. [p EXCEPT !.timer = FALSE] \in Packs /\ [p EXCEPT !.timer = FALSE].msgs = p.msgs
    BY DEF Packs
  <2> HIDE DEF added
  <2>4. /\ added.pack = [p EXCEPT !.timer = FALSE]
        /\ added.rv = "retry" /\ added.put = {} /\ added.drop = {}
    BY <2>1, <2>2
  <2> QED
    BY <2>3, <2>4 DEF added
<1>10. CASE rv # "fail" /\ FullEnough(q) /\ outcome # "retry"
  <2>1. added = [pack |-> [EmptyPack EXCEPT !.timer = FALSE], rv |-> Code(outcome),
                 put |-> Put(q, outcome), drop |-> Drop(q, outcome)]
    BY <1>10 DEF Add, q, a
  <2>2. Code(outcome) \in {"sent", "fail"} /\ Put(q, outcome) \cup Drop(q, outcome) = Range(q.msgs)
    BY <1>10 DEF Code, Put, Drop, Outcomes
  <2>3. [EmptyPack EXCEPT !.timer = FALSE] \in Packs /\ [EmptyPack EXCEPT !.timer = FALSE].msgs = <<>>
    BY EmptyPackIs DEF Packs
  <2> HIDE DEF added
  <2>4. /\ added.pack = [EmptyPack EXCEPT !.timer = FALSE]
        /\ added.rv \in {"sent", "fail"} /\ added.put \cup added.drop = Range(q.msgs)
    BY <2>1, <2>2
  <2> QED
    BY <1>7, <2>3, <2>4 DEF added
<1> QED
  BY <1>8, <1>9, <1>10

-----------------------------------------------------------------------------
(* The invariant is inductive.                                             *)

\* What concerns the pack and the host.
PackInv == HostTypeOK /\ pack \in Packs /\ Earlier /\ Held /\ PackInOrder /\ ExposureIsOneMessage

\* Without a restart, what was answered before is somewhere.
Answered1 == restarts = 0 =>
  1 .. next - 1 \subseteq Packed \cup delivered \cup rejected \cup refused

\* The parts cover the invariant.
LEMMA Parts ==
  /\ IInv => PackInv /\ Answered1
  /\ PackInv /\ Answered1 /\ dlen \in [Msgs -> Sizes]
       /\ delivered \subseteq Msgs /\ rejected \subseteq Msgs /\ refused \subseteq Msgs => IInv
<1>1. IInv => PackInv /\ Answered1
  BY DEF IInv, PackInv, Answered1, AnsweredAccounted, TypeOK
<1>2. ASSUME PackInv PROVE next \notin Packed
  BY <1>2 DEF PackInv, Earlier, HostTypeOK
<1>3. ASSUME PackInv, Answered1, dlen \in [Msgs -> Sizes],
             delivered \subseteq Msgs, rejected \subseteq Msgs, refused \subseteq Msgs
      PROVE  IInv
  <2>1. pack.msgs \in Seq(Msgs) /\ pack.size \in 0 .. PUT_MAX /\ pack.timer \in BOOLEAN
    BY <1>3 DEF PackInv, Packs
  <2> QED
    BY <1>2, <1>3, <2>1 DEF PackInv, IInv, Answered1, AnsweredAccounted, TypeOK
<1> QED
  BY <1>1, <1>3

\* An answer keeps the host well typed and the checkpoint behind it.
LEMMA HostAnswers ==
  ASSUME HostTypeOK, checkpoint < next, next \in Msgs,
         NEW rv \in {"sent", "batch", "retry", "fail"}, HostReturn(rv)
  PROVE  /\ HostTypeOK' /\ checkpoint' < next' /\ checkpoint' \in {checkpoint, next}
         /\ restarts' = restarts
         /\ rv # "retry" => next' = next + 1
         /\ rv = "retry" => next' = next
<1>1. next \in 1 .. NumMsgs /\ checkpoint \in 0 .. NumMsgs /\ restarts \in 0 .. MaxRestarts
  BY DEF HostTypeOK, Msgs
<1>2. batching' \in BOOLEAN
  BY Zenon DEF HostReturn, HostTypeOK
<1>3. /\ next' \in 1 .. NumMsgs + 1 /\ checkpoint' \in 0 .. NumMsgs /\ restarts' = restarts
      /\ checkpoint' < next' /\ checkpoint' \in {checkpoint, next}
  BY <1>1, NumMsgsAssumption DEF HostReturn
<1> QED
  BY <1>1, <1>2, <1>3 DEF HostReturn, HostTypeOK

\* A new pack without messages is as good as any.
LEMMA EmptiedPack ==
  ASSUME HostTypeOK', checkpoint' < next', pack' \in Packs, pack'.msgs = <<>>
  PROVE  PackInv' /\ Packed' = {}
<1>1. Packed' = {} /\ Len(pack'.msgs) = 0
  BY EmptyPackIs DEF Packed
<1>2. Held' /\ PackInOrder' /\ ExposureIsOneMessage'
  BY <1>1 DEF Held, PackInOrder, ExposureIsOneMessage
<1> QED
  BY <1>1, <1>2 DEF PackInv, Earlier

\* The offered message is added to the pack, or to an empty one.
LEMMA AddPreserves ==
  ASSUME IInv, NEW p \in Packs, next \in Msgs, p.size + AddedSize(p, next) <= PUT_MAX,
         NEW rv \in {"sent", "batch", "fail"}, NEW outcome \in Outcomes,
         (p = pack /\ rv = "batch") \/ p.msgs = <<>>,
         pack' = Add(p, rv, outcome).pack, HostReturn(Add(p, rv, outcome).rv)
  PROVE  /\ PackInv'
         /\ restarts' = restarts
         /\ 1 .. next' - 1 \subseteq (1 .. next - 1) \cup {next}
         /\ Range(p.msgs) \subseteq Packed' \cup Add(p, rv, outcome).put \cup Add(p, rv, outcome).drop
         /\ next \in Packed' \cup Add(p, rv, outcome).put \cup Add(p, rv, outcome).drop
              \/ next' = next
         /\ Add(p, rv, outcome).put \cup Add(p, rv, outcome).drop \subseteq Msgs
<1> DEFINE added == Add(p, rv, outcome)
<1>1. /\ added.pack \in Packs
      /\ \/ /\ added.pack.msgs = Append(p.msgs, next)
            /\ added.rv = rv /\ added.put = {} /\ added.drop = {}
         \/ /\ added.pack.msgs = p.msgs
            /\ added.rv = "retry" /\ added.put = {} /\ added.drop = {}
         \/ /\ added.pack.msgs = <<>> /\ added.rv \in {"sent", "fail"}
            /\ added.put \cup added.drop = Range(p.msgs) \cup {next}
  BY AddResult DEF IInv
<1>2. pack' = added.pack /\ HostReturn(added.rv)
  OBVIOUS
<1> HIDE DEF added
<1>3. HostTypeOK /\ checkpoint < next /\ Earlier /\ Held /\ PackInOrder /\ ExposureIsOneMessage
  BY DEF IInv, TypeOK, Earlier
<1>t. next \in Nat /\ next >= 1 /\ checkpoint \in Nat /\ p.msgs \in Seq(Msgs) /\ Len(p.msgs) \in Nat
  BY <1>3 DEF HostTypeOK, Packs
<1>4. added.rv \in {"sent", "batch", "retry", "fail"}
  BY <1>1
<1>5. /\ HostTypeOK' /\ checkpoint' < next' /\ checkpoint' \in {checkpoint, next}
      /\ restarts' = restarts
      /\ added.rv # "retry" => next' = next + 1
      /\ added.rv = "retry" => next' = next
  BY <1>2, <1>3, <1>4, HostAnswers
<1>6. 1 .. next' - 1 \subseteq (1 .. next - 1) \cup {next}
  BY <1>t, <1>5
<1>r. Range(p.msgs) \subseteq Msgs
  BY <1>t DEF Range
<1>7. CASE /\ added.pack.msgs = Append(p.msgs, next)
           /\ added.rv = rv /\ added.put = {} /\ added.drop = {}
  <2> DEFINE app == Append(p.msgs, next)
  <2>1. /\ app \in Seq(Msgs) /\ Len(app) = Len(p.msgs) + 1 /\ app[Len(p.msgs) + 1] = next
        /\ \A i \in 1 .. Len(p.msgs) : app[i] = p.msgs[i]
        /\ Range(app) = Range(p.msgs) \cup {next}
    BY <1>t, AppendMessage
  <2> HIDE DEF app
  <2>2. pack'.msgs = app /\ Packed' = Range(p.msgs) \cup {next} /\ next' = next + 1
    BY <1>2, <1>5, <1>7, <2>1 DEF Packed, app
  <2>3. CASE p = pack /\ rv = "batch"
    <3>1. batching' = TRUE /\ checkpoint' = checkpoint
      BY <1>2, <1>7, <2>3 DEF HostReturn
    <3>2. \A m \in Range(p.msgs) : m < next
      BY <1>3, <2>3 DEF Earlier, Packed
    <3>3. \A i \in 1 .. Len(p.msgs) : p.msgs[i] \in Range(p.msgs) /\ p.msgs[i] \in Nat
      <4>1. DOMAIN p.msgs = 1 .. Len(p.msgs) /\ \A i \in 1 .. Len(p.msgs) : p.msgs[i] \in Msgs
        BY <1>t
      <4>2. Msgs \subseteq Nat
        BY DEF Msgs
      <4> QED
        BY <4>1, <4>2 DEF Range
    <3>4. Earlier'
      BY <1>t, <1>5, <1>r, <2>2, <3>2 DEF Earlier, Msgs
    <3>5. PackInOrder'
      <4>1. ASSUME NEW i \in 1 .. Len(app), NEW j \in 1 .. Len(app), i < j
            PROVE  app[i] < app[j]
        <5>1. CASE j \in 1 .. Len(p.msgs)
          BY <1>3, <2>1, <2>3, <4>1, <5>1 DEF PackInOrder
        <5>2. CASE j = Len(p.msgs) + 1
          BY <1>t, <2>1, <3>2, <3>3, <4>1, <5>2
        <5> QED
          BY <1>t, <2>1, <5>1, <5>2
      <4> QED
        BY <2>2, <4>1 DEF PackInOrder
    <3>6. ExposureIsOneMessage'
      <4>1. ASSUME NEW i \in 1 .. Len(app), app[i] <= checkpoint
            PROVE  i = 1
        <5>1. CASE i \in 1 .. Len(p.msgs)
          BY <1>3, <2>1, <2>3, <4>1, <5>1 DEF ExposureIsOneMessage
        <5>2. CASE i = Len(p.msgs) + 1
          BY <1>t, <1>3, <2>1, <4>1, <5>2
        <5> QED
          BY <1>t, <2>1, <5>1, <5>2
      <4> QED
        BY <2>2, <3>1, <4>1 DEF ExposureIsOneMessage
    <3>7. PackInv'
      BY <1>1, <1>2, <1>5, <3>1, <3>4, <3>5, <3>6 DEF PackInv, Held
    <3> QED
      BY <1>5, <1>6, <1>7, <2>2, <3>7 DEF added
  <2>4. CASE p.msgs = <<>>
    <3>1. Len(app) = 1 /\ Packed' = {next}
      BY <2>1, <2>2, <2>4, EmptyPackIs
    <3>2. Earlier'
      BY <1>t, <1>5, <2>2, <3>1 DEF Earlier
    <3>3. Held' /\ PackInOrder' /\ ExposureIsOneMessage'
      BY <2>2, <3>1 DEF Held, PackInOrder, ExposureIsOneMessage
    <3>4. PackInv'
      BY <1>1, <1>2, <1>5, <3>2, <3>3 DEF PackInv
    <3> QED
      BY <1>5, <1>6, <1>7, <2>2, <3>4 DEF added
  <2> QED
    BY <2>3, <2>4
<1>8. CASE /\ added.pack.msgs = p.msgs
           /\ added.rv = "retry" /\ added.put = {} /\ added.drop = {}
  <2>1. next' = next /\ checkpoint' = checkpoint /\ batching' = batching /\ pack'.msgs = p.msgs
    BY <1>2, <1>8 DEF HostReturn
  <2>2. Packed' = Range(p.msgs)
    BY <2>1 DEF Packed
  <2>3. PackInv'
    <3>1. CASE p = pack
      BY <1>1, <1>2, <1>3, <1>5, <2>1, <2>2, <3>1
         DEF PackInv, Earlier, Held, PackInOrder, ExposureIsOneMessage, Packed
    <3>2. CASE p.msgs = <<>>
      BY <1>1, <1>2, <1>5, <2>1, <3>2, EmptiedPack
    <3> QED
      BY <3>1, <3>2
  <2> QED
    BY <1>5, <1>6, <1>8, <2>1, <2>2, <2>3 DEF added
<1>9. CASE /\ added.pack.msgs = <<>> /\ added.rv \in {"sent", "fail"}
           /\ added.put \cup added.drop = Range(p.msgs) \cup {next}
  <2>1. PackInv' /\ Packed' = {}
    BY <1>1, <1>2, <1>5, <1>9, EmptiedPack
  <2> QED
    BY <1>5, <1>6, <1>9, <1>r, <2>1 DEF added
<1> QED
  BY <1>1, <1>7, <1>8, <1>9

\* The pack stays in order and in front of the checkpoint, over every step.
LEMMA Inductive == IInv /\ [Next]_vars => IInv'
<1> SUFFICES ASSUME IInv, [Next]_vars PROVE IInv'
  OBVIOUS
<1>0. /\ PackInv /\ Answered1 /\ dlen \in [Msgs -> Sizes]
      /\ delivered \subseteq Msgs /\ rejected \subseteq Msgs /\ refused \subseteq Msgs
  BY Parts DEF IInv, TypeOK
<1>t. /\ HostTypeOK /\ next \in 1 .. NumMsgs + 1 /\ checkpoint \in 0 .. NumMsgs
      /\ restarts \in 0 .. MaxRestarts /\ checkpoint < next
      /\ pack \in Packs /\ pack.msgs \in Seq(Msgs) /\ Packed \subseteq Msgs
  BY <1>0 DEF PackInv, HostTypeOK, Earlier, Packs, Packed, Range
<1>p. ASSUME PackInv', Answered1', dlen' = dlen,
             delivered' \subseteq Msgs, rejected' \subseteq Msgs, refused' \subseteq Msgs
      PROVE  IInv'
  <2>1. /\ (PackInv /\ Answered1 /\ dlen \in [Msgs -> Sizes]
             /\ delivered \subseteq Msgs /\ rejected \subseteq Msgs /\ refused \subseteq Msgs => IInv)'
    BY Parts, PTL
  <2> QED
    BY <1>0, <1>p, <2>1
<1> USE DEF history, host, vars
<1>1. CASE Refuse
  <2>1. next \in Msgs /\ HostReturn("fail") /\ refused' = refused \cup {next}
        /\ UNCHANGED <<pack, dlen, delivered, rejected>>
    BY <1>1 DEF Refuse
  <2>2. HostTypeOK' /\ checkpoint' < next' /\ restarts' = restarts /\ next' = next + 1
    BY <1>t, <2>1, HostAnswers
  <2>3. Packed' = Packed /\ checkpoint' = (IF batching THEN checkpoint ELSE next) /\ batching' = batching
    BY <2>1 DEF Packed, HostReturn
  <2>4. Earlier' /\ Held' /\ PackInOrder'
    BY <1>0, <1>t, <2>1, <2>2, <2>3 DEF PackInv, Earlier, Held, PackInOrder, Msgs
  <2>5. ExposureIsOneMessage'
    <3>1. CASE batching
      BY <1>0, <2>1, <2>3, <3>1 DEF PackInv, ExposureIsOneMessage
    <3>2. CASE ~batching
      <4>1. Len(pack.msgs) \in Nat /\ Len(pack.msgs) <= 1
        BY <1>0, <1>t, <3>2 DEF PackInv, Held
      <4> QED
        BY <2>1, <4>1 DEF ExposureIsOneMessage
    <3> QED
      BY <3>1, <3>2
  <2>6. Answered1'
    BY <1>0, <1>t, <2>1, <2>2, <2>3 DEF Answered1
  <2> QED
    BY <1>0, <1>p, <1>t, <2>1, <2>2, <2>4, <2>5, <2>6 DEF PackInv
<1>2. CASE OverflowRetry
  <2>1. next \in Msgs /\ HostReturn("retry") /\ UNCHANGED <<pack, dlen, delivered, rejected, refused>>
    BY <1>2 DEF OverflowRetry
  <2>2. UNCHANGED <<next, batching, checkpoint, restarts>>
    BY <2>1 DEF HostReturn
  <2>3. PackInv' /\ Answered1'
    BY <1>0, <2>1, <2>2
       DEF PackInv, HostTypeOK, Earlier, Held, PackInOrder, ExposureIsOneMessage, Answered1, Packed
  <2> QED
    BY <1>0, <1>p, <2>1, <2>3
<1>3. ASSUME NEW outcome \in Outcomes, Pack(outcome)
      PROVE  IInv'
  <2> DEFINE added == Add(pack, "batch", outcome)
  <2>1. /\ next \in Msgs /\ pack' = added.pack /\ HostReturn(added.rv)
        /\ delivered' = delivered \cup added.put /\ rejected' = rejected \cup added.drop
        /\ UNCHANGED <<dlen, refused>>
    BY <1>3 DEF Pack
  <2>2. pack.size + AddedSize(pack, next) <= PUT_MAX
    <3>1. pack.size \in Nat /\ dlen[next] \in Nat /\ pack_delimiter_size \in Nat
      <4>1. dlen[next] \in Sizes
        BY <1>0, <2>1
      <4>2. pack.size \in 0 .. PUT_MAX
        BY <1>t DEF Packs
      <4>3. Sizes \subseteq Nat /\ PUT_MAX \in Nat /\ pack_delimiter_size \in Nat
        BY PackAssumption
      <4>4. pack.size \in Nat
        BY <4>2, <4>3
      <4> QED
        BY <4>1, <4>3, <4>4
    <3>2. AddedSize(pack, next) \in Nat
      <4>1. AddedSize(pack, next) = dlen[next] + 0 \/ AddedSize(pack, next) = dlen[next] + pack_delimiter_size
        BY DEF AddedSize
      <4> QED
        BY <3>1, <4>1
    <3> QED
      BY <1>3, <3>1, <3>2, PackAssumption DEF Pack, Overflows
  <2>3. /\ PackInv' /\ restarts' = restarts
        /\ 1 .. next' - 1 \subseteq (1 .. next - 1) \cup {next}
        /\ Packed \subseteq Packed' \cup added.put \cup added.drop
        /\ next \in Packed' \cup added.put \cup added.drop \/ next' = next
        /\ added.put \cup added.drop \subseteq Msgs
    BY <1>t, <2>1, <2>2, AddPreserves DEF Packed
  <2> HIDE DEF added
  <2>4. Answered1'
    <3>1. next' = next => 1 .. next' - 1 \subseteq 1 .. next - 1
      OBVIOUS
    <3> QED
      BY <1>0, <2>1, <2>3, <3>1 DEF Answered1
  <2> QED
    BY <1>0, <1>p, <2>1, <2>3, <2>4
<1>4. ASSUME NEW first \in Outcomes, NEW outcome \in Outcomes, OverflowPack(first, outcome)
      PROVE  IInv'
  <2> DEFINE fresh == [EmptyPack EXCEPT !.timer = FALSE]
             added == Add(fresh, Code(first), outcome)
  <2>1. /\ next \in Msgs /\ dlen[next] <= PUT_MAX /\ first # "retry"
        /\ pack' = added.pack /\ HostReturn(added.rv)
        /\ delivered' = delivered \cup Put(pack, first) \cup added.put
        /\ rejected' = rejected \cup Drop(pack, first) \cup added.drop
        /\ UNCHANGED <<dlen, refused>>
    BY <1>4 DEF OverflowPack
  <2>2. fresh \in Packs /\ fresh.msgs = <<>> /\ fresh.size = 0
    BY EmptyPackIs DEF Packs
  <2>3. fresh.size + AddedSize(fresh, next) <= PUT_MAX
    <3> HIDE DEF fresh
    <3>1. AddedSize(fresh, next) = dlen[next] + 0 /\ dlen[next] \in Nat
      BY <1>0, <2>1, <2>2, PackAssumption DEF AddedSize
    <3> QED
      BY <2>1, <2>2, <3>1
  <2>4. Code(first) \in {"sent", "fail"} /\ Put(pack, first) \cup Drop(pack, first) = Packed
    BY <2>1 DEF Outcomes, Code, Put, Drop, Packed
  <2>5. /\ PackInv' /\ restarts' = restarts
        /\ 1 .. next' - 1 \subseteq (1 .. next - 1) \cup {next}
        /\ next \in Packed' \cup added.put \cup added.drop \/ next' = next
        /\ added.put \cup added.drop \subseteq Msgs
    <3> HIDE DEF fresh
    <3> QED
      BY <2>1, <2>2, <2>3, <2>4, AddPreserves
  <2> HIDE DEF added
  <2>6. Answered1'
    <3>1. next' = next => 1 .. next' - 1 \subseteq 1 .. next - 1
      OBVIOUS
    <3> QED
      BY <1>0, <2>1, <2>4, <2>5, <3>1 DEF Answered1
  <2> QED
    BY <1>0, <1>p, <1>t, <2>1, <2>4, <2>5, <2>6
<1>5. ASSUME NEW outcome \in Outcomes, TimerEvent(outcome), FlushDue
      PROVE  IInv'
  <2>1. /\ pack' = [AfterSend(pack, outcome) EXCEPT !.timer = TRUE]
        /\ delivered' = delivered \cup Put(pack, outcome)
        /\ rejected' = rejected \cup Drop(pack, outcome)
        /\ HostTicked(Acknowledged(outcome)) /\ UNCHANGED <<dlen, refused>>
    BY <1>5 DEF TimerEvent
  <2>2. UNCHANGED <<next, restarts>> /\ next - 1 \in 0 .. NumMsgs
    BY <1>t, <2>1, NumMsgsAssumption DEF HostTicked
  <2>3. CASE outcome = "retry"
    <3>1. pack' = [pack EXCEPT !.timer = TRUE] /\ checkpoint' = checkpoint /\ batching' = (batching /\ TRUE)
          /\ delivered' = delivered /\ rejected' = rejected
      BY <2>1, <2>3 DEF AfterSend, HostTicked, Acknowledged, Put, Drop
    <3>2. pack' \in Packs /\ pack'.msgs = pack.msgs
      BY <1>t, <3>1 DEF Packs
    <3>3. Packed' = Packed /\ batching' = batching
      <4>1. batching' = batching
        BY <1>t, <3>1, Zenon DEF HostTypeOK
      <4> QED
        BY <3>2, <4>1 DEF Packed
    <3>4. PackInv'
      BY <1>0, <2>2, <3>1, <3>2, <3>3
         DEF PackInv, HostTypeOK, Earlier, Held, PackInOrder, ExposureIsOneMessage
    <3>5. Answered1'
      BY <1>0, <2>1, <2>2, <3>1, <3>3 DEF Answered1
    <3> QED
      BY <1>0, <1>p, <2>1, <3>1, <3>4, <3>5
  <2>4. CASE outcome # "retry"
    <3>1. pack' = [EmptyPack EXCEPT !.timer = TRUE] /\ checkpoint' \in {checkpoint, next - 1}
          /\ batching' = (batching /\ ~Acknowledged(outcome))
      BY <2>1, <2>4 DEF AfterSend, HostTicked, LastAnswered
    <3>2. pack' \in Packs /\ pack'.msgs = <<>>
      BY <3>1, EmptyPackIs DEF Packs
    <3>3. Put(pack, outcome) \cup Drop(pack, outcome) = Packed
      BY <2>4 DEF Put, Drop, Packed, Outcomes
    <3>4. HostTypeOK' /\ checkpoint' < next'
      <4>1. batching' \in BOOLEAN
        BY <3>1, Zenon
      <4> QED
        BY <1>t, <2>2, <3>1, <4>1 DEF HostTypeOK
    <3>5. PackInv' /\ Packed' = {}
      BY <3>2, <3>4, EmptiedPack
    <3>6. Answered1'
      BY <1>0, <2>1, <2>2, <3>3, <3>5 DEF Answered1
    <3> QED
      BY <1>0, <1>p, <1>t, <2>1, <3>3, <3>5, <3>6
  <2> QED
    BY <2>3, <2>4
<1>6. ASSUME NEW outcome \in Outcomes, TimerEvent(outcome), ~FlushDue
      PROVE  IInv'
  <2>1. pack' = [pack EXCEPT !.timer = TRUE] /\ HostTicked(FALSE)
        /\ UNCHANGED <<dlen, refused, delivered, rejected>>
    BY <1>6 DEF TimerEvent
  <2>2. pack' \in Packs /\ pack'.msgs = pack.msgs
    BY <1>t, <2>1 DEF Packs
  <2>3. UNCHANGED <<next, checkpoint, restarts>> /\ batching' = (batching /\ TRUE)
    BY <2>1 DEF HostTicked
  <2>4. Packed' = Packed /\ batching' = batching
    <3>1. batching' = batching
      BY <1>t, <2>3, Zenon DEF HostTypeOK
    <3> QED
      BY <2>2, <3>1 DEF Packed
  <2>5. PackInv' /\ Answered1'
    BY <1>0, <2>1, <2>2, <2>3, <2>4
       DEF PackInv, HostTypeOK, Earlier, Held, PackInOrder, ExposureIsOneMessage, Answered1
  <2> QED
    BY <1>0, <1>p, <2>1, <2>5
<1>7. ASSUME NEW updated \in BOOLEAN, HostRestarts(updated), pack' = EmptyPack, dlen' = dlen,
             delivered' \subseteq Msgs, rejected' \subseteq Msgs, refused' \subseteq Msgs
      PROVE  IInv'
  <2>1. /\ restarts < MaxRestarts /\ restarts' = restarts + 1
        /\ checkpoint' = (IF updated THEN next - 1 ELSE checkpoint)
        /\ next' = checkpoint' + 1 /\ batching' = FALSE
    BY <1>7 DEF HostRestarts, LastAnswered
  <2>2. checkpoint' \in 0 .. NumMsgs
    <3>1. next - 1 \in 0 .. NumMsgs
      BY <1>t, NumMsgsAssumption
    <3> QED
      BY <1>t, <2>1, <3>1
  <2>3. next' \in 1 .. NumMsgs + 1 /\ checkpoint' < next'
    <3>1. \A c \in 0 .. NumMsgs : c + 1 \in 1 .. NumMsgs + 1 /\ c < c + 1
      BY NumMsgsAssumption
    <3> QED
      BY <2>1, <2>2, <3>1, Zenon
  <2>4. restarts' \in 0 .. MaxRestarts /\ restarts' # 0
    BY <1>t, <2>1, RestartAssumption
  <2>5. HostTypeOK'
    <3>1. batching' \in BOOLEAN
      BY <2>1, Zenon
    <3> QED
      BY <2>2, <2>3, <2>4, <3>1 DEF HostTypeOK
  <2>6. PackInv'
    BY <1>7, <2>3, <2>5, EmptyPackIs, EmptiedPack
  <2>7. Answered1'
    BY <2>4 DEF Answered1
  <2> QED
    BY <1>7, <1>p, <2>6, <2>7
<1>8. ASSUME NEW outcome \in Outcomes, Shutdown(outcome)
      PROVE  IInv'
  <2>1. Put(pack, outcome) \cup Drop(pack, outcome) \subseteq Msgs
    BY <1>t DEF Put, Drop, Packed
  <2>2. (pack.msgs # <<>> /\ Acknowledged(outcome)) \in BOOLEAN
    BY Zenon
  <2> QED
    BY <1>0, <1>7, <1>8, <2>1, <2>2 DEF Shutdown
<1>9. CASE Crash
  BY <1>0, <1>7, <1>9 DEF Crash
<1>10. CASE UNCHANGED vars
  <2>1. PackInv' /\ Answered1'
    BY <1>0, <1>10
       DEF PackInv, HostTypeOK, Earlier, Held, PackInOrder, ExposureIsOneMessage, Answered1, Packed
  <2> QED
    BY <1>0, <1>10, <1>p, <2>1
<1> QED
  BY <1>1, <1>2, <1>3, <1>4, <1>5, <1>6, <1>8, <1>9, <1>10, Zenon DEF Next, ProcessMessage

\* The invariant holds initially.
LEMMA InitIInv == Init => IInv
<1> SUFFICES ASSUME Init PROVE IInv
  OBVIOUS
<1>1. /\ next = 1 /\ batching = FALSE /\ checkpoint = 0 /\ restarts = 0 /\ pack = EmptyPack
      /\ dlen \in [Msgs -> Sizes] /\ delivered = {} /\ rejected = {} /\ refused = {}
  BY DEF Init, HostInit
<1>2. HostTypeOK
  <2>1. batching \in BOOLEAN
    BY <1>1, Zenon
  <2> QED
    BY <1>1, <2>1, NumMsgsAssumption, RestartAssumption DEF HostTypeOK
<1>3. Packed = {} /\ Len(pack.msgs) = 0 /\ pack \in Packs
  BY <1>1, EmptyPackIs DEF Packed
<1>4. PackInv
  BY <1>1, <1>2, <1>3 DEF PackInv, Earlier, Held, PackInOrder, ExposureIsOneMessage
<1>5. Answered1
  BY <1>1 DEF Answered1
<1> QED
  BY <1>1, <1>4, <1>5, Parts

-----------------------------------------------------------------------------
(* Theorems.                                                               *)

\* Every reachable state is well typed; in particular the record never grows
\* beyond what Kinesis takes (kinesis.lua:115).
THEOREM TypeCorrect == Spec => []TypeOK
<1>1. IInv => TypeOK
  BY DEF IInv
<1> QED
  BY InitIInv, Inductive, <1>1, PTL DEF Spec

\* The pack holds messages once each and in the order of arrival, over sends that
\* are put off and undone (kinesis.lua:116-140).
THEOREM PackOrdered == Spec => []PackInOrder
<1>1. IInv => PackInOrder
  BY DEF IInv
<1> QED
  BY InitIInv, Inductive, <1>1, PTL DEF Spec

\* The checkpoint covers no message that waits in the pack but its first
\* (kinesis.lua:116, 128, 144).
THEOREM OneExposed == Spec => []ExposureIsOneMessage
<1>1. IInv => ExposureIsOneMessage
  BY DEF IInv
<1> QED
  BY InitIInv, Inductive, <1>1, PTL DEF Spec

\* Without a restart an answered message is packed, delivered, discarded or
\* refused, and one to be offered again is not packed (kinesis.lua:133-138).
THEOREM NoneForgotten == Spec => []AnsweredAccounted
<1>1. IInv => AnsweredAccounted
  BY DEF IInv
<1> QED
  BY InitIInv, Inductive, <1>1, PTL DEF Spec

-----------------------------------------------------------------------------
(* The input: the inductive invariant, by parts.                           *)

Ended == {"closed", "expired"}

\* No shard has more records than were put, which is less than Star.
StreamOk ==
  /\ len \in [ShardIds -> Nat] /\ puts \in 0 .. MaxPuts /\ \A s \in ShardIds : len[s] <= puts
  /\ status \in [ShardIds -> {"none", "open"} \cup Ended]
  /\ older \in [ShardIds -> Nat] /\ \A s \in ShardIds : older[s] <= len[s]

\* Sequence id k of shard s, in a stream of l records and status st: the records
\* up to it are in done, and only a shard that ended is read to its end.
Sound(l, st, s, k, done) ==
  /\ k \in 0 .. Star
  /\ IF k = Star THEN st[s] \in Ended ELSE k <= l[s]
  /\ \A n \in 1 .. l[s] : n <= k => <<s, n>> \in done

Entries == [it : Nat, sequenceId : Nat, expired : BOOLEAN]

\* The same of an entry, whose iterator may be ahead of its sequence id.
EntrySound(l, st, s, e, done) ==
  /\ e \in Entries
  /\ Sound(l, st, s, e.sequenceId, done)
  /\ e.it <= l[s] + 1
  /\ \A n \in 1 .. l[s] : n < e.it => <<s, n>> \in done

KnownSound(l, st, known, done) ==
  /\ DOMAIN known \subseteq ShardIds
  /\ known = [s \in DOMAIN known |-> known[s]]
  /\ \A s \in DOMAIN known : EntrySound(l, st, s, known[s], done)

AllSound(l, st, seqs, done) == \A s \in ShardIds : Sound(l, st, s, seqs[s], done)

\* The records that need not be read, those injected, and those about to be.
Passed == {r \in ShardIds \X Nat : r[2] < First(r[1])}
AtHand(batch) == IF batch = <<>> THEN {} ELSE batch[1]
Done == handled \cup Passed
Seen == Done \cup AtHand(hand)

ConsumerInv ==
  /\ StreamOk
  /\ KnownSound(len, status, shards, Seen)
  /\ hand # <<>> => AllSound(len, status, hand[2], Seen)
  /\ AllSound(len, status, reported, Done)
  /\ AllSound(len, status, saved, Done)

-----------------------------------------------------------------------------
(* Lemmas about sequence ids and entries.                                  *)

\* More is done, and the stream has grown where it has not ended.
Grown(l, st, l2, st2) ==
  /\ l \in [ShardIds -> Nat] /\ l2 \in [ShardIds -> Nat]
  /\ \A s \in ShardIds :
       /\ l[s] <= l2[s]
       /\ st[s] \in Ended => l2[s] = l[s] /\ st2[s] \in Ended

\* What is sound stays sound when the stream goes on and more is done.
LEMMA SoundStays ==
  ASSUME NEW l, NEW st, NEW l2, NEW st2, Grown(l, st, l2, st2), NEW s \in ShardIds,
         NEW done, NEW done2, done \subseteq done2, NEW k, Sound(l, st, s, k, done)
  PROVE  Sound(l2, st2, s, k, done2)
<1>1. l[s] \in Nat /\ l2[s] \in Nat /\ l[s] <= l2[s] /\ k \in 0 .. Star /\ Star \in Nat
  BY ConsumerAssumption DEF Grown, Sound, Star
<1>2. CASE k = Star
  <2>1. l2[s] = l[s] /\ st2[s] \in Ended
    BY <1>2 DEF Grown, Sound
  <2> QED
    BY <1>1, <1>2, <2>1 DEF Sound
<1>3. CASE k # Star
  <2>1. k <= l[s]
    BY <1>3 DEF Sound
  <2>2. ASSUME NEW n \in 1 .. l2[s], n <= k PROVE <<s, n>> \in done2
    BY <1>1, <2>1, <2>2 DEF Sound
  <2> QED
    BY <1>1, <1>3, <2>1, <2>2 DEF Sound
<1> QED
  BY <1>2, <1>3

\* So do the entries of the shards known.
LEMMA KnownStays ==
  ASSUME NEW l, NEW st, NEW l2, NEW st2, Grown(l, st, l2, st2), NEW known,
         NEW done, NEW done2, done \subseteq done2, KnownSound(l, st, known, done)
  PROVE  KnownSound(l2, st2, known, done2)
<1> SUFFICES ASSUME NEW s \in DOMAIN known PROVE EntrySound(l2, st2, s, known[s], done2)
  BY DEF KnownSound
<1>1. s \in ShardIds /\ EntrySound(l, st, s, known[s], done)
  BY DEF KnownSound
<1> DEFINE e == known[s]
<1>2. e \in Entries /\ e.it \in Nat /\ e.it <= l[s] + 1
  BY <1>1 DEF EntrySound, Entries
<1>3. Sound(l2, st2, s, e.sequenceId, done2)
  <2>1. Sound(l, st, s, e.sequenceId, done)
    BY <1>1 DEF EntrySound
  <2> QED
    BY <1>1, <2>1, SoundStays
<1>4. l[s] \in Nat /\ l2[s] \in Nat /\ l[s] <= l2[s]
  BY <1>1 DEF Grown
<1>5. ASSUME NEW n \in 1 .. l2[s], n < e.it PROVE <<s, n>> \in done2
  <2>1. n \in 1 .. l[s]
    BY <1>2, <1>4, <1>5
  <2> QED
    BY <1>1, <1>5, <2>1 DEF EntrySound
<1>6. e.it <= l2[s] + 1
  BY <1>2, <1>4
<1> QED
  BY <1>2, <1>3, <1>5, <1>6 DEF EntrySound

\* The same of a checkpoint.
LEMMA AllStay ==
  ASSUME NEW l, NEW st, NEW l2, NEW st2, Grown(l, st, l2, st2), NEW seqs,
         NEW done, NEW done2, done \subseteq done2, AllSound(l, st, seqs, done)
  PROVE  AllSound(l2, st2, seqs, done2)
BY SoundStays DEF AllSound

\* A stream that rests is a special case.
LEMMA Rests == StreamOk => Grown(len, status, len, status)
BY DEF StreamOk, Grown

\* No sequence id at all is sound.
LEMMA NoneSound ==
  ASSUME StreamOk, NEW s \in ShardIds, NEW done
  PROVE  Sound(len, status, s, None, done)
<1>1. len[s] \in Nat /\ Star \in Nat \ {0}
  BY ConsumerAssumption DEF StreamOk, Star
<1> QED
  BY <1>1 DEF Sound, None

\* A new iterator of a shard starts behind its sequence id, or at the first record.
LEMMA IteratorSound ==
  ASSUME StreamOk, itType # "LATEST", NEW s \in ShardIds, NEW done, Passed \subseteq done,
         NEW answer, NEW seq, Sound(len, status, s, seq, done)
  PROVE  EntrySound(len, status, s, get_shard_iterator(s, seq, answer), done)
<1>1. len[s] \in Nat /\ len[s] <= MaxPuts /\ MaxPuts \in Nat
  BY ConsumerAssumption DEF StreamOk
<1>2. seq \in 0 .. Star /\ Star = MaxPuts + 1
  BY DEF Sound, Star
<1>3. Sound(len, status, s, None, done)
  BY NoneSound
<1>4. ASSUME NEW position \in Nat, position <= len[s] + 1,
             \A n \in 1 .. len[s] : n < position => <<s, n>> \in done,
             NEW q \in 0 .. Star, Sound(len, status, s, q, done)
      PROVE  EntrySound(len, status, s, Entry(position, q), done)
  BY <1>1, <1>2, <1>4 DEF EntrySound, Entry, Entries
<1>5. EntrySound(len, status, s, Entry(None, None), done)
  BY <1>1, <1>2, <1>3, <1>4 DEF None
<1>6. EntrySound(len, status, s, Entry(None, seq), done)
  BY <1>1, <1>2, <1>4 DEF None
<1>7. EntrySound(len, status, s, Entry(IteratorAt(seq, s), seq), done)
  <2>1. CASE seq = None
    <3>1. IteratorAt(seq, s) = First(s)
      BY <1>1, <1>2, <2>1 DEF IteratorAt, None
    <3>2. First(s) \in Nat /\ First(s) <= len[s] + 1
      BY <1>1 DEF First, StreamOk
    <3>3. \A n \in 1 .. len[s] : n < First(s) => <<s, n>> \in done
      BY DEF Passed
    <3> QED
      BY <1>1, <1>2, <1>4, <3>1, <3>2, <3>3
  <2>2. CASE seq = Star
    <3>1. IteratorAt(seq, s) = len[s] + 1
      BY <1>1, <1>2, <2>2 DEF IteratorAt, None
    <3>2. \A n \in 1 .. len[s] : <<s, n>> \in done
      BY <1>1, <1>2, <2>2 DEF Sound
    <3> QED
      BY <1>1, <1>2, <1>4, <3>1, <3>2
  <2>3. CASE seq # None /\ seq # Star
    <3>1. IteratorAt(seq, s) = seq + 1
      BY <2>3 DEF IteratorAt
    <3>2. seq <= len[s] /\ \A n \in 1 .. len[s] : n <= seq => <<s, n>> \in done
      BY <2>3 DEF Sound
    <3> QED
      BY <1>1, <1>2, <1>4, <3>1, <3>2
  <2> QED
    BY <2>1, <2>2, <2>3
<1> QED
  BY <1>5, <1>6, <1>7 DEF get_shard_iterator

\* The shards listed by get_shards.
LEMMA ListedSound ==
  ASSUME StreamOk, itType # "LATEST", NEW known, NEW done, Passed \subseteq done,
         NEW answer, KnownSound(len, status, known, done)
  PROVE  KnownSound(len, status, Listed(known, answer), done)
<1>1. listed \subseteq ShardIds
  BY DEF listed
<1>2. ASSUME NEW s \in listed PROVE EntrySound(len, status, s, Listed(known, answer)[s], done)
  <2>1. CASE s \in DOMAIN known
    BY <2>1 DEF Listed, KnownSound
  <2>2. CASE s \notin DOMAIN known
    <3>1. EntrySound(len, status, s, get_shard_iterator(s, None, answer), done)
      BY <1>1, NoneSound, IteratorSound
    <3> QED
      BY <2>2, <3>1 DEF Listed
  <2> QED
    BY <2>1, <2>2
<1> QED
  BY <1>1, <1>2 DEF KnownSound, Listed

\* The shards asked for an iterator on the way to the next one.
LEMMA AskedSound ==
  ASSUME StreamOk, itType # "LATEST", NEW known, NEW done, Passed \subseteq done,
         NEW answer, NEW cursor, NEW ready, KnownSound(len, status, known, done)
  PROVE  /\ KnownSound(len, status, Asked(known, cursor, ready, answer), done)
         /\ DOMAIN Asked(known, cursor, ready, answer) = DOMAIN known
<1> DEFINE asked == Asked(known, cursor, ready, answer)
<1>1. DOMAIN asked = DOMAIN known /\ asked = [s \in DOMAIN asked |-> asked[s]]
  BY DEF Asked
<1>2. ASSUME NEW s \in DOMAIN known PROVE EntrySound(len, status, s, asked[s], done)
  <2>1. s \in ShardIds /\ EntrySound(len, status, s, known[s], done)
    BY DEF KnownSound
  <2>2. EntrySound(len, status, s, get_shard_iterator(s, known[s].sequenceId, answer), done)
    BY <2>1, IteratorSound DEF EntrySound
  <2>3. asked[s] = known[s] \/ asked[s] = get_shard_iterator(s, known[s].sequenceId, answer)
    BY DEF Asked
  <2> QED
    BY <2>1, <2>2, <2>3
<1> QED
  BY <1>1, <1>2 DEF KnownSound

\* The checkpoints of the shards known are sound, those of the others empty.
LEMMA PushedSound ==
  ASSUME StreamOk, NEW known, NEW done, KnownSound(len, status, known, done)
  PROVE  AllSound(len, status, push_checkpoints(known), done)
BY NoneSound DEF AllSound, push_checkpoints, KnownSound, EntrySound

\* Records that were read are at hand with the checkpoints that cover them.
LEMMA ReadSound ==
  ASSUME StreamOk, NEW known, NEW prior, KnownSound(len, status, known, prior), NEW found \in listed,
         NEW count \in 0 .. MaxPuts, found \in DOMAIN known,
         count <= len[found] + 1 - known[found].it
  PROVE  EntrySound(len, status, found, ReadOn(found, known[found], count),
                    prior \cup (IF count = 0 THEN {} ELSE Batch(found, known[found].it, count)))
<1> DEFINE e == known[found]
           done == prior \cup (IF count = 0 THEN {} ELSE Batch(found, e.it, count))
<1>1. found \in ShardIds /\ len[found] \in Nat /\ len[found] <= MaxPuts /\ MaxPuts \in Nat
  BY ConsumerAssumption DEF StreamOk, listed
<1>2. /\ e \in Entries /\ e.it \in Nat /\ e.sequenceId \in Nat /\ e.it <= len[found] + 1
      /\ Sound(len, status, found, e.sequenceId, prior)
      /\ \A n \in 1 .. len[found] : n < e.it => <<found, n>> \in prior
  BY DEF KnownSound, EntrySound, Entries
<1>3. \A n \in 1 .. len[found] : n < e.it + count => <<found, n>> \in done
  <2> SUFFICES ASSUME NEW n \in 1 .. len[found], n < e.it + count, ~ (n < e.it)
               PROVE  <<found, n>> \in done
    BY <1>2
  <2>1. n \in e.it .. e.it + count - 1 /\ count # 0
    BY <1>1, <1>2
  <2> QED
    BY <2>1 DEF Batch
<1>4. CASE status[found] # "open" /\ e.it + count > len[found]
  <2>1. ReadOn(found, e, count) = Entry(None, Star)
    BY <1>4 DEF ReadOn
  <2>2. status[found] \in Ended
    BY <1>4 DEF listed, Ended
  <2>3. \A n \in 1 .. len[found] : <<found, n>> \in done
    BY <1>1, <1>2, <1>3, <1>4
  <2>4. Sound(len, status, found, Star, done)
    BY <1>1, <2>2, <2>3 DEF Sound, Star
  <2> QED
    BY <1>1, <2>1, <2>3, <2>4 DEF EntrySound, Entry, Entries, None, Star
<1>5. CASE ~ (status[found] # "open" /\ e.it + count > len[found])
  <2> DEFINE seq == IF count = 0 THEN e.sequenceId ELSE e.it + count - 1
  <2>1. ReadOn(found, e, count) = Entry(e.it + count, seq)
    BY <1>5 DEF ReadOn
  <2>2. e.it + count \in Nat /\ e.it + count <= len[found] + 1
    BY <1>1, <1>2
  <2>3. Sound(len, status, found, seq, done)
    <3>1. CASE count = 0
      BY <1>2, <3>1 DEF Sound
    <3>2. CASE count # 0
      BY <1>1, <1>2, <1>3, <2>2, <3>2 DEF Sound, Star
    <3> QED
      BY <3>1, <3>2
  <2>4. seq \in Nat
    BY <1>1, <2>3 DEF Sound, Star
  <2> QED
    BY <1>3, <2>1, <2>2, <2>3, <2>4 DEF EntrySound, Entry, Entries
<1> QED
  BY <1>4, <1>5

-----------------------------------------------------------------------------
(* The steps.                                                              *)

\* A step that leaves the shards, the batch and the checkpoints alone, and only
\* lets the stream grow.
LEMMA StreamGrows ==
  ASSUME ConsumerInv, StreamOk', Grown(len, status, len', status'), Passed \subseteq Passed',
         UNCHANGED <<shards, reader>>
  PROVE  ConsumerInv'
<1>1. /\ shards' = shards /\ hand' = hand /\ reported' = reported /\ saved' = saved
      /\ Done \subseteq Done' /\ Seen \subseteq Seen'
  BY DEF reader, Seen, Done
<1>2. KnownSound(len', status', shards, Seen')
  BY <1>1, KnownStays DEF ConsumerInv
<1>3. hand # <<>> => AllSound(len', status', hand[2], Seen')
  BY <1>1, AllStay DEF ConsumerInv
<1>4. AllSound(len', status', reported, Done') /\ AllSound(len', status', saved, Done')
  BY <1>1, AllStay DEF ConsumerInv
<1> QED
  BY <1>1, <1>2, <1>3, <1>4 DEF ConsumerInv

\* Nothing sound is lost over any step of the consumer, its input, the stream or
\* the host.
LEMMA ConsumerSteps == itType # "LATEST" /\ ConsumerInv /\ [ConsumerNext]_consumerVars => ConsumerInv'
<1> SUFFICES ASSUME itType # "LATEST", ConsumerInv, [ConsumerNext]_consumerVars PROVE ConsumerInv'
  OBVIOUS
<1> USE ConsumerAssumption
<1>1. StreamOk
  BY DEF ConsumerInv
<1>2. ASSUME UNCHANGED stream
      PROVE  /\ len' = len /\ status' = status /\ StreamOk'
             /\ Passed' = Passed
             /\ handled' = handled => Done' = Done
             /\ handled' = handled /\ hand' = hand => Seen' = Seen
  BY <1>1, <1>2 DEF stream, StreamOk, Passed, First, Done, Seen
<1>3. ASSUME NEW s \in ShardIds, PutRecord(s) PROVE ConsumerInv'
  <2>1. len' = [len EXCEPT ![s] = @ + 1] /\ puts' = puts + 1 /\ status' = status /\ puts < MaxPuts
    BY <1>3 DEF PutRecord
  <2>o. /\ older' = (IF puts < Older THEN [older EXCEPT ![s] = @ + 1] ELSE older) /\ itType' = itType
        /\ len \in [ShardIds -> Nat] /\ older \in [ShardIds -> Nat] /\ \A t \in ShardIds : older[t] <= len[t]
    BY <1>1, <1>3 DEF PutRecord, StreamOk
  <2>p. older' \in [ShardIds -> Nat] /\ \A t \in ShardIds : older'[t] <= len'[t] /\ older[t] <= older'[t]
    <3>1. CASE puts < Older
      BY <2>1, <2>o, <3>1
    <3>2. CASE ~(puts < Older)
      BY <2>1, <2>o, <3>2
    <3> QED
      BY <3>1, <3>2
  <2>2. StreamOk'
    <3>1. len' \in [ShardIds -> Nat] /\ \A t \in ShardIds : len'[t] <= puts'
      BY <1>1, <2>1 DEF StreamOk
    <3>2. puts' \in 0 .. MaxPuts /\ status' = status
      BY <1>1, <2>1 DEF StreamOk
    <3> QED
      BY <1>1, <2>p, <3>1, <3>2 DEF StreamOk
  <2>q. Passed \subseteq Passed'
    BY <2>o, <2>p DEF Passed, First
  <2>3. Grown(len, status, len', status')
    <3> SUFFICES ASSUME NEW t \in ShardIds
                 PROVE  /\ len[t] <= len'[t]
                        /\ status[t] \in Ended => len'[t] = len[t] /\ status'[t] \in Ended
      BY <1>1, <2>2 DEF Grown, StreamOk
    <3>1. status[s] \notin Ended
      BY <1>3 DEF PutRecord, Ended
    <3> QED
      BY <1>1, <2>1, <3>1 DEF StreamOk
  <2> QED
    BY <1>3, <2>2, <2>3, <2>q, StreamGrows DEF PutRecord
<1>4. ASSUME NEW s \in ShardIds, Reshard(s) \/ ShardExpires(s) PROVE ConsumerInv'
  <2>1. len' = len /\ puts' = puts /\ UNCHANGED <<older, itType, shards, reader>>
    BY <1>4 DEF Reshard, ShardExpires
  <2>2. status' \in [ShardIds -> {"none", "open"} \cup Ended]
    BY <1>1, <1>4 DEF Reshard, ShardExpires, StreamOk, Ended
  <2>3. \A t \in ShardIds : status[t] \in Ended => status'[t] \in Ended
    BY <1>1, <1>4 DEF Reshard, ShardExpires, StreamOk, Ended
  <2>4. StreamOk' /\ Grown(len, status, len', status')
    BY <1>1, <2>1, <2>2, <2>3 DEF StreamOk, Grown
  <2>5. Passed' = Passed
    BY <2>1 DEF Passed, First
  <2> QED
    BY <2>1, <2>4, <2>5, StreamGrows
<1>5. ASSUME NEW s \in ShardIds, IteratorExpires(s) PROVE ConsumerInv'
  <2>1. /\ s \in DOMAIN shards /\ shards' = [shards EXCEPT ![s].expired = TRUE]
        /\ UNCHANGED <<stream, reader>>
    BY <1>5 DEF IteratorExpires
  <2>2. Seen' = Seen /\ Done' = Done /\ hand' = hand /\ UNCHANGED <<reported, saved, handled>>
    BY <1>2, <2>1 DEF reader
  <2>3. KnownSound(len, status, shards', Seen)
    <3> SUFFICES ASSUME NEW t \in DOMAIN shards PROVE EntrySound(len, status, t, shards'[t], Seen)
      BY <2>1 DEF ConsumerInv, KnownSound
    <3>1. EntrySound(len, status, t, shards[t], Seen)
      BY DEF ConsumerInv, KnownSound
    <3> QED
      BY <2>1, <3>1 DEF EntrySound, Entries
  <2> QED
    BY <1>2, <2>1, <2>2, <2>3 DEF ConsumerInv
<1>6. CASE simple_consumer_new
  <2>1. UNCHANGED <<stream, hand, reported, saved, handled>> /\ Seen' = Seen /\ Done' = Done
    BY <1>2, <1>6 DEF simple_consumer_new
  <2>2. KnownSound(len, status, shards', Seen)
    <3>1. CASE shards' = <<>>
      BY <3>1 DEF KnownSound
    <3>2. ASSUME NEW answer,
                 shards' = Listed([s \in {s \in ShardIds : reported[s] # None}
                                     |-> Entry(None, reported[s])], answer)
          PROVE  KnownSound(len, status, shards', Seen)
      <4> DEFINE known == [s \in {s \in ShardIds : reported[s] # None}
                             |-> Entry(None, reported[s])]
      <4>1. ASSUME NEW s \in ShardIds PROVE EntrySound(len, status, s, Entry(None, reported[s]), Seen)
        <5>1. Sound(len, status, s, reported[s], Done)
          BY DEF ConsumerInv, AllSound
        <5>2. Sound(len, status, s, reported[s], Seen)
          BY <1>1, <5>1, Rests, SoundStays DEF Seen
        <5>3. reported[s] \in Nat /\ len[s] \in Nat
          BY <1>1, <5>1 DEF Sound, Star, StreamOk
        <5> QED
          BY <5>2, <5>3 DEF EntrySound, Entry, Entries, None
      <4>2. KnownSound(len, status, known, Seen)
        BY <4>1 DEF KnownSound
      <4>3. Passed \subseteq Seen
        BY DEF Seen, Done
      <4> HIDE DEF known
      <4> QED
        BY <1>1, <3>2, <4>2, <4>3, ListedSound DEF known
    <3> QED
      BY <1>6, <3>1, <3>2 DEF simple_consumer_new
  <2> QED
    BY <1>2, <2>1, <2>2 DEF ConsumerInv
<1>7. ASSUME NEW list, NEW answer, NEW ready, NEW count \in 0 .. MaxPuts,
             Receive(list, answer, ready, count)
      PROVE  ConsumerInv'
  <2> DEFINE known  == IF list = "ok" THEN Listed(shards, answer) ELSE shards
             cursor == IF list = "ok" THEN Cursor ELSE it
             due    == refresh /\ list # "ok"
             found   == get_next_shard(known, cursor, ready, answer)
             asked  == Asked(known, cursor, ready, answer)
  <2>1. /\ hand = <<>> /\ UNCHANGED <<stream, reported, saved, handled>>
        /\ \/ shards' = asked /\ hand' = <<>>
           \/ Reads(asked, found, due, count)
    BY <1>7 DEF Receive
  <2>2. Seen = Done /\ Passed \subseteq Done /\ Done' = Done /\ Seen' = Done \cup AtHand(hand')
    BY <1>2, <2>1 DEF Seen, AtHand, Done
  <2>3. KnownSound(len, status, known, Done)
    BY <1>1, <2>2, ListedSound DEF ConsumerInv
  <2>4. KnownSound(len, status, asked, Done)
    BY <1>1, <2>2, <2>3, AskedSound
  <2> HIDE DEF known, cursor, due, found, asked
  <2>5. ASSUME KnownSound(len, status, shards', Seen'),
               hand' # <<>> => AllSound(len, status, hand'[2], Seen')
        PROVE  ConsumerInv'
    BY <1>2, <2>1, <2>2, <2>5 DEF ConsumerInv
  <2>6. CASE shards' = asked /\ hand' = <<>>
    BY <2>2, <2>4, <2>5, <2>6 DEF AtHand
  <2>7. CASE Reads(asked, found, due, count)
    <3>1. CASE /\ shards' = [asked EXCEPT ![found] = IF @.expired THEN Cleared(@) ELSE @]
               /\ hand' = <<>>
      <4>1. KnownSound(len, status, shards', Done)
        <5> SUFFICES ASSUME NEW s \in DOMAIN asked PROVE EntrySound(len, status, s, shards'[s], Done)
          BY <2>4, <3>1 DEF KnownSound
        <5>1. s \in ShardIds /\ EntrySound(len, status, s, asked[s], Done)
          BY <2>4 DEF KnownSound
        <5>2. len[s] \in Nat
          BY <1>1, <5>1 DEF StreamOk
        <5>3. EntrySound(len, status, s, Cleared(asked[s]), Done)
          BY <5>1, <5>2 DEF EntrySound, Cleared, Entry, Entries, None
        <5> QED
          BY <3>1, <5>1, <5>3
      <4> QED
        BY <2>2, <2>5, <3>1, <4>1 DEF AtHand
    <3>2. CASE /\ found \in listed /\ count <= len[found] + 1 - asked[found].it
               /\ shards' = [asked EXCEPT ![found] = ReadOn(found, asked[found], count)]
               /\ hand' = IF count = 0 THEN <<>>
                          ELSE <<Batch(found, asked[found].it, count), push_checkpoints(shards')>>
      <4> DEFINE batch == IF count = 0 THEN {} ELSE Batch(found, asked[found].it, count)
      <4>1. Seen' = Done \cup batch
        <5>1. CASE count = 0
          BY <2>2, <3>2, <5>1 DEF AtHand
        <5>2. CASE count # 0
          BY <2>2, <3>2, <5>2 DEF AtHand
        <5> QED
          BY <5>1, <5>2
      <4>2. KnownSound(len, status, asked, Seen')
        BY <1>1, <2>4, <4>1, Rests, KnownStays
      <4>3. KnownSound(len, status, shards', Seen')
        <5> SUFFICES ASSUME NEW s \in DOMAIN asked PROVE EntrySound(len, status, s, shards'[s], Seen')
          BY <3>2, <4>2 DEF KnownSound
        <5>1. CASE s = found
          BY <1>1, <2>4, <3>2, <4>1, <5>1, ReadSound
        <5>2. CASE s # found
          BY <3>2, <4>2, <5>2 DEF KnownSound
        <5> QED
          BY <5>1, <5>2
      <4>4. AllSound(len, status, push_checkpoints(shards'), Seen')
        BY <1>1, <4>3, PushedSound
      <4>5. hand' # <<>> => hand'[2] = push_checkpoints(shards')
        BY <3>2
      <4> QED
        BY <2>5, <4>3, <4>4, <4>5
    <3> QED
      BY <2>7, <3>1, <3>2 DEF Reads
  <2> QED
    BY <2>1, <2>6, <2>7
<1>8. CASE ReceiveThrows
  <2>1. shards' = <<>> /\ UNCHANGED <<stream, hand, reported, saved, handled>> /\ Seen' = Seen /\ Done' = Done
    BY <1>2, <1>8 DEF ReceiveThrows
  <2>2. KnownSound(len, status, shards', Seen)
    BY <2>1 DEF KnownSound
  <2> QED
    BY <1>2, <2>1, <2>2 DEF ConsumerInv
<1>9. CASE Inject
  <2>1. /\ hand # <<>> /\ handled' = handled \cup hand[1] /\ reported' = hand[2] /\ hand' = <<>>
        /\ UNCHANGED <<stream, shards, saved>>
    BY <1>9 DEF Inject
  <2>2. Seen' = Seen /\ Done' = Seen /\ Done \subseteq Done'
    BY <1>2, <2>1 DEF Seen, Done, AtHand
  <2>3. AllSound(len, status, saved, Done')
    BY <1>1, <2>2, Rests, AllStay DEF ConsumerInv
  <2> QED
    BY <1>2, <2>1, <2>2, <2>3 DEF ConsumerInv
<1>10. CASE Save
  <2>1. saved' = reported /\ UNCHANGED <<stream, shards, hand, reported, handled>> /\ Seen' = Seen /\ Done' = Done
    BY <1>2, <1>10 DEF Save
  <2> QED
    BY <1>2, <2>1 DEF ConsumerInv
<1>11. CASE ConsumerCrash
  <2>1. /\ shards' = <<>> /\ hand' = <<>> /\ reported' = saved
        /\ UNCHANGED <<stream, saved, handled>>
    BY <1>11 DEF ConsumerCrash
  <2>2. KnownSound(len, status, shards', Seen')
    BY <2>1 DEF KnownSound
  <2> QED
    BY <1>2, <2>1, <2>2 DEF ConsumerInv
<1>12. CASE UNCHANGED consumerVars
  <2>1. UNCHANGED <<stream, shards, hand, reported, saved, handled>> /\ Seen' = Seen /\ Done' = Done
    BY <1>2, <1>12 DEF consumerVars
  <2> QED
    BY <1>2, <2>1 DEF ConsumerInv
<1> QED
  BY <1>3, <1>4, <1>5, <1>6, <1>7, <1>8, <1>9, <1>10, <1>11, <1>12
  DEF ConsumerNext, Stream, simple_receive

\* The invariant holds initially: there is nothing to be covered.
LEMMA InitConsumer == ConsumerInit => ConsumerInv
<1> SUFFICES ASSUME ConsumerInit PROVE ConsumerInv
  OBVIOUS
<1>1. StreamOk
  BY ConsumerAssumption DEF ConsumerInit, StreamOk, Ended
<1>2. KnownSound(len, status, shards, Seen)
  BY DEF ConsumerInit, KnownSound
<1>3. AllSound(len, status, NoCheckpoint, Done)
  BY <1>1, NoneSound DEF AllSound, NoCheckpoint
<1> QED
  BY <1>1, <1>2, <1>3 DEF ConsumerInit, ConsumerInv

-----------------------------------------------------------------------------
(* The theorem.                                                            *)

\* What the theorem needs of the iterator type.
Cover == itType # "LATEST" => ConsumerInv

\* With TRIM_HORIZON or AT_TIMESTAMP a record that the checkpoint, or the one on disk, covers was
\* injected, through splits, merges, failed requests, expired iterators, errors
\* and crashes (kinesis.cpp:452-462, 612-636).
THEOREM CheckpointSound == ConsumerSpec => []CheckpointCovers
<1>1. ConsumerInit => Cover
  BY InitConsumer DEF Cover
<1>2. Cover /\ [ConsumerNext]_consumerVars => Cover'
  <2> SUFFICES ASSUME Cover, [ConsumerNext]_consumerVars PROVE Cover'
    OBVIOUS
  <2>1. itType' = itType
    <3>1. CASE Stream
      BY <3>1 DEF Stream, PutRecord, Reshard, ShardExpires, IteratorExpires, stream
    <3>2. ASSUME NEW list, NEW answer, NEW ready, NEW count, Receive(list, answer, ready, count)
          PROVE  UNCHANGED stream
      BY <3>2 DEF Receive
    <3>3. CASE UNCHANGED stream
      BY <3>3 DEF stream
    <3>4. CASE simple_consumer_new \/ ReceiveThrows \/ Inject \/ Save \/ ConsumerCrash \/ UNCHANGED consumerVars
      BY <3>3, <3>4 DEF simple_consumer_new, ReceiveThrows, Inject, Save, ConsumerCrash, consumerVars
    <3> QED
      BY <3>1, <3>2, <3>3, <3>4 DEF ConsumerNext, simple_receive
  <2> QED
    BY <2>1, ConsumerSteps DEF Cover
<1>3. Cover => CheckpointCovers
  <2> SUFFICES ASSUME Cover, itType # "LATEST", NEW s \in ShardIds, NEW n \in First(s) .. len[s],
                      n <= reported[s] \/ n <= saved[s]
               PROVE  <<s, n>> \in handled
    BY DEF CheckpointCovers
  <2>1. StreamOk /\ Sound(len, status, s, reported[s], Done) /\ Sound(len, status, s, saved[s], Done)
    BY DEF Cover, ConsumerInv, AllSound
  <2>2. n \in 1 .. len[s] /\ First(s) \in Nat /\ n \in Nat
    BY <2>1 DEF First, StreamOk
  <2>3. <<s, n>> \in Done
    BY <2>1, <2>2 DEF Sound
  <2>4. <<s, n>> \notin Passed
    BY <2>2 DEF Passed
  <2> QED
    BY <2>3, <2>4 DEF Done
<1> QED
  BY <1>1, <1>2, <1>3, PTL DEF ConsumerSpec
=============================================================================
