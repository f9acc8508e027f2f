--------------------------- MODULE ElasticBulk_proofs ---------------------------
(***************************************************************************)
(* Proofs about ElasticBulk, for every number of messages and restarts,    *)
(* every size of a batch, number of retries and mode.                      *)
(*                                                                         *)
(* The checkpoint is always that of the message answered last, because no  *)
(* message is answered "batch" (Prompt).  It is safe because the batch is  *)
(* in the file whatever becomes of the callback (Accounted only grows),    *)
(* and the count of the file is right at every load (CountMatchesFile).    *)
(***************************************************************************)
EXTENDS ElasticBulk, TLAPS, SequenceTheorems

-----------------------------------------------------------------------------
(* The inductive invariant, by parts.                                      *)

\* The host's checkpoint is the message answered last.
Prompt == batching = FALSE /\ checkpoint = next - 1

\* Where process_message stands.
Place ==
  /\ pc # "idle" => next \in Msgs
  /\ pc = "write" => batch_count < flush_count
  /\ pc = "send" => next \in Range(Contents)

Accounted == Range(Contents) \cup delivered \cup discarded \cup refused \cup swallowed \cup torn

\* The plugin's counter is the number of failed posts, as long as either matters.
Tries == /\ attempts \in 0 .. max_retry + 1 /\ attempts = retry_count /\ givenUp \subseteq Nat
         /\ AttemptsExact

IInv == /\ TypeOK /\ Prompt /\ Place /\ CountMatchesFile
        /\ FullBatchOnDisk /\ Tries /\ CheckpointAccounts

-----------------------------------------------------------------------------
(* Lemmas about sequences of messages.                                     *)

\* The empty file is a file without messages.
LEMMA RangeEmpty == Range(<<>>) = {} /\ <<>> \in Seq(Msgs) /\ Len(<<>>) = 0
BY DEF Range

\* The messages of a file are messages of the host.
LEMMA RangeTyped == \A s \in Seq(Msgs) : Range(s) \subseteq Msgs
<1> SUFFICES ASSUME NEW s \in Seq(Msgs), NEW i \in DOMAIN s PROVE s[i] \in Msgs
  BY DEF Range
<1> QED
  OBVIOUS

\* A file and what is written after it.
LEMMA RangeConcat ==
  ASSUME NEW s \in Seq(Msgs), NEW t \in Seq(Msgs)
  PROVE  /\ s \o t \in Seq(Msgs) /\ Len(s \o t) = Len(s) + Len(t)
         /\ Range(s \o t) = Range(s) \cup Range(t)
<1> DEFINE c == s \o t
<1>1. /\ c \in Seq(Msgs) /\ Len(c) = Len(s) + Len(t)
      /\ \A i \in 1 .. Len(s) + Len(t) : c[i] = IF i <= Len(s) THEN s[i] ELSE t[i - Len(s)]
  BY ConcatProperties
<1>2. /\ DOMAIN c = 1 .. Len(s) + Len(t) /\ DOMAIN s = 1 .. Len(s) /\ DOMAIN t = 1 .. Len(t)
      /\ Len(s) \in Nat /\ Len(t) \in Nat
  BY <1>1
<1> HIDE DEF c
<1>3. ASSUME NEW i \in DOMAIN c PROVE c[i] \in Range(s) \cup Range(t)
  <2>1. CASE i <= Len(s)
    BY <1>1, <1>2, <1>3, <2>1 DEF Range
  <2>2. CASE ~(i <= Len(s))
    <3>1. i - Len(s) \in 1 .. Len(t) /\ c[i] = t[i - Len(s)]
      BY <1>1, <1>2, <1>3, <2>2
    <3> QED
      BY <1>2, <3>1 DEF Range
  <2> QED
    BY <2>1, <2>2
<1>4. ASSUME NEW i \in DOMAIN s PROVE s[i] \in Range(c)
  <2>1. i \in 1 .. Len(s) + Len(t) /\ c[i] = s[i]
    BY <1>1, <1>2, <1>4
  <2> QED
    BY <1>2, <2>1 DEF Range
<1>5. ASSUME NEW i \in DOMAIN t PROVE t[i] \in Range(c)
  <2>1. i + Len(s) \in 1 .. Len(s) + Len(t) /\ ~(i + Len(s) <= Len(s)) /\ (i + Len(s)) - Len(s) = i
    BY <1>2, <1>5
  <2>2. c[i + Len(s)] = t[i]
    BY <1>1, <2>1
  <2> QED
    BY <1>2, <2>1, <2>2 DEF Range
<1>6. Range(c) = Range(s) \cup Range(t)
  <2>1. Range(c) \subseteq Range(s) \cup Range(t)
    BY <1>3 DEF Range
  <2>2. Range(s) \subseteq Range(c)
    BY <1>4 DEF Range
  <2>3. Range(t) \subseteq Range(c)
    BY <1>5 DEF Range
  <2> QED
    BY <2>1, <2>2, <2>3
<1> QED
  BY <1>1, <1>6 DEF c

\* A message appended to what is not flushed.
LEMMA RangeAppend ==
  ASSUME NEW s \in Seq(Msgs), NEW m \in Msgs
  PROVE  /\ Append(s, m) \in Seq(Msgs) /\ Len(Append(s, m)) = Len(s) + 1
         /\ Range(Append(s, m)) = Range(s) \cup {m}
<1> DEFINE app == Append(s, m)
<1>1. /\ app \in Seq(Msgs) /\ Len(app) = Len(s) + 1
      /\ app[Len(s) + 1] = m /\ \A i \in 1 .. Len(s) : app[i] = s[i]
      /\ DOMAIN s = 1 .. Len(s) /\ DOMAIN app = (1 .. Len(s)) \cup {Len(s) + 1}
  OBVIOUS
<1> HIDE DEF app
<1>2. Range(app) = Range(s) \cup {m}
  BY <1>1 DEF Range
<1> QED
  BY <1>1, <1>2 DEF app

\* What a crash keeps and what it tears off.
LEMMA RangeSplit ==
  ASSUME NEW s \in Seq(Msgs), NEW k \in 0 .. Len(s)
  PROVE  /\ SubSeq(s, 1, k) \in Seq(Msgs) /\ Len(SubSeq(s, 1, k)) = k
         /\ SubSeq(s, k + 1, Len(s)) \in Seq(Msgs)
         /\ Range(s) = Range(SubSeq(s, 1, k)) \cup Range(SubSeq(s, k + 1, Len(s)))
<1>1. Len(s) \in Nat /\ k \in Nat /\ k <= Len(s) /\ \A i \in 1 .. Len(s) : s[i] \in Msgs
  OBVIOUS
<1>2. SubSeq(s, 1, k) \in Seq(Msgs) /\ Len(SubSeq(s, 1, k)) = k
  <2>1. \A i \in 1 .. k : s[i] \in Msgs
    BY <1>1
  <2> QED
    BY <1>1, <2>1, SubSeqProperties
<1>3. SubSeq(s, k + 1, Len(s)) \in Seq(Msgs)
  <2>1. \A i \in k + 1 .. Len(s) : s[i] \in Msgs
    BY <1>1
  <2> QED
    BY <1>1, <2>1, SubSeqProperties
<1>4. SubSeq(s, 1, k) \o SubSeq(s, k + 1, Len(s)) = s
  <2>1. SubSeq(s, 1, k) \o SubSeq(s, k + 1, Len(s)) = SubSeq(s, 1, Len(s))
    <3>1. 1 \in 1 .. Len(s) + 1 /\ k \in 1 - 1 .. Len(s) /\ Len(s) \in k .. Len(s)
      BY <1>1
    <3> QED
      BY <3>1, ConcatAdjacentSubSeq
  <2> QED
    BY <2>1, SubSeqFull
<1>5. Range(SubSeq(s, 1, k) \o SubSeq(s, k + 1, Len(s)))
        = Range(SubSeq(s, 1, k)) \cup Range(SubSeq(s, k + 1, Len(s)))
  BY <1>2, <1>3, RangeConcat
<1> QED
  BY <1>2, <1>3, <1>4, <1>5

-----------------------------------------------------------------------------
(* Lemmas about the parts of a callback.                                   *)

\* The typed state.
Sets == /\ delivered \subseteq Msgs /\ discarded \subseteq Msgs /\ refused \subseteq Msgs
        /\ swallowed \subseteq Msgs /\ torn \subseteq Msgs

Files == disk \in Seq(Msgs) /\ unflushed \in Seq(Msgs) /\ CountMatchesFile /\ batch_count <= flush_count

\* The type invariant, variable by variable.
LEMMA State ==
  ASSUME IInv
  PROVE  /\ HostTypeOK /\ Prompt /\ Place /\ Files /\ Sets /\ mode \in Modes
         /\ next \in 1 .. NumMsgs + 1 /\ checkpoint = next - 1 /\ 1 .. checkpoint \subseteq Accounted
         /\ Contents \in Seq(Msgs) /\ Len(Contents) \in Nat /\ batch_count = Len(Contents)
         /\ Range(Contents) \subseteq Msgs
         /\ retry_count \in Nat /\ max_retry \in Nat /\ flush_count \in Nat \ {0}
<1>1. disk \in Seq(Msgs) /\ unflushed \in Seq(Msgs) /\ batch_count <= flush_count
  BY ConfigAssumption DEF IInv, TypeOK
<1>2. Contents \in Seq(Msgs) /\ Len(Contents) \in Nat
  BY <1>1, RangeConcat DEF Contents
<1>3. Range(Contents) \subseteq Msgs
  BY <1>2, RangeTyped
<1>4. HostTypeOK /\ Prompt /\ Place /\ mode \in Modes /\ Sets /\ retry_count \in Nat /\ CountMatchesFile
  BY DEF IInv, TypeOK, Sets
<1>5. 1 .. checkpoint \subseteq Accounted
  BY DEF IInv, CheckpointAccounts, Accounted
<1> QED
  BY <1>1, <1>2, <1>3, <1>4, <1>5, ConfigAssumption DEF Files, CountMatchesFile, HostTypeOK, Prompt

\* The parts make the invariant.
LEMMA Whole ==
  ASSUME HostTypeOK, Prompt, Place, Files, Sets, mode \in Modes,
         pc \in {"idle", "resend", "write", "send"}, send_on_start \in BOOLEAN, retry_count \in Nat,
         FullBatchOnDisk, Tries, 1 .. checkpoint \subseteq Accounted
  PROVE  IInv
<1>1. Len(Contents) \in Nat
  BY RangeConcat DEF Files, Contents
<1>2. batch_count \in 0 .. flush_count
  BY <1>1, ConfigAssumption DEF Files, CountMatchesFile
<1> QED
  BY <1>2 DEF IInv, TypeOK, Files, Sets, CheckpointAccounts, Accounted, Tries

\* The same of the next state.
LEMMA WholePrimed ==
  HostTypeOK' /\ Prompt' /\ Place' /\ Files' /\ Sets' /\ (mode \in Modes)'
    /\ (pc \in {"idle", "resend", "write", "send"})' /\ (send_on_start \in BOOLEAN)' /\ (retry_count \in Nat)'
    /\ FullBatchOnDisk' /\ Tries' /\ (1 .. checkpoint \subseteq Accounted)'
  => IInv'
BY Whole, PTL

\* send_batch keeps the messages of the file, or settles them all; whichever, what
\* is left is on disk, and counted.
LEMMA BatchSent ==
  ASSUME IInv, NEW ok \in BOOLEAN, Result(ok) # "error", send_batch(Result(ok))
  PROVE  /\ Files' /\ unflushed' = <<>> /\ Contents' = disk'
         /\ Finished(Result(ok)) => batch_count' = 0
         /\ delivered' \subseteq Msgs /\ discarded' \subseteq Msgs
         /\ Range(Contents) \cup delivered \cup discarded
              \subseteq Range(Contents') \cup delivered' \cup discarded'
         /\ retry_count' \in Nat /\ (UNCHANGED mode => Tries')
<1> DEFINE result == Result(ok)
<1>s. /\ Files /\ Sets /\ Contents \in Seq(Msgs) /\ Range(Contents) \subseteq Msgs
      /\ batch_count = Len(Contents) /\ mode \in Modes /\ retry_count \in Nat /\ max_retry \in Nat
      /\ flush_count \in Nat
  BY State
<1>b. /\ attempts \in 0 .. max_retry + 1 /\ attempts = retry_count /\ givenUp \subseteq Nat
      /\ mode = "retry" => givenUp = {}
      /\ mode # "retry" => retry_count <= max_retry /\ givenUp \subseteq {max_retry + 1}
  BY DEF IInv, Tries, AttemptsExact
<1>r. /\ result \in {"posted", "discarded", "kept"}
      /\ result = "kept" => mode = "retry" \/ retry_count < max_retry
      /\ result = "discarded" => mode = "discard" /\ retry_count >= max_retry
  BY <1>s, ConfigAssumption DEF Result, Exhausted
<1>c. /\ result \in {"posted", "discarded"} => attempts' = 0 /\ retry_count' = 0
      /\ result = "kept" => /\ attempts' = IF attempts > max_retry THEN attempts ELSE attempts + 1
                            /\ retry_count' = IF retry_count > max_retry THEN retry_count
                                              ELSE retry_count + 1
      /\ result = "discarded" => givenUp' = givenUp \cup {attempts + 1}
      /\ result # "discarded" => givenUp' = givenUp
  <2>1. /\ retry_count' = Retries(result)
        /\ attempts' = IF result = "kept" THEN OneMore(attempts) ELSE 0
        /\ result = "discarded" => givenUp' = givenUp \cup {attempts + 1}
        /\ result # "discarded" => givenUp' = givenUp
    BY DEF send_batch, GiveUp
  <2> HIDE DEF result
  <2>2. CASE result \in {"posted", "discarded"}
    <3>1. Finished(result) /\ result # "kept"
      BY <2>2 DEF Finished
    <3>2. retry_count' = 0
      BY <2>1, <3>1 DEF Retries
    <3>3. attempts' = 0
      BY <2>1, <3>1
    <3> QED
      BY <2>1, <2>2, <3>2, <3>3
  <2>3. CASE result = "kept"
    BY <2>1, <2>3 DEF Retries, OneMore, Finished
  <2> QED
    BY <1>r, <2>1, <2>2, <2>3
<1>t. ASSUME mode' = mode PROVE Tries'
  <2>1. CASE result = "kept"
    <3>1. attempts' = retry_count' /\ attempts' \in 0 .. max_retry + 1 /\ givenUp' = givenUp
          /\ (mode # "retry" => attempts' <= max_retry)
      BY <1>s, <1>b, <1>c, <1>r, <2>1 DEF Finished
    <3> QED
      BY <1>b, <1>t, <3>1 DEF Tries, AttemptsExact
  <2>2. CASE result = "posted"
    <3>1. attempts' = 0 /\ retry_count' = 0 /\ givenUp' = givenUp
      <4> HIDE DEF result
      <4> QED
        BY <1>c, <2>2
    <3> QED
      BY <1>s, <1>b, <1>t, <3>1 DEF Tries, AttemptsExact
  <2>3. CASE result = "discarded"
    <3>1. attempts' = 0 /\ retry_count' = 0 /\ givenUp' = givenUp \cup {max_retry + 1} /\ mode = "discard"
      BY <1>s, <1>b, <1>c, <1>r, <2>3 DEF Finished
    <3> QED
      BY <1>s, <1>b, <1>t, <3>1 DEF Tries, AttemptsExact
  <2> QED
    BY <1>r, <2>1, <2>2, <2>3
<1>1. CASE Finished(result)
  <2>0. retry_count' = 0
    <3> HIDE DEF result
    <3> QED
      BY <1>1, <1>c DEF Finished
  <2>1. /\ disk' = <<>> /\ unflushed' = <<>> /\ batch_count' = 0 /\ retry_count' = 0
        /\ Range(Contents) \cup delivered \cup discarded \subseteq delivered' \cup discarded'
        /\ delivered' \cup discarded' \subseteq Range(Contents) \cup delivered \cup discarded
    BY <1>1, <2>0 DEF send_batch, Finished
  <2>2. Contents' = <<>> \o <<>>
    BY <2>1 DEF Contents
  <2>3. Contents' = <<>> /\ Len(<<>>) = 0
    BY <2>2, RangeEmpty, ConcatEmptySeq
  <2>4. Files'
    BY <1>s, <2>1, <2>3, RangeEmpty DEF Files, CountMatchesFile
  <2> QED
    BY <1>s, <1>t, <2>1, <2>3, <2>4 DEF Sets
<1>2. CASE ~Finished(result)
  <2>1. /\ disk' = Contents /\ unflushed' = <<>> /\ batch_count' = batch_count
        /\ delivered' = delivered /\ discarded' = discarded
        /\ retry_count' = IF retry_count > max_retry THEN retry_count ELSE retry_count + 1
    BY <1>r, <1>2, <1>c DEF send_batch, Finished, FileFlushed
  <2>2. Contents' = Contents \o <<>>
    BY <2>1 DEF Contents
  <2>3. Contents' = Contents
    BY <1>s, <2>2, ConcatEmptySeq
  <2>4. Files'
    BY <1>s, <2>1, <2>3, RangeEmpty DEF Files, CountMatchesFile
  <2>5. retry_count' \in Nat
    BY <1>s, <2>1
  <2> QED
    BY <1>s, <1>2, <1>t, <2>1, <2>3, <2>4, <2>5 DEF Sets
<1> QED
  BY <1>1, <1>2

\* Loading the plugin again finds what is in the file.
LEMMA Loaded ==
  ASSUME NEW contents \in Seq(Msgs), Len(contents) <= flush_count, Load(contents)
  PROVE  /\ Files' /\ unflushed' = <<>> /\ Contents' = contents
         /\ send_on_start' \in BOOLEAN /\ retry_count' = 0 /\ attempts' = 0
<1>1. /\ disk' = contents /\ unflushed' = <<>> /\ batch_count' = Len(contents)
      /\ send_on_start' = (Len(contents) >= flush_count) /\ retry_count' = 0 /\ attempts' = 0
  BY DEF Load
<1>2. Contents' = contents \o <<>>
  BY <1>1 DEF Contents
<1>3. Contents' = contents
  BY <1>2, ConcatEmptySeq
<1>4. send_on_start' \in BOOLEAN
  <2>1. CASE Len(contents) >= flush_count
    BY <1>1, <2>1
  <2>2. CASE ~(Len(contents) >= flush_count)
    BY <1>1, <2>2
  <2> QED
    BY <2>1, <2>2
<1>5. Files'
  BY <1>1, <1>3, RangeEmpty DEF Files, CountMatchesFile
<1> QED
  BY <1>1, <1>3, <1>4, <1>5

\* An answered message is the one the checkpoint moves to.
LEMMA Answered ==
  ASSUME IInv, next \in Msgs, NEW rv \in {"sent", "fail"}, HostReturn(rv),
         Accounted \cup {next} \subseteq Accounted'
  PROVE  HostTypeOK' /\ Prompt' /\ (1 .. checkpoint \subseteq Accounted)'
<1>1. /\ next \in 1 .. NumMsgs /\ checkpoint = next - 1 /\ batching = FALSE
      /\ restarts \in 0 .. MaxRestarts /\ 1 .. checkpoint \subseteq Accounted
  BY State DEF HostTypeOK, Prompt, Msgs
<1>2. next' = next + 1 /\ checkpoint' = next /\ batching' = FALSE /\ restarts' = restarts
  BY <1>1 DEF HostReturn
<1>3. batching' \in BOOLEAN
  BY <1>2, Zenon
<1>4. HostTypeOK' /\ Prompt'
  BY <1>1, <1>2, <1>3, NumMsgsAssumption DEF HostTypeOK, Prompt
<1>5. 1 .. checkpoint' \subseteq (1 .. checkpoint) \cup {next}
  BY <1>1, <1>2
<1> QED
  BY <1>1, <1>4, <1>5

\* The host starts again with the checkpoint it had.
LEMMA Resumed ==
  ASSUME IInv, HostRestarts(FALSE), Accounted \subseteq Accounted'
  PROVE  HostTypeOK' /\ Prompt' /\ (1 .. checkpoint \subseteq Accounted)'
<1>1. /\ next \in 1 .. NumMsgs + 1 /\ checkpoint = next - 1 /\ batching = FALSE
      /\ restarts \in 0 .. MaxRestarts /\ 1 .. checkpoint \subseteq Accounted
      /\ checkpoint \in 0 .. NumMsgs
  BY State DEF HostTypeOK, Prompt
<1>2. /\ checkpoint' = checkpoint /\ next' = checkpoint + 1 /\ batching' = FALSE
      /\ restarts < MaxRestarts /\ restarts' = restarts + 1
  BY DEF HostRestarts
<1>3. batching' \in BOOLEAN
  BY <1>2, Zenon
<1>4. HostTypeOK' /\ Prompt'
  BY <1>1, <1>2, <1>3, NumMsgsAssumption, RestartAssumption DEF HostTypeOK, Prompt
<1> QED
  BY <1>1, <1>2, <1>4

-----------------------------------------------------------------------------
(* The invariant is inductive.                                             *)

\* No step loses an accepted message, over every callback, stop and crash.
LEMMA Inductive == IInv /\ [Next]_vars => IInv'
<1> SUFFICES ASSUME IInv, [Next]_vars PROVE IInv'
  OBVIOUS
<1>s. /\ HostTypeOK /\ Prompt /\ Place /\ Files /\ Sets /\ mode \in Modes
      /\ next \in 1 .. NumMsgs + 1 /\ 1 .. checkpoint \subseteq Accounted
      /\ Contents \in Seq(Msgs) /\ Len(Contents) \in Nat /\ batch_count = Len(Contents)
      /\ Range(Contents) \subseteq Msgs
      /\ retry_count \in Nat /\ max_retry \in Nat /\ flush_count \in Nat \ {0}
  BY State
<1>i. FullBatchOnDisk /\ Tries /\ pc \in {"idle", "resend", "write", "send"}
      /\ send_on_start \in BOOLEAN
  BY DEF IInv, TypeOK
<1>f. batch_count < flush_count \/ batch_count = flush_count
  BY <1>s DEF Files
<1> USE DEF file, locals, history, host, tries, vars
<1>h. UNCHANGED host => HostTypeOK' /\ Prompt' /\ checkpoint' = checkpoint /\ next' = next
  BY <1>s DEF HostTypeOK, Prompt
<1>u. UNCHANGED file => Contents' = Contents /\ (UNCHANGED batch_count => Files')
  BY <1>s DEF Contents, Files, CountMatchesFile
<1>1. CASE StartMessage
  <2>1. /\ pc = "idle" /\ next \in Msgs /\ pc' = (IF Full THEN "resend" ELSE "write")
        /\ UNCHANGED <<mode, file, locals, host, history, tries>>
    BY <1>1 DEF StartMessage
  <2>2. Place'
    BY <1>s, <1>f, <2>1 DEF Place, Full
  <2>3. FullBatchOnDisk'
    BY <1>i, <2>1 DEF FullBatchOnDisk, Full
  <2>4. (1 .. checkpoint \subseteq Accounted)'
    BY <1>s, <1>u, <2>1 DEF Accounted
  <2>5. Tries' /\ Sets'
    BY <1>s, <1>i, <2>1 DEF Tries, AttemptsExact, Sets
  <2> QED
    BY <1>s, <1>i, <1>h, <1>u, <2>1, <2>2, <2>3, <2>4, <2>5, WholePrimed
<1>2. CASE EncodeRefuses
  <2>1. /\ pc = "write" /\ pc' = "idle" /\ HostReturn("fail") /\ refused' = refused \cup {next}
        /\ UNCHANGED <<mode, file, locals, delivered, discarded, swallowed, torn, tries>>
    BY <1>2 DEF EncodeRefuses, Return
  <2>2. next \in Msgs /\ batch_count < flush_count
    BY <1>s, <2>1 DEF Place
  <2>3. Accounted \cup {next} \subseteq Accounted'
    BY <1>u, <2>1 DEF Accounted
  <2>4. HostTypeOK' /\ Prompt' /\ (1 .. checkpoint \subseteq Accounted)'
    BY <2>1, <2>2, <2>3, Answered
  <2>5. Place' /\ FullBatchOnDisk' /\ Tries' /\ Sets'
    BY <1>s, <1>i, <2>1, <2>2 DEF Place, FullBatchOnDisk, Full, Tries, AttemptsExact, Sets
  <2> QED
    BY <1>s, <1>i, <1>u, <2>1, <2>4, <2>5, WholePrimed
<1>3. CASE Write
  <2>1. /\ pc = "write" /\ unflushed' = Append(unflushed, next) /\ batch_count' = batch_count + 1
        /\ UNCHANGED <<mode, disk, send_on_start, retry_count, history, tries>>
    BY <1>3 DEF Write
  <2>2. next \in Msgs /\ batch_count < flush_count
    BY <1>s, <2>1 DEF Place
  <2>3. /\ unflushed' \in Seq(Msgs) /\ Len(unflushed') = Len(unflushed) + 1
        /\ Range(unflushed') = Range(unflushed) \cup {next}
    BY <1>s, <2>1, <2>2, RangeAppend DEF Files
  <2>4. Contents' = disk \o unflushed'
    BY <2>1 DEF Contents
  <2>5. /\ Len(Contents') = Len(disk) + Len(unflushed') /\ Len(Contents) = Len(disk) + Len(unflushed)
        /\ Range(Contents') = Range(disk) \cup Range(unflushed')
        /\ Range(Contents) = Range(disk) \cup Range(unflushed)
    BY <1>s, <2>3, <2>4, RangeConcat DEF Files, Contents
  <2>6. Files'
    <3>1. Len(disk) \in Nat /\ Len(unflushed) \in Nat
      BY <1>s DEF Files
    <3>2. Len(Contents') = Len(Contents) + 1
      BY <2>3, <2>5, <3>1
    <3> QED
      BY <1>s, <2>1, <2>2, <2>3, <3>2 DEF Files, CountMatchesFile
  <2>7. Accounted \cup {next} \subseteq Accounted' /\ next \in Range(Contents')
    BY <2>1, <2>3, <2>5 DEF Accounted
  <2>8. Tries' /\ Sets'
    BY <1>s, <1>i, <2>1 DEF Tries, AttemptsExact, Sets
  <2>9. CASE batch_count' >= flush_count
    <3>1. pc' = "send" /\ UNCHANGED host
      BY <1>3, <2>9 DEF Write
    <3>2. Place' /\ FullBatchOnDisk'
      BY <1>h, <2>2, <2>7, <3>1 DEF Place, FullBatchOnDisk
    <3>3. (1 .. checkpoint \subseteq Accounted)'
      BY <1>s, <1>h, <2>7, <3>1
    <3> QED
      BY <1>s, <1>i, <1>h, <2>1, <2>6, <2>8, <3>1, <3>2, <3>3, WholePrimed
  <2>10. CASE ~(batch_count' >= flush_count)
    <3>1. pc' = "idle" /\ HostReturn("sent")
      BY <1>3, <2>10 DEF Write, Return
    <3>2. HostTypeOK' /\ Prompt' /\ (1 .. checkpoint \subseteq Accounted)'
      BY <2>2, <2>7, <3>1, Answered
    <3>3. Place' /\ FullBatchOnDisk'
      <4>1. flush_count' = flush_count
        OBVIOUS
      <4> QED
        BY <2>10, <3>1 DEF Place, FullBatchOnDisk, Full
    <3> QED
      BY <1>s, <1>i, <2>1, <2>6, <2>8, <3>1, <3>2, <3>3, WholePrimed
  <2> QED
    BY <2>9, <2>10
<1>4. ASSUME NEW ok \in BOOLEAN, Result(ok) # "error", send_batch(Result(ok)),
             UNCHANGED <<mode, refused, torn>>, swallowed \subseteq swallowed', swallowed' \subseteq Msgs
      PROVE  /\ Files' /\ FullBatchOnDisk' /\ Tries' /\ Sets' /\ (retry_count \in Nat)'
             /\ Accounted \cup (swallowed' \ swallowed) \subseteq Accounted'
             /\ Finished(Result(ok)) => batch_count' < flush_count
  <2>1. /\ Files' /\ unflushed' = <<>> /\ Contents' = disk'
        /\ Finished(Result(ok)) => batch_count' = 0
        /\ delivered' \subseteq Msgs /\ discarded' \subseteq Msgs
        /\ Range(Contents) \cup delivered \cup discarded
             \subseteq Range(Contents') \cup delivered' \cup discarded'
        /\ retry_count' \in Nat /\ Tries'
    BY <1>4, BatchSent
  <2>2. Accounted \cup (swallowed' \ swallowed) \subseteq Accounted'
    BY <1>4, <2>1 DEF Accounted
  <2>3. Sets' /\ FullBatchOnDisk' /\ Tries'
    BY <1>s, <1>4, <2>1 DEF Sets, FullBatchOnDisk
  <2> QED
    BY <1>s, <2>1, <2>2, <2>3
<1>5. CASE ResendKept
  <2>1. /\ pc = "resend" /\ Result(FALSE) = "kept" /\ send_batch(Result(FALSE))
        /\ pc' = "idle" /\ HostReturn("retry")
        /\ UNCHANGED <<mode, send_on_start, refused, swallowed, torn>>
    BY <1>5 DEF ResendKept, Return
  <2>2. /\ Files' /\ FullBatchOnDisk' /\ Tries' /\ Sets' /\ (retry_count \in Nat)'
        /\ Accounted \subseteq Accounted'
    BY <1>s, <1>4, <2>1 DEF Sets
  <2>3. UNCHANGED <<next, checkpoint, restarts, batching>>
    BY <2>1 DEF HostReturn
  <2>4. Place' /\ HostTypeOK' /\ Prompt' /\ (1 .. checkpoint \subseteq Accounted)'
    BY <1>s, <2>1, <2>2, <2>3 DEF Place, HostTypeOK, Prompt
  <2> QED
    BY <1>s, <1>i, <2>1, <2>2, <2>4, WholePrimed
<1>6. ASSUME NEW ok \in BOOLEAN, ResendDone(ok)
      PROVE  IInv'
  <2>1. /\ pc = "resend" /\ Finished(Result(ok)) /\ send_batch(Result(ok))
        /\ send_on_start' = FALSE /\ UNCHANGED <<mode, refused, torn>>
    BY <1>6 DEF ResendDone
  <2>2. Result(ok) # "error" /\ next \in Msgs /\ send_on_start' \in BOOLEAN
    BY <1>s, <2>1 DEF Finished, Place
  <2>3. CASE send_on_start
    <3>1. pc' = "write" /\ UNCHANGED <<swallowed, host>>
      BY <1>6, <2>3 DEF ResendDone
    <3>2. /\ Files' /\ FullBatchOnDisk' /\ Tries' /\ Sets' /\ (retry_count \in Nat)'
          /\ Accounted \subseteq Accounted' /\ batch_count' < flush_count
      BY <1>s, <1>4, <2>1, <2>2, <3>1 DEF Sets
    <3>3. Place' /\ (1 .. checkpoint \subseteq Accounted)'
      BY <1>s, <1>h, <2>2, <3>1, <3>2 DEF Place
    <3> QED
      BY <1>s, <1>h, <2>1, <2>2, <3>1, <3>2, <3>3, WholePrimed
  <2>4. CASE ~send_on_start
    <3>1. pc' = "idle" /\ HostReturn("sent") /\ swallowed' = swallowed \cup {next}
      BY <1>6, <2>4 DEF ResendDone, Return
    <3>2. /\ Files' /\ FullBatchOnDisk' /\ Tries' /\ Sets' /\ (retry_count \in Nat)'
          /\ Accounted \cup (swallowed' \ swallowed) \subseteq Accounted'
      BY <1>s, <1>4, <2>1, <2>2, <3>1 DEF Sets
    <3>3. Accounted \cup {next} \subseteq Accounted'
      BY <3>1, <3>2 DEF Accounted
    <3>4. HostTypeOK' /\ Prompt' /\ (1 .. checkpoint \subseteq Accounted)'
      BY <2>2, <3>1, <3>3, Answered
    <3>5. Place'
      BY <3>1 DEF Place
    <3> QED
      BY <1>s, <2>1, <2>2, <3>1, <3>2, <3>4, <3>5, WholePrimed
  <2> QED
    BY <2>3, <2>4
<1>7. ASSUME NEW ok \in BOOLEAN, SendFull(ok)
      PROVE  IInv'
  <2>1. /\ pc = "send" /\ Result(ok) # "error" /\ send_batch(Result(ok))
        /\ pc' = "idle" /\ HostReturn("sent")
        /\ UNCHANGED <<mode, send_on_start, refused, swallowed, torn>>
    BY <1>7 DEF SendFull, Return
  <2>2. /\ Files' /\ FullBatchOnDisk' /\ Tries' /\ Sets' /\ (retry_count \in Nat)'
        /\ Accounted \subseteq Accounted'
    BY <1>s, <1>4, <2>1 DEF Sets
  <2>3. next \in Msgs /\ next \in Accounted
    BY <1>s, <2>1 DEF Place, Accounted
  <2>4. HostTypeOK' /\ Prompt' /\ (1 .. checkpoint \subseteq Accounted)'
    BY <2>1, <2>2, <2>3, Answered
  <2>5. Place'
    BY <2>1 DEF Place
  <2> QED
    BY <1>s, <1>i, <2>1, <2>2, <2>4, <2>5, WholePrimed
<1>8. ASSUME NEW contents \in Seq(Msgs), Len(contents) <= flush_count, Load(contents),
             HostRestarts(FALSE), pc' = "idle", mode' = mode, Sets',
             givenUp' = givenUp \/ (mode # "retry" /\ givenUp' = givenUp \cup {max_retry + 1}),
             Accounted \subseteq Accounted'
      PROVE  IInv'
  <2>1. /\ Files' /\ unflushed' = <<>> /\ send_on_start' \in BOOLEAN /\ retry_count' = 0 /\ attempts' = 0
    BY <1>8, Loaded
  <2>2. HostTypeOK' /\ Prompt' /\ (1 .. checkpoint \subseteq Accounted)'
    BY <1>8, Resumed
  <2>3. Place' /\ FullBatchOnDisk' /\ (retry_count \in Nat)'
    BY <1>s, <1>8, <2>1 DEF Place, FullBatchOnDisk
  <2>4. Tries'
    <3>1. /\ givenUp \subseteq Nat
          /\ mode = "retry" => givenUp = {}
          /\ mode # "retry" => givenUp \subseteq {max_retry + 1}
      BY <1>i DEF Tries, AttemptsExact
    <3>2. givenUp' \subseteq Nat
      <4>1. max_retry + 1 \in Nat
        BY <1>s
      <4>2. givenUp' = givenUp \/ givenUp' = givenUp \cup {max_retry + 1}
        BY <1>8
      <4>3. CASE givenUp' = givenUp
        BY <3>1, <4>3
      <4>4. CASE givenUp' = givenUp \cup {max_retry + 1}
        BY <3>1, <4>1, <4>4
      <4> QED
        BY <4>2, <4>3, <4>4
    <3>3. attempts' = 0 /\ retry_count' = 0 /\ mode' = mode
      BY <1>8, <2>1
    <3>4. mode = "retry" => givenUp' = {}
      BY <1>8, <3>1
    <3>5. mode # "retry" => givenUp' \subseteq {max_retry + 1}
      BY <1>8, <3>1
    <3>6. CASE mode = "retry"
      BY <1>s, <3>2, <3>3, <3>4, <3>6 DEF Tries, AttemptsExact
    <3>7. CASE mode # "retry"
      BY <1>s, <3>2, <3>3, <3>5, <3>7 DEF Tries, AttemptsExact
    <3> QED
      BY <3>6, <3>7
  <2> QED
    BY <1>s, <1>8, <2>1, <2>2, <2>3, <2>4, WholePrimed
<1>9. ASSUME Load(Contents), HostRestarts(FALSE), UNCHANGED <<delivered, discarded>>,
             pc' = "idle", UNCHANGED <<mode, refused, swallowed, torn>>,
             givenUp' = givenUp \/ (mode # "retry" /\ givenUp' = givenUp \cup {max_retry + 1})
      PROVE  IInv'
  <2>1. Load(Contents) /\ HostRestarts(FALSE) /\ UNCHANGED <<delivered, discarded>>
    BY <1>9
  <2>2. Len(Contents) <= flush_count
    BY <1>s DEF Files
  <2>3. Contents' = Contents
    BY <1>s, <2>1, <2>2, Loaded
  <2>4. Sets' /\ Accounted \subseteq Accounted'
    BY <1>s, <1>9, <2>1, <2>3 DEF Sets, Accounted
  <2> QED
    BY <1>s, <1>8, <1>9, <2>1, <2>2, <2>4
<1>e. ASSUME NEW ok \in BOOLEAN, Result(ok) = "error", Terminated, pc' = "idle",
             UNCHANGED <<mode, refused, swallowed, torn>>
      PROVE  IInv'
  <2>1. retry_count >= max_retry /\ mode = "abort"
    BY <1>e, ConfigAssumption DEF Result, Exhausted
  <2>2. attempts = retry_count /\ attempts <= max_retry
    BY <1>i, <2>1 DEF Tries, AttemptsExact
  <2>3. givenUp' = givenUp \cup {max_retry + 1}
    BY <1>s, <1>e, <2>1, <2>2 DEF Terminated, GiveUp
  <2> QED
    BY <1>9, <1>e, <2>1, <2>3 DEF Terminated
<1>10. CASE Abort
  BY <1>e, <1>10 DEF Abort
<1>11. ASSUME NEW ok \in BOOLEAN, TimerEvent(ok)
       PROVE  IInv'
  <2>1. pc = "idle" /\ UNCHANGED <<mode, pc, refused, swallowed, torn>>
    BY <1>11 DEF TimerEvent
  <2>2. CASE Result(ok) = "error"
    BY <1>e, <1>11, <2>1, <2>2 DEF TimerEvent
  <2>3. CASE Result(ok) # "error"
    <3>1. send_batch(Result(ok)) /\ HostTicked(FALSE) /\ UNCHANGED send_on_start
      BY <1>11, <2>3 DEF TimerEvent
    <3>2. /\ Files' /\ FullBatchOnDisk' /\ Tries' /\ Sets' /\ (retry_count \in Nat)'
          /\ Accounted \subseteq Accounted'
      BY <1>s, <1>4, <2>1, <2>3, <3>1 DEF Sets
    <3>3. UNCHANGED <<next, checkpoint, restarts>> /\ batching' = FALSE
      BY <1>s, <3>1 DEF HostTicked, Prompt
    <3>4. Place' /\ HostTypeOK' /\ Prompt' /\ (1 .. checkpoint \subseteq Accounted)'
      <4>1. batching' \in BOOLEAN
        BY <3>3, Zenon
      <4> QED
        BY <1>s, <2>1, <3>2, <3>3, <4>1 DEF Place, HostTypeOK, Prompt
    <3> QED
      BY <1>s, <1>i, <2>1, <3>1, <3>2, <3>4, WholePrimed
  <2> QED
    BY <2>2, <2>3
<1>12. ASSUME NEW ok \in BOOLEAN, Shutdown(ok)
       PROVE  IInv'
  <2>1. pc' = "idle" /\ HostRestarts(FALSE) /\ UNCHANGED <<mode, refused, swallowed, torn>>
    BY <1>12 DEF Shutdown
  <2>2. CASE /\ Load(<<>>) /\ Finished(Result(ok))
             /\ IF ok THEN delivered' = delivered \cup Range(Contents) /\ UNCHANGED <<discarded, givenUp>>
                      ELSE discarded' = discarded \cup Range(Contents) /\ GiveUp /\ UNCHANGED delivered
    <3>1. Len(<<>>) <= flush_count /\ <<>> \in Seq(Msgs)
      BY <1>s, RangeEmpty
    <3>2. /\ delivered' \cup discarded' \subseteq Msgs
          /\ Range(Contents) \cup delivered \cup discarded \subseteq delivered' \cup discarded'
      BY <1>s, <2>2 DEF Sets
    <3>3. Sets' /\ Accounted \subseteq Accounted'
      BY <1>s, <2>1, <3>2 DEF Sets, Accounted
    <3>4. CASE ok
      BY <1>8, <2>1, <2>2, <3>1, <3>3, <3>4
    <3>5. CASE ~ok
      <4>1. mode = "discard" /\ retry_count >= max_retry
        BY <1>s, <2>2, <3>5, ConfigAssumption DEF Finished, Result, Exhausted
      <4>2. givenUp' = givenUp \cup {max_retry + 1}
        <5>1. attempts = retry_count /\ attempts <= max_retry
          BY <1>i, <4>1 DEF Tries, AttemptsExact
        <5> QED
          BY <1>s, <2>2, <3>5, <4>1, <5>1 DEF GiveUp
      <4> QED
        BY <1>8, <2>1, <2>2, <3>1, <3>3, <4>1, <4>2
    <3> QED
      BY <3>4, <3>5
  <2>3. CASE Load(Contents) /\ UNCHANGED <<delivered, discarded, givenUp>>
    BY <1>9, <2>1, <2>3
  <2> QED
    BY <1>12, <2>2, <2>3 DEF Shutdown
<1>13. CASE Crash
  <2>1. PICK kept \in 0 .. Len(unflushed) :
          /\ Load(disk \o SubSeq(unflushed, 1, kept))
          /\ torn' = torn \cup Range(SubSeq(unflushed, kept + 1, Len(unflushed)))
    BY <1>13 DEF Crash
  <2>2. /\ HostRestarts(FALSE) /\ pc' = "idle"
        /\ UNCHANGED <<mode, delivered, discarded, refused, swallowed, givenUp>>
    BY <1>13 DEF Crash
  <2> DEFINE saved == SubSeq(unflushed, 1, kept)
             lost == SubSeq(unflushed, kept + 1, Len(unflushed))
             contents == disk \o saved
  <2>3. disk \in Seq(Msgs) /\ unflushed \in Seq(Msgs) /\ Len(unflushed) \in Nat /\ Len(disk) \in Nat
    BY <1>s DEF Files
  <2>4. /\ saved \in Seq(Msgs) /\ Len(saved) = kept /\ lost \in Seq(Msgs)
        /\ Range(unflushed) = Range(saved) \cup Range(lost)
    BY <2>3, RangeSplit
  <2>5. /\ Load(contents) /\ torn' = torn \cup Range(lost)
    BY <2>1
  <2> HIDE DEF saved, lost
  <2>6. /\ contents \in Seq(Msgs) /\ Len(contents) = Len(disk) + kept
        /\ Range(contents) = Range(disk) \cup Range(saved)
    BY <2>3, <2>4, RangeConcat
  <2>7. /\ Len(Contents) = Len(disk) + Len(unflushed)
        /\ Range(Contents) = Range(disk) \cup Range(unflushed)
    BY <2>3, RangeConcat DEF Contents
  <2>8. Len(contents) <= flush_count
    <3>1. Len(Contents) <= flush_count
      BY <1>s DEF Files
    <3> HIDE DEF contents
    <3> QED
      BY <1>s, <2>3, <2>6, <2>7, <3>1
  <2> HIDE DEF contents
  <2>9. Contents' = contents
    BY <2>5, <2>6, <2>8, Loaded
  <2>10. Range(lost) \subseteq Msgs
    BY <2>4, RangeTyped
  <2>11. Sets' /\ Accounted \subseteq Accounted'
    BY <1>s, <2>2, <2>4, <2>5, <2>6, <2>7, <2>9, <2>10 DEF Sets, Accounted
  <2> QED
    BY <1>8, <2>2, <2>5, <2>6, <2>8, <2>11
<1>14. CASE UNCHANGED vars
  <2>1. Place' /\ FullBatchOnDisk' /\ Tries' /\ Sets' /\ (1 .. checkpoint \subseteq Accounted)'
    BY <1>s, <1>i, <1>u, <1>14 DEF Place, FullBatchOnDisk, Full, Tries, AttemptsExact, Sets, Accounted
  <2> QED
    BY <1>s, <1>i, <1>h, <1>u, <1>14, <2>1, WholePrimed
<1> QED
  BY <1>1, <1>2, <1>3, <1>5, <1>6, <1>7, <1>10, <1>11, <1>12, <1>13, <1>14, Zenon
     DEF Next, send_request

\* The invariant holds initially.
LEMMA InitIInv == Init => IInv
<1> SUFFICES ASSUME Init PROVE IInv
  OBVIOUS
<1>1. /\ next = 1 /\ batching = FALSE /\ checkpoint = 0 /\ restarts = 0 /\ pc = "idle" /\ mode \in Modes
      /\ disk = <<>> /\ unflushed = <<>> /\ batch_count = 0 /\ send_on_start = FALSE /\ retry_count = 0
      /\ delivered = {} /\ discarded = {} /\ refused = {} /\ swallowed = {} /\ torn = {}
      /\ attempts = 0 /\ givenUp = {}
  BY DEF Init, HostInit
<1>2. batching \in BOOLEAN /\ send_on_start \in BOOLEAN
  BY <1>1, Zenon
<1>3. HostTypeOK
  BY <1>1, <1>2, NumMsgsAssumption, RestartAssumption DEF HostTypeOK
<1>4. Contents = <<>>
  BY <1>1, RangeEmpty, ConcatEmptySeq DEF Contents
<1>5. Files /\ Prompt /\ Place /\ Sets /\ FullBatchOnDisk /\ Tries
  BY <1>1, <1>4, RangeEmpty, ConfigAssumption
     DEF Files, CountMatchesFile, Prompt, Place, Sets, FullBatchOnDisk, Tries, AttemptsExact
<1>6. 1 .. checkpoint \subseteq Accounted
  BY <1>1
<1> QED
  BY <1>1, <1>2, <1>3, <1>5, <1>6, Whole

-----------------------------------------------------------------------------
(* Theorems.                                                               *)

\* Every reachable state is well typed; the file never holds more than
\* flush_count messages.
THEOREM TypeCorrect == Spec => []TypeOK
<1>1. IInv => TypeOK
  BY DEF IInv
<1> QED
  BY InitIInv, Inductive, <1>1, PTL DEF Spec

\* Every message the host will not offer again is in the file or its fate is
\* known, over posts, retries, discards, aborts, restarts and crashes
\* (elasticsearch_bulk_api.lua:209-217, 264).
THEOREM CheckpointSound == Spec => []CheckpointAccounts
<1>1. IInv => CheckpointAccounts
  BY DEF IInv
<1> QED
  BY InitIInv, Inductive, <1>1, PTL DEF Spec

\* With discard_on_error or abort_on_error a batch is given up after exactly
\* max_retry + 1 failed posts of one run of the plugin, neither earlier nor later,
\* whichever callbacks made them and whatever became of the batches before it;
\* without them never (elasticsearch_bulk_api.lua:31-32, 221-247).
THEOREM AttemptsCounted == Spec => []AttemptsExact
<1>1. IInv => AttemptsExact
  BY DEF IInv, Tries
<1> QED
  BY InitIInv, Inductive, <1>1, PTL DEF Spec

\* The counter is right at every load: batch_count is the number of messages in
\* the file and its buffer (elasticsearch_bulk_api.lua:213).
THEOREM CountCorrect == Spec => []CountMatchesFile
<1>1. IInv => CountMatchesFile
  BY DEF IInv
<1> QED
  BY InitIInv, Inductive, <1>1, PTL DEF Spec

\* While a failed post waits for its retry the full batch is on disk, where no
\* crash can tear it (elasticsearch_bulk_api.lua:264).
THEOREM RetriedFromDisk == Spec => []FullBatchOnDisk
<1>1. IInv => FullBatchOnDisk
  BY DEF IInv
<1> QED
  BY InitIInv, Inductive, <1>1, PTL DEF Spec
=============================================================================
