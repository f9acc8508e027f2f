----------------------------- MODULE ElasticBulk -----------------------------
(***************************************************************************)
(* The Elasticsearch bulk output,                                          *)
(* elasticsearch/sandboxes/heka/output/elasticsearch_bulk_api.lua.  Every  *)
(* accepted message is answered 0 at once and appended to a batch file;    *)
(* the file is posted when it holds flush_count messages or the ticker     *)
(* finds it old, and survives the plugin.  Appending is buffered by stdio: *)
(* until the next batch:flush() or close a crash keeps only part of it.    *)
(* The host is that of OutputHost.                                         *)
(***************************************************************************)
EXTENDS OutputHost, Sequences, SequencesExt

CONSTANTS flush_count, max_retry,  \* configuration
          flush_on_shutdown,       \* the same
          Modes   \* what to do after max_retry: discard_on_error,
                  \* abort_on_error, or neither

ASSUME ConfigAssumption ==
  /\ flush_count \in Nat \ {0} /\ max_retry \in Nat
  /\ flush_on_shutdown \in BOOLEAN
  /\ Modes \subseteq {"retry", "discard", "abort"}

VARIABLES
  mode,           \* the configured one, fixed
  pc,             \* "idle", or where process_message stands
  disk,           \* messages in the batch file
  unflushed,      \* messages written to the file handle after them
  batch_count, send_on_start, retry_count,  \* Lua locals
  delivered,      \* messages of posted batches
  discarded,      \* messages of batches dropped after too many attempts
  refused,        \* messages answered with fail or skip
  swallowed,      \* messages answered 0 without being written
  torn,           \* unflushed messages lost in a crash
  attempts,       \* failed posts, by anyone, since the file was last emptied or
                  \* loaded; counted up to max_retry + 1
  givenUp         \* the failed posts a batch had behind it when it was discarded
                  \* or the plugin was aborted for it, for every such batch

file    == <<disk, unflushed>>
locals  == <<batch_count, send_on_start, retry_count>>
history == <<delivered, discarded, refused, swallowed, torn>>
tries   == <<attempts, givenUp>>
vars == <<mode, pc, file, locals, host, history, tries>>

Contents == disk \o unflushed

\* Loading the plugin: the batch file is opened for appending and counted.
Load(contents) ==
  /\ disk' = contents /\ unflushed' = <<>>
  /\ batch_count' = Len(contents)
  /\ send_on_start' = (Len(contents) >= flush_count)
  /\ retry_count' = 0 /\ attempts' = 0

Init ==
  /\ mode \in Modes /\ pc = "idle"
  /\ disk = <<>> /\ unflushed = <<>>
  /\ batch_count = 0 /\ send_on_start = FALSE /\ retry_count = 0
  /\ HostInit
  /\ delivered = {} /\ discarded = {} /\ refused = {}
  /\ swallowed = {} /\ torn = {}
  /\ attempts = 0 /\ givenUp = {}

-----------------------------------------------------------------------------
(* send_batch.                                                             *)

Full == batch_count >= flush_count

\* send_request: whether the post went well.  It did not if the connection or
\* the exchange failed, the status is above 304, or every item came back 403;
\* a batch the server took only in part counts as posted.
send_request == BOOLEAN

\* The attempt that fails now is at least the (max_retry + 1)th.
Exhausted == retry_count >= max_retry

\* What send_batch makes of a post that went well or not: it returns true when
\* the batch is posted or discarded and false when it is kept, or throws.
Result(ok) == CASE ok -> "posted"
                [] ~ok /\ mode = "discard" /\ Exhausted -> "discarded"
                [] ~ok /\ mode = "abort" /\ Exhausted -> "error"
                [] OTHER -> "kept"

FinishedAlways(result) == result # "error"  \* mutant: the file is always reset

Finished(result) == result \in {"posted", "discarded"}

\* batch:flush()
FileFlushed == disk' = Contents /\ unflushed' = <<>>

\* One more failure, counted up to max_retry + 1: beyond that it makes no
\* difference.
OneMore(count) == IF count > max_retry THEN count ELSE count + 1

RetriesNeverReset(result) ==  \* mutant: finalize_batch does not reset the counter
  IF result = "posted" THEN retry_count ELSE OneMore(retry_count)

\* finalize_batch resets the counter; else the failure is counted.
Retries(result) == IF Finished(result) THEN 0 ELSE OneMore(retry_count)

\* The post failed and the batch is given up.
GiveUp == givenUp' = givenUp \cup {attempts + 1}

\* batch:flush(), the post, and then finalize_batch or another attempt later.
send_batch(result) ==
  LET batch == Range(Contents)
  IN /\ delivered' = IF result = "posted" THEN delivered \cup batch ELSE delivered
     /\ discarded' = IF result = "discarded" THEN discarded \cup batch ELSE discarded
     /\ IF Finished(result)
        THEN disk' = <<>> /\ unflushed' = <<>> /\ batch_count' = 0
        ELSE FileFlushed /\ UNCHANGED batch_count
     /\ retry_count' = Retries(result)
     /\ attempts' = IF result = "kept" THEN OneMore(attempts) ELSE 0
     /\ IF result = "discarded" THEN GiveUp ELSE UNCHANGED givenUp

\* error() ends the sandbox, which closes the file; it is loaded again later
\* and the message it was called for, if any, is offered again.
Terminated ==
  /\ Load(Contents) /\ HostRestarts(FALSE)
  /\ GiveUp
  /\ UNCHANGED <<delivered, discarded>>

-----------------------------------------------------------------------------
(* process_message.                                                        *)

Return(rv) == pc' = "idle" /\ HostReturn(rv)

\* A full batch, left by a failed post, is sent before the message is looked at.
StartMessage ==
  /\ pc = "idle" /\ next \in Msgs
  /\ pc' = IF Full THEN "resend" ELSE "write"
  /\ UNCHANGED <<mode, file, locals, host, history, tries>>

\* It could not be sent: the host retries the message.
ResendKept ==
  /\ pc = "resend" /\ Result(FALSE) = "kept"
  /\ send_batch("kept")
  /\ Return("retry")
  /\ UNCHANGED <<mode, send_on_start, refused, swallowed, torn>>

\* It is out of the way: the retry loop is broken by answering 0, except for
\* the batch found when the plugin was loaded, after which the message is taken.
ResendDone(ok) ==
  /\ pc = "resend" /\ Finished(Result(ok))
  /\ send_batch(Result(ok))
  /\ IF send_on_start
     THEN pc' = "write" /\ UNCHANGED <<swallowed, host>>
     ELSE Return("sent") /\ swallowed' = swallowed \cup {next}
  /\ send_on_start' = FALSE
  /\ UNCHANGED <<mode, refused, torn>>

\* encode throws or has no output.
EncodeRefuses ==
  /\ pc = "write"
  /\ Return("fail")
  /\ refused' = refused \cup {next}
  /\ UNCHANGED <<mode, file, locals, delivered, discarded, swallowed, torn, tries>>

\* The message is appended; a batch that became full is sent before the answer.
Write ==
  /\ pc = "write"
  /\ unflushed' = Append(unflushed, next)
  /\ batch_count' = batch_count + 1
  /\ IF batch_count' >= flush_count
     THEN pc' = "send" /\ UNCHANGED host
     ELSE Return("sent")
  /\ UNCHANGED <<mode, disk, send_on_start, retry_count, history, tries>>

\* The message is answered 0 whatever send_batch returned.
SendFull(ok) ==
  /\ pc = "send" /\ Result(ok) # "error"
  /\ send_batch(Result(ok))
  /\ Return("sent")
  /\ UNCHANGED <<mode, send_on_start, refused, swallowed, torn>>

\* Either send throws.
Abort ==
  /\ pc \in {"resend", "send"} /\ Result(FALSE) = "error"
  /\ Terminated /\ pc' = "idle"
  /\ UNCHANGED <<mode, refused, swallowed, torn>>

-----------------------------------------------------------------------------
(* timer_event, and how a plugin ends.                                     *)

\* The batch is old enough (the clock is not modelled) and not empty.
PendingFull == Full  \* mutant: the ticker waits for a full batch

Pending == batch_count > 0

TimerEvent(ok) ==
  /\ pc = "idle" /\ Pending
  /\ IF Result(ok) = "error"
     THEN Terminated
     ELSE send_batch(Result(ok)) /\ HostTicked(FALSE) /\ UNCHANGED send_on_start
  /\ UNCHANGED <<mode, pc, refused, swallowed, torn>>

\* timer_event(ns, true) posts the batch if flush_on_shutdown is set or it is
\* old enough; the file is closed and what it holds is found by the next load.
Shutdown(ok) ==
  /\ pc = "idle"
  /\ \/ /\ Pending /\ Finished(Result(ok))
        /\ Load(<<>>)
        /\ IF ok THEN /\ delivered' = delivered \cup Range(Contents)
                      /\ UNCHANGED <<discarded, givenUp>>
                 ELSE /\ discarded' = discarded \cup Range(Contents)
                      /\ GiveUp /\ UNCHANGED delivered
     \/ /\ flush_on_shutdown => ~Pending \/ ~Finished(Result(ok))
        /\ Load(Contents) /\ UNCHANGED <<delivered, discarded, givenUp>>
  /\ HostRestarts(FALSE)
  /\ UNCHANGED <<mode, pc, refused, swallowed, torn>>

\* A crash keeps what stdio had written out by then.
Crash ==
  /\ \E kept \in 0 .. Len(unflushed) :
       /\ Load(disk \o SubSeq(unflushed, 1, kept))
       /\ torn' = torn \cup Range(SubSeq(unflushed, kept + 1, Len(unflushed)))
  /\ HostRestarts(FALSE)
  /\ pc' = "idle"
  /\ UNCHANGED <<mode, delivered, discarded, refused, swallowed, givenUp>>

-----------------------------------------------------------------------------
Next == \/ StartMessage \/ ResendKept \/ EncodeRefuses \/ Write \/ Abort \/ Crash
        \/ \E ok \in send_request :
             ResendDone(ok) \/ SendFull(ok) \/ TimerEvent(ok) \/ Shutdown(ok)

Spec == Init /\ [][Next]_vars

\* A started callback ends, the ticker runs, and some post goes well.
FairSpec ==
  /\ Spec
  /\ WF_vars(EncodeRefuses \/ Write \/ Abort)
  /\ WF_vars(ResendDone(TRUE)) /\ WF_vars(SendFull(TRUE))
  /\ SF_vars(TimerEvent(TRUE))

-----------------------------------------------------------------------------
(* Properties.                                                             *)

\* The type invariant.
TypeOK ==
  /\ HostTypeOK /\ mode \in Modes /\ pc \in {"idle", "resend", "write", "send"}
  /\ disk \in Seq(Msgs) /\ unflushed \in Seq(Msgs)
  /\ batch_count \in 0 .. flush_count /\ send_on_start \in BOOLEAN /\ retry_count \in Nat
  /\ attempts \in 0 .. max_retry + 1 /\ givenUp \subseteq Nat
  /\ \A set \in {delivered, discarded, refused, swallowed, torn} : set \subseteq Msgs

\* batch_count is the number of messages in the file, "a correct count when
\* resuming after an abort" (line 213).
CountMatchesFile == batch_count = Len(Contents)

\* Every message the host will not offer again is in the batch file or its fate
\* is known, across posts, retries, discards, aborts and restarts.
CheckpointAccounts ==
  1 .. checkpoint \subseteq
     Range(Contents) \cup delivered \cup discarded \cup refused \cup swallowed \cup torn

\* Between callbacks a full batch is entirely on disk: a crash while a failed
\* post waits for its retry loses nothing (batch:flush() precedes the post).
FullBatchOnDisk == pc \in {"idle", "resend"} /\ Full => unflushed = <<>>

\* With discard_on_error or abort_on_error a batch is given up after exactly
\* max_retry + 1 failed attempts to send it in one run of the plugin (lines
\* 31-32), neither earlier nor later, whichever of process_message, timer_event
\* and the shutdown made them and whatever became of the batches before it;
\* without them never.
AttemptsExact ==
  IF mode = "retry" THEN givenUp = {}
  ELSE attempts <= max_retry /\ givenUp \subseteq {max_retry + 1}

\* The batch file does not keep a message for ever.
BatchDrains == \A m \in Msgs : m \in Range(Contents) ~> m \notin Range(Contents)
=============================================================================
