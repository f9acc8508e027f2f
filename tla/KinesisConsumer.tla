--------------------------- MODULE KinesisConsumer ---------------------------
(***************************************************************************)
(* The consumer of aws/kinesis.cpp with its input, kinesis.lua.  It reads  *)
(* all shards of a stream in turn, keeps a position for each, and hands    *)
(* out with a batch of records the checkpoints of all shards.  The stream  *)
(* is external: records are put, a shard is closed in favour of others     *)
(* (split or merged), a closed one disappears when its data expires, an    *)
(* iterator expires, and every request may fail.                           *)
(*                                                                         *)
(* The clock is abstracted: whether a shard may be asked now (next_request)*)
(* and whether the hourly refresh is due is chosen at every call.          *)
(***************************************************************************)
EXTENDS Naturals, FiniteSets, FiniteSetsExt

CONSTANTS NumShards,   \* shards the stream ever has, in the order of their names
          Children,    \* the shards each one is closed in favour of
          MaxPuts,     \* records put into the stream (bound of the model)
          MaxCrashes,  \* bound of the model
          IteratorTypes, \* where a shard without a sequence id may start
          Older        \* records put before the time of AT_TIMESTAMP

ShardIds == 1 .. NumShards

ASSUME ConsumerAssumption ==
  /\ NumShards \in Nat \ {0} /\ MaxPuts \in Nat /\ MaxCrashes \in Nat
  /\ Children \in [ShardIds -> SUBSET ShardIds]
  /\ IteratorTypes \subseteq {"TRIM_HORIZON", "LATEST", "AT_TIMESTAMP"}
  /\ Older \in Nat

VARIABLES
  len,       \* the stream: the records of each shard,
  status,    \* whether it is "none" yet, "open", "closed" or "expired",
  puts,      \* the records put so far,
  older,     \* and those of each shard that are older than the configured time
  itType,    \* the configured iterator type
  consumer,  \* "none", "open" or "ended" (process_message threw)
  shards,    \* the shards known: [it, sequenceId, expired]
  it,        \* the shard read last, End if none
  refresh,   \* the list of shards is due (refresh = 0)
  hand,      \* records and checkpoints that receive returned, <<>> if none
  reported, saved,  \* given to the host; what survives a crash of the host
  handled,   \* <<shard, record>> injected (history)
  crashes

stream == <<len, status, puts, older, itType>>
consumerVars == <<stream, consumer, shards, it, refresh, hand, reported, saved, handled, crashes>>

End  == 0             \* shards.end()
None == 0             \* the empty string
Star == MaxPuts + 1   \* "*", the shard is closed and read to its end
NoCheckpoint == [s \in ShardIds |-> None]

listed == {s \in ShardIds : status[s] \in {"open", "closed"}}

ConsumerInit ==
  /\ len = [s \in ShardIds |-> 0] /\ puts = 0
  /\ older = [s \in ShardIds |-> 0] /\ itType \in IteratorTypes
  /\ status = [s \in ShardIds |-> IF s = 1 THEN "open" ELSE "none"]
  /\ consumer = "none" /\ shards = <<>> /\ it = End /\ refresh = FALSE
  /\ hand = <<>>
  /\ reported = NoCheckpoint /\ saved = NoCheckpoint
  /\ handled = {} /\ crashes = 0

-----------------------------------------------------------------------------
(* The stream (external).                                                  *)

reader == <<consumer, it, refresh, hand, reported, saved, handled, crashes>>

PutRecord(s) ==
  /\ status[s] = "open" /\ puts < MaxPuts
  /\ puts' = puts + 1 /\ len' = [len EXCEPT ![s] = @ + 1]
  /\ older' = IF puts < Older THEN [older EXCEPT ![s] = @ + 1] ELSE older
  /\ UNCHANGED <<status, itType, shards, reader>>

\* The shards with the same children are split, or merged, into them.
Reshard(s) ==
  LET parents == {p \in ShardIds : Children[p] = Children[s]}
  IN /\ Children[s] # {}
     /\ \A p \in parents : status[p] = "open"
     /\ \A c \in Children[s] : status[c] = "none"
     /\ status' = [t \in ShardIds |-> IF t \in parents THEN "closed"
                                     ELSE IF t \in Children[s] THEN "open" ELSE status[t]]
     /\ UNCHANGED <<len, puts, older, itType, shards, reader>>

ShardExpires(s) ==
  /\ status[s] = "closed"
  /\ status' = [status EXCEPT ![s] = "expired"]
  /\ UNCHANGED <<len, puts, older, itType, shards, reader>>

IteratorExpires(s) ==
  /\ s \in DOMAIN shards /\ shards[s].it # None
  /\ shards' = [shards EXCEPT ![s].expired = TRUE]
  /\ UNCHANGED <<stream, reader>>

-----------------------------------------------------------------------------
(* Shard iterators and the list of shards.                                 *)

Entry(position, seq) == [it |-> position, sequenceId |-> seq, expired |-> FALSE]

\* mutant: a shard without a sequence id starts with what comes next
IteratorAtLatest(seq, s) == IF seq \in {None, Star} THEN len[s] + 1 ELSE seq + 1

\* The first record of a shard that a consumer is meant to read.
First(s) == IF itType = "AT_TIMESTAMP" THEN older[s] + 1 ELSE 1

\* Where an iterator for a shard starts: behind the sequence id if there is one.
IteratorAt(seq, s) ==
  CASE seq = None -> IF itType = "LATEST" THEN len[s] + 1 ELSE First(s)
    [] seq = Star -> len[s] + 1
    [] OTHER      -> seq + 1

\* get_shard_iterator: the entry of a shard after the request; an error that is
\* not worth a retry clears the sequence id.
get_shard_iterator(s, seq, answer) ==
  CASE answer = "ok" /\ s \in listed -> Entry(IteratorAt(seq, s), seq)
    [] answer = "retry"              -> Entry(None, seq)
    [] OTHER                         -> Entry(None, None)

\* The end of get_shards: shards not known are added, those not listed deleted.
Listed(known, answer) ==
  [s \in listed |-> IF s \in DOMAIN known THEN known[s] ELSE get_shard_iterator(s, None, answer)]

\* The cursor after get_shards: when its shard is deleted, the next one.
Cursor ==
  LET after == {s \in listed : s > it}
  IN IF it = End \/ it \in listed THEN it
     ELSE IF after = {} THEN End ELSE Min(after)

-----------------------------------------------------------------------------
(* The consumer.                                                           *)

\* simple_consumer_new with the checkpoint of the host, then get_shards.  It is
\* called outside pcall: an error ends the plugin.
simple_consumer_new ==
  /\ consumer = "none"
  /\ it' = End /\ refresh' = FALSE
  /\ \/ \E answer \in {"ok", "retry"} :
          /\ listed # {}
          /\ consumer' = "open"
          /\ shards' = Listed([s \in {s \in ShardIds : reported[s] # None}
                                 |-> Entry(None, reported[s])], answer)
     \/ consumer' = "ended" /\ shards' = <<>>
  /\ UNCHANGED <<stream, hand, reported, saved, handled, crashes>>

\* Distance from the cursor, which comes last.
Rank(cursor, s) == IF s > cursor THEN s - cursor ELSE s + NumShards - cursor

\* The shards get_next_shard can stop at, of those ready to be asked: not read
\* to the end, with an iterator or one that is to be had.
Readable(known, ready, answer) ==
  {s \in ready : /\ known[s].sequenceId # Star
                 /\ known[s].it # None \/ (answer = "ok" /\ s \in listed)}

\* get_next_shard: the first of them, End if there is none.
get_next_shard(known, cursor, ready, answer) ==
  LET readable == Readable(known, ready, answer)
  IN IF readable = {} THEN End
     ELSE CHOOSE s \in readable : \A t \in readable : Rank(cursor, s) <= Rank(cursor, t)

\* The shards asked for an iterator on the way have a new entry.
Asked(known, cursor, ready, answer) ==
  LET found == get_next_shard(known, cursor, ready, answer)
      tried == {s \in ready : /\ known[s].sequenceId # Star /\ known[s].it = None
                              /\ (found = End \/ Rank(cursor, s) <= Rank(cursor, found))}
  IN [s \in DOMAIN known |->
        IF s \in tried THEN get_shard_iterator(s, known[s].sequenceId, answer) ELSE known[s]]

\* push_checkpoints: the sequence ids of all shards.
push_checkpoints(known) ==
  [s \in ShardIds |-> IF s \in DOMAIN known THEN known[s].sequenceId ELSE None]

\* The records from a position on that GetRecords returns.
Batch(s, position, count) == {<<s, n>> : n \in position .. position + count - 1}

\* The entry after GetRecords returned count records: no next iterator follows
\* the end of a closed shard.
ReadOn(s, entry, count) ==
  IF status[s] # "open" /\ entry.it + count > len[s] THEN Entry(None, Star)
  ELSE Entry(entry.it + count, IF count = 0 THEN entry.sequenceId ELSE entry.it + count - 1)

ExpiredKept(entry) == entry  \* mutant: an expired iterator is kept

\* EXPIRED_ITERATOR: a new iterator is requested with the next call.
Cleared(entry) == Entry(None, entry.sequenceId)

-----------------------------------------------------------------------------
(* simple_receive.                                                         *)

\* GetRecords on the shard next: records, an expired iterator, or a request to
\* repeat.
Reads(known, found, due, count) ==
  \/ /\ found \in listed /\ ~known[found].expired
     /\ count <= len[found] + 1 - known[found].it
     /\ shards' = [known EXCEPT ![found] = ReadOn(found, known[found], count)]
     /\ refresh' = (due \/ shards'[found].sequenceId = Star)
     /\ hand' = IF count = 0 THEN <<>>
                ELSE <<Batch(found, known[found].it, count), push_checkpoints(shards')>>
  \/ /\ count = 0
     /\ shards' = [known EXCEPT ![found] = IF @.expired THEN Cleared(@) ELSE @]
     /\ refresh' = due /\ hand' = <<>>

\* Where get_next_shard leaves the cursor: on the shard it found, else a round
\* further.
Moved(known, cursor, found) ==
  IF found # End THEN found ELSE IF cursor # End THEN cursor ELSE Max(DOMAIN known)

\* A call that returns: get_shards, when it is due, succeeds or is to be repeated
\* ("busy"), then the next shard is read.  The stream may have more shards than
\* known.
Receive(list, answer, ready, count) ==
  LET known  == IF list = "ok" THEN Listed(shards, answer) ELSE shards
      cursor == IF list = "ok" THEN Cursor ELSE it
      due    == refresh /\ list # "ok"
      found  == get_next_shard(known, cursor, ready, answer)
  IN /\ consumer = "open" /\ hand = <<>>
     /\ refresh => list # "not due"
     /\ DOMAIN known # {} /\ ready \subseteq DOMAIN known
     /\ it' = Moved(known, cursor, found)
     /\ IF found = End
        THEN count = 0 /\ shards' = Asked(known, cursor, ready, answer) /\ refresh' = due /\ hand' = <<>>
        ELSE Reads(Asked(known, cursor, ready, answer), found, due, count)
     /\ UNCHANGED <<stream, consumer, reported, saved, handled, crashes>>

\* What is asked for is answered: the list when it is due (or the hour is over),
\* an iterator for a shard without one.
Lists == IF refresh THEN {"ok", "busy"} ELSE {"not due", "ok"}
Unread == {s \in DOMAIN shards : shards[s].sequenceId # Star} \cup (listed \ DOMAIN shards)
Answers == IF \A s \in Unread : s \in DOMAIN shards /\ shards[s].it # None THEN {"ok"}
           ELSE {"ok", "retry", "invalid"}

simple_receive ==
  \E list \in Lists, answer \in Answers, ready \in SUBSET Unread, count \in 0 .. MaxPuts :
    Receive(list, answer, ready, count)

\* The list cannot be had or is empty, or GetRecords fails for good: process_message
\* returns -1 and is called again.
ReceiveThrows ==
  /\ consumer = "open" /\ hand = <<>>
  /\ consumer' = "none" /\ shards' = <<>> /\ it' = End /\ refresh' = FALSE
  /\ UNCHANGED <<stream, hand, reported, saved, handled, crashes>>

\* process_message injects the records (or an error message), then the checkpoint.
Inject ==
  /\ hand # <<>>
  /\ handled' = handled \cup hand[1] /\ reported' = hand[2]
  /\ hand' = <<>>
  /\ UNCHANGED <<stream, consumer, shards, it, refresh, saved, crashes>>

\* The host writes the checkpoint to disk, or crashes.
Save ==
  /\ saved' = reported
  /\ UNCHANGED <<stream, consumer, shards, it, refresh, hand, reported, handled, crashes>>

ConsumerCrash ==
  /\ crashes < MaxCrashes /\ crashes' = crashes + 1
  /\ consumer' = "none" /\ shards' = <<>> /\ it' = End /\ refresh' = FALSE
  /\ hand' = <<>> /\ reported' = saved
  /\ UNCHANGED <<stream, saved, handled>>

-----------------------------------------------------------------------------
Stream == \E s \in ShardIds : PutRecord(s) \/ Reshard(s) \/ ShardExpires(s) \/ IteratorExpires(s)

ConsumerNext == Stream \/ simple_consumer_new \/ simple_receive \/ ReceiveThrows \/ Inject \/ Save \/ ConsumerCrash

ConsumerSpec == ConsumerInit /\ [][ConsumerNext]_consumerVars

\* A call that asks shard s alone and returns all there is of it, or gives an
\* iterator up that expired.
Asks(s, count) == Receive(IF refresh THEN "ok" ELSE "not due", "ok", {s}, count)

ReadsAll(s) ==
  /\ s \in DOMAIN shards \cap listed /\ ~shards[s].expired /\ shards[s].sequenceId # Star
  /\ LET entry == shards[s]
         position == IF entry.it # None THEN entry.it ELSE IteratorAt(entry.sequenceId, s)
     IN Asks(s, len[s] + 1 - position) /\ shards'[s] # entry

GivesUp(s) ==
  /\ s \in DOMAIN shards \cap listed /\ shards[s].expired
  /\ Asks(s, 0)

\* A call that gets the list of shards and no records.
GetsShards == Receive("ok", "ok", {}, 0)

Opens == simple_consumer_new /\ consumer' = "open"

\* Whatever fails, requests succeed again and again; the hour of the next list
\* comes; the host calls process_message again; process_message goes on.
ConsumerFairness ==
  /\ SF_consumerVars(Opens) /\ SF_consumerVars(GetsShards)
  /\ \A s \in ShardIds : SF_consumerVars(ReadsAll(s)) /\ SF_consumerVars(GivesUp(s))
  /\ WF_consumerVars(Inject)

ConsumerFairSpec == ConsumerSpec /\ ConsumerFairness

-----------------------------------------------------------------------------
(* Properties.                                                             *)

\* With TRIM_HORIZON or AT_TIMESTAMP a restart, from the checkpoint given last or
\* from one that a crash brings back, starts behind records that were injected
\* only, but for those older than the time: the checkpoints of all shards go out
\* with every batch of one, and behind its records (kinesis.cpp:452-462, 612-636,
\* input/kinesis.lua:78-86).
CheckpointCovers ==
  itType # "LATEST" =>
    \A s \in ShardIds : \A n \in First(s) .. len[s] :
      n <= reported[s] \/ n <= saved[s] => <<s, n>> \in handled

\* With either, every record from there on is injected some time, or its shard
\* disappeared before, through splits, expired iterators, failed requests and
\* crashes, unless an error in the constructor ended the plugin
\* (kinesis.cpp:563-668, input/kinesis.lua:73).
AllHandled ==
  itType # "LATEST" /\ [](consumer # "ended") =>
    <>[](\A s \in listed : \A n \in First(s) .. len[s] : <<s, n>> \in handled)
=============================================================================
