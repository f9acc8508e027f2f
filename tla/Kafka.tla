-------------------------------- MODULE Kafka --------------------------------
(***************************************************************************)
(* kafka/kafka.c with its two sandboxes, end to end: the asynchronous      *)
(* output kafka.lua on a producer, the topics of the broker, and the input *)
(* kafka.lua on a consumer.  A topic has one partition.  librdkafka and    *)
(* the broker are external: a producer keeps a message in its queue, which *)
(* is limited, until poll() has served its delivery report; reports of one *)
(* topic come in order.  A consumer stores the offset of a message when it *)
(* hands it out and commits it in the background.                          *)
(*                                                                         *)
(* The host offers messages 1, 2, ... and restarts a plugin that stopped   *)
(* or threw behind the last sequence id given to update_checkpoint().      *)
(***************************************************************************)
EXTENDS Naturals, Sequences, SequencesExt, Functions, FiniteSets

CONSTANTS NumMsgs,    \* messages the host offers (bound of the model)
          Topics,
          Configs,    \* configuration tables to try
          Entries,    \* what the list of the consumer may hold for a topic
          QueueMax,   \* queue.buffering.max.messages
          MaxStops,   \* stops and errors of the output (bound of the model)
          MaxCrashes  \* of the input (bound of the model)

ASSUME KafkaAssumption ==
  /\ NumMsgs \in Nat /\ QueueMax \in Nat \ {0} /\ IsFiniteSet(Topics)
  /\ MaxStops \in Nat /\ MaxCrashes \in Nat

VARIABLES
  hosted,      \* LSB_THIS_PTR is in the registry: a lua_sandbox runs the code
  topic_of,    \* the topic of each message
  unsendable,  \* messages that are settled without being queued
  producer,    \* "none", "failed" (waits for its collection) or "open"
  topics,      \* the producer's topic table
  live,        \* librdkafka objects of the output that exist
  queue,       \* per topic: messages that are not answered yet
  reports,     \* delivery reports that are not served yet
  next, checkpoint, stops,  \* the host
  log,         \* per topic: the messages of the broker
  failed,      \* messages with a failed report (history)
  dropped,     \* messages in the queue of a producer that was destroyed (history)
  consumer, objects,  \* the same for the input
  reads,       \* the topics the consumer reads
  position, stored, committed,  \* per topic: offsets
  hand,        \* the message process_message works on, <<>> if none
  handled,     \* <<topic, offset>> that were injected or reported (history)
  crashes

outvars == <<producer, topics, live, queue, reports>>
hostvars == <<next, checkpoint, stops>>
history == <<failed, dropped>>
invars  == <<consumer, objects, reads, position, stored, committed, hand, handled, crashes>>
given == <<hosted, topic_of, unsendable>>
vars == <<given, outvars, hostvars, log, history, invars>>

Msgs == 1 .. NumMsgs
Zero == [t \in Topics |-> 0]
Empty == [t \in Topics |-> <<>>]

Init ==
  /\ hosted \in BOOLEAN
  /\ topic_of \in [Msgs -> Topics] /\ unsendable \in SUBSET Msgs
  /\ producer = "none" /\ topics = {} /\ live = {} /\ queue = Empty /\ reports = <<>>
  /\ next = 1 /\ checkpoint = 0 /\ stops = 0
  /\ log = Empty
  /\ failed = {} /\ dropped = {}
  /\ consumer = "none" /\ objects = {} /\ reads = {}
  /\ position = Zero /\ stored = Zero /\ committed = Zero
  /\ hand = <<>> /\ handled = {} /\ crashes = 0

Queued == UNION {ToSet(queue[t]) : t \in Topics}

-----------------------------------------------------------------------------
(* Configuration tables.                                                   *)

\* An option of a table, by what setting it depends on: the type of its value,
\* whether librdkafka refuses it, and the type of its key.
Options == {"string", "number", "boolean", "refused", "other value", "other key"}
ASSUME ConfigsAssumption == Configs \subseteq SUBSET Options

\* load_conf: every option is turned into a string and set, the first that cannot
\* be is the error; no table is no option.
load_conf(conf) == conf \subseteq {"string", "number", "boolean"}

\* load_topic_conf: the same for the options of a topic.
load_topic_conf(conf) == conf \subseteq {"string", "number", "boolean"}

-----------------------------------------------------------------------------
(* Producer: construction and collection.                                  *)

\* What producer_new has allocated when it fails, or succeeds, and what it frees
\* then: nothing if it finds no sandbox; rd_kafka_new makes the configuration a
\* part of the instance.
ProducerHeld  == [conf |-> {"conf"}, this |-> {"conf"}, rk |-> {"conf"}, brokers |-> {"rk"},
                  none |-> {"rk"}]
ProducerFreed == [conf |-> {"conf"}, this |-> {}, rk |-> {"conf"}, brokers |-> {}, none |-> {}]

producer_new(conf, failure) ==
  /\ producer = "none"
  /\ failure = "conf" <=> ~load_conf(conf)
  /\ failure = "this" <=> load_conf(conf) /\ ~hosted
  /\ producer' = IF failure = "none" THEN "open" ELSE "failed"
  /\ live' = live \cup {<<object>> : object \in ProducerHeld[failure] \ ProducerFreed[failure]}
  /\ topics' = {}
  /\ UNCHANGED <<given, queue, reports, hostvars, log, history, invars>>

\* producer_gc: of the objects there are, those of the topic table, then the
\* instance, and with it the messages it still had.
producer_gc(existing) ==
  /\ live' = existing \ ({<<"topic", t>> : t \in topics} \cup {<<"rk">>})
  /\ producer' = "none" /\ topics' = {}
  /\ queue' = Empty /\ reports' = <<>>
  /\ dropped' = dropped \cup Queued

Collect ==
  /\ producer = "failed" /\ producer_gc(live)
  /\ UNCHANGED <<given, hostvars, log, failed, invars>>

\* The plugin stops, after an error or as told (its last timer_event polls but
\* waits for nothing), and starts again behind the checkpoint cp.
Stops(cp, existing) ==
  /\ stops < MaxStops /\ stops' = stops + 1
  /\ producer_gc(existing)
  /\ checkpoint' = cp /\ next' = cp + 1

-----------------------------------------------------------------------------
(* Topics.                                                                 *)

\* mutant: the topic object stays when its configuration does not load
CreatedLeaks(t, ok) == live \cup {<<"topic", t>>}

\* get_topic: the topic is in the table of the producer.
get_topic(t) == t \in topics

\* producer_create_topic: nothing new if the producer has the topic.  When its
\* configuration does not load, or librdkafka refuses it, what was allocated for
\* it is freed.
Created(t, ok) == IF ok /\ ~get_topic(t) THEN live \cup {<<"topic", t>>} ELSE live

-----------------------------------------------------------------------------
(* poll: delivery reports.                                                 *)

\* dr_msg_cb on each report in turn: the last sequence id (0 is NULL).
msg_opaque(served) == IF served = <<>> THEN 0 ELSE Last(served).msg

\* The checkpoint after a poll that served these reports: update_checkpoint is
\* called with the last of them (and the number of failures, which is left out).
producer_poll_heka(served) ==
  IF msg_opaque(served) # 0 THEN msg_opaque(served) ELSE checkpoint

timer_event ==
  /\ producer = "open"
  /\ reports' = <<>>
  /\ checkpoint' = producer_poll_heka(reports)
  /\ UNCHANGED <<given, producer, topics, live, queue, next, stops, log, failed,
                 dropped, invars>>

\* The host stops the plugin: a last timer_event, which waits for nothing.
Stop ==
  /\ producer = "open"
  /\ Stops(producer_poll_heka(reports), live)
  /\ UNCHANGED <<given, log, failed, invars>>

-----------------------------------------------------------------------------
(* process_message of the output: create_topic, poll, encode, send.        *)

ServedByTimer == <<>>  \* mutant: only timer_event polls

\* The reports process_message serves first.
Served == reports

Offered == producer = "open" /\ next \in Msgs

\* The callback up to encode.
Polls ==
  /\ Offered
  /\ topics' = topics \cup {topic_of[next]}
  /\ live' = Created(topic_of[next], TRUE)
  /\ reports' = IF Served = <<>> THEN reports ELSE <<>>
  /\ checkpoint' = producer_poll_heka(Served)
  /\ UNCHANGED <<given, producer, stops, log, failed, dropped, invars>>

\* The encoder throws or returns nil (-1, -2), the message is too large (-1), its
\* topic or partition is unknown and that is ignored (-1), or it is zero-copy
\* data without a byte (send returns 0 and the plugin -5).
Settle ==
  /\ Polls /\ next \in unsendable
  /\ next' = next + 1
  /\ UNCHANGED queue

\* librdkafka counts a message until its report is served.
Room == FoldFunction(LAMBDA q, n : Len(q) + n, 0, queue) + Len(reports') < QueueMax

RetriedNever == FALSE  \* mutant: the error number of a full queue is not the one tested

\* process_message returns -3: the host offers the message again.
Retried == ~Room

\* producer_send_heka: librdkafka takes the message, and process_message returns
\* -5, or its queue is full.
Send ==
  /\ Polls /\ next \notin unsendable
  /\ queue' = IF Room THEN [queue EXCEPT ![topic_of[next]] = Append(@, next)] ELSE queue
  /\ next' = IF Retried THEN next ELSE next + 1

\* create_topic throws: the plugin ends without another timer_event.
ThrowAtTopic ==
  /\ Offered /\ ~get_topic(topic_of[next])
  /\ Stops(checkpoint, Created(topic_of[next], FALSE))
  /\ UNCHANGED <<given, log, failed, invars>>

\* The topic or the partition is unknown and that is not ignored: the same behind
\* create_topic and poll (a topic created is collected at once).
ThrowAtSend ==
  /\ Offered
  /\ Stops(producer_poll_heka(Served), live)
  /\ UNCHANGED <<given, log, failed, invars>>

-----------------------------------------------------------------------------
(* The broker (external).                                                  *)

\* The first message of a topic's queue is answered: appended to the log, or not,
\* or appended though its report says it failed.
Answer(t, result) ==
  /\ queue[t] # <<>>
  /\ LET m == Head(queue[t])
     IN /\ queue' = [queue EXCEPT ![t] = Tail(@)]
        /\ reports' = Append(reports, [msg |-> m, ok |-> result = "ok"])
        /\ log' = [log EXCEPT ![t] = IF result = "failed" THEN @ ELSE Append(@, m)]
        /\ failed' = IF result = "ok" THEN failed ELSE failed \cup {m}
  /\ UNCHANGED <<given, producer, topics, live, hostvars, dropped, invars>>

Broker == \E t \in Topics, result \in {"ok", "failed", "unacked"} : Answer(t, result)

-----------------------------------------------------------------------------
(* The input.                                                              *)

outside == <<given, outvars, hostvars, log, history>>

\* What the script lists for a topic: nothing, its name, its name with partition
\* 0, with a partition that is no 32 bit number, or no string.
ASSUME EntriesAssumption ==
  Entries \subseteq {"none", "name", "partition", "no partition", "no string"}

\* add_consumer_topics: the entries are parsed ...
Parsed(list) == Range(list) \subseteq {"none", "name", "partition"}

\* ... and without a partition they are subscribed to.  A list with one is
\* assigned, where a name without a partition gives the consumer none.
add_consumer_topics(list) ==
  {t \in Topics : list[t] = IF "partition" \in Range(list) THEN "partition" ELSE "name"}

\* What consumer_new has allocated and frees at the failure.  The configuration
\* takes over that of the topics, and the instance takes over both.
ConsumerHeld ==
  [conf |-> {"conf"}, this |-> {"conf"}, group |-> {"conf"}, tconf |-> {"conf", "tconf"},
   store |-> {"conf", "tconf"}, rk |-> {"conf"}, brokers |-> {"rk"},
   topics |-> {"rk", "topics"}, none |-> {"rk", "topics"}]
ConsumerFreed ==
  [conf |-> {"conf"}, this |-> {}, group |-> {"conf"}, tconf |-> {"conf", "tconf"},
   store |-> {"conf", "tconf"}, rk |-> {"conf"}, brokers |-> {}, topics |-> {}, none |-> {}]

consumer_new(conf, tconf, list, failure) ==
  /\ consumer = "none" /\ crashes < MaxCrashes + 1
  /\ \E t \in Topics : list[t] # "none"
  /\ failure = "conf" <=> ~load_conf(conf)
  /\ failure = "this" <=> load_conf(conf) /\ ~hosted
  /\ failure = "tconf" => ~load_topic_conf(tconf)
  /\ failure \notin {"conf", "this", "group", "tconf"} => load_topic_conf(tconf)
  /\ failure = "none" => Parsed(list)
  /\ consumer' = IF failure = "none" THEN "open" ELSE "failed"
  /\ objects' = objects \cup (ConsumerHeld[failure] \ ConsumerFreed[failure])
  /\ reads' = IF failure = "none" THEN add_consumer_topics(list) ELSE {}
  /\ position' = committed /\ stored' = committed
  /\ UNCHANGED <<outside, committed, hand, handled, crashes>>

\* consumer_receive hands out a message.
consumer_receive(t) ==
  /\ consumer = "open" /\ t \in reads /\ hand = <<>> /\ position[t] < Len(log[t])
  /\ position' = [position EXCEPT ![t] = @ + 1]
  /\ stored' = [stored EXCEPT ![t] = position'[t]]
  /\ hand' = <<t, position'[t]>>
  /\ UNCHANGED <<outside, consumer, objects, reads, committed, handled, crashes>>

ReportsThrown(result) == result = "throws"  \* mutant: a returned error is dropped

ReportsError(result) == result \in {"throws", "error"}

\* process_message of the input: the data is decoded and injected, or an error
\* message is.
Handle(result) ==
  /\ hand # <<>>
  /\ handled' = IF result = "ok" \/ ReportsError(result) THEN handled \cup {hand} ELSE handled
  /\ hand' = <<>>
  /\ UNCHANGED <<outside, consumer, objects, reads, position, stored, committed, crashes>>

\* The background commit of librdkafka (auto.commit.enable).
Commit(t) ==
  /\ consumer = "open"
  /\ committed' = [committed EXCEPT ![t] = stored[t]]
  /\ UNCHANGED <<outside, consumer, objects, reads, position, stored, hand, handled, crashes>>

\* consumer_gc, when is_running() became false, receive threw or consumer_new
\* failed: closing an instance commits what is stored.
consumer_gc ==
  /\ consumer \in {"failed", "open"} /\ hand = <<>>
  /\ consumer' = "none" /\ reads' = {}
  /\ objects' = objects \ {"rk", "topics"}
  /\ committed' = IF "rk" \in objects THEN stored ELSE committed
  /\ UNCHANGED <<outside, position, stored, hand, handled, crashes>>

Crash ==
  /\ consumer = "open" /\ crashes < MaxCrashes /\ crashes' = crashes + 1
  /\ consumer' = "none" /\ objects' = {} /\ reads' = {} /\ hand' = <<>>
  /\ UNCHANGED <<outside, position, stored, committed, handled>>

-----------------------------------------------------------------------------
ProcessMessage == Send \/ Settle

Output ==
  \/ \E conf \in Configs, failure \in DOMAIN ProducerHeld : producer_new(conf, failure)
  \/ Collect \/ ProcessMessage \/ ThrowAtTopic \/ ThrowAtSend \/ timer_event \/ Stop

Input ==
  \/ \E conf \in Configs, tconf \in Configs, list \in [Topics -> Entries],
        failure \in DOMAIN ConsumerHeld : consumer_new(conf, tconf, list, failure)
  \/ \E t \in Topics : consumer_receive(t) \/ Commit(t)
  \/ \E result \in {"ok", "throws", "error"} : Handle(result)
  \/ consumer_gc \/ Crash

Next == Output \/ Broker \/ Input

Spec == Init /\ [][Next]_vars

\* The broker answers and the host goes on with the output, which need not
\* have a ticker (ticker_interval is optional).
Fairness == /\ WF_vars(Broker) /\ WF_vars(ProcessMessage)
            /\ WF_vars(Collect) /\ SF_vars(producer_new({}, "none"))

FairSpec == Spec /\ Fairness

-----------------------------------------------------------------------------
(* Properties.                                                             *)

Logged == UNION {ToSet(log[t]) : t \in Topics}

\* A message the checkpoint covers is in the log, failed, settled otherwise, or
\* still in the queue.  With one topic none of them is in the queue, so that a
\* restart loses nothing; with two, reports of one topic overtake messages of
\* the other, and destroying the producer drops those (kafka.c:93, 628-643).
CheckpointAccounts ==
  \A m \in 1 .. checkpoint :
    \/ m \in Logged \cup failed \cup unsendable
    \/ Cardinality(Range(topic_of)) > 1 /\ m \in Queued \cup dropped

\* The librdkafka objects that exist are those of the producer and its topics,
\* and of the consumer: a constructor or create_topic that fails half way leaves
\* none behind that its collection does not free (kafka.c:339, 383-401, 628,
\* 808-819), but for the configuration of a constructor that finds no sandbox
\* (kafka.c:316-318, 769-771), which nothing frees, and nothing else is lost then.
NothingLeaked ==
  IF hosted
  THEN /\ live = {<<"topic", t>> : t \in topics} \cup (live \cap {<<"rk">>})
       /\ producer = "none" => live = {}
       /\ consumer = "none" => objects = {}
  ELSE live \subseteq {<<"conf">>} /\ objects \subseteq {"conf"}

\* What was committed and is neither handled nor at hand was lost by a crash, one
\* message each (kafka.c:798-801 lets librdkafka commit in the background).
OneLostPerCrash ==
  LET below == {p \in Topics \X (1 .. NumMsgs * (MaxStops + 1)) : p[2] <= committed[p[1]]}
  IN Cardinality(below \ (handled \cup {hand})) <= crashes

\* A full queue does not stop the output for ever, without a ticker too:
\* process_message serves reports before it sends (output/kafka.lua:71), provided
\* that the producer can be made.
OffersAccepted == hosted => <>(next = NumMsgs + 1)
=============================================================================
