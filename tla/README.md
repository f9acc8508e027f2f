# Specifications of lua_sandbox_extensions

This directory holds TLA+ specifications of the parts of *lua_sandbox_extensions* whose
behaviour over time is hard to see in the code and hard to test: plugins that batch, retry and
checkpoint; inputs that acknowledge; data structures that are kept for months, restarted often, or
shared with Lua's garbage collector. TLC checks every specification on small instances; for the eight
components in which a checkpoint or an acknowledgement is decided, and for the four data structures, the TLA+ proof
system proves the safety properties for every value of the constants.

`PROJECT.json` lists the components, the runs, the hazards the properties are for, the mutations each
property is tested against, and, for each definition, the lines of code it stands for.

## 1. The system

The repository is a collection of modules and plugins for the Lua sandbox that Hindsight
runs. Hindsight itself is not in the repository; a plugin meets it through
`process_message()`, `timer_event(ns, shutdown)`, `inject_message()` and `update_checkpoint()`. Hindsight
calls a plugin from one thread, one callback at a time, and identifies its messages by a
position in a log file. A checkpoint is such a position: after a stop or a crash the
plugin is offered the messages behind it again, and nothing before it. So the one thing an
output must get right is *when it lets the checkpoint move*, and an input *when it tells the
service that it is done*.

| Component | Code | State | Operations | Talks to |
|---|---|---|---|---|
| Pub/Sub output, asynchronous | `gcp/pubsub.cpp`, `gcp/.../output/gcp_pubsub.lua` | request being built, calls owned by gRPC, `outstanding_requests`; in Lua `timer`, `sid` | publish, poll, flush, gc | gRPC threads (completion queue), host |
| Pub/Sub output, synchronous | the same files | request, `timer` | publish_sync, flush | service (blocking), host |
| Pub/Sub subscriber and input | `gcp/pubsub.cpp`, `gcp/.../input/gcp_pubsub.lua` | pulls under way, ids to acknowledge (`aar`), acknowledgements under way, the batch in Lua | pull, pull_sync, ack, gc | gRPC threads, subscription, host |
| Cloud Logging output | `gcp/logging.cpp`, `gcp/.../output/gcp_logging.lua` | batch of entries, requests under way, `timer`, `sid` | send, send_sync, poll, flush, gc | gRPC, service, host |
| Kinesis output | `aws/.../output/kinesis.lua`, `aws/kinesis.cpp` (`simple_send`) | `pack` (messages, size, timer, key) | add, undo, send | service (blocking), host |
| Kinesis consumer and input | `aws/kinesis.cpp`, `aws/.../input/kinesis.lua` | map of shards (iterator, sequence id, expired), cursor, hour of the next list | new, receive, refresh, checkpoint | service, host |
| Kafka producer, consumer, sandboxes | `kafka/kafka.c`, `kafka/.../{output,input}/kafka.lua` | producer and its topics, librdkafka's queue and reports; consumer, offsets | new, create_topic, send, poll, receive, gc | librdkafka threads, broker, host |
| Elasticsearch bulk output | `elasticsearch/.../elasticsearch_bulk_api.lua` | batch file, stdio buffer, `batch_count`, `retry_count`, `send_on_start` | write, send_batch, resume | file system, HTTP server, host |
| Circular buffer | `circular_buffer/circular_buffer.c` | ring of rows, current row and time, deltas, headers, annotations | add, set, get, get_range, set_header, annotate, output, serialize, restore | plugins, a reader of the cbufd format |
| Cuckoo filter with expiration | `cuckoo_filter/cuckoo_filter_expire.c` | buckets of (fingerprint, interval), count, time, interval, `lru_interval` | add, delete, query, clear, serialize, restore | plugins |
| Parquet schemas and writers | `parquet/parquet.cpp` | tree of nodes with an owner count; per writer and column: levels, values, bytes, rollback counters | add_group, finalize, dissect_record, dissect_message, rollback, write, close, gc | plugins, collector |
| RJson | `rjson/rjson.cpp` | document, in-situ buffer, `refs` (addresses Lua may use, which are owned) | parse, find, iter, value, remove, remove_shallow, make_field, gc | plugins, collector |
| BigQuery output | `gcp/.../output/gcp_bigquery.lua` | batch file, `retry_at`, `failed_cnt`, mode, saved files | load, retry, alert, save | `bq` process, file system, host |
| Plain cuckoo and Bloom filters, HyperLogLog | `cuckoo_filter.c`, `bloom_filter.c`, `hyperloglog.c` | buckets, bits, registers | add, query, serialize | plugins |
| Derived streams | `heka/io_modules/heka/derived_stream*` | open files per partition | write, roll, load | file system, S3, Redshift |
| Everything else | decoders, encoders, grammars, analysis plugins, wrapped libraries | none, or statistics of one plugin | - | - |

Hard behaviours, by cause:

* **Concurrency.** gRPC and librdkafka complete requests in any order while Lua runs (`pubsub.cpp:281-328`,
  `kafka.c:93`); what a callback concludes is a checkpoint that the host cannot take back.
* **Retries.** A `-3` makes the host offer the same message again, after any number of
  ticks. A plugin that kept the message from the first time has it twice, one that
  cleared it must still have it (`pubsub.cpp:617`, `kinesis.lua:133`, `elasticsearch_bulk_api.lua:252`).
* **Two callers, one state.** `timer_event` and `process_message` share flags and counters
  (`timer`, `sid`, `pack.timer`, `retry_count`), each with its own idea of when they are reset.
* **Crash and restart.** Memory is lost, a stdio buffer is lost in part, a checkpoint is older than what
  was done, a serialized structure comes back without some of its fields.
* **Errors half way.** A record is dissected into some columns before it throws, a constructor holds
  some of its objects, a Lua error leaves a C++ function by a long jump.
* **Lifetimes.** Handles are addresses, siblings move, collection comes in any order.
* **Modular arithmetic.** Rings of rows and intervals modulo 256, with jumps in time.

What makes each component correct: an output never lets the checkpoint pass a message that
only memory holds, sends every message it accepted, respects its limits and gives up
where it says so; an input acknowledges what it has handled, and handles everything; the
buffer is a sliding window, and what it reports adds up to what it holds; the filter keeps what is
within its window and nothing else; a Parquet file holds the records that were accepted, whole; a
handle names the value it was handed out for.

## 2. Modules

| Module | What it is |
|---|---|
| `OutputContract` | abstract: settled messages and a checkpoint that covers settled messages only |
| `OutputHost` | the host, as far as outputs rely on it: offers, answers, checkpoint, restart (external) |
| `PubsubAsync`, `PubsubAsync_proofs` | the asynchronous Pub/Sub output |
| `PubsubSync` | the synchronous Pub/Sub output; extends `OutputHost`, implements `OutputContract` |
| `PubsubSubscriber` | the subscriber and its input, with the subscription they read |
| `Pubsub_proofs` | the theorems about both |
| `GcpLogging`, `GcpLogging_proofs` | the Cloud Logging output in both modes; extends `OutputHost` |
| `KinesisPack` | the Kinesis output with packing; extends `OutputHost` |
| `ElasticBulk`, `ElasticBulk_proofs` | the Elasticsearch bulk output; extends `OutputHost` |
| `KinesisConsumer`, `MCKinesisConsumer` | the Kinesis consumer and its input, with the stream they read |
| `Kinesis_proofs` | the theorems about both |
| `Kafka`, `Kafka_proofs`, `MCKafka` | producer with its output, broker, consumer with its input: end to end |
| `TimeSeries` | abstract: a sliding window of time slots |
| `CircularBuffer` | the ring buffer, its deltas, annotations and outputs; implements `TimeSeries` |
| `CuckooFilterExpire`, `MCCuckooFilterExpire` | the expiring cuckoo filter; the keys, hashes and partners of its runs |
| `MCTimeWindows` | the run of both: a behaviour is one of the buffer or one of the filter |
| `TimeWindows_proofs` | the theorems about both |
| `ParquetColumn` | one column of a Parquet writer: what is added and rolled back, and what it may rely on |
| `ParquetRecord` | the pure part of Parquet: levels, dissection, and the reference that reads records back |
| `RecordFile` | abstract: accepted records, written in row groups, whole and in order |
| `ParquetWriter` | schema and writers of Parquet: dissection, rollback, row groups, collection |
| `ParquetFile`, `MCParquetWriter` | writers and dissection together; implements `RecordFile`. The schemas and records of its run |
| `RJson`, `MCRJson` | documents and handles; the texts of its run |
| `RJsonInv`, `ParquetWriterInv` | the inductive invariants of the documents and the writers, by named parts |
| `Documents_proofs` | the theorems about the documents and the Parquet writers |

In a component module, the definitions marked `mutant` are plausible bugs that a run must
notice; they are not part of the specification. Variables marked `history` are not state of the code:
they record what a property has to compare the state with.

### OutputHost

Messages are numbered in the order they are offered. `HostReturn` is the host's reaction
to the code of `process_message` (0 moves the checkpoint to the message, -4 leaves it,
-3 keeps the message, -1 and -2 move it only if no earlier message waits), `HostTicked` that
to `timer_event` with or without `update_checkpoint()`, `HostRestarts` a stop or a crash. The
source of the host is not in the repository; the module is deduced from what the
plugins and their documentation expect of it and is marked external. `MaxRestarts` bounds the
restarts.

### PubsubAsync

A callback is a chain of steps, `pc` saying where it stands: `BeginPoll` (the callback was
called), the poll loop, then `publish` or `flush`. Between any two of them gRPC may
`Complete` a call, whose tag is then in the queue. The poll loop is one action per kind of
completed call: `PollOk`, `PollRetry`, `PollFail`; `PollEnd` is the end of the loop with
its `update_checkpoint`. The choice of the next completed call is free, as gRPC promises no
order. `publish` is four actions, one per way through the function (`EncodeRefuses` and
`PublishRefused` leave before anything is added, `PublishEmpty`, `PublishData`), `Flush` is
the rest of `timer_event`. `Shutdown` is the callback with `shutdown` set, after which the
destructor (`pc = "gc"`) polls until the queue is empty. A retry in the destructor uses a
queue that was shut down: gRPC may refuse it with an assertion (`RetryAfterShutdown`, state
"aborted") or accept it (`PollRetry`).

`publish` pushes no value when the message fills the request in this mode. `status` is then
`NoValue`; the host may end the plugin (`HostTerminates`) or not, and both are explored.

### PubsubSync, KinesisPack

Callbacks do not overlap and the calls block, so a callback is one action with the outcome
of its call as a parameter. `request` and `pack` mirror the C++ and Lua state; a `Shutdown` is
the last `timer_event` followed by the loss of memory, a `Crash` only the latter. In
`KinesisPack` lengths are small numbers instead of 25 KiB units, and the fill percentage is
already scaled to the unit.

### GcpLogging

What gRPC completes during a callback is as if completed after it, because the poll comes first; so a
callback is one action here too, with the id of the poll's last completed request as a parameter
(`PollSids`, the order is free). The mode is `max_async_requests`, chosen once from `Limits`; 0 is the blocking
writer. `bad` are messages that `send` rejects; their entry is in the batch by then and stays there, either
without a log name or resource (`Incomplete`, the service refuses the request) or without what follows a bad label
(`Partial`). Such an entry may fill the batch, so that the next message is answered and not added (`ignored`).

### PubsubSubscriber

The subscription is external: a message is handed out (`leased`), may be handed out again after its deadline
(`Expire`), until it is acknowledged. `PullAsync` and `PullSync` are the two entries of the module with their whole
body: take a completed response, hand the batch to Lua, send the ids kept from the last batch, create
new pulls up to the limit. `PullAsyncFails` and `PullSyncFails` are the same with a Lua error in the middle. In the input's loop
messages are handled one by one (`Inject`), or one ends the input (`Uncaught`). `Stop`, `StopIdle` and `Crash` are the other ways out,
`Gc` the destructor, and `acks` the acknowledgements gRPC owns. `async_ack_request.retry_cnt` is not initialised
(`pubsub.cpp:91, 425`): its value is chosen from `RetryCounts`.

### KinesisConsumer

The stream is external: `PutRecord`, `Reshard` (shards with the same children are split, or merged, into them), `ShardExpires`, `IteratorExpires`. `Receive` is a call of `simple_receive` with all it
does: the hourly list of shards, the round from the cursor over the shards that are due, the
errors that end the round, and the checkpoints it returns with the first batch of records. The clock is a choice: which
shards are due (`next_request`) and whether the list is due is chosen at every call. A checkpoint given to the host may be
lost with a crash (`saved` is the one that comes back). `itType` is where a shard without a sequence id starts: with
`AT_TIMESTAMP` behind the `older` records, those put before that time (the first `Older` ones).

### Kafka

Output and input are two plugins around the broker's log. The producer's queue, its delivery reports and the background commit
are librdkafka's (external); constructors and `create_topic` have one failure point per allocation
(`ProducerHeld`, `ConsumerHeld`), so that `live` and `objects` say which librdkafka objects exist. `hosted` is whether the registry has an
`LSB_THIS_PTR`, that is whether a `lua_sandbox` runs the code; without it every constructor fails, and keeps its configuration. Reports of one topic come in
order, those of two in any.

### ElasticBulk

`disk` and `unflushed` are the batch file and what stdio holds of it. A crash keeps any prefix of
`unflushed`. `process_message` is a chain of steps (`pc`) because an `error()` may end the plugin
in the middle of it; `mode` is the configured way of handling errors, chosen once from `Modes`; `retry_count`
saturates at `max_retry + 1`, above which the code tests nothing more. `attempts` and `givenUp` are history: the failed posts
since the file was last emptied or the plugin started, counted at each post and not by the code's counter, and how many of them a batch had
behind it when it was discarded, or when the plugin was aborted for it.

### CircularBuffer

The ring is modelled row by row with its doubling copy of cleared rows (`CopyClearedRow`),
since that is where an off-by-one would be. `received` is what a reader makes of the cbufd
output (it adds sums and replaces extremes), `lost` the cells whose change went with a
failed output or a change of aggregation. Annotations have a delta flag of their own; a restart writes their times with six digits
(`%g`, here a multiple of `Precision`), which may move one into another row. `heard` and `excused` are to annotations what
`received` and `lost` are to values.

### CuckooFilterExpire

Fingerprints stand for keys; `Home` and `Partner` are the two buckets of a key, any functions with
`Partner` an involution. A bucket is a set of entries, and `Kick`, one pass of the displacement loop, draws any victim, as
`rand()` does; `Displace` repeats it. A key may be added at any time that is not too old for the filter's clock, the first time included, which finds the clock at
the last interval of a first window. The rest is history: `last` (when was each key last added), `newest` (the latest time given), `overdue`
(keys whose entry was left when the time jumped over a window) and `misled` (an older time was given while the clock was behind the newest). The two properties on
expiry hold as long as the clock is right (`ClockRight`): in a filter that was never restored nor misled. What a jump leaves behind is
the subject of `EntriesExpire`, which fails.

### ParquetColumn, ParquetRecord, ParquetWriter, ParquetFile

`ParquetRecord` is pure: `build_nested` computes levels and says whether `finalize` accepts the schema; `dissect_record` and
`dissect_message` give the columns after a table or a message, and whether they threw. Its last section reads the
entries of a record back and says what a table means under a schema; nothing there is the code's.
`ParquetWriter` has the state: the schema's tree with its `ref_cnt`, and per writer the columns with the
counters that a rollback uses. A call of `dissect_*` is one action, with the rollback if it threw; `write_rowgroup` and `close`
may fail. A column keeps lengths in bytes for binary values (`ByRef`) as the code does, so that a rollback that cuts values and not
bytes shows. What the writers take for a dissection is a list of steps on columns, up to the first exception: a column is touched, or an entry is added
to it. `IsDissection` in `ParquetColumn` says what they rely on: a column is touched before it is given entries and not before the columns in front of it
(a rollback ends at the first column it finds untouched), a value comes with the definition level of its column and a null with a lower one, and if a record that was accepted
gives a column entries, one of them starts it. It need not give every column some (`Whole`): a message with a field that has no values is accepted without an entry for
it, as the code does. What is read back of a row group is a function `Assembly` of the schema and of the
entries found in its columns; `ReaderAssumption` says of it that the entries of whole dissections, one after the other, give the records that were
dissected. A row group in which a column has fewer starts than there are records is not written: the library throws, and the columns are cleared (`write_rowgroup`). `ParquetFile` puts the parts together: the dissections are those `ParquetRecord` makes of tables and messages, and `Assembly` is its `Read`. TLC
evaluates `IsDissection` of each dissection, and `ReaderAssumption` for all sequences of up to three: that is where a wrong level (`NextLevel`, `Level`) shows.
A schema whose `finalize` was called again after it failed half way is "corrupt": to collect it or to make a writer of it may end the program (`SchemaCrash`).

### RJson

An address is the root, a slot of the document's pool, or a value of its own (removed values). `refs` maps the addresses Lua may use to
whether the document owns them, as in the code. Removing a value moves its siblings (`moved` records at which
addresses), parsing again clears the pool, and the new pool gives the same addresses again. `latest` is what Lua thinks an
address is.

An iterator lives in Lua and not in the document. `IterNext` asks what the code asks, whether the address of its container is in `refs`, and nothing else. So an
iterator goes on after the document was parsed again (the root's address is in `refs` again) or after members were removed: an object's runs over the block it
began with to its old end, an array's over the block of whatever array is now at the address (`Upcoming`). Where the container has a member there it is handed out like any
other; where it has none, what goes into `j->refs` is the address of freed memory, of a removed member, or of
nothing (`stray`), or the program ends on the way (`Died`). `stray` is kept apart from `refs` for that reason only: together they are `j->refs`, and count
as such (`Refs`). There is one iterator at a time; two do not interact but through `refs`. A document made by `remove()` has no `j->doc`:
`parse` and `parse_message` on it dereference NULL (`NullDocument`). `find()` without a key puts the root into `refs`, after a failed parse too.

## 3. Runs

There is one run per component (one for the two that keep a window of time); where it has a liveness property, the same run checks it. All
pass but `MCCuckooExpire`, which shows a disagreement of the code with its documentation.

| Run | Checks | Bounds, and why they are enough |
|---|---|---|
| `MCPubsubAsync` | counter, limit, checkpoint, `EveryMessageSettles` | 4 messages in batches of 2, two calls: the limit is met by full calls, by a full and a partial one, and by a partial request that `flush` turns into a call. One retry (3 in the code): a call is sent twice and given up |
| `MCPubsubSync` | checkpoint below the request, `OutputContract`, `CheckpointCatchesUp` | 5 messages in batches of 3 with 2 restarts: a full batch retried over ticks, a partial batch left behind by a restart; an encoder that may return no data |
| `MCPubsubSubscriber` | `AckedWereHandled`, `HandledAreAcked`, `AllHandled` | 2 messages, batches of 2, pulls synchronous, one or two at a time, one fault: two batches with one message each, one with both, a message in two responses. An acknowledgement may be under way while a pull waits. More faults repeat a stop or an error in the state after one |
| `MCGcpLogging` | accounts, batch above the checkpoint, limit, `BatchDrains` | 4 messages, batches of 2, limits 0, 1, 2, one stop or crash: any of the messages rejected, at the start of a batch or as its last one; requests that overtake each other |
| `MCKinesisPack` | order, exposure, `PackDrains` | 4 messages of lengths 2, 3 and 5 with a delimiter of 1, a unit of 4 and a record of 8: a pack is full enough (3), not yet (2, 5, 6), full exactly (8), and too full by the delimiter alone (5 + 1 + 3) |
| `MCKinesisConsumer` | `CheckpointCovers`, `AllHandled` | 2 shards, the first closed in favour of the second, 2 records, one of them before the time of `AT_TIMESTAMP`, one crash: the cursor's shard is deleted or not, records before and behind the split, a checkpoint that is brought back from before the split |
| `MCKafka` | accounts, `NothingLeaked`, `OneLostPerCrash`, `OffersAccepted` | 4 messages for two topics, a queue of 2, one stop, one crash, a failure at each step of each constructor, with and without a sandbox around them. The input runs when the output has ended: it only reads the log, and the log only grows |
| `MCElasticBulk` | accounts, attempts, `BatchDrains` | 4 messages, batches of 2, `max_retry = 1`, 2 restarts, each of the three modes: a batch is found full and found partial, given up, and followed by another that fails |
| `MCTimeWindows` | deltas, annotations, refinement of `TimeSeries`; uniqueness, expiry | The buffer: 3 rows of 2 seconds; the times given (`Given`) fall in the first window, at its boundary and beyond a whole ring, with different remainders; sums or maxima, outputs that fail, two texts. Values and annotations share the window and nothing else, so a behaviour has one or the other (`Mixed = FALSE`). The filter: 3 keys in 2 buckets of 1, a window of 3 intervals, times up to 6 (two windows after the first clock, so that a time jumps over one, into the clock's own interval or beside it), capacity expiry at 75 %, one restart: the filter overflows, displaces, and gives up after 2 kicks |
| `MCCuckooExpire` | `EntriesExpire`, violated | the same filter, times up to 5: one that falls in the interval of the first clock, a window later |
| `MCParquetWriter` | alignment, lifetime, refinement of `RecordFile` | 5 schemas (nested repeated groups, a map of lists with a tuple, a message, two that `finalize` refuses) with records that fit, lack something, have a field without values or throw in the middle; 2 writers, 3 dissections: a record accepted before and after one that is rolled back |
| `MCRJson` | memory, handles, contents | 2 documents, an object with nested arrays and a string, 2 parses, 2 removals, 3 handles: a removal from a removed value, a value removed out of a copy, a handle of a sibling that moved, an address used again, an iterator over what was removed or parsed again |

`CHECK_DEADLOCK FALSE` appears where the program really stops: a closed or aborted publisher, subscriber or
consumer; an output with every message answered and nothing in its batch, where the ticker changes nothing;
writers and documents that were collected, or ended the program.

### Fairness

* `PubsubAsync`, `GcpLogging`: a started callback goes on and gRPC ends every call (weak fairness): both are what the code
  and the library do by themselves. Hindsight's ticker runs again and again although messages are offered
  all the time (strong fairness of `TimerEvent`, since it is enabled between callbacks only, and in `GcpLogging` since a put
  off message may be offered between any two ticks).
* `PubsubSync`, `KinesisPack`, `ElasticBulk`: the host keeps offering messages and ticking, and the
  service answers some call otherwise than with "try again". Without the latter nothing can drain,
  and the code has no answer of its own to an outage.
* `PubsubSubscriber`: the host runs the input, gRPC ends pulls and acknowledgements, and deadlines pass (weak); a message that is
  offered for ever is in some response (strong, per message).
* `KinesisConsumer`: requests succeed again and again, the hour of the next list comes, and a shard is asked when
  it is due again (strong); `process_message` goes on (weak). `AllHandled` supposes that no error in the constructor ended the plugin.
* `Kafka`: the broker answers, the host goes on offering, a failed producer is collected (weak), and some start of the output goes well
  (strong). Nothing is assumed of `timer_event`, which is optional. `OffersAccepted` is about a plugin in a sandbox.
* Fairness of `Crash`, `Shutdown` or of any failure is never assumed. `CircularBuffer`, `CuckooFilterExpire`, `ParquetWriter`
  and `RJson` do nothing by themselves and have no liveness.

### Seen while modelling

The models follow the code in all of this, except where it is said that they leave something out; where a document is quoted, it
says otherwise.

* **Pub/Sub output.** `publish` returns no status of its own for the message that fills an asynchronous request
  (`pubsub.cpp:666-691`, against `pubsub.md:107-111`). Failures of a poll without a success are not reported
  (`pubsub.cpp:339`, against `pubsub.md:149`). Zero-copy data without a byte is answered 0 over batched messages
  (`pubsub.cpp:575-578`, against `pubsub.md:108-110`): `CheckpointBelowRequest` and `ImplementsContract` are stated up to such a message.
* **Pub/Sub input.** A Lua error inside `pull` leaves by a long jump: the ids are acknowledged though the messages were never
  handed out, and `outstanding_requests` stays one too high, so that pulling stalls at the limit (`pubsub.cpp:752-784, 820-836`).
  Attributes that do not match raise outside `pcall` (`gcp_pubsub.lua:111, 139-140`): such a message ends the input, each time it
  is offered. `err_msg.Fields.data = data` uses an undefined name (`gcp_pubsub.lua:153`).
* **Cloud Logging.** The blocking `timer_event` flushes through an undefined name, inside `pcall` (`gcp_logging.lua:186`): a partial
  batch waits for a full one, which is why `BatchDrains` speaks of the asynchronous mode. `write_sync` clears the batch on any
  error (`logging.cpp:201`). A rejected message leaves an entry in the batch (`logging.cpp:291`), with the consequences described under `GcpLogging`.
* **Kinesis output.** The message that overflows a pack is answered with the code of the pack before it
  (`kinesis.lua:116-144`), so that the checkpoint may cover one message that is only in memory;
  `ExposureIsOneMessage` says that it is never more. After a message is taken out of a pack again, `pack.key` keeps its key.
* **Kinesis input.** With `LATEST`, records put into the children of a shard before their iterator is requested are skipped
  (`kinesis.cpp:465`); both properties are checked with `TRIM_HORIZON` and `AT_TIMESTAMP`. Deleting the cursor's shard skips the next one once. Children may be
  read before their parent is finished.
* **Kafka.** A produce that fails with `RD_KAFKA_MSG_F_FREE` set leaks its copy of the message. An unknown errno is answered -5 although nothing is queued.
  Collection destroys the producer without waiting for its queue; with two topics the checkpoint may be ahead of what is
  dropped (`kafka.c:93, 628-643`), and `CheckpointAccounts` says so. A constructor that fails with "invalid LSB_THIS_PTR", outside of a sandbox, leaks its
  configuration (`kafka.c:316-318, 769-771`); `NothingLeaked` says that it leaks nothing else, and nothing in a sandbox. The consumer's commit may be ahead of `inject_message`: `OneLostPerCrash` bounds it.
* **Elasticsearch.** The message that finds a kept batch going through is answered 0 and not written
  (`elasticsearch_bulk_api.lua:255-257`, against its comment at 251); `CheckpointAccounts` counts it as `swallowed`.
* **Circular buffer.** `get_range` returns nil when only one end of the range is outside the buffer (`circular_buffer.c:397-400`;
  `circular_buffer/index.md:165` says it does for a range outside). Annotation times are serialized with `%g` (782-786). A cbufd output without news
  sets the position of the shared output buffer to 0 (861), discarding what other arguments of the call have written.
* **Cuckoo filter.** The intervals a later time moves over are counted modulo 256, and none is expired when it falls in the clock's own interval
  (`cuckoo_filter_expire.c:259-268`): a time 256 intervals or more after the clock leaves entries of an earlier window, and
  a query finds them, against `cuckoo_filter/index.md:129-130` (`EntriesExpire`, run `MCCuckooExpire`). `EverythingExpires` says that only such entries
  (`overdue`) stay too long. In the second case the clock stays behind as well: a time older than the newest then sets it back, or is accepted though
  it is too old, and what expires after that is wrong. It can happen with the first key of a filter, whose clock starts in interval 255. The
  model has all of this; the two properties that pass end with it (`misled`). A restored filter has its entries but not its time
  (393-439), and they end there too. `lru_interval` is computed in one expiry and used in a later one (211-230), so that the interval expired for lack of room need not
  be the oldest.
* **Parquet.** A message with a matching field that has no values is accepted and counted, and the column gets no entry for it
  (`parquet.cpp:1720-1774`). The library then finds columns of different lengths, and refuses the whole row group: all its records are lost, those that were complete
  too. `ColumnsAligned` counts for each column the records that gave it an entry, and in `ImplementsRecordFile` such a row group is given up. A row group whose
  write failed for another reason is lost as a whole as well. A second `finalize` after one that failed half way takes a group for a column
  (state "corrupt"), and the destructor (269-288) or a new writer walks the union it overwrote. A repeated group given `{}` is one
  empty element.
* **RJson.** `remove` of a value of an in-situ parsed document shares its characters, where `rjson/index.md` speaks of a full copy. A handle names
  another value after the removal of a sibling (`moved` excludes those). An iterator is accepted as long as the address of its container is in
  `refs` (`rjson.cpp:417-468`): with `it = doc:iter(); doc:parse(x); it()` it follows the old tree into freed memory and puts the address into `refs`, and an object's iterator
  hands out a place behind the last member once a member was removed. The document then accepts such a handle. Nothing can be said of what it finds, so
  the three properties are about the other handles (`stray` are these); that a freed address is by chance that of a later value is left out. `doc:parse` and
  `doc:parse_message` of a document made by `remove()` dereference a NULL `j->doc` (`rjson.cpp:229, 936-955`): the model ends there (`Died`).

## 4. Proofs

All proofs assume the named assumptions on constants in the modules they are about, and nothing else. None of the properties is
inductive as it stands; each module defines the strengthening by named parts, has one lemma per action or one step per
action, and derives the theorems from it.

### PubsubAsync

    IInv == TypeOK /\ Offered /\ Counted /\ Partial /\ Separate /\ Past /\ Room
            /\ Behind /\ Accounted /\ Closing /\ Serial

*Counted* says that the counter is the cardinality of `inflight`,
which is kept only if calls added are new; that needs *Separate*: calls share no message with each
other or with the request; that needs *Past*: everything in a request or a call is below `next`.
*Room* is the heart of the limit: when the limit is reached, the request is empty, because `publish`
refuses before adding and a full request leaves at once. That is why `flush`, which does not
look, cannot exceed it. *Behind* keeps the checkpoint, `poll_sid` and the sequence ids of all
calls below the messages of the request; *Accounted* is `CheckpointAccounts` together with the
same statement for messages already answered; *Closing* relates the destructor to an empty request;
*Serial* says what a single call at a time adds. *Sized* adds that no call is longer than a batch. From these: `TypeCorrect`,
`CounterCorrect`, `LimitHolds`, `RequestUncovered`, `CheckpointSound`, and two that no run states: `SerialSound` (with a
single call the checkpoint covers settled messages only) and `DrainsAtShutdown`.

### PubsubSync (in `Pubsub_proofs`)

    IInv == TypeOK /\ Ahead /\ Waiting /\ Held /\ Behind /\ AnsweredAccounted /\ NoDuplicates

proved in the form `~emptied => IInv`: it holds until the encoder returns empty data. *Held* says that the host knows of batched
messages whenever the request holds answered ones, so
that a failed message leaves the checkpoint alone; *Waiting* that the offered message is in the request
exactly when the request is full, which is why the room check keeps it from being added twice; *Behind* and *Ahead* order
the checkpoint, the request and `next`. From it follow `RequestUncovered` and `ContractHolds`: with `settled` as the union of
delivered, rejected and refused messages every step of the output is a step of `OutputContract` or a stutter. `TypeCorrect`,
`NoneTwice` and `NoneForgotten` follow under `EmptyData = FALSE`.

### PubsubSubscriber (in `Pubsub_proofs`)

Three invariants. `CountInv` (types and `PullsBounded`): a poll takes at most what there is, by the least element of a set of
naturals, and creates at most what is missing. `SafeInv` (`AckedWereHandled`, *Sound*, *Kept*): ids under way are of messages done with,
and the ids kept are of messages done with or in the batch; a pull comes only when the batch is empty, which is why the ids it sends are all done
with. `CoverInv` (`HandledAreAcked`, *Held*, *Settled*): outside the loop the ids kept are handed on already, so that a stop between calls may
forget them.

### GcpLogging

`CountInv` for the limit, `BelowInv` for the batch, `AccountInv` for what the checkpoint covers, each using the one before. A message is put
off only at the limit, and there the batch is empty (*PutOff* and `NothingBatchedAtLimit`), so that an id given to a request is that of a message
in or behind it. Ids grow with the order of requests (*Ordered*, *Named*) and stay below what waits (*Ahead*); *Waiting* says that the host knows
that something waits, which keeps a rejected message from moving the checkpoint over it. *Recorded*, *Covered*, *Known* account for every message
that was offered; *Single* is what one request at a time adds.

### KinesisPack (in `Kinesis_proofs`)

    IInv == TypeOK /\ pack \in Packs /\ Earlier /\ Held
            /\ PackInOrder /\ ExposureIsOneMessage /\ AnsweredAccounted

The central lemma, `AddResult`, says what adding, sending and undoing leave: the pack with the message, the same pack as
before, or an empty one. *Held* says that a pack of two messages or more holds the host's checkpoint back: that is why the exposure does not grow.

### ElasticBulk

    IInv == TypeOK /\ Prompt /\ Place /\ CountMatchesFile
            /\ FullBatchOnDisk /\ Tries /\ CheckpointAccounts

*Prompt* is the plugin's way of answering (the checkpoint follows every message), *Place* ties `pc` to the file: what is to be written has
room, what is to be sent contains the offered message. *Tries* is `AttemptsExact` with what makes it inductive: the code's counter, which two
callbacks change and several lines reset, is the number of failed posts. The set of messages accounted for (`Accounted`) only grows. `CountCorrect` and
`RetriedFromDisk` are stated by no run.

### KinesisConsumer (in `Kinesis_proofs`)

    IInv == StreamOk /\ KnownSound(shards) /\ AllSound(hand) /\ AllSound(reported) /\ AllSound(saved)

(each for the records injected, or injected and at hand.) A sequence id, like an iterator, stands for all records before it; *Sound* says that those
were injected or are in the batch at hand, and that only a shard which has ended is read to its end (`Star`). It must hold of every shard known, not
of the one just read, because a batch of one shard goes out with the sequence ids of all. *StreamOk* ties the length of shards to the number of puts, so
that no real sequence id equals `Star`.

### Kafka

Three invariants, for any number of topics. `OutInv` (`CheckpointSound`): *Placed* says that a queue holds offered messages of its topic in order, *Ordered*
that with one topic the checkpoint and all reports that wait are below what is queued; a restart goes behind the
checkpoint, so that what it drops is offered again. With two topics *Known* falls back on `dropped`, which is what the property allows. `HeldInv`
(`NothingStays`) adds to the property that a failed producer has no topics, what a consumer's constructor can hold, and that a producer opens in a sandbox only. `LossInv` (`LossBounded`) counts not only the
offsets that are committed, but those stored by a consumer that lives: a commit then adds nothing, and a crash adds the message at hand.

### CircularBuffer (in `TimeWindows_proofs`)

    IInv == TypeOK /\ DeltaInv /\ AnnoInv

*TypeOK* says, beyond types, that the buffer is a ring: the newest time begins a row, and that row is its slot modulo the number of rows. So
the slots of the window have the rows of their numbers, each its own (`RowsApart`, `LineOfSlot`). *DeltaInv* is `DeltasAreExact` with what it
needs: a cell that was never set has no change and the reader nothing of it (*Unset*), and the reader has nothing outside the window (*Fresh*).
*AnnoInv* is `AnnotationsDelivered` for a table with one entry per place (*OnePerPlace*), none of them ahead of the window (*NotAhead*), since
a window that moves would bring in an entry that the reader does not have. A call of `add` or `set` is taken in two parts, the move of the window
and the write of a cell, and a restart is shown to give the same buffer again (`RestoredSame`). From these: `TypeCorrect`, `ChangesExact`,
`AnnotationsArrive`, and, from *TypeOK* alone, `RangeReads` and `SeriesImplemented`, the refinement of `TimeSeries`.

Two groups of lemmas carry the proof. One is about remainders, proved from division (`ModStep`, `DivAdd`). The other is about `clear_rows`:
`CopyClearedRowIsAll` finds the closed form of the recursive function that copies in doubling blocks. The least number of rows at which the
function and the closed form differ would be preceded by one where they differ as well, so there is none; well-founded minima take the place of
induction, which the prover cannot instantiate.

### CuckooFilterExpire (in `TimeWindows_proofs`)

    FilterOK == Good(cf) /\ cf.cnt = Cardinality(Places(cf)) /\ types of the rest
    WindowOK == FilterOK /\ (ClockRight => Timed /\ Match)

for any finite set of keys, any hash, any number of buckets, places and kicks. *Good* says that every entry is in a bucket of its key
(*Placed*), that a key has one (*Unique*), and that no bucket is too full (*Bounded*). There is one lemma for each way to change a
bucket: an entry takes the place of another (`SwapFacts`), is put where there is room (`PutFacts`), gets a later interval (`RefreshFacts`), or
goes (`RemoveFacts`, `PruneFacts`). The displacement loop keeps *Loop*: the entry without a place is the only one of its key, and the bucket tried next
is one of its two. So the loop never meets the duplicate it looks for, and what a full filter drops was the only entry of its key. The loop is a recursive
function; that it exists (`LoopExists`) and that every pass keeps *Loop* (`DisplaceFacts`) is shown for the least pass that would not, again in place of
induction. From `FilterOK`: `FilterCorrect`, which also has the count right (capacity expiry compares it, and prune stops at 0), and `OncePerKey`.

`WindowCorrect`, `NothingLostEarly` and `NothingKeptLate` hold for any first time and for jumps of any length. *Timed* says that the clock stands in the interval of
the newest time, though perhaps a window or more before it, and that what is remembered lies in the window of the newest time. *Match* says that every key remembered has
its entry, and that every entry stands for a time of the window (`StandsFor`): that of its key, or a later one with the same remainder if a jump
left the entry behind. `Position` gives the interval of a time by its distance from the beginning of the window. From it follow that the intervals a
new time expires are those of the times it leaves behind (`ExpiredIntervals`), wherever the window wraps around, and that virtual indices
order the times of the window (`VirtualOrder`), which is why a late `add` does not set an entry back. A jump over a window moves every entry that is left to
the time of the new window in the same interval, and its key into `overdue`.

### RJson (`RJsonInv`, and `Documents_proofs`)

    RJsonOK == \A d : InUse(d) => DocOK(doc[d], moved[d], latest[d])   and the shape of the rest
    DocOK   == IsJson /\ Rooted /\ RefsOK /\ Current

for any texts (`TextAssumption`: paths, the empty one for the root, and the members of a value numbered from one), any number of documents, parses, removals and handles. *RefsOK* and
*Current* are `RefsAlive` and `HandlesCurrent` of one document; neither is inductive, since a handle made by `find` or an iterator must lie in memory
as well. *Rooted* says so of everything that will ever be reached: some set of addresses holds the root, the owned values and the handles Lua may use, and
with a value all of its members. It is one lemma per way a document changes: after a parse the set is all of the
memory (`LoadedFacts`); a handle adds nothing to it (`HandedOutFacts`); `remove_value` writes a block whose places hold what they held, what
another member held, or nothing, so the same set is closed after it (`BlockFacts`, `RemovedFacts`), and with the address of the removed value also when the document keeps it
(`OwnedFacts`). The set of a deep copy consists of the members of the values that are copied, each of them at an address of the old set (`ReachedFacts`,
`CopyFacts`). From `RJsonOK`: `DocumentsSafe` and `HandlesSafe`. This rests on nothing about trees, and would hold of values that a wrong removal shares.

That a removal shares none is `TreesIntact`, for texts of any depth. It needs no induction over trees, because it says of each value what its *members*
are, and of the memory as a whole that no two addresses hold the same value of the text:

    TreesOK == \A d : InUse(d) => TreeOK(doc[d], moved[d], text[d], gone[d], Buffer(d))   and the shape of the rest

`TreeOK` says that the root (unless a failed parse left an empty one) and the handles Lua may use lie in a set of addresses that is `Trees`: closed under
membership, with different values of the text at different addresses, each `Intact`, that is of the kind the text has there, its members
those of the text less what was removed, in the order of the text if it is an array, and its characters in the buffer of this parse if they are in one.
`ParentUnique` follows: an address is the member of at most one value, so a removal changes the members of one value only. Both ways to
close the gap are one function from the places after the removal to those before it (`Shift`: into all but the removed one, once each, in order for an
array), and `PrunedTrees` takes the set through it: the address of the last place leaves it, each other one holds what its source held, and no member of the
removed value is the removed value. The removed value is then the root of a tree of its own, in the same set if the document
keeps it (`OwnedTree`), or, for a deep copy, in the set of the members of what is copied (`CopyTree`). Of an iterator the invariants say next to nothing (`IterOK`), since
it may have outlived its container: what `IterStep` hands out it looks up in the container as it is, or it is stray. `TreesSafe` follows with `Accepted`:
what `Accept` visits from an address of the set lies in the set.

### ParquetWriter (`ParquetWriterInv`, and `Documents_proofs`)

    ParquetOK == SchemaOK /\ WritersOK /\ CallsOK

for any number of writers and any schemas, with any dissections that are `IsDissection` (`SchemaAssumption`, which TLC evaluates of those of
`ParquetRecord`). *SchemaOK* says that `ref_cnt` is the number of owners, and that the tree is freed at zero, unless the program ended. *WritersOK*
says of an open writer that the dissections it accepted are complete ones, that its columns are *Settled*, and that they hold the entries of
these dissections (`HoldsAll`). *CallsOK* bounds their number, as `ReaderAssumption` does.

*Settled* says that a column is aligned for the records that gave it an entry (`StartsOf`), with the counters of an older record, or zero. `ColumnsAligned`
is not inductive: a rollback trusts the counters of each column, so these must be known. `Underway` is the invariant of the
loop of a dissection, over its steps: a column not touched yet is settled, a touched one is the column before the record with as many levels and
values after it as its counters say (`InFlight`), and has as many new entries that start a record as the steps so far have given
it. `RollbackRestores` takes an `InFlight` column back to a settled one; the columns a rollback touches are those that were touched, as they are touched in
order; and a dissection that ends well has one start in each column it gave an entry (`DissectedSettled`). From `ParquetOK`: `ColumnsStayAligned` and
`SchemaLives`.

Alignment counts, and says nothing of what is in a column. For that the same induction carries a second fact, `Reads`: a reader of the column finds what it
found before the record, then the entries the steps have given it so far. `ColumnEntries` follows levels to values and values to positions in bytes,
where what was rolled back is still lying, so `Reads` also says that the bytes before the record are in place and `EntriesKept` that what is
appended does not move them (`AddedReads` for one step, `RollbackRestores` for the way back). Over calls it gives `HoldsAll`, and `ColumnsHoldRecords`,
which assumes nothing of the reader.

For `RecordFilesImplemented`: if some accepted dissection is not whole, a column has fewer starts than there are records, and the row group is not written.
If all are whole, `ReaderAssumption` makes of the entries the accepted records (`RowGroupRead`). So the step that writes a row group is a `Write` of `RecordFile`, and
every other step is an `Accept`, a `GiveUp` or none (`FilesNextOK`).

### Only model-checked

Every safety property of the runs is the statement of a theorem; what is left to TLC is this.

* Liveness under fairness, and `ENABLED`, are out of the prover's reach: `EveryMessageSettles`, `CheckpointCatchesUp`, `PackDrains`,
  `BatchDrains` (twice), `AllHandled` (twice), `OffersAccepted`.
* `ParquetRecord` uses recursive operators (the schema tree), which the prover does not take: that what it makes of tables and messages are dissections
  (`IsDissection`), and that reading whole dissections back gives the records (`ReaderAssumption`), TLC evaluates for the schemas and records of `MCParquetWriter`. The
  theorems on writers take both as hypotheses.

## 5. Not modelled

* The plain Lua builds of the bindings (the `#else` branches), in which poll and publish return their results: the caller that would
  decide what they mean is not in the repository.
* BigQuery output: a batch file with a retry schedule around one external command. File and retries are those of
  the Elasticsearch output; what a failed `bq load` has loaded only the service knows.
* The plain cuckoo filter (the displacement is that of the expiring one, without time), Bloom filter and HyperLogLog (their
  interesting properties are statistical).
* Parquet's writer properties (compression, encodings, page sizes) and the conversion of scalars, which is one choice: it fits or does not.
* Handles to a group of a Parquet schema: they point into the tree without owning it, and dangle once it is freed (`parquet.cpp:291-353`). Keys of
  Parquet maps are names or, in one record that fails, an integer; the order in which `lua_next` visits them is fixed.
* The argument checks of `kafka.consumer_new` and the other constructors.
* Contents of messages; formatting, URLs, authentication, logging; false positives of the filters; infinities in the circular buffer;
  `compute`, which changes nothing; memory allocation that fails in RJson.
* Torn entries in the batch file of `ElasticBulk`: the model writes whole messages, a crash may cut one in half.
* Derived streams, site-specific plugins, TCP, file, AMQP and Postgres plugins, decoders, encoders, grammars, wrapped libraries: thin loops
  around external services, stateless parsing, or code of others. `PROJECT.json` gives the reason for each.
