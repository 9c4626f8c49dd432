# Verification of astrbot_plugin_mcc_transfer

TLA+ models of the plugin that forwards Minecraft chat from an MCC server to a
chat group, the TLC runs that check them on small instances, and proofs of the
results that matter most for every instance. Paths and line numbers are those
of the repository.

Contents: [the system](#1-the-system), [hard behaviours](#2-what-is-hard-here),
[modules](#3-modules), [runs](#4-runs), [fairness](#5-fairness),
[proofs](#6-proofs), [disagreements found](#7-where-code-and-documents-disagree),
[limits](#8-what-is-not-modelled), [plan](#9-plan), [how to run](#10-running).

## 1. The system

One process, one asyncio event loop. `PluginRuntime` starts two tasks that share
a delivery pipeline:

```
 MCC server ==HTTP polls / WebSocket==> client task --+            (receiver)
                                                      |
                             DeliveryPipeline.handle  v
            FilterChain.check -- DedupStore --> state file
                      | accepted
            _send_item [send lock, RateLimiter] --> sender --> target group
                      | failure
                 RetryQueue --> queue file
                      ^
 retry loop task -----+  due / send / ack / reschedule              (worker)
```

| component | state it keeps | operations | what makes it correct |
|---|---|---|---|
| Delivery pipeline, `delivery.py` | the send lock, counters | `handle`, `process_retry`, `process_due_retries` | no accepted message disappears silently, chunks do not mix, a confirmed message is not sent again, attempts are bounded |
| Dedup store, `persistence.py` | fingerprints with times in LRU order; state file | `check_and_add`, `contains`, `save`, `load`, `clear` | a fingerprint is a duplicate exactly while it is young and recent enough, also after a restart |
| Retry queue, `persistence.py` | records ordered by due time; queue file | `enqueue`, `due`, `ack`, `reschedule`, `pop_due`, `save`, `load`, `clear` | FIFO by due time, bounded, expiry fixed at the first failure, acknowledged records gone for good |
| Rate limiter, `rate_limiter.py` | tokens, refill time, closed | `acquire`, `try_acquire`, `reset`, `close`, `reopen` | never more than the rate and a full bucket in any window; sleeps no longer than it must |
| WebSocket client, `mcp_client.py` | socket, stop event, frames put aside, backoff delay | `connect`, `disconnect` | no event of a connection lost or doubled, reconnects by itself, stops when told |
| HTTP client, `http_mcp_client.py` | session, cursor | `connect` (`initialize`, `poll_once`), `disconnect` | lines are not skipped, polling survives errors |
| Runtime, `runtime.py` | `_started`, the tasks, the lifecycle lock, status | `start`, `stop`, `reload`, callbacks | one pair of tasks at most, of the configuration in force; a failed start leaves nothing behind; the status is true; calls return |
| Plugin entry, `main.py` | none | `initialize`, `on_astrbot_loaded`, `terminate` | calls the runtime once a target is configured |
| Filter chain, `filter_chain.py` | none of its own (uses the dedup store) | `check` | no rule overrides another; the duplicate check comes last and remembers accepted messages only |
| Formatter, `formatter.py` | none | `format`, splitting into chunks | chunks within the limit that add up to the text |
| Parser, `parser.py` | none | `parse` | a frame is a message exactly under its configuration |
| Protocol, models, configuration | none | conversions | stateless |
| AstrBot adapter, `astrbot_adapter.py` | none | two senders, target resolution | one call per chunk, an error if it was not taken |
| Control, CLI, logging, mock server | files | I/O | - |

Interactions. Everything between two awaits that really suspend is atomic: the
stores do blocking file I/O under a lock, without suspending. The two tasks meet
at the send lock, in the queue (the receiver may evict a record that the worker
holds in its snapshot) and in the files, which survive stops and crashes. A stop
cancels both tasks; the pipeline re-raises the cancellation.

## 2. What is hard here

The list with line numbers is in `PROJECT.json` under "hazards". In short:

* two tasks that deliver multi-chunk messages and hand a lock to each other;
* a snapshot of due records that is worked off over many awaits;
* stop or crash between recording a fingerprint, sending, queueing and acknowledging;
* an error of the sender after the chunk arrived; an error of the disk after the
  memory changed;
* queue, cache and bucket at their limits; expiry and TTL at their boundaries;
* handshake frames out of order, missing, rejected or undecodable; a disconnect
  while a socket is being opened, or before the client's task has run at all;
* a log that is polled again and again and must be forwarded once, with a store that
  evicts, expires, fails to save and may be smaller than the window;
* start, stop and reload called by several tasks of the host, cancelled while they
  wait, with clients that report late or swallow their cancellation;
* settings that take effect in another component than the one they are written for.

## 3. Modules

| module | models | notes |
|---|---|---|
| `ForwardingContract` | what the pipeline promises for one message: new, flight, queued, sent, dropped, lost | abstract |
| `SeenSet` | what the dedup store promises: a set with a copy on disk that only forgets inside operations | abstract; its actions are the store in `Delivery` |
| `RetrySet` | what the retry queue promises: records with attempt counts, a copy on disk, clock facts "ripe" and "expired" | abstract; its actions are the queue in `Delivery` |
| `Delivery` | the pipeline, both tasks, sender errors, disk errors, stop, crash, restart | composes `SeenSet` and `RetrySet`, implements `ForwardingContract` |
| `MCDelivery` | symmetry for TLC | |
| `DedupStore`, `MCDedupStore` | TTL, LRU order, cache size, file | implements `SeenSet` |
| `RetryQueue` | due times, order, bound, expiry, file | implements `RetrySet` |
| `Ordering` | subsequences and sorted sequences | operators of the two stores |
| `RateLimiter` | token bucket with sleeping callers | |
| `McpClient` | the WebSocket client's task, the frames of a server, disconnect, cancellation | |
| `HttpPolling` | the HTTP client's task, the server's chat log, the dedup store behind the poll | |
| `Runtime`, `MCRuntime` | start, stop, reload and the hooks of the plugin entry, the lifecycle lock, the tasks of a start, the status | |
| `FilterChain` | the thirteen static rules in order, `coerce_message`, the fingerprint | operators |
| `Formatter` | `split_message` | operators, a recursive function |
| `Parser` | which frames are messages, for both transports | operators |
| `MessagePath`, `MCMessagePath` | a frame on its way through parser, rules, store and formatter, over restarts with other settings | composes the three above with `SeenSet` |
| `DeliveryProofs`, `DedupStoreProofs`, `RetryQueueProofs`, `RateLimiterProofs`, `McpClientProofs`, `HttpPollingProofs`, `RuntimeProofs`, `MessagePathProofs` | theorems about the module of the name | TLAPS |

So the chain of refinements is `DedupStore => SeenSet`, `RetryQueue => RetrySet`,
and `Delivery` (built on those two) `=> ForwardingContract`. The pipeline is
never checked against a store that is better behaved than the code's. All three
are checked by TLC and proved.

### Delivery

An actor (`receiver`, `worker`) is an asyncio task. `job[a]` is the item whose
`_send_item` it is in; `part[a] = 0` means it waits for `_send_lock`, `part[a] = p`
that it holds the lock and chunk `p` is with the sender. `records`/`file` and
`seen`/`stable` are the queue and the store in memory and on disk, as functions
from items to attempt counts (0 = no record) and sets of fingerprints. `batch` is
the snapshot of `process_due_retries`.

| action | code |
|---|---|
| `Duplicate`, `Accept`, `AcceptFails` | `_on_mcp_message` and `handle` up to the first suspension: the store answers, records and saves; the save may raise |
| `SendPart` | a chunk taken, the loop goes on |
| `HandleSent`, `RetrySent` | the last chunk taken, with all that follows up to the next suspension: acknowledge, save, next record |
| `HandleFails`, `RetryFails` | the sender raised (the chunk may have arrived): queue, reschedule or give up |
| `DueBatch`, `Ripen`, `Expire` | a turn of `_retry_loop`, and the clock |
| `Interrupt`, `Start`, `StartFails` | `stop` or a crash; `start` with loading both files |

Chunks that reach the target are recorded in `high` and `wire`; `lost`, `dropped`,
`forgot`, `confirmed`, `unacked` and `failures` are history variables read by
properties only.

### DedupStore and RetryQueue

Both have a clock, the ordered contents, and the file as a value that may be
damaged; every save may fail after memory has changed, as `_atomic_dump` may
raise. Operations are one action each, with the prune, sort and save that the
code performs inside them. Filtering and sorting are `Select` and `Ascending` of
`Ordering`, which say what `SelectSeq` and `SortSeq` of the libraries compute: the
libraries define these two recursively, and the prover cannot look into them.

### RateLimiter

Callers of `acquire` sleep in `asyncio.wait_for(condition.wait(), ...)`; they wake by timeout
or notification, in any order, and can be cancelled. The times are whole units.

### McpClient

`phase` names the await in which the task of `connect()` is suspended. A frame is
what the client can tell apart: success, failure, event, an acknowledgement that
names the event (which `is_event` takes for an event), or an undecodable one. The
server may send any of them at any time and close at any time. `options` covers
authentication and subscription reply switched on and off. The runtime makes a
new client for every start, and that is the use modelled: `Create` is the client and
its task, `Enter` the first step of that task, in which `connect()` replaces a stop
event that is already set (`mcp_client.py:406-409`). A `disconnect()` between the two
is forgotten, in the code and in the model.

### HttpPolling

`log` is the server's chat log; the tool `history` returns its newest
`Window` lines on each poll, `recent` those behind the cursor. `store` is the
dedup store as the polls see it: for each text how long ago it was last asked for, and
which texts came after it. That is enough to tell what expires and what `cache_size`
evicts. `file` is the copy on disk; a save may fail (the message is dropped, the entry
stays in memory), the file may be damaged or deleted, and a start loads what it holds.
Texts, not line numbers, are compared, because `fingerprint_for` does not read
the `id` of a log entry. The answer of the server is external: it returns the
newest lines, at most `maxCount`.

### Runtime

A caller is a task of the host. `calls[c]` is the call it is in the middle of,
`waiters` the queue of `_lock`, `lock` the `stop()` that holds it while it awaits
the two cancelled tasks. Nothing that `start()` awaits suspends (the stores do
blocking I/O under locks nobody else has), so it is one step under the lock.
`reload()` is a stop, an assignment of `config` without the lock, and a start that
goes to the end of the queue again.

| action | code |
|---|---|
| `Call`, `StartIfConfigured` | a caller comes to the lock; `main.py:97-107` looks at the target without it |
| `StartSucceeds`, `StartFails`, `StartIgnored` | `start()` |
| `StopBegins`, `StopFinishes`, `StopIgnored` | the two ends of `stop()`; with `AfterStop`, the second half of `reload()` |
| `CancelCall` | the host cancels a call: in the queue it ends, in `stop()` the cancellation goes to the task awaited and is suppressed |
| `Client...`, `McpDone`, `WorkerEnds` | what clients report to `_on_mcp_state`, and the ends of the tasks |

The clients appear by where they are and what they report. `CancelOutcomes` has
the one surprise: `asyncio.wait_for` returns a frame that has just come instead of
the cancellation, so a WebSocket client in its handshake may go on.

### MessagePath with FilterChain, Formatter and Parser

A frame has two containers of fields, its top level and its payload. A text is its
characters and the wording rules that match it. `pc` is the await
`_on_mcp_message` is in; a client awaits its callback, so one message is under way.
`LimitInForce`, `SplitInForce` and `DedupEnabled` are what the settings come to
after `_build_pipeline` has handed each section to its component: with a section
`target` the formatter never sees the security settings, and the filter chain never
sees `dedup.enabled`. The limit the formatter falls back to, 500 in the code
(`formatter.py:167`), is the constant `DefaultLimit`. What the store compares is the
fingerprint a frame brings along, if it has one, its event id, or its content
(`FingerprintFor`). The store is `SeenSet`, which may forget and whose save may fail.
`ScenariosAssumption` says what a configuration (`Configuration`) and a frame are made
of; a configured limit of zero, which `config.py` refuses, is allowed, since the
formatter takes it.

## 4. Runs

Passing runs, with the states TLC finds:

| run | instance | distinct states | checks |
|---|---|---|---|
| `delivery_faulty_disk` | 2 fingerprints, 2 items, 2 chunks, 2 attempts, queue of 1, failing disk, 1 interrupt | 276,060 | types, `Inv`, `Accounted`, `ConfirmedIsFinal`, `ForwardedOnce`, `WireOrder`, `KeepsContract`, `EverySettles` |
| `delivery_reliable_disk` | 2 fingerprints, 3 items, 2 chunks, 3 attempts, queue of 2, 1 interrupt | 2.1 million | `FreshBatch`, `QueueOnDisk`, `AttemptsCounted`, `KeepsContract` |
| `dedup_store` | 3 fingerprints, cache of 2, TTL 2, time to 4 | 80,518 | no false duplicate, no false accept, refinement of `SeenSet` |
| `retry_queue` | 3 items, queue of 2, expiry 2, delays 0 and 1, time to 2 | 100,392 | order, restart, life time, refinement of `RetrySet` |
| `rate_limiter` | 2 callers, rate 2, bucket 6, requests of 3 and 4, time to 5 | 869,456 | `RateBound`, `SleepIsExact` |
| `mcp_client` | 3 unread frames, delays 1 to 5, all four option sets | 70,648 | `EventsInOrder`, `AutoReconnects`, `StopsEventually` |
| `http_polling` | 3 texts, window 2, cache of 2, 3 lines, TTL 3, 2 clients, 1 fault of the disk, both tools | 703,455 | `ForwardedInOrder`, `EveryLineHandled`, `PollingGoesOn` |
| `runtime` | 3 callers, 5 configurations, 2 identities of tasks, failing starts | 502,178 | `OneGeneration`, `StatusTruthful`, `CallsReturn` |
| `message_path` | four scenarios, see below; default limit 3 | 111,423 | `Tightening`, `DuplicateHasOrigin`, `ChunksRebuild` |

What the bounds are for:

* Two actors exist, so two items meet at the lock; a third is needed only to
  overflow a queue of 2. Two chunks are enough to interleave and for a partial
  failure. Three attempts give a first failure, a reschedule and a last attempt;
  with a failing disk two must do, because the liveness checked there forbids symmetry.
* One interrupt with a restart after it reaches every mix of memory and file,
  since a second one starts from a state in which both are equal; the proofs
  cover any number.
* In the stores, one item more than the capacity forces an eviction, and the time
  runs beyond one TTL or expiry. A bucket of 6 with requests of 3 and 4 makes two
  callers compete for tokens both cannot have at once, and the rate of 2 does not divide
  the 3.
* In `McpClient` the delay goes 1, 2, 4, 5: it meets its maximum between two powers of two.
  Only its range is checked, nothing else depends on it. Three unread frames hold a
  reply and an event before and after it.
* In `HttpPolling` the log is longer than the window, so a line leaves it, and of three
  texts one is evicted from a cache of two. `MaxQuiet` says how long an outage may last.
  One fault is a save that fails, before or after a restart, or a file lost. The run has
  `Ttl > 2 * MaxQuiet` and `CacheSize >= Window`, the hypotheses of `LinesInOrder`, and both
  are tight: a fingerprint may be looked up at the beginning of a poll that
  takes `MaxQuiet` to complete, and next after a quiet time of `MaxQuiet`, and a window
  may hold `Window` texts. With `Ttl = 2`, or with `CacheSize = 1`, TLC finds a line
  forwarded twice, and so would the code.
* In `Runtime` one caller can hold the lock, one wait behind it and one come between
  the halves of a reload. The configurations are those that differ for a start: both
  transports, with and without a target, normalised or a plain mapping. Two
  identities of tasks are enough to tell an old pair from a new one.
* `MCMessagePath` varies one stage at a time over all it tells apart: every rule
  alone, missing, all and none of them for every kind, sender and text that the rules
  distinguish (`Tightening` then compares each of these with every setting one step
  stricter); every parser switch for frames with and without marker, name and fields
  at either place; repeats of one text by two players with and without event ids over
  restarts between three filters, with fingerprints of their own, shared, empty or absent;
  and all texts of up to 5 characters over a space and two letters, with some longer,
  for configured limits 0 to 4 without a section `target` and the default limit, here 3,
  with one, which all texts of 4 and more characters exceed.

`CHECK_DEADLOCK FALSE` is set where the instance stops: in `HttpPolling` after the last permitted
client and tick, in `MessagePath` after the last permitted frame.

Counters that the code does not bound (`interrupts`, `failures`, time, faults,
lines, clients, frames) are bounded in guards by the constant named for them.

Every property of a passing run has a mutant: a changed definition (a dropped
save, an off-by-one, a lock that is not handed over) under which TLC finds the
property violated. Their definitions stand beside the originals, marked "Mutant of".

## 5. Fairness

* `Delivery`, `FairSpec`: weak fairness of each task's steps, of the retry loop's
  turn and of a record becoming due. The event loop schedules both tasks; a sender call ends (the
  OpenAPI sender has a timeout, the native one is trusted); the loop wakes every
  0.5 s; `next_attempt_at` comes. A chunk may fail every time; nothing obliges
  anyone to restart a stopped runtime, so `EverySettles` speaks of runtimes that
  stay up.
* `McpClient`: weak fairness of the task. `connect_timeout`, `auth_timeout` and
  `subscribe_timeout` are set by the runtime, so the waits of the handshake end; the wait for an event may
  last for ever and `AutoReconnects` accepts that.
* `HttpPolling`: weak fairness of the task; every request has a timeout. Nothing
  is assumed of the server: `EveryLineHandled` has "polls are answered again and
  again" as a hypothesis.

* `Runtime`: weak fairness of a call whose turn at the lock it is, of a cancelled task
  and of a done callback. Nobody has to call the runtime and no server has to answer.
  `CallsReturn` names the one way to wait for ever: a client deaf to its cancellation.

## 6. Proofs

All theorems are checked by TLAPS for every value of the constants that satisfies
the assumptions of the modules: any number of items, callers, chunks, attempts,
frames and lines, any sizes and times. The bounds `MaxTime`, `MaxInterrupts`,
`MaxFaults` and the like are constants too, so what is proved holds however large
they are.

| theorem | states |
|---|---|
| `DeliveryProofs!TypeCorrect`, `InvariantHolds`, `TasksExclude` | `TypeOK`, the inductive invariant, `Inv` |
| `AlwaysAccounted`, `BatchStaysFresh`, `ConfirmedStaysFinal`, `ChunksInOrder` | `Accounted`, `FreshBatch`, `ConfirmedIsFinal`, `WireOrder` |
| `QueueIsOnDisk`, `AttemptsAreCounted`, `ForwardedAtMostOnce` | `QueueOnDisk`, `AttemptsCounted`, `ForwardedOnce` |
| `StopsLoseOneEach`, `GivenUpAfterAttempts` | bounds on what is lost and given up, below |
| `PipelineKeepsContract` | `KeepsContract`: `Delivery` implements `ForwardingContract` |
| `DedupStoreProofs!TypeCorrect`, `DuplicatesWereOffered`, `OfferedAreKnown` | `TypeOK`, `NoFalseDuplicate`, `NoFalseAccept` |
| `StoreIsSeenSet` | `RefinesSeenSet`: `DedupStore` implements `SeenSet` |
| `RetryQueueProofs!TypeCorrect`, `QueueIsSorted`, `LifeIsFixed`, `RestartKeepsRecords` | `TypeOK`, `FifoByDueTime`, `LifeNotExtended`, `RestartKeepsQueue` |
| `QueueIsRetrySet` | `RefinesRetrySet`: `RetryQueue` implements `RetrySet` |
| `RateLimiterProofs!TypeCorrect`, `RateIsBounded`, `SleepsAreExact` | `TypeOK`, `RateBound`, `SleepIsExact` |
| `McpClientProofs!TypeCorrect`, `EventsAreInOrder` | `TypeOK`, `EventsInOrder` |
| `HttpPollingProofs!TypeCorrect`, `LinesInOrder` | `TypeOK`, `ForwardedInOrder` |
| `RuntimeProofs!TypeCorrect`, `GenerationsDoNotMix`, `StatusIsTrue` | `TypeOK`, `OneGeneration`, `StatusTruthful` |
| `MessagePathProofs!InvariantHolds`, `RulesOnlyTighten`, `DuplicatesHaveOrigin`, `PartsRebuildText` | its inductive invariant, `Tightening`, `DuplicateHasOrigin`, `ChunksRebuild` |

`DeliveryProofs` (from `NoneAssumption`, `ItemsAssumption`, `SizesAssumption`,
`SwitchesAssumption`):

1. Lemmas state what each operation of the queue and store does to types, to the
   records of other items and to the file (`OnlyType` to `BatchFacts`). The one
   with arithmetic of cardinalities is `GoneAreEvicted`: a record that pruning
   removed had expired or the queue was too full.
2. `TypeCorrect`: `TypeOK /\ LockInv`. The two need each other: that `part` stays
   within the chunks depends on a holder of the lock having a job.
3. `InvariantHolds`: `IndInv == TypeOK /\ LockInv /\ TaskInv`, where `TaskInv` is
   `FreshInv /\ JobInv /\ StoppedInv`. Accountability alone is not inductive: a
   record could be overwritten by an item that is still with the receiver, or a
   worker could hold an item of another run. `FreshInv` rules out the first,
   `StoppedInv` the second, `JobInv` ties the worker's item to its snapshot.
4. From there `AlwaysAccounted`, `BatchStaysFresh`, `ConfirmedStaysFinal`, and, as an
   action property, `ChunksInOrder`.
5. The third part adds an invariant for each further theorem.
   `QueueOnDisk` lets the file hold more than memory only if it has expired, but
   `due()` prunes without saving; `RoomInv`, that the live records never exceed
   `max_queue_size`, shows that it evicts nothing. `BatchOnDisk` says that memory and
   file agree on the records the worker has still to do. `AttemptsCounted` needs
   `FailuresInv`: a record with its attempts used up is never written.
   `ForwardedOnce` leaves the worker's snapshot out and is not inductive, because an
   evicted record in it is sent all the same; `OnceInv` is about items
   that may still reach the target in any way.
6. Two theorems say what the causes in `Accounted` amount to. `StopsLoseOneEach`: while
   the disk works, at most as many messages are lost as there were stops and crashes,
   because by `QueueOnDisk` only the receiver's message is not in the file.
   `GivenUpAfterAttempts`: if besides nothing expires and the queue has room for every
   message, a message is given up only after `max_attempts` failures; it needs
   `AttemptsCounted`, which ties the record to the failures it stands for.
7. `PipelineKeepsContract` maps each action to a step of the contract. A restart
   may change what memory and file say about many items at once; `LostInv` says that
   an item counted as lost is nowhere any more.

Both stores sort, and their proofs begin with what `Ascending` and `Select` of `Ordering`
return: the place of an element is the number of those below it, and that these numbers
are a bijection follows from the library's facts about finite sets.

`DedupStoreProofs` (from `StoreAssumption`): whether a fingerprint is forgotten is
a matter of order, so `LruInv` says of every fingerprint offered lately that its entry is
there, with only fingerprints behind it that were offered after it. It holds of the memory
and, for restarts, of the file after a successful save. `CacheSize` may be zero.

`RetryQueueProofs` (from `QueueAssumption`): sorting depends on the set of records
alone, so the lemmas speak of `Elements(s)`, and the order of `s` matters only for
what pruning takes. `due()` prunes without saving, so memory and file differ even
without a fault; `KeepInv` says that the difference has expired. The step of the refinement
computes, for each operation, the records it leaves, and shows that pruning takes
no more than `RetrySet` permits.

`RateLimiterProofs` (from `BucketAssumption`): `RateIsBounded`
with the invariant that in each window the amount granted and what is left in
the bucket never exceed a full bucket and the refill since the window began. The
history variable of the window is anchored at an arbitrary time.
`SleepsAreExact` with `SleepInv`, which states the wake-up time in terms of the
bucket as it is now: a refill by another caller changes `tokens` and `updated`, and the
invariant survives because a bucket that is too empty for someone does not overflow.

`McpClientProofs` (from `ClientAssumption`): the frames still to be read are the one put
aside, then the wire; `StreamInv` says they hold the events not yet delivered.

`HttpPollingProofs` (from `PollingAssumption`): `LinesInOrder` has the hypothesis
`Remembered == Ttl > 2 * MaxQuiet /\ CacheSize >= Window`, and `ForwardedInOrder` speaks
of restarts that find the store in its file (`restored`); without either the code does
forward lines again (section 7). The tool `history` returns every line again until
it is `Window` lines old. `StoreInv` says what keeps such a line known: `EntriesInv`, that
no entry has more texts behind it than the store has room for; `ReturnInv`, that the age
of a line that can still come back is bounded by the time since the last completed poll and
the time that one took, and the texts behind it are among those of one window of lines;
`TurnInv`, that what this turn has passed was renewed in the order of the log. A window
has at most `Window` texts (`FewTexts`), so nothing of it is evicted. `CursorInv` is the
simpler argument for `recent`.

`RuntimeProofs` (from `RuntimeAssumption`): `OneGeneration` does not say who may be at
the lock. `QueueInv` relates the queue of the lock, its holder and the calls, and
`GenerationInv` says that a pair of tasks is cancelled only under a stop that holds the lock.

`MessagePathProofs` (from `ScenariosAssumption` and `LimitAssumption`), in three parts:

1. `SplitText` is a recursive function, so the first thing to show is that the recursion
   has a solution. The set of characters from which one exists holds the end of the text
   and, with a character, the one before it, so its least member is the first. That its
   values are cuts of the text is shown in the same manner, by the last character from
   which they would not be. `FlattenSeq` of the community modules is compared with the
   text at the first place where they differ. `PartsRebuildText` follows for every text,
   limit and setting of the sections.
2. `Tightening` compares two verdicts that differ in one setting. `AsStrict` says that one
   setting rejects at least what another does, rule by rule; each way to tighten gives
   such a pair (`StricterIsAsStrict`), and the first rule that rejects decides
   (`DecisionFacts`).
3. `DuplicateHasOrigin` is not inductive: the store outlives the configuration, and a
   restart may prune it or fail to save it. `KeysRecorded` says of the store *and* its
   file that every key is that of a message that passed the rules; `TextUnderWay` and
   `PartsUnderWay` carry the text and its parts from one await to the next.

Checked by TLC only: all liveness, which is out of the prover's reach: `EverySettles`,
`EveryLineHandled`, `PollingGoesOn`, `AutoReconnects`, `StopsEventually`, `CallsReturn`.

## 7. Where code and documents disagree

Three runs show behaviour that contradicts a document or comment; each checks the
one property that states it and ends in a counterexample.

| run | statement | what the code does |
|---|---|---|
| `at_least_once` | README.md:183-185: fingerprints are marked after a successful send, delivery is at-least-once | the fingerprint is saved before the first send and a cancelled delivery is not queued: a stop loses the message for good |
| `http_reconnects` | SPEC.md:13: high reliability, supports reconnection | a failing `initialize()` ends the client of the default transport |
| `websocket_starts` | README.md:5: the WebSocket profile can still be enabled explicitly | `start()` passes dataclasses where `MCPClient` takes mappings: `dict()` raises `TypeError`, every start fails (`runtime.py:152`, `protocol.py:380`) |

Seen while modelling and visible in the models, without a run of their own:

* `delivery.py:148-149` says that queueing the complete item avoids duplicated
  chunks; a retry sends the chunks that had arrived again (`WireOrder` lets a
  delivery begin anew for that reason).
* `mcp_client.py:132-134`: the client "resets the backoff after a successful authenticated
  connection". The delay is set at the head of `connect()` (`mcp_client.py:411`, `Enter`)
  and only grows after that (`:460-463`, `Longer`), however many connections authenticate.
* A `disconnect()` that comes after the task of `connect()` was made and before its first
  step is forgotten (`mcp_client.py:406-409` replaces the event it set), and then waits
  for a task that goes on; `StopsEventually` claims the stop from the first step on.
  The runtime cancels the task and does not depend on it.
* SPEC.md:269 and 271 list `max_message_length = 500` and `split_long_messages = true`
  under `[security]`, and `_conf_schema.json:105, 107` describe them there as "单条消息最大长度"
  (maximum length of one message) and "拆分超长消息" (split messages that are too long).
  The formatter is given the section `target`, which has neither, so it always splits at its
  default of 500, whatever they are set to (`runtime.py:258`, `formatter.py:161-175`; `LimitInForce`,
  `SplitInForce`). `ChunksRebuild` is about the limit in force, not the documented one.
* `dedup.enabled = false` (`_conf_schema.json:81`) has no effect (`DedupEnabled`).
* `config.py:506` lets `dedup.cache_size` be smaller than `mcp.chat_max_count`. The lines of
  one answer of `mcc_chat_history` then push each other out of the store, and every poll
  forwards the window again: with `CacheSize = 1` and `Window = 2` TLC finds
  `ForwardedInOrder` violated. The defaults, 1000 and 50, are far from it.
* After saves of the dedup store that failed, or a damaged file, a restart forwards again
  what the next poll returns and the file did not hold.
* A frame that carries a field `fingerprint` chooses what the duplicate check compares
  (`filter_chain.py:201`), and a null there is the text "None" for all such frames.
* The kind, event id and fingerprint the parser finds are lost between `MCPClient` and
  the pipeline, which reads them from the top level of the frame (`CoerceMessage`).
* The status after a failed poll stays "not connected" however many polls succeed
  later, and after a failed `initialize()` the runtime counts as running with its
  lifecycle "stopped" (`StatusTruthful` allows both); `start()` is then a no-op.
* A cancelled `reload()` still starts the runtime again, because `stop()` suppresses
  the cancellation; a `terminate()` during a reload is followed by the reload's start.
* After an outage longer than `ttl_seconds` the polled window is forwarded again; two
  equal lines of one player within the window count as one; a session dropped by the
  server is never initialized again; a caller of `acquire` may overtake a sleeping one.
* `cli --reload-config` writes a request file (README.md:152-156) that nothing reads.

## 8. What is not modelled

* An error while *reading* a good state file is in `DedupStore` and `RetryQueue`,
  not in `Delivery`, whose `Start` reads what the file holds.
* A clock that is set back; `expire_seconds` unset; fractions of seconds.
* Collisions of fingerprints: those computed are digests, taken to differ as their
  inputs do and from every fingerprint that a frame brings along.
* A request of the OpenAPI sender that goes on in its thread after the
  cancellation and arrives after the next start.
* `status.json` and the counters of the status: written, never read back.
* Protocol, models and configuration: stateless conversions; their verdicts are
  inputs of the models. Of the parser, configured paths and value conversions;
  of the filter chain, how a keyword or expression matches; templates are layout.
* What the clients do is in `McpClient` and `HttpPolling`, not in `Runtime`, which has
  only what they report and how they end.
* CLI, logging, mock server: I/O and test code.
* `MCPClient` with `reconnect=False`, or reused after `disconnect()`; `HTTPMCPClient.list_tools`.

`PROJECT.json` names the reason for each component.

## 9. Plan

Done: pipeline, stores, rate limiter, both clients, the runtime lifecycle, the
way of a message through parser, rules, store and formatter; proofs of every safety
property the passing runs check, and of the three refinements.

Next: the OpenAPI sender's request that outlives its cancellation (section 8), as a
third actor of `Delivery`; and the verdicts of `config.py` as operators that
`MessagePath` composes.

## 10. Running

```
tlc -config DeliveryFaultyDisk.cfg MCDelivery
tlc -config RetryQueue.cfg RetryQueue
tlapm DeliveryProofs.tla
```

`PROJECT.json` lists module and configuration of every run. The longest ones take
a little over a minute.
