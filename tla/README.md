# A formal model of APRSBox

APRSBox is an APRS station for a small computer: it exchanges frames with
radio TNCs and with APRS-IS, routes them between the two, sends the messages
and beacons of its owner, and shows everything in a web interface. This
directory models the parts of it in which several actors act on shared state,
checks them with TLC on small instances, and proves with TLAPS, for all
instances, the safety invariants and action properties that TLC finds to hold.

Paths below are relative to `src/app/services/` unless they start with `src/`.

## 1. The system

Two operating-system processes share one SQLite database (`src/app/db.py`) and,
apart from a few HTTP calls of the web process to the core, nothing else:

* the **web process** (`src/app/main.py`, `src/app/routers/`) serves requests in
  a thread pool; each request runs several short transactions;
* the **core** (`src/app/core_main.py`) runs one event loop with the radio
  connections, the transmit worker, the routing runtime and the schedulers, and
  a few threads (RX side effects, `asyncio.to_thread` of the schedulers).

`get_connection` (`src/app/db.py`) commits at the end of its `with` block, and
sqlite3 opens a transaction at the first write, so that a step of a database
model is one such block, or the SELECT before its write where that matters (the
claim of a job guards its UPDATE and is one step; the lookup of a conversation
does not guard its INSERT and is another). Everything between two steps may be
interleaved with the other process and the other threads. In the core, coroutines
interleave only at an `await`.

### Inventory

| Component | State | Operations | What makes it hard | Correct means |
|---|---|---|---|---|
| Outgoing messages (`messages.py`) | row of `aprs_messages`: status, attempt count | send, register transmission, retry, expire, ACK, REJ, manual retry, delete | web threads, APRS-IS thread, event loop and worker write the same row; read and write are separate transactions | a settled message stays settled, retries are bounded, no message is forgotten |
| Incoming messages (`messages.py`) | conversations, received rows of `aprs_messages`, waiting ACK jobs | find or open the conversation, look for the message, store, acknowledge, delete a conversation | two receivers at once, lossy channel, deletion under a handler, no transaction around the whole | only stored messages are acknowledged, none is stored again, all are acknowledged at last |
| Outbound queue and worker (`outbound.py`, `outbound_runtime.py`) | `outbound_jobs`; the job in hand; next allowed time of each interface | enqueue, claim, pace, skip, transmit, mark, cancel, recover | cancellation races the claim; pacing changes the key of a round; a crash leaves `processing` | a job is transmitted at most once; a round fails as a whole |
| APRS-IS to RF gate (`digi_flow_runtime.py`, `igate_messaging.py`) | memory of seen packets, pending packets, token buckets, positions owed | input guard, delivery rule, viscous delay, final check, rate limit, queue | timers against frames that arrive meanwhile, several flows, late callbacks, LRU limits | the channel never carries a packet RF has heard, nothing twice in the window, rates hold |
| RF routing (`digi_flow_runtime.py`, `digi_flows.py`) | bounded frame queue, viscous entries, last passed times | enqueue, supersede, filters, viscous delay, rate limit, transmit | duplicate against finalizer, overflow, shutdown | a frame is repeated at most once, only if nobody else did |
| RF TX dispatcher (`rf_tx_dispatcher.py`) | a bounded queue, a worker and the last TX time of each interface | enqueue, age check, gap, transmit | two senders for one interface | order, age limit, gap |
| APRS-IS clients (`aprsis.py`, `aprsis_tx_dispatcher.py`) | connection, back-off, TX queue | connect, receive, send, reconnect, drain | disconnects, full queue, shutdown | no line lost in silence, no send after stop |
| RX side effects (`rx_side_effect_dispatcher.py`) | bounded queue, batch thread | enqueue, process | overflow, order, thread against loop | order, nothing lost below the limit |
| Schedulers (`beacon_`, `bulletin_`, `object_`, `wx_`, `own_alert_scheduler.py`) | last time in `app_settings` | due check, enqueue, stamp | separate transactions, manual sends, crash | at most one per interval, keeps going |
| Traffic monitor, serial broker (`traffic.py`, `serial_broker.py`) | connections, history | connect, read, write, restart | reconnects, shared port | a frame is on the air, or its sender hears that it is not |
| Maintenance (`maintenance_scheduler.py`) | old rows | prune in batches | races with live rows | only terminal rows go |
| Notifications, alerts, weather, UI, authentication, backup | external data, configuration | fetch, format, render | mostly sequential | outside this project |

How they interact: the web process inserts messages and jobs; the worker claims
jobs from the same table and gives frames to the traffic monitor; the monitor
hands received frames to the routing runtime (on the event loop) and to
`process_incoming_tnc2_message` (on the loop for RF, in the side-effect thread
for APRS-IS), which settles messages and cancels jobs; the routing runtime
queues gated packets in `outbound_jobs` and digipeated ones in the RF TX
dispatcher. The hazards of this code are listed, each at its line, in
`PROJECT.json`.

## 2. Modules

| Module | What it is | Runs |
|---|---|---|
| `AtMostOnceQueue` | abstract: what the job table promises to the radio | |
| `DirectMessage` | outgoing messages, job table, transmit worker, receivers, web requests, crashes; implements `AtMostOnceQueue` | `Message*` |
| `DirectMessage_proofs` | types, the job table as an at-most-once queue, settled messages stay settled | |
| `DirectMessageRounds_proofs` | send rounds: not stacked, retries bounded, nobody forgotten | |
| `IncomingMessages` | a remote station's messages: conversations, storing, acknowledging | `Incoming` |
| `IncomingMessages_proofs` | the theorems about `IncomingMessages` | |
| `AprsisToRf` | the gate from APRS-IS to the radio | `Aprsis*` |
| `AprsisToRf_proofs` | the theorems about `AprsisToRf` | |
| `PacketRouting` | from the radio to the radio: frame queue, viscous delay, shutdown | `Routing` |
| `PacketRouting_proofs` | the theorems about `PacketRouting` | |
| `PeriodicJobs` | beacon, status and weather: due check, job table, worker, restart | through `Station` |
| `RfTransmit` | the two senders of one TNC, its link and their fallback | through `Station` |
| `Station` | composition of `PeriodicJobs` and `RfTransmit`: the core on the air | `Station`, `StatusStops` |
| `Station_proofs` | the theorems about `Station` | |
| `AprsisUplink` | sender, client loop, reader and `stop()` of one APRS-IS connection, and its side-effect queue | `Uplink` |
| `AprsisUplink_proofs` | the theorems about `AprsisUplink` | |
| `LockQueueLemmas` | what a newcomer, a release and a cancellation do to the queue of an `asyncio.Lock`; used by `Station_proofs` and `AprsisUplink_proofs` | |
| `MC...` | instances of the module for TLC | |

In each module some operators are marked *Variant*: a definition changed the way
a bug would change the code. They are used by no specification; replacing the
definition by its variant violates the property listed with it in `PROJECT.json`,
which shows that the property depends on that line of the code.

### DirectMessage

| Variable | In the code |
|---|---|
| `status`, `attempts` | `aprs_messages.status`, `.tx_attempt_count`; `"none"` before the row exists, `"deleted"` after |
| `jobs`, `lastId` | rows of `outbound_jobs` and the AUTOINCREMENT counter |
| `worker` | where `_process_job` stands, the job in hand, the attempt number it has computed |
| `rx` | the ACK or REJ a receiver is applying, with the ids it has selected |
| `web` | the request a web thread is serving, with the ids it has selected |
| `crashes` | how often each process has died: a bound |

The worker goes `idle -> claimed -> transmitted -> register -> update ->
checkRetry -> checkPending -> enqueueRetry`, or after a failure
`exhausted -> markFailed`; each arrow is one transaction or one `await` of
`_process_job`, `_register_outbound_message_transmission`,
`schedule_message_retry` and `mark_message_failed_if_round_exhausted`. Receivers
and web threads go `select -> cancel ... cancel -> settle` (`cancel_pending_message_jobs`
selects, then updates one job at a time). The RF receiver shares the event loop
with the worker (`LoopFree`, `WorkerAwaits`); the APRS-IS receiver is a thread
and does not.

Time is abstract. What matters of `scheduled_at` is which jobs share it, because
rounds are counted and failed by it: an instant is named after the job that
first had it. A queued job may come due at any moment. Pacing floors the release
time to a second, so that a paced job may keep the instant of its round or share
one with another job.

Left out: the text, addresses and numbers of messages (a message is an id, an ACK
names it), frame building, the TX gap, jobs of other kinds (they occupy the
worker for a while, which the free interleaving already allows), a database
error in the middle of a handler, pruning of old jobs.

### AprsisToRf

| Variable | In the code |
|---|---|
| `now` | `time.monotonic()` in ticks |
| `frame` | the frame `_process_frame` is taking through its flows |
| `seen` | `_aprsis_rf_seen`, an `OrderedDict` in its order |
| `pending` | `_aprsis_rf_pending`, with the time at which its task is ready to run |
| `flowBucket`, `sourceBucket`, `recipientBucket` | the token buckets |
| `owesPosition` | rows of `aprsis_igate_pending_position` |
| `sent`, `heard`, `lastMet` | history variables for the properties: what was queued, when RF last heard each packet, when the memory last noted something of it |

Each action is a handler between two awaits. The event loop may run a callback up
to `MaxLag` ticks late: a packet heard on RF after the delay has ended and before
the task runs is the interesting case, since its cancellation comes too late for
`wait_for`. What depends on configuration or on tables outside the module (q
constructs, radius, whether the recipient was heard, target interface) is a
choice of the environment: the flow may reject, drop or authorize a packet at
each point where the code may. Tokens are counted in units, `TOKEN` of them make
one token, so that partial tokens are exact integers.

The memory evicts its oldest entries beyond `SeenMax` (4096 in the code), so that on a busy
feed the gate forgets what it should know. `NotHeardOnRf` and `NotRepeated` say how far that
may go: a packet may slip through only if `SeenMax` other packets have been met since
(`Crowded`). That depends on `move_to_end` and on which end is evicted: an entry that
stayed at its place would be lost although its packet was met a moment ago. This is the
mutant of `NotRepeated`.

### IncomingMessages

| Variable | In the code |
|---|---|
| `remote` | what the remote station knows: it repeats a message until it hears an acknowledgement |
| `conversations`, `lastId` | rows of `aprs_message_conversations` with that station |
| `rows` | received rows of `aprs_messages`, by message and conversation |
| `acks` | jobs of `outbound_jobs` that acknowledge a message |
| `rx` | how far each receiver is with the copy in its hands |
| `ever` | history: the messages that have been stored |

A copy goes `find -> (create) -> look -> (insert) -> ack -> delayed`: the SELECT and
the INSERT of `create_or_update_conversation`, the lookup by sender and number, the
INSERT, and the two `enqueue_ack_job`. The handler of RF runs on the event loop, on
which the worker sends the acknowledgements; that of APRS-IS in the side-effect
thread; the web process deletes a conversation between any two steps, and an insert
into a deleted conversation fails (`InsertFails`). Without station profiles
`station_id` is NULL, so that the UNIQUE constraint on conversations never binds:
two receivers may open two, and may both store a message that comes over both ways
at once. `FewCopies` states that it gets no worse than that.

Each message has a number of its own. The lookup (`messages.py:1675`) has no time
limit, so a remote station that uses a number again is acknowledged while its new
message is not stored; that is listed as a hazard.

### PacketRouting

| Variable | In the code |
|---|---|
| `queue`, `lag` | `_queue`, and how long the worker has been ready to go on |
| `entries`, `pendingWait` | `_viscous_delay_entries` with their age, `_pending_viscous_wait_count` |
| `gatePending` | whether `_aprsis_rf_pending` is not empty (`AprsisToRf` in one bit) |
| `phase`, `joined`, `worker` | where `wait_until_idle` and `stop` are, `Queue.join()`, the loop of `_run` |
| `late` | frames from APRS-IS after the shutdown has begun: a bound |
| `sinceOut`, `repeated`, `overtaken` | history variables for the properties |

The worker takes one frame through all its flows without giving control back, so
this is one action; the others are an arriving frame, the end of a delay, each step
of the shutdown, and a restart. What the callsign, type, distance, rate and path
filters decide, and whether the RF TX queue has room, is a choice (`RunFlows`). A
queue that is full replaces the first position of the same station, and drops the frame
if there is none. To look for one it takes the queue empty and counts every frame off,
before it knows what it will find (`LookThrough`, `digi_flow_runtime.py:601-619`); that
releases `join()` although frames wait, and the shutdown leaves them behind. All it needs
is one position from APRS-IS, of any station, that meets a full queue while the core
stops. `Drained` names the case (`overtaken`) instead of hiding it.

### PeriodicJobs, RfTransmit, Station

| Variable | In the code |
|---|---|
| `core` | running, stopping (worker cancelled, a tick's thread goes on) or down |
| `jobs`, `hand`, `stale` | queued jobs of `outbound_jobs`, the one in processing, those left in processing |
| `due`, `tick` | whether the interval since the stored time has passed; count, enqueue and stamp of a tick |
| `rounds` | history: jobs enqueued since the kind became due |
| `rfQueue` | the queue of `RfTxDispatcher` for the TNC |
| `pc`, `lock` | where the worker and the dispatcher are in `send_outbound_frame`; `_tnc_write_lock` |
| `link`, `tncWriter` | the monitor's connection; whether `_tnc_writer` is set |
| `written` | history: has a connection taken the sender's frame? |

`PeriodicJobs` and `RfTransmit` give the actions and no specification of their own;
`Station` composes them: the job in hand of the one is the frame of the sender
`"outbound"` of the other, and a stop or crash of the core hits both. Each sender
waits for the lock, writes, and drains; an error releases the lock and takes it
again for `_recover_from_tx_error`; then it connects by itself. Only the mode
without station profiles is modelled, in which status jobs are not recovered.

### AprsisUplink

| Variable | In the code |
|---|---|
| `service` | whether the manager runs the pair of client and dispatcher, and how far its stop is |
| `enabled`, `config`, `polled`, `used` | the settings in the database, those `_run` has read, `_connected_config` |
| `lock` | `_connection_lock` with those who wait for it |
| `conn`, `reader` | `_writer` and `_reader_task`; the state of each reader task |
| `run`, `backoff` | where `_run` and `_connect` are; `_retry_not_before` |
| `queue`, `sender` | the TX queue and its worker with its frame |
| `rxQueue`, `rxBusy` | the side-effect queue and its worker |
| `crossed`, `notifyFailures` | history and bound |

Four tasks take turns under one lock. `_disconnect_locked` cancels the reader and
awaits it while holding the lock, even when the reader itself waits for the lock:
`Disconnect` is that step for every caller, and its variants show what happens
without the cancellation (deadlock) or without the wait (two readers).

The dispatcher's `stop()` cancels its worker wherever it is. `CancelledError` is no
`Exception` (`aprsis_tx_dispatcher.py:118`), so that `on_result` is never called for the
frame in hand: that frame has a place of its own, `"cancelled"`, and so has the one
of a worker that `on_result` has ended by failing twice (`"dead"`). `Answered` is about all
others.

## 3. Runs

| Run | Question | Result |
|---|---|---|
| `MessageSafety` | Is `TypeOK /\ Consistent` invariant, is a settled message final, are retries bounded unless pacing splits a round, is the job table an at-most-once queue, with both receivers and a crash of each process? | holds |
| `MessageProgress` | Does every numbered message come to an end, is none forgotten, are rounds not stacked unless pacing splits one? | holds without crashes |
| `MessageAckLost` | Is "No ACK" shown only of a message that was not acknowledged? | violated |
| `MessagePacedRound` | Does a failure fail the message only when no job of its round is left? | violated with pacing |
| `MessageCrash` | Does a sent message come to an end when the core may restart? | violated |
| `Incoming` | Is a message acknowledged only if stored, not stored again, and acknowledged at last, whatever is lost, deleted or killed? | holds |
| `AprsisDuplicates` | Is no packet pending twice, and none repeated in the window or gated after RF heard it, unless as many others as the memory holds have been met since? Do the token buckets bound every stretch of traffic? | holds |
| `AprsisPosition` | Does one gated message open the gate for one position? | violated |
| `Routing` | Does a delayed frame go out only if nobody repeated it, once per window? Does the shutdown drain, end, and keep silent? | holds |
| `Station` | Do beacons keep going, one at a time and once per interval? Does neither sender block, cut or misreport a frame? | holds |
| `StatusStops` | Does the periodic status keep going when the core may restart? | violated |
| `Uplink` | Can the tasks deadlock? Is nothing left behind by a stop, nothing replayed, every frame answered but those of a cancelled or dead worker, every change of settings followed? | holds |

### What the violations show

* `MessageAckLost`. The worker reads the message as `sent`; the APRS-IS thread
  acknowledges it; the worker writes `sent` (`messages.py:953`, no condition on
  the status). If the attempts are used up, the message then expires and is shown
  as *No ACK*. Writing `WHERE id = ? AND status IN ('queued', 'sent')` would do.
* `MessagePacedRound`. Of a round on two interfaces, one job is paced and gets a
  `scheduled_at` of its own; the other fails and finds no other job with its
  instant; the message fails with a frame still to be sent.
* `MessageCrash`. The core stops after `sent` and before the retry is queued, or
  with a retry in `processing`. The message has attempts left, so it does not
  expire, and has no job, so it is not retried.
* `StatusStops`. The core stops with a status job in `processing`. At the start only
  beacon and weather jobs are recovered; the status job counts as pending, and the
  scheduler skips every later status. An orderly stop that cancels the worker in the
  middle of the job is enough.
* `AprsisPosition`. The debt of a position is read on arrival and cleared only
  after the viscous delay, when the position is queued; positions that arrive meanwhile
  are authorized as well.

### Bounds

| Bound | Value | Why it is enough |
|---|---|---|
| messages (outgoing) | 1; 2 in `MessageProgress`, one of them a query | messages share only the worker; every handler touches one message |
| `MaxTncs` | 1 or 2 | a round is one job or several; two already make a mixed outcome. `MessageSafety` has one: what it checks is proved for any number |
| `MAX_TX_ATTEMPTS` | 2 or 3 (code: 4) | first, middle and last attempt are all there with 3 |
| manual rounds | 1 or 2 | a second one is a manual retry over leftovers of the first |
| web threads | 1 | two requests at once exceed the time limit of a run with retries; see below |
| crashes | 0 or 1 of each process | a handler can be interrupted at every step once |
| messages (incoming) | 2, with 4 acknowledgements of each | one may be taken for the other; both receivers may queue two acknowledgements of one message |
| deletions of a conversation | 1 | it takes the conversation, or one of two, from under both handlers |
| ticks (`MaxTime`) | 9; fewer with several packets (below); 4 in `AprsisPosition` | several windows (2), delays (1 and 2) and retentions (3) |
| packets, flows of the gate | a message and two positions, 2 flows; one flow in `AprsisPosition` | a message and a position share a source but not a recipient; two flows have different delays |
| `SeenMax` | 2; 3 in `AprsisPosition` | two packets fit and the third evicts an entry, so that the exception is reached within the window; `AprsisPosition` is not about eviction |
| packets of `Routing` | 2 positions of one station | the newer replaces the older if both came over the same interface, and finds nothing if not; frames that are no positions, and positions of other stations, are covered by the theorems only |
| flows of `Routing` | 2 | one with a viscous delay, one without: a frame may go out at once in one and wait in the other |
| `QueueMax` | 2 (routing), 1 (RF TX, APRS-IS TX, side effects) (code: hundreds) | full and not full; in `Routing`, one in front of the one replaced |
| window, lag | 2 ticks, 1 tick | a copy may come before, at and after the end of the delay |
| frames after the shutdown has begun | 1 | `Stops` needs APRS-IS to be silent at last |
| kinds, manual jobs, restarts | beacon, 1, 2; beacon and status, 0, 1 in `StatusStops` | a manual job or a stop at every step of a tick, and one after a recovery; kinds share only the worker |
| connections | 2 names | an old one whose reader is still there, and a new one |
| exceptions of `on_result` | 1 | one is answered by the second call; a second one ends the worker |

Three runs have a state constraint. `MessageProgress` explores one message on two
interfaces with pacing, and two messages on one without. `AprsisDuplicates` explores
one packet to the end (tick 9); a message and a position up to tick `BusyUntil` (3); and
both positions, which overfill the memory while a message waits in the second flow or has
left it, up to tick `CrowdedUntil` (2). Its two positions are symmetric: same sender, no
recipient, and no liveness is checked. `Incoming` explores two
messages without faults, and one with a deletion and a crash. What lies outside was
too large for a run of a few minutes.

With one web thread, what two simultaneous requests do to one message is not
checked. The theorems hold for any number of web threads; two of them,
`RoundsNotStacked` and `RetriesAreBounded`, assume that no two requests send or
retry the same message at once (`OneRequestEach`), because two at once do stack
rounds: both cancel what is queued, then both queue a round.

`CHECK_DEADLOCK FALSE` is set in the `Message*` and `Aprsis*` runs: the message
system stops when all messages are settled and the bounds are used up, the gate when
the clock has reached `MaxTime`. The other runs check for deadlock.

### Fairness

`FairSpec` of `DirectMessage` assumes weak fairness of the worker's steps, of
each receiver's and request's started handler and of the restart of the core.
The worker loop polls for ever and every claimed job runs to the end of
`_process_job`; a handler that has started is not waiting for anything but the
database; `deploy/systemd/aprsbox-core.service:20` says `Restart=on-failure`. No
fairness is assumed of users (send, retry, delete), of remote stations (ACK,
REJ), of the transmission's success, or of crashes. `AprsisToRf` has no liveness
property. The other modules assume:

* `IncomingMessages`: weak fairness of each handler that has begun and of the worker's
  sending of acknowledgements; strong fairness of a copy's arrival and of an
  acknowledgement's being heard, since a channel that loses everything delivers
  nothing, and the remote station repeats. None of deletions and crashes.
* `PacketRouting`: weak fairness of the worker, the timers, time and a shutdown that
  has begun. None of the frames that arrive, of restarts or of the operator.
* `Station`: weak fairness of ticks that have begun, of each sender's steps (an
  operation on a connection returns or fails: the code sets timeouts or the operating
  system does), of the end of a stop and of the restart (`Restart=on-failure`); strong
  fairness of `CheckDue`, because the kinds of one scheduler take turns in a fixed order
  in the code, which the model leaves open. None of the link, which may fail for ever.
* `AprsisUplink`: weak fairness of the sender, the client loop, a reader that wants to
  disconnect, the side-effect worker and a stop that has begun; `drain()` and
  `open_connection` are called with a timeout. None of the server or of the operator.

## 4. Proofs

Every invariant and every action property that a passing run checks is a theorem,
for all values of the constants that satisfy the named assumption of the module.
The assumptions say that bounds are natural numbers and that names differ; those
that say more are given below. In each proof module the inductive invariant
(`IndInv` and what is added to it) is a conjunction of named parts, with a lemma for
each group of actions and a step for each part that an action can disturb.

| Module | Theorem | Statement |
|---|---|---|
| `DirectMessage_proofs` | `Invariance` | `Spec => []IndInv` |
| | `TypeCorrect` | `Spec => []TypeOK` |
| | `WorkerKeepsItsJob` | `Spec => []Consistent` |
| | `ImplementsQueue` | `Spec => AtMostOnce`, the refinement of `AtMostOnceQueue` |
| | `SettledForGood` | `Spec => SettledIsFinal` |
| `DirectMessageRounds_proofs` | `RoundsNotStacked` | `Spec /\ []OneRequestEach => []OneRoundQueued` |
| | `RetriesAreBounded` | `Spec /\ []OneRequestEach => []RetriesBounded` |
| | `NobodyForgotten` | `Spec => [](NoCrash => NoStall)` |
| `IncomingMessages_proofs` | `OnlyStoredAcknowledged` | `Spec => []AckedWasStored` |
| | `TypeCorrect`, `NoCopyTooMany` | `Spec => []TypeOK`, `Spec => []FewCopies` |
| `AprsisToRf_proofs` | `TypeCorrect`, `WaitsOnce` | `Spec => []TypeOK`, `Spec => []PendingOnce` |
| | `ChannelIsProtected` | `Spec => []RatesBounded` |
| | `SilentAboutRf` | `Spec => NotHeardOnRf` |
| | `NothingRepeated` | `Spec => NotRepeated` |
| `PacketRouting_proofs` | `TypeCorrect`, `CounterIsExact` | `Spec => []TypeOK`, `Spec => []CountsWaiting` |
| | `SentOncePerWindow` | `Spec => []OncePerWindow` |
| | `OnlyUnheardGoesOut` | `Spec => OnlyUnheard` |
| | `StopIsSilent`, `IdleIsDrained` | `Spec => SilentAfterStop`, `Spec => Drained` |
| `Station_proofs` | `TypeCorrect` | `Spec => []TypeOK` |
| | `ScheduledOnce`, `IntervalServedOnce` | `Spec => []OneScheduledPending`, `Spec => []OncePerInterval` |
| | `ReportsTruth` | `Spec => []OutcomeTrue` |
| | `RecoveryCutsNoFrame` | `Spec => CutsNoFrame` |
| `AprsisUplink_proofs` | `TypeCorrect` | `Spec => []TypeOK` |
| | `ReaderEndsWithConnection` | `Spec => []OneReader` |
| | `NothingReplayed`, `StopIsComplete` | `Spec => []NoReplay`, `Spec => []StopLeavesNothing` |

### DirectMessage

*The inductive invariant.* `TypeOK` is not inductive: a step of the worker updates
`jobs[worker.job]`, which is of the right type only if the job exists and the
attempt that pacing takes back had been counted. `Consistent` says that the
worker's job exists, and is in `processing` with its attempt counted while the
worker holds it; that is preserved by the other actors because `CancelJob`
touches queued jobs only. It also says that handlers under way have a message,
that a deletion queues nothing and that instants are named after existing jobs.

*Refinement.* The mapping takes the queued jobs as `waiting`, the worker's job as
`hand`, jobs left in `processing` by a dead worker as `lost` and the terminal ones
as `closed`. Each action maps to one action of the abstract queue or to a
stutter; `Consistent` is what makes the claimed job the only one in hand.

*Settled for good.* `Settled(m)` says that `m` has a final status and that nobody
who looked at `m` before is still about to act on it. Every action that could
queue a job for `m` or change its status either requires a status that a settled
message does not have or belongs to a handler that `Settled` excludes.

*Rounds.* `RoundsInv` says, of a message whose rounds pacing has not split
(`Unsplit`), that its rounds follow each other: what is queued, and what the worker
has in hand, belongs to the last round; nothing is queued when the worker is about to
fail the message or to queue a retry. `Unsplit` can only turn false, never true again,
so the invariant is free to say nothing of a split message. It takes `OneRequestEach`
where a manual retry, having cancelled what was queued, queues its own round.

*Retries.* `RetriesInv` adds that every automatic round directly follows a round that
was sent, so that there are no more of the former than of the latter (an injection
between sets of batches), and that `tx_attempt_count` counts the sent rounds, up to the
one whose `sent` the worker is about to count and one for each crash of the core. The
check of the attempts before a retry then gives the bound.

*Nobody forgotten.* `StallInv` says that a message that owes a round is being handled
by a receiver or a request, has a queued job, or is the worker's (`Attended`). The hard
steps are those at which the worker leaves a message alone. At `checkPending` a job is
queued, which a handler may be about to cancel, but only one that handles this message
(`OwnJobs`). After a failure, at `exhausted`, another job of the round has been sent and no
attempt is counted: then a manual retry has reset the count, and a round later than every
sent one is on its way (`Ahead`; `Uncredited` and `RetryAfterSent` link the count to the
rounds). It holds until the first crash only (`NoCrash`): the core may die with the job in
hand, the web process between the insert of a message and the insert of its jobs.

*What the proofs showed.* `OneRoundQueued` and `RetriesBounded` had been checked
without the condition `Unsplit`, and held by the bounds of the runs alone. A job that
was held back by pacing outlives the failure of its round; a manual retry and then the
worker, which transmits that job, both queue a round. It takes two interfaces,
pacing and two manual rounds to see it. The statements now name the condition, and the
theorems the other one, `OneRequestEach`.

### IncomingMessages

`AckedWasStored` is not inductive: the step that queues an acknowledgement does not
look at the rows, it trusts the handler to have found or written one. The invariant
therefore adds that a receiver past `Look` or `Insert` holds a message that has been
stored (`AckersStored`) and that a row to be found belongs to one
(`RowsWereStored`). Both survive a deletion between two steps of a handler because
they speak of messages that *have been* stored: a message may be acknowledged whose row
is already gone.

`TypeOK` and `FewCopies` bound conversations, rows and acknowledgements. What is
inductive counts what is there together with what the handlers under way may still
add: conversations and receivers about to create one (`RoomToCreate`), rows of a message
and receivers about to insert it (`RoomToInsert`), waiting acknowledgements and one or
two for each handler (`RoomToAck`). The first two stay within the number of receivers,
because a receiver gets to the insert only by having found nothing.
`IncomingAssumption` says that messages are finitely many and that the receivers are RF
and APRS-IS.

### AprsisToRf

*Rates.* A bound on every stretch of traffic is a claim about the past that a bucket
has forgotten. `Ledger` keeps it: what was sent under a key since any transmission,
together with the tokens left, costs no more than a full bucket and what it gathered
since. Refilling and taking preserve it; the next transmission turns it into the bound.

*Memory.* `NotHeardOnRf` and `NotRepeated` speak of the history, and the code looks only
at `_aprsis_rf_seen`. `Memory` says that every packet heard or queued within the
retention has an entry that says so (`RfRemembered`, `QueuedRemembered`), at most one
(`Unique`), and that a waiting packet was not heard in the window, or its task has been
woken (`WaitsUnheard`); each of the three unless `SeenMax` other packets have been met
since. An entry goes when it is too old, which is harmless since no window exceeds the
retention (`TimesAssumption`), or when the memory is full. For the second case the invariant
keeps the order of the memory: later entries have later times (`Sorted`), and no entry
is younger than the last note of its packet (`Noted`). An entry that is evicted has
`SeenMax` entries behind it, all of other packets; their times are no older than its own,
and so neither are the last notes of their packets (`FilledBehind`, `CrowdedBy`). Since
`lastMet` only grows, the exception, once there, stays. The number of packets is not bounded;
`PacketsAssumption` says that it is finite, hashes being of a fixed length.
`TimesAssumption` also says that the event loop is late by less than a window.

*What the proof needed.* A packet that was only looked for and never noted has an entry
without a time, which pruning removes first; `Sorted` therefore leaves such entries out.

### PacketRouting

`CountsWaiting` is an invariant by itself, given the types. `OncePerWindow` needs that a
packet waiting in a flow has not left it since its wait began (`OutBefore`).
`OnlyUnheard` is about a copy in the queue that the filter has not seen yet:
`CopiesWait` says that it came no earlier than the worker became ready, so that
it cannot be older than the lag of the loop when the delay ends. `Drained` needs that
`join()` returns with no frame from RF left, or in the named case, a position from
APRS-IS at the full queue (`JoinDrains`).

### Station and AprsisUplink

Both have tasks that take turns under an `asyncio.Lock`. `Places` says that a task is in
the queue of the lock exactly while it is at a place where the code waits for the lock
or holds it, and the lemmas of `LockQueueLemmas` say what a newcomer, a release and a
cancellation do to that queue.

`Station_proofs` proves the parts of `RfTransmit` and `PeriodicJobs` apart and puts them
together for the actions of `Station`. `Progress` says what has become of the frame at
each place of `send_outbound_frame`. `CheckedAlone` says that a scheduler that has
counted no pending job is the only one to add one, which makes its insert right although
the count is old by then. `Rounds` relates the place of a tick to the jobs enqueued since
the kind became due. `InHand` joins the two modules: the worker has a job exactly when
its sender is not idle, and none when the core does not run.

In `AprsisUplink_proofs`, `OpensOne` says that nobody else opens a connection while the
client loop does. `CrossedFindsNone` says that a line whose call found no connection, or
lost it, still finds none when it gets the lock: a connection about to be installed waits
behind it. `StopSoFar` follows `stop()` through its awaits. `UplinkAssumption` keeps
connections and tasks apart.

### Model-checked only

Liveness under fairness is out of the prover's reach, and so are `Settles`, `Stops`,
`RecoveredKeepGoing`, `DispatcherServes`, `Answered`, `Reconnects`, `FollowsSettings`,
`StopEnds` and `Delivered`. The properties of the runs that expect a violation are false,
and have no theorem: `AckedNeverNoAck`, `RoundFailsWhole`, `SentIsResolved`,
`OnePositionPerMessage`, `StatusKeepsGoing`.

## 5. What is not modelled

* *Vendored and external code.* Most lines of the repository are third-party packages
  (`src/.ui-audit-deps`), templates and translations; of the program itself, most lines
  are pages, parsing, formatting, SQL text and configuration. The models cover the parts
  in which actors share state.
* *Messages*: groups, bulletins, messages without a number, queries and their automatic
  responses, reply-acks, the merging of conversations, station profiles.
* *Expiry by the web process.* Showing the message page also expires direct messages
  (`messages.py:648`); the models have that step in the loop of the worker only. The
  difference is that the web process may take it while the worker has a job of the message
  in hand: the last one of a round on several interfaces. The user may then retry the
  message before that job is finished. The theorems about rounds rest on
  its being impossible (`Orderly`), and say nothing of it.
* *Several TNCs for one beacon.* With the scope of all active modems the code inserts a job
  for each (`outbound.py:205-235`). `PeriodicJobs` inserts one, so that
  `OneScheduledPending` and `OncePerInterval` are claims about a station with one TNC.
* *Weather in `Station`.* The run has the beacon, as the kind that is recovered; the
  recovery of weather jobs is in the model (`Recovered`) and in the theorems, and
  `RecoveredKeepGoing` is not checked for it.
* *Cancellation that is swallowed.* `AprsisUplink` takes every cancellation to have its
  effect. `_disconnect_locked` awaits the reader with `CancelledError` suppressed
  (`aprsis.py:1505`), and a task that is cancelled just there goes on. The client's `stop()`
  does not meet `_run` there, because it has held the lock itself until then; the
  dispatcher's `stop()` may meet its worker, which then reports its frame and ends all the
  same, `_running` being false. The await is part of the step `Disconnect` in the model.
* *Message numbers and double sends.* `next_message_number` (`messages.py:2173`) and the
  check for a second click (`messages.py:1928`) read in one transaction and write in
  another. Two requests at once defeat both; they are listed as hazards, and the models
  identify a message by its row.
* *Time on the air*: the TX gap, age limits and pacing intervals are choices without a
  clock. That the worker and the RF TX dispatcher each keep a gap for themselves is
  listed as a hazard.
* *Other schedulers*: bulletins, objects and own alerts keep their times in rows of their
  own, and station profiles keep them per station.
* *Claim order*: DIGI_TX jobs go first in the job table; with one kind per run that order
  cannot be seen.
* *Transport other than TCP*: serial and MQTT modems, the KISS proxy, decoding.
* *Errors of the database* in the middle of a handler. One that escapes from
  `OutboundService._run` ends the worker for good (hazard at `outbound_runtime.py:153`).
* *Maintenance*, which removes only rows in terminal states.
* Alerts, weather sources, notifications, the user interface, authentication, backup and
  migrations are sequential transformations of data without shared control state.

## 6. Theorems worth proving next

In order of importance:

1. Abstract specifications that other components implement: a gate that takes a packet
   and either drops it or sends it once (`AprsisToRf`, `PacketRouting`), a channel that
   answers every frame once and truly (`RfTransmit`, the sender of `AprsisUplink`).
2. That no task waits for ever under the locks: as an invariant, whoever is first in the
   queue of a lock has a step to take, unless it waits for the network.
3. `NoStall` after crashes: which messages a crash may forget, and no others.
4. `RetriesBounded` without `Unsplit` and `OneRequestEach`: a weaker bound that counts jobs
   held back and requests under way.
