# A TLA+ model of saasy-sfu

saasy-sfu is a selective forwarding unit: a signaling server asks it over gRPC
to open sessions of two participants, to create their WebRTC transports,
producers and consumers, and to stream events about them. Media is moved by
mediasoup workers; this repository is the control plane in front of them. The
modules here model that control plane. Line numbers refer to `src/src/`.

## The system

| Component | State | Operations | Correct when |
|---|---|---|---|
| Session registry (`sfu/core.rs`) | `sessions`, `active_sessions_per_router` | `register_session`, `join_session`, `close_session`, `shutdown` | counters equal open sessions; no router is overbooked; `AllRoutersFull` is the truth; a session stays on its router and has at most two different participants |
| Router pool (`sfu/router_manager.rs`) | `routers`, `next_index` | `get_next_router`, `get_available_router` | a scan visits every router and ends; load is spread evenly |
| Event streams (`sfu/core.rs`, `grpc/handler.rs`) | `event_senders`, one bounded channel per subscription | `subscribe_to_events`, `broadcast_event`, `get_existing_producers_for_session` | a subscription returns; its stream begins with the confirmation, misses no producer, and ends when nobody can write to it any more |
| Event handlers (`sfu/event_handler.rs`, `grpc/handler.rs:53`) | one `is_closed` flag per resource | callbacks of transports, producers, consumers; spawned broadcasts | each close is announced once, to those who know the resource |
| Participant media (`sfu/core.rs`, `sfu/transport.rs`) | `transports`, `producers`, `consumers`, `rtp_capabilities` | `create_transport`, `connect_transport`, `create_producer`, `create_consumer`, `resume_consumer`, `set_rtp_capabilities` | media that flows goes on until a session or a router ends; nothing in mediasoup outlives its session |
| gRPC handlers (`grpc/handler.rs`) | none but the `Arc<Mutex<SfuCore>>` | one handler per operation | invalid requests change nothing; the mutex is given back |
| Lifecycle (`main.rs`) | oneshot channel of the shutdown | start, ctrl-c, `shutdown` with a 5 s timeout, `serve_with_shutdown` | the server stops when asked to, and no session survives |
| Worker manager (`sfu/worker_manager.rs`) | `workers`, `webrtc_servers` | `new` | one WebRTC server and one port per worker, as configured |
| Configuration, health (`config.rs`, `http/health.rs`) | constants | | "ready" is the truth |
| Codecs, errors | constants | | |

How they interact: every handler locks the one `tokio::sync::Mutex` around
`SfuCore`, calls one operation of the core and keeps the lock until that
returns, awaits included (in `self.sfu_core.lock().await.f(..).await` the guard
is a temporary that lives to the end of the statement). What a handler does
after that statement, `setup_event_handlers` above all, happens without the
lock. Broadcasts run in tasks of their own (`tokio::spawn`), which lock the
same mutex. mediasoup calls back from its own threads. tonic drops the future
of a call whose client goes away, at whichever await it has reached; that
releases the lock.

What is hard, in the order in which the modules take it up:

- a counter that is read in one step and increased in another, with awaits and
  dropped calls in between;
- a round-robin index that outlives failed and dropped scans;
- a replay and a broadcast of the same fact to the same subscriber, from
  different tasks, while it subscribes, again or for the first time;
- bounded channels: a send that waits with the lock held, a `try_send` that drops;
- senders that outlive their stream, or are stored for a session that is gone;
- close notifications, which come from several callbacks and compete with the
  removal of the senders;
- transports that are replaced, objects of mediasoup that live as long as anybody
  refers to them, and workers that die with all that is on them;
- a shutdown that waits in the same queue as the calls, races a timeout, and
  ends before the server it shuts down does;
- a start that fails half way, and u16 arithmetic on ports.

`PROJECT.json` lists each of these at its line under `hazards`, with the
properties that would catch it going wrong.

## Modules

| Module | Models | Instances | Proofs |
|---|---|---|---|
| `SessionService` | what the registry promises, without mutex, counters or scan | | |
| `SfuSessions` | registry, router pool and their handlers | `MCSfuSessions` | `SfuSessionsProofs`, `SfuBalanceProofs` |
| `EventStreams` | what a subscription promises, without participants, tasks or a mutex | | |
| `ProducerLifetime` | how long a producer lives, without transports, tasks or streams | | |
| `SfuEvents` | producers and event streams of one session | `MCSfuEvents` | `SfuEventsProofs`, `SfuAnnouncementsProofs` |
| `CloseEvents` | the callbacks that announce the close of a transport, producer or consumer | `MCCloseEvents` | `CloseEventsProofs` |
| `SfuMedia` | transports, producers and consumers of several sessions | `MCSfuMedia` | `SfuMediaProofs` |
| `SfuLifecycle` | the server while it serves and shuts down, and the queue of its mutex | `MCSfuLifecycle` | `SfuLifecycleProofs` |
| `SfuStartup` | `main()` up to the gRPC server: workers, ports, routers, health | `MCSfuStartup` | `SfuStartupProofs` |

The modules are connected by what one takes from another as given. `SfuSessions`
justifies that the other modules treat `register_session` and `close_session` as
one step: nothing comes between their steps while they hold the mutex (`ScanAdvances`).
`SfuSessions` and `SfuEvents` know of the mutex only who holds it; `SfuLifecycle`
has its queue.
`SfuMedia` derives from references when a producer closes, which `SfuEvents`
takes as given; both implement `ProducerLifetime`, so they agree.
`CloseEvents` justifies that `SfuEvents` has one task per close. `SfuEvents`
shows when a replay is stuck, which `SfuLifecycle` takes as an input
(`ReplayMayBlock`). `SfuStartup` shows that the pool with which `SfuSessions`
begins is complete.

A definition whose name has an underscore (`MutexFree_Ignored`,
`CloseSession_SendersKept`) is no part of a specification. It is a faulty variant
of the definition it is named after. With it in place a property must fail,
which shows that the property depends on the code. `PROJECT.json` pairs each
property with its variant under `mutants`, and each definition with its lines
under `map`.

### SfuSessions

`sfu_core` is the holder of the mutex. A registration locks it
(`RegisterLock`), probes one router a step (`ProbeRouter`: `get_next_router`,
then the load of the counter), and ends in one of three ways: it stores the
session and increases the counter (`RegisterCommit`, everything after the last
await), it answers `AllRoutersFull` (`RegisterReject`), or it is dropped at an
await (`RegisterDropped`). Once it has found room there is no await left, so it
cannot be dropped any more. `JoinSession`, `CloseSession` and `Shutdown` have
no awaits and are one step each, taken while the mutex is free. Requests that
the code refuses change nothing and are left out. Participants are kept as the
set of their ids: their media state is none of the registry's business.
`issued` is a history variable, the ids that were ever given to a session: it
stands for the uniqueness of UUIDs, and it is how `SessionService` says that a
closed session does not come back.

The empty string is one of the participant ids: `register_session` refuses it,
`join_session` does not.

A router may die with its worker. Nothing in the code notices, and nothing in
the registry depends on it, so `SfuSessions` does not say which routers live;
`SfuEvents` and `SfuMedia` do.

### SfuEvents

One session, of which the participants, the producers, the subscriptions and
the tasks that are under way are modelled. A channel is an append-only `log`
and the number of events `read` from it. `create_producer` is `CreateProducer`
(the part under the mutex), `SetupProducerEvents` (callbacks are registered,
the broadcast is spawned) and `AnnounceProducer` (the broadcast). A
subscription is `SubscribeToEvents` (the sender is stored), `SendConfirmed`,
`SendExisting` for each existing producer, and `SubscribeReturn`, all under one
hold of the mutex; it may be dropped at each of its sends (`SubscribeDropped`).
Then the client receives, leaves, or sees the stream end. `CloseSession` closes
the producers nobody else holds; `RouterDies` closes all of them.

mediasoup is external and modelled from its use here: a producer closes when
its last reference is dropped or its router dies, and then runs its close
callbacks. `setup_producer_events` discards the handle that `on_close` returns
(`event_handler.rs:141`). Whether the callback stays registered then is
mediasoup's business and cannot be seen here, so a callback may or may not be
in place (`handled`). Every property holds in both cases, or assumes a callback.

### CloseEvents

`setup_transport_events`, `setup_producer_events` and `setup_consumer_events`
register two or three callbacks with one `is_closed` flag between them. mediasoup
may call any of them (`Close`), on any thread; each does its `compare_exchange`
(`CompareExchange`) and, if it was the first, spawns the broadcast
(`Announce`). In `SfuEvents` the set `closing` stands for the result of this
module: one task per producer that closed.

### EventStreams

What a client may rely on: a subscription is a bounded queue which begins with a
confirmation, has no second one, gives out in order what was put in, is never
written to after its end, and ends only when it was read to the end or dropped.
`SfuEvents` implements it; the mapping (`Phase`) takes the stages of the call
and of the stream together as "open".

### ProducerLifetime

A producer lives until its router dies, or until its session has closed and the
call that made it, with the task that call spawned, has let go of it. Retried
requests, replaced transports, consumers, subscriptions and dropped broadcasts do
not occur here, and make no difference. `SfuMedia` implements it with all its
sessions: `live` are the producers somebody refers to, `held` those in
`handling`. `SfuEvents` implements it with the one session it has: `held` are
the producers of which the set-up or the broadcast is still to come.

### SfuMedia

Each operation has one await, a request to the mediasoup worker, and keeps the
mutex across it. What it has read before nobody can change, and a future that is
dropped there drops the new object with it; so each operation is one step.
References are what matters then: an object of mediasoup is open while somebody
refers to it (`Held`, `TransportHeld`), that is a participant's state, a handler
after the mutex or its task (`handling`), or, for a transport, a producer or
consumer that was made on it. `CreateTransport` replaces a transport of the same direction without
further ado, as `core.rs:257` does. `CanConsume` asks the router, which knows
the producers of all its sessions, hence the runs have two sessions on one
router and on two. `Release` is the end of `setup_event_handlers` and of the
broadcast it spawns. An operation that fails changes nothing, and so is left out.

### SfuLifecycle

The task of the shutdown is one more client of the mutex. Tokio's `Mutex` is
fair, so the model has a queue, kept as who waits or holds (`queue`) and who is
before whom (`ahead`): a future that is dropped, by a client that leaves or by
the timeout, leaves the queue wherever it is. A call asks for the mutex
(`Request`), has its turn (`Register`, `CloseSession`, `SubscribeToEvents`) and
returns; a subscription leaves a stream. A call stands for the participant who
makes it: `event_senders` has pairs of a session and a participant, of which a
disconnect removes none. A replay may be stuck (stage `"stuck"`,
with `ReplayMayBlock`), which only a disconnect ends.

The model has no clock. Five seconds can pass (`TimerExpires`) only while a replay
is stuck: no other call of this module waits for anything with the mutex held.
(In the program the operations on media do, for a mediasoup worker; to the
shutdown they would look like a stuck replay.) The task may be polled some time
after that. `timeout` polls the lock first: if the mutex is the task's by then
it is used (`ShutdownCore`), and otherwise the task leaves the queue
(`ShutdownTimeout`). tonic stops accepting (`StopAccepting`) some
time after the signal, and `main()` returns (`Stop`) when no call and no stream is left.
Requests that are in connections which tonic drains are not modelled as
accepted after `StopAccepting`.

### SfuStartup

One step per worker, WebRTC server and router, each of which may fail and end
the process (`Fails`). Vectors are kept as their lengths, since index `i` is the
same worker in each. `PortOf` is the u16 addition of `worker_manager.rs:59`; in
a build with overflow checks (`config.overflow_checks`) it panics, otherwise it
wraps around. The numbers 65536 and 10000 are the constants `PortRange` and
`FirstPort`, so that a run can reach the end of the ports with few workers.
`Ready` is the time in which the readiness endpoint answers: it has no condition
of its own, but the health server starts only when the pool is there.

## Runs and bounds

| Run | Instance | Checks |
|---|---|---|
| `sessions` | 2 routers x 2 sessions, 5 ids, 2 calls, 3 participant ids, fairness | `TypeOK`, `CountersMatchSessions`, `RouterCapacity`, `RejectionJustified`, `RoundRobinBalance`, `ServiceSpec`, `ScanAdvances`, `MutexReleased` |
| `events` | 2 participants, 2 producers, 2 subscriptions, capacity 2, router deaths | `TypeOK`, `KnowsProducers`, `AnnouncedTwiceAtMost`, `ConfirmedFirst`, `LateAnnouncement`, `CloseAnnouncedTruly`, `ReplayExists`, `ReplayFits`, `OrphanedIsFinal`, `StreamsSpec`, `LifetimeSpec` |
| `events_live` | 2 participants, 1 producer, 2 subscriptions, capacity 2, router deaths, fairness | `OrphanedStreamEnds`, `SubscribeReturns`, `ProducerHeard`, `CloseHeard` |
| `close_once` | a transport, a producer, a consumer; 2, 2 and 3 callbacks; fairness | `AnnouncedOnce`, `CloseIsAnnounced` |
| `media` | 4 participants in 3 sessions on 2 routers, 3 transports, 1 producer, 1 consumer | `TypeOK`, `NothingOutlivesSession`, `MediaUninterrupted`, `LifetimeSpec` |
| `lifecycle` | 3 calls, 2 sessions, stuck replays | `TypeOK`, `QueueExact`, `ReplayUndisturbed`, `SendersInSessions` |
| `lifecycle_live` | 3 calls, 1 session, stuck replays, fairness | `ShutdownSignalled`, `CallsReturn`, `EmptyServerStops` |
| `startup` | 0 to 10 workers, 8 ports from the fifth on, failures, both builds | `TypeOK`, `PoolComplete`, `PortsDistinct` |

These runs end in a violation, each of one property, which says what a line of
the repository says:

| Run | Instance | Violates |
|---|---|---|
| `empty_id` | 1 router x 1 session | `ParticipantIdsPresent` |
| `subscribe_blocks` | 2 producers, 1 subscription, capacity 2, fairness | `SubscribeReturns` |
| `observer` | an id that is no participant | `SendersAreMembers` |
| `shutdown_hangs` | 2 calls, 1 session, no stuck replay, fairness | `ShutdownStops` |

The bounds of the models are the finite sets of ids. `SessionId` is finite: a
registration starts only while an id is left (`IdLeft`). In `sessions` there is
one id more than there are places, so the pool fills up, refuses, is emptied and
fills again. Each `Call` is used again when it has returned; two are enough for
one to try to get in while the other is scanning, and three, in `lifecycle` and
`lifecycle_live`, for one to be ahead of the shutdown task and one behind it while the third streams.
In `SfuEvents` each producer is created and each channel subscribed with once;
two channels give two participants one each, or one participant two in a row,
and a capacity of two is filled by the confirmation and one event. In `SfuMedia`
each id of mediasoup is given once, and three transports are two for one
consumer and one that replaces either; two of the three sessions share a router,
so that `CanConsume` can be true across sessions and false across routers. In
`startup` eleven worker counts lie around each of the two limits, three ports
before the wrap and eight indices. `media`, `events` and `lifecycle` use symmetry: they check
what is safety only and does not tell the symmetric ids apart. When all ids are
used up and everybody is gone the models other than `SfuSessions` stop, as the
server does after its shutdown, so their runs do not look for deadlock; that
calls return and the server stops is what the liveness properties say.

Each property in a sentence:

- `CountersMatchSessions`: the counter of a router is the number of open sessions on it.
- `RouterCapacity`: no router has more than `max_sessions_per_router`.
- `RejectionJustified`: a scan that gives up gives up because every router is full now.
- `RoundRobinBalance`: until a session is closed, loads differ by at most one.
- `ScanAdvances`: while a registration holds the mutex nothing else happens, and
  each of its steps brings it nearer to its end.
- `MutexReleased`: a registration gives the mutex back.
- `ServiceSpec`: the registry implements `SessionService`.
- `KnowsProducers`: an attached stream has been told of every producer of the
  others, or will be by a task that is on its way, or lost it to a full
  channel; it is told of none of its participant's own.
- `AnnouncedTwiceAtMost`: a producer is announced to a stream twice at most,
  and only once before its broadcast has run. Twice does happen: the replay and
  the broadcast do not know of each other.
- `ConfirmedFirst`: each stream begins with `SubscriptionConfirmed`, which
  comes once.
- `OrphanedStreamEnds`: a stream whose session closed, or whose participant
  subscribed again, ends for a client that reads on.
- `OrphanedIsFinal`: nothing comes into such a stream any more, and it stays
  orphaned to its end.
- `SubscribeReturns`: a subscription gives the mutex back. It does while fewer
  producers exist than the channel has places for, less the confirmation, and
  not otherwise: see below.
- `ProducerHeard`: a client that stays receives every producer of the others
  that its channel had space for.
- `CloseHeard`: who keeps a stream of an open session hears of every close of which a
  callback told, unless the channel was full; nobody is excluded, not the
  participant whose producer it was.
- `LateAnnouncement`: a producer is announced after its close at most once, by
  the one broadcast that was late.
- `CloseAnnouncedTruly`: a stream is told of the close of a producer only if it
  has closed, and only if its router has died.
- `ReplayFits`: a send of the confirmation always finds space, and one of the
  replay does while there are fewer producers to replay than places in the channel.
- `ReplayExists`: while the router lives, what a subscription has yet to replay
  has not been closed behind its back.
- `StreamsSpec`: every subscription is a stream of `EventStreams`.
- `LifetimeSpec`: producers live as long as `ProducerLifetime` says, in
  `SfuEvents` and in `SfuMedia`.
- `NothingOutlivesSession`: what is open in mediasoup belongs to an open session,
  or a handler that made it has not ended.
- `MediaUninterrupted`: media that flows stops only for the end of one of the
  two sessions or of their router; retries and second transports do not stop it.
- `QueueExact`: those who wait for the mutex are those who want it, in one line;
  a future that was dropped leaves no place behind.
- `ReplayUndisturbed`: during a replay its session is open and its sender stored.
- `SendersInSessions`: a stored sender belongs to a session that is there, also
  when its client has left. What
  keeps a server from stopping is hence a session, never a sender left behind.
- `ShutdownSignalled`: after ctrl-c tonic is told to stop, even if the mutex is
  never free.
- `CallsReturn`: whoever waits for the mutex gets it and gives it back, unless a
  replay is stuck.
- `EmptyServerStops`: a server that drains without sessions stops.
- `PoolComplete`: whoever is answered "ready" has the whole pool behind it, a
  router and a WebRTC server for each worker.
- `PortsDistinct`: no two workers share a port, also across the overflow.
- `AnnouncedOnce`, `CloseIsAnnounced`: a close of which mediasoup tells any
  callback is broadcast, and only once. A callback that finds the flag up gives way
  to one that has announced the close, or is about to.

### Fairness

A call or task that can go on is polled by tokio, hence weak fairness of the
steps of a call that holds the mutex, of a callback that was called, and of `SetupProducerEvents`. The mutex is
free only from time to time, but tokio's `Mutex` serves waiters in the order in
which they came, hence strong fairness of the broadcasts that wait for it. A
client that stays reads from its stream: weak fairness of `Receive` and
`StreamEnd`. No fairness for requests, disconnects, dropped calls, closes and
router deaths: they may never come.

In `SfuLifecycle` the order of the queue is a part of the model, so weak fairness
is enough: of the steps of each call that has the mutex, of the shutdown task
(it has the mutex, or gives up), of its timer while a replay stays stuck, of tonic, and of `StreamEnd`. A stuck
replay has no step, and nobody has to disconnect, to call or to press ctrl-c.

## Findings

1. **A subscription can stop the server** (`subscribe_blocks`).
   `subscribe_to_events` sends the confirmation and all existing producers into
   the channel with waiting sends (`core.rs:462`, `core.rs:473`), under the
   mutex, before the handler returns the receiver as a stream
   (`grpc/handler.rs:599`). With `subscribe_channel_capacity` or more existing
   producers of the other participant nobody makes space: the call waits for
   ever and every other call waits for its mutex, until the client gives up.
   With fewer it does not wait at all (`ReplayFits`).
   `core.rs:467` promises "Send existing producers to the subscribing
   participant". The default capacity is 128.
2. **Anybody can subscribe** (`observer`). `core.rs:89` speaks of "event channel
   senders for each participant"; the code checks only the session (`core.rs:445`).
3. **A participant can join under the empty id** (`empty_id`), which
   `grpc/handler.rs:125` refuses at registration and `grpc/handler.rs:169`
   ("Participant id is required") fails to.
4. **The shutdown may take for ever** (`shutdown_hangs`). The five seconds of
   `main.rs:115` bound the wait for the mutex only. `serve_with_shutdown` waits for
   all streams, and the stream of a session that was registered after
   the shutdown ("SFU shutdown completed successfully", `main.rs:116`), while tonic
   still accepts, ends only with its client. In the run no replay is stuck and the timer
   never fires.

Seen while reading, and checked by no run:

- Closing a session announces nothing to anybody: `close_session` removes the
  senders (`core.rs:435`) under the same lock under which it drops the producers,
  so the broadcasts of their closing find nobody. A stream is told of the close of a
  producer only when its router has died (`CloseAnnouncedTruly`).
- Dead routers stay in the pool. Only the counter decides (`router_manager.rs:88`),
  and a dead router has the lowest: sessions go on being placed there, although
  `router_manager.rs:56` speaks of the "next available" router.
- Producers that closed with their router are still among the "existing
  producers" of `core.rs:467`; hence the premise of `ReplayExists`. Who subscribes
  after the close was broadcast is told of them, and never that they closed.
- A failing ctrl-c handler returns (`main.rs:105`) and so drops the sender of the
  channel, which `main.rs:140` takes for the signal.
- Consumers that closed with their producer stay until the session closes, though
  `core.rs:59` calls them active.
- A second send transport takes the place of the one that "carries producers"
  (`transport.rs:7`). What flows goes on (`MediaUninterrupted`), but the first can
  no longer be connected.
- `config.rs:25` lists "info" as a log level, `worker_manager.rs:99` makes it "warn".
- `http/health.rs:13` answers "ready" before the gRPC server is.
- Ports wrap around from the 55537th worker on (`worker_manager.rs:59`), while
  `.env.example:18` lets them start at 10000. Of no consequence in practice.

## Proofs

Every theorem holds for all values of the constants that satisfy the assumptions
below.

| Module | Theorem | States |
|---|---|---|
| `SfuSessionsProofs` | `TypeCorrect` | `Spec => []TypeOK`; no counter underflows |
| | `CountersCorrect` | `Spec => []CountersMatchSessions` |
| | `CapacityRespected` | `Spec => []RouterCapacity` |
| | `RejectionsJustified` | `Spec => []RejectionJustified` |
| | `ScansAdvance` | `Spec => ScanAdvances` |
| | `ImplementsService` | `Spec => ServiceSpec` |
| `SfuBalanceProofs` | `RoundRobinBalances` | `Spec => []RoundRobinBalance` |
| `CloseEventsProofs` | `ClosesAnnouncedOnce` | `Spec => []AnnouncedOnce` |
| `SfuEventsProofs` | `TypeCorrect` | `Spec => []TypeOK`; no channel overflows |
| | `ConfirmedComesFirst` | `Spec => []ConfirmedFirst` |
| | `SendersGoWithSession` | `Spec => []NoSenderOutlivesSession` |
| | `SubscribersKnow` | `Spec => []KnowsProducers` |
| | `ReplaysExist` | `Spec => []ReplayExists` |
| | `OrphansAreFinal` | `Spec => OrphanedIsFinal` |
| | `ImplementsStreams` | `Spec => StreamsSpec` |
| `SfuAnnouncementsProofs` | `TwiceAtMost` | `Spec => []AnnouncedTwiceAtMost` |
| | `LateOnceAtMost` | `Spec => []LateAnnouncement` |
| | `ReplaysFit` | `Spec => []ReplayFits` |
| | `ClosesAnnouncedTruly` | `Spec => []CloseAnnouncedTruly` |
| | `ImplementsLifetime` | `Spec => LifetimeSpec` |
| `SfuMediaProofs` | `TypeCorrect` | `Spec => []TypeOK` |
| | `SessionsTakeAllAlong` | `Spec => []NothingOutlivesSession` |
| | `MediaFlows` | `Spec => MediaUninterrupted` |
| | `ImplementsLifetime` | `Spec => LifetimeSpec` |
| `SfuLifecycleProofs` | `TypeCorrect` | `Spec => []TypeOK` |
| | `QueueIsExact` | `Spec => []QueueExact` |
| | `ReplayIsUndisturbed` | `Spec => []ReplayUndisturbed` |
| | `SendersHaveSessions` | `Spec => []SendersInSessions` |
| `SfuStartupProofs` | `TypeCorrect` | `Spec => []TypeOK` |
| | `PoolsComplete` | `Spec => []PoolComplete` |
| | `PortsAreDistinct` | `Spec => []PortsDistinct` |

### Sessions

None of the first four invariants is inductive. That a router with room still has room
when the session is stored depends on the mutex; that a scan which ends has seen
every router depends on where it started. `Inv` adds

- `MutexInv`: a call is under way exactly when it holds the mutex, so nothing
  changes between its steps;
- `IdleInv` and `ScanInv`: `Behind(r)` says how many probes ago `next_index`
  pointed to router `r`; the routers that are at most `probes[c]` behind were
  found full and still are. After `NumRouters` probes that is all of them.
  Lemma `IndexMovesOn` is the arithmetic: a probe puts its router one behind
  and every other router one further;
- `ChosenInv`: the router that was chosen still has room;
- `CountersInv`: counters equal the cardinalities and respect the maximum;
- `Open \subseteq issued`: a fresh id is the id of no open session, so storing
  a session adds exactly one to the cardinality.

One lemma per action shows that it preserves `Inv`; the facts about
cardinalities are cited from `FiniteSetTheorems`. The refinement needs `Inv` to
see that a registration finds room (`StepRefines`) and that a session which is
joined has exactly one participant, another one (`JoinsOnlyParticipant`).
`ScansAdvance` follows from `MutexInv`: whoever probes is the holder.

For the balance, `StairInv` says that while no session was closed the loads form
a stair: the routers before `next_index` have one session more than the others,
or all are full. A load counts the router a registration has chosen and not yet
used, which is always the one just before `next_index`. A dropped scan can move
`next_index` past full routers only, and then all are full: a router that is full
while others are not lies before `next_index`.

For the close, `FirstInv` says that while one callback is between its
`compare_exchange` and the spawn nobody else is, and nobody has spawned before.
`NotLost` is the other half of `AnnouncedOnce`: the flag goes up in the step that
makes a callback the first.

### Events

`ConfirmedFirst` and `KnowsProducers` are not inductive: both depend on who
holds the mutex. `Inv` adds

- `Mutex`: a subscription is being confirmed or replayed exactly when its call
  holds the mutex, and then it is open and its sender stored. So no broadcast
  comes between the sender and the confirmation;
- `Logs`: a stream that has been confirmed has the confirmation in it, one that
  has not is empty;
- `Senders`: a stored sender belongs to a subscription of that participant;
- `Producers`: a task that is to announce a producer announces one that was
  created;
- `Replays`: what is still to be replayed are producers of others;
- `Heard`: a stream that replays or streams has been told of no producer of its
  own participant;
- `Knows`: `KnowsProducers` for the streams that are still replaying, with what is left to replay.

Lemma `BroadcastKeeps` says once what no broadcast can break, whatever it
announces. `ReplaysExist` needs two facts more: producers close only with their
session or router (`Lives`), and a session does not close while a subscription
has the mutex (`StaysOpen`). `OrphansAreFinal` is that no sender is left of an
orphaned stream (`OrphanUnreached`), because a sender is stored for one
participant only and its session is open. The refinement maps stages to phases with `Phase`; `PhaseSame` and
`PhaseChanges` say how it moves, and `StreamsNext` has one step per action.

`SfuAnnouncementsProofs` counts, with `Counts` on top of `Inv`:

- `Told`: what a stream was told of a producer, plus one if it is still in its
  replay, plus one if its broadcast has yet to run, is at most two. That the
  replay lists a producer once, and that it is set up or to be announced but not
  both (`Once`), is what keeps the sum from growing;
- `ReplayFirst`: no close is announced in a stream before its replay is over, so
  what is announced too late is announced by the broadcast;
- `Fits`: nobody reads a channel that is being filled, and its length plus what
  is left to replay is one more than the number of producers to replay.

Lemmas about logs (what one more event adds to a count) and about cardinalities
carry these. For `CloseAnnouncedTruly`, while the router lives a producer closes
only with the session, or after it when its call lets go; either way no
sender is left for the task that is to announce it (`TrulyNext`). The lifetime
needs that only what was created is closed (`ClosedExist`), and `Once`.

### Media

`MediaUninterrupted` needs to know that what flows is referred to by someone who
does not let go. `Inv` says that whatever was made has an owner (`Made`), that a
transport in use was made for its participant (`Placed`) and the producer of a
consumer exists (`Sources`), that an open session still has all producers and consumers it ever made (`Kept`) and
`Still` and `Gone` the same of what a closed session has lost, and that a handler refers to what was made
(`Handled`). `Monotone` and `OpenStays` then show that a step takes nothing from
an open session on a living router.

For the lifetime, `LiveByHome` is the point: a producer is open exactly when its
session has a router and the session is open or a handler refers to it. It
follows from `Inv`, so each action needs only say what it does to sessions,
routers and `handling`.

### Lifecycle and startup

In `SfuLifecycle` the first three invariants are inductive together: that the
queue is a line (`Line`, kept by `Lock` and `Leave`) gives one holder
(`OneHolder`), and that gives `ReplayUndisturbed`. `SendersInSessions` is inductive by
itself: a sender is stored only for a session that is there (`core.rs:445`), and
whatever takes sessions away takes their senders.

`SfuStartup` adds what the phases say of the lengths (`PhasesInv`). That the
ports differ is arithmetic: `PortOf` has wrapped around or has not (`Wrapped`),
and either way no index that fits a u16 meets another (`PortsInjective`).

### Assumptions

`NumRouters` and `MaxSessionsPerRouter` are natural numbers, zero included;
`SessionId` is finite; the empty id is a participant id; `Capacity` is a
positive number, since `mpsc::channel` panics otherwise; members of the session
are participant ids; sessions are placed on routers, and the ids of transports,
producers and consumers are apart; worker counts are natural numbers, and
the first port is below the number of ports; the
shutdown task is no call; the markers (`NoCall`, `NoSession`, `NoOne`,
`NoChannel`, `None`) are different from what they mark, `None` in `SfuMedia` from
sessions too; `CallbacksOf` gives each resource a set of callbacks.

Every safety property of a passing run has its theorem. Only model-checked are
the liveness properties (`MutexReleased`, `SubscribeReturns`, `OrphanedStreamEnds`,
`ProducerHeard`, `CloseIsAnnounced`, `ShutdownSignalled`, `CallsReturn`,
`EmptyServerStops`, `CloseHeard`), since fairness is out of the prover's reach. The safety on
which they rest is proved: that a scan has a bounded number of steps left
(`ScanAdvances`), that a send which fits does not wait (`ReplayFits`), that nothing
is added to what an orphaned stream has to read (`OrphanedIsFinal`), that a close
is left to somebody who announces it (`AnnouncedOnce`), that those who wait for
the mutex are in one line (`QueueExact`), and that no sender is left behind
(`SendersInSessions`). `NoSenderOutlivesSession` (which is `SendersInSessions` for
the one session of `SfuEvents`) is a theorem that other proofs need, and in no run.

## What is not modelled

- Parsing and conversion of protobuf messages, RTP, DTLS and ICE parameters, and logging.
- `set_rtp_capabilities` and `get_router_rtp_capabilities`: nothing reads what the
  one stores (`create_consumer` uses the capabilities in its request), and the
  other reads a constant of the router.
- The codec table, addresses and the log level in the configuration, and how it
  is read.
- mediasoup, tonic, actix and tokio, except for what the code here relies on: an
  object closes with its last reference, its router, or its producer; a call
  whose client leaves is dropped; `Mutex` is fair. The worker of a router may
  die, but one that lives answers.
- A registration whose response is lost leaves a session behind that nobody can
  close but a shutdown; the model has such sessions, but the code promises
  nothing about them.
- Several sessions in `SfuEvents`: senders are keyed by session, so sessions
  share the mutex only, which `SfuLifecycle` has.

## Plan

What is left:

1. That what `SfuEvents` says of its one session holds of several, with the
   mutex between them: that a session is left alone by the events of another.
2. What follows from the abstract specifications alone, proved of them once: that
   a session has two participants at most and stays on its router
   (`SessionService`), and that what is read was put, in order (`EventStreams`).
