# Formal verification of the dead-reckoning navigation system

This directory holds TLA+ models of the system in this repository, the TLC
configurations that check them on small instances, and theorems about them
whose proofs TLAPS checks. Source paths are relative to the repository root.

- [Running it](#running-it)
- [The system](#the-system): inventory of components
- [Modules](#modules): which module models what, and how
- [Runs](#runs): what is checked, the bounds, fairness
- [Proofs](#proofs): what holds for every value of the constants
- [Disagreements](#disagreements): where code and its comments part
- [Left out](#left-out) and [Plan](#plan)

## Running it

    tlc -config RingBuffer.cfg MCRingBuffer        # likewise for each .cfg below
    tlapm RingBufferProofs.tla                     # likewise for each *Proofs module

`PROJECT.json` lists every run with its module and configuration, the source
lines each definition models (`map`), for each property a small bug in the
model that breaks it (`mutants`; the definitions marked "Slip" in the modules),
the hazards the properties are for, and the theorems.

## The system

A vehicle's position is kept alive when GNSS is lost. The repository holds
four programs that do not share code: a Flutter application with a C++ core, a
TypeScript navigation engine, a FastAPI backend, and a notebook that trains the
application's networks, with the script that runs its cells.

### Components, their state and what makes them correct

| Component | Source | State | Operations | Correct when |
|---|---|---|---|---|
| Sensor ring buffer | `cpp-core/include/sensor/ring_buffer.h` | slots, atomic head and tail | push (producer thread), pop and clear (consumer thread) | a bounded FIFO; no slot is touched by both threads |
| WebSocket transport | `backend/src/websocket/socketServer.ts` | per connection: session id, two unsubscribe functions | start_session, imu, gnss, simulate_outage, stop_session, close | one connection is one session; none is left running |
| Session manager | `backend/src/core/sessionManager.ts` | map of sessions, listener maps, a broadcast timer per session | startSession, processImu/Gnss, tick, stopSession (awaits the store) | every session ends once and is saved whole |
| Session store | `backend/src/services/sessionStore.ts` | one JSON file, a queue of writes | list, get, save, delete | no record lost, reads are current |
| REST routes | `backend/src/routes/*.ts` | none | list, detail, delete, dashboard | they go through the store |
| Server process | `backend/src/server.ts`, `app.ts` | none | start, shutdown | what is recorded survives |
| Navigation engine: GNSS | `backend/src/core/navigationEngine.ts`, `satelliteFusion.ts`, `aiInference.ts` | anchor, filter, last fix and its quality, simulated outage | processGnss, setOutageSimulated, buildSnapshot | what snapshots claim is backed by fixes |
| Navigation engine: IMU | `.../deadReckoning.ts`, `anomalyDetection.ts` | last timestamp, distance, rolling baseline, last event | processImu | time is counted once, anomalies are real and spaced |
| Kalman filter | `.../kalmanFilter.ts` | state vector, covariance | predict, update | numerical |
| Model registry | `backend/app/services/model_registry_service.py` | table `model_versions`, object storage | register, rollback, delete | at most one active version; a binary behind each row |
| Object storage client | `backend/app/storage/object_storage_client.py` | buckets | upload, exists, delete, stream | one key, one binary |
| Live telemetry hub | `backend/app/api/websockets/*.py`, `app/core/redis_client.py` | set of WebSockets, Redis subscription | connect, disconnect, broadcast, subscribe, publish | dashboards see stored records, once, in one order |
| Drive sessions and ingestion | `backend/app/services/{session,telemetry}_service.py` and their routes | tables | create, stop, insert | a record is committed before it is shown |
| Telemetry client | `frontend/lib/core/platform/network/backend_telemetry_client.dart` | session id, counters | initialize, sendTelemetry, stopSession | what it counts is stored |
| Navigation screens | `frontend/lib/features/navigation_ui/presentation/screens/*.dart` | position and speed, GNSS lock, tests, stored preferences | GPS start-up, stream of fixes, accelerometer samples, save and load, open and close | the position shown is the one it claims to be |
| Devices, users, tokens | `backend/app/api/v1/{devices,auth}.py`, `core/security.py` | tables | register, update, deactivate, authenticate, log in | one row per device, no token for a deactivated one |
| Training pipeline | `ml/notebooks/*.ipynb`, `ml/run_pipeline_script_mode.py` | the disk: copies, datasets, checkpoints, deployed files | copy, build datasets, split, train three networks, evaluate, export, deploy | what is deployed was trained on whole tracks and is the best of its run |
| Offline tile cache | `frontend/lib/core/platform/maps/` | files | getImage, download | a cached tile is whole |

The remaining parts (maps and road network, replay and drift figures, sensor
drivers, widgets, the native interface, scripts, compiled output) are listed in
`PROJECT.json` with the reason why they are not modelled.

### How they interact

*Engine.* A device's WebSocket carries its sensor frames to the transport, which
calls the session manager, which calls the session's engine; a timer per
session takes a snapshot several times a second and hands it to the listeners of
the session's id. `stopSession` clears the timer, awaits the store's write queue,
then deletes the session by id. REST requests read and delete in the same file.
All of this runs in one Node event loop: a handler is atomic up to its first
`await`, and anything may run during one.

*Backend.* The phone's telemetry client posts a record over HTTP; the server
commits it and then either publishes it to Redis, whose subscriber task
broadcasts to the dashboards, or, if Redis did not answer at start-up,
broadcasts from the request itself. All of it runs in one asyncio loop.
Administrators' requests to the model registry meet in PostgreSQL, and so do the
devices' registrations and requests with the administrators' updates of them.

*Phone.* The dashboard stays alive under the screen that is opened on top of it.
Each takes its position from the stored preferences, from two answers of the
platform, from the stream of fixes and from dead reckoning, and both save what they show in the
same preferences. Dart runs one event at a time.

*Training.* One sequential program, run again and again over the same disk: what
an earlier run left, finished or not, is the next one's cache.

*Core.* A producer thread and a consumer thread share the ring buffer with
acquire/release atomics and no lock.

### What is hard about it

The `hazards` of `PROJECT.json` give each of these at its line. The main groups
are: state read before an `await` and used after it (`stopSession`, the file
creation of the store, `delete_model`, the walk of the connection set);
overlapping calls of a client object that nobody serialises; a file that is
truncated before it is filled, with readers outside the queue and a process
that may die; caches that a later run takes for whole; positions that arrive
late on a screen that has a better one; device clocks that are late, ahead, or go back; a committed
transaction whose follow-up fails; Redis lost between two events; and the
boundary arithmetic of the ring and of the confidence score.

## Modules

`A ⊑ B` means that A is checked to refine B.

### RingBuffer ⊑ BoundedFifo

`RingBuffer` splits `push`, `pop` and `clear` at each access to `head_`, `tail_`
and `buffer_`: the producer's position and the slot it loaded are `producer`, the
consumer's are `consumer`. Release stores and acquire loads make the steps
sequentially consistent for one producer and one consumer, which is what the
header is written for; `clear` is a consumer's operation there. `buffer_` keeps
what old packets left in their slots, so a stale read would be seen.

`BoundedFifo` is a queue of `Capacity - 1` packets with atomic put, take and
clear. The mapping reads the queue off the ring between `tail` and `head`; a push
takes effect when it publishes `head_`, a pop when it publishes `tail_`. A push
reported full, or a pop reported empty, was so when it loaded the other index.

### SessionLifecycle ⊑ SessionPromise

`SessionLifecycle` composes transport, manager and the store's queue.
`sessionId` and `open` are the connections, `sessions`, `listeners` and `object`
the manager's maps and the session objects (an object outlives its entry in the
map, as in JavaScript, where the timer's closure holds it), `writeQueue`,
`writing` and `store` the store, whose file is one map here. A message handler up to
its first `await` is one action (`StartNew`, `StartExisting`, `ImuAnomaly`,
`StopRequested`, `ConnectionCloses`, `DeleteRequested`), a timer tick another, and
the store's work two: `SaveSerialises`, where the record that holds the live
arrays by reference becomes text, and `SaveCompletes`, which writes it and runs
the second half of `stopSession` (forget whatever is under the id, then answer).
`ProcessExits` stands for a signal and for the unhandled rejection that a
failing save causes.

Ids the server makes up are the number of the object; ids of a client's choice
are `NamedIds`, of which `FalsyIds` are those the code's truthiness tests treat as
no id (the empty string). Ticks and anomalies are counted, their content is not kept.

`SessionPromise` is what a device expects: a session begins in the hands of one
connection, grows while live, ends once, and is recorded once with exactly what
it held. Only `Crash` loses one.

### SessionStore ⊑ RecordStore

`SessionStore` opens the store up to its file system calls: `access`, the creation
of the file when it is missing, `readFile`, `access` again, `writeFile` as
truncation and fill. Jobs (save, delete) run one at a time in the queue; readers
run whenever they like. Overlapping writers may leave the new text, or a mixture
that does not parse. Faults: the write of a delete fails (the request is answered
with an error, the queue goes on), and the process dies anywhere.

`RecordStore` is a map on which submitted jobs take effect one at a time, in
order; a fault may drop a job, or everything that was recorded.

`SessionLifecycle` uses the store as one atomic map per job; that this is right
with a file in place is what the refinement shows.

### NavigationEngine over ImuPipeline

One engine belongs to each session. `NavigationEngine` has its GNSS half and its
snapshots, and EXTENDS `ImuPipeline`, which has its IMU half; `Next` takes fixes
(`ProcessGnss`), samples (`ProcessImu`), presses of the outage button, snapshots and
the passing of time in any order, as the transport and the timer deliver them.
What the halves share is `anchor`: samples before the first fix never reach the
detector of anomalies.

The filter's numbers are
abstracted to the fix that last measured position, speed and heading; the
uncertainty a score is computed from is any of a small set, since the filter may
arrive at any. Fixes carry the device's clock, ahead of or behind the server's
by a constant `skew`, and arrive up to `MaxDelay` late, in order. Time is in half
seconds and scores in quarter points, so that the rates of the code (1.5 points
a second, 3 a metre, 10 for a degraded fix) are integers; `Score` rounds as
`Math.round` does and clamps to 0..100.

`ImuPipeline` has `Dt` (nothing when the clock stands or goes back), the rolling
baseline of the anomaly detector (`window`), the three severities and the
debounce. Accelerations are in tenths of m/s², timestamps are arbitrary.
`felt` is a history variable: what the detector was given since the anchor.

### ModelRegistry

One model type. A request yields at every statement and storage call: the
places `at[q]` are those points. The database is PostgreSQL at READ COMMITTED: the
update that deactivates the active row sees the rows committed when it starts,
waits for the one it found (`LockVictim`) and rechecks it, and never sees a row
activated meanwhile; the two constraints of the table (`Allowed`) then decide.
A transaction's changes become visible at its commit. Faults: database errors
before and after the commit, and a request abandoned anywhere (process death,
storage failure). `contested` is a history variable that names the two
situations in which the code does lose a binary (see below).

### Telemetry over TelemetryHub

`TelemetryHub` has the dashboards' sockets, the connection manager's set and its
broadcasts, and Redis with its subscriber. A broadcast walks the set with an
`await` at each send while connections come and go, so `SendTo` picks any member
not yet visited, and the walk is cut short (`Aborted`) when the set has another
size than at its start, as CPython raises then. `Telemetry` EXTENDS it with the
phone's client and the server's handlers: each call of the client is an element
of `Calls`, at a place `at[c]` in its code, with its request's fate in `wire[c]`, so
that a call that gave up and a request that is still on its way are separate
things.

### TrainingPipeline

The cells of the notebook in the order the script executes them, over the 44
files a run writes (`Files`): each action writes the file the run has come to
(`at`) and goes on. What lasts from run to run is `disk` (for each file, which run
wrote it last and whether to its end), `copies` of the recordings and the cleaned
`dataset`, with the metric of each network's checkpoint in `kept`. `Halt` is an
exception in a cell, which ends the script, or the end of the process; the file it was
writing may be torn. Training is epoch by epoch: `Train` is one epoch
with any validation metric, `EarlyStopping.step` and the save of an improvement;
`LoadBest` reads the checkpoint back. Features, windows, networks and their
losses are abstracted to the metric. A training takes the checkpoint that lies
there, whoever wrote it, as the code does: that it is always of the same run
is a consequence, and one of the properties.

### DeviceAccess

Devices, users and tokens at PostgreSQL's READ COMMITTED. Each request has a
session of its own (`loaded`, the row as it was loaded) and yields at each
statement: `at[q]` is where. SQLAlchemy writes only the columns that differ from
what was loaded (`Changed`). `meant` is what administrators last made of each
device, and `overlapped` names the devices two updates had in hand at once, where
the columns of both may mix. A token's subject is a row's id; tokens expire and
are never revoked. Changes of users happen in the database by hand, since no route makes
them. Requests fail anywhere (`Abandon`).

### PhoneNavigation

The `State` objects of the dashboard and of the screens opened on top of it.
A position is a fix of the platform, by number, with `moved` once dead reckoning
has added to it; latitude and longitude are kept apart because they are stored
by two calls. The start-up's places are in `gps`: permission, last known position,
current position, stream. What awaits `SharedPreferences.getInstance` is
`awaiting`; its continuations run, in order, before any other event (`Idle`), and
the platform stores values in the order they were sent (`writes`). The initial
states are all that an earlier process, ended between any two writes, may have
left on the disk. An accelerometer sample reaches both screens at once. Speeds
are those above 0.1 m/s, which move the position, and those below. `latest`,
`strayed` and `quiet` are history variables of the properties. The definitions
are named for the screens (`ScreensInit`, `ScreensNext`, `ScreensTypeOK`, `Absent`), so
that one module can hold the proofs of both halves of the phone.

### MC modules

`MCx` EXTENDS `x` with the symmetry sets and fixes of its runs.

## Runs

All runs are exhaustive. State counts are distinct states.

| Run | Instance | States | Checks |
|---|---|---|---|
| `ring_buffer` | 4 slots, 2 packets | 100k | no slot race, refines the FIFO |
| `session_generated` | 2 connections, 2 sessions, 2 queued jobs, 2 ticks and anomalies, exit | 118k | held = live both ways, refines the promise, ended sessions get recorded |
| `session_shared` | the same with one id of the clients' choice, 1 tick and anomaly | 442k | what survives shared ids |
| `session_store` | 3 jobs, 1 reader, 2 ids, faults | 167k | no lost record, current answers, jobs end, refines the map |
| `navigation_engine` | 5 kinds of fix, 3 skews, delay 1, 5 ticks, timeout 2, 1 sample | 1.7M | honest heading, fusion and confidence |
| `imu_pipeline` | the same engine with 5 samples, times 0..4 in any order, window 3, 1 kind of fix | 802k | types, spacing, baseline |
| `model_registry` | 4 requests, 2 versions | 221k | types, one active, replaced atomically, binaries |
| `registry_delete` | the same | – | *violation*: the active version is deleted |
| `telemetry` | 2 calls, 2 dashboards, with and without Redis | 526k | types, counted ⊆ stored, shown ⊆ stored, once, one order, nobody left out |
| `training_pipeline` | 2 recordings, 2 runs, 1 to 3 epochs, 3 metrics | 150k | types, nothing older than its origin, best networks, whole tracks |
| `device_access` | 2 requests at a time, 1 device, 1 user name, 2 row ids, 1 model | 537k | types, unique rows and owned tokens, lasting updates, no token when deactivated |
| `phone_navigation` | dashboard and 1 screen, 2 fixes, 2 still samples, 2 saves at once | 3.1M | types, saves settle, a lock shows a fix, a stop takes still samples in a row |

The type invariants of `RingBuffer`, `SessionLifecycle` and `SessionStore` are
proved (`TypeCorrect`) and not repeated in the runs.

### What each run shows and why its bounds are enough

**ring_buffer.** Four slots are the least with more than one free slot and a wrap
in the middle of a burst; the values cycle through every slot, so every
combination of head, tail and points in the two operations is reached, several
wraps included. Two kinds of packet are enough to tell order and staleness. No
bound on the number of operations. `NoSlotRace` and the refinement of the FIFO are also
proved for every capacity.

**session_generated.** No client chooses an id. `HeldSessionIsLive` and
`RunningSessionIsHeld` say from both sides that connections and running timers
match. They are violated by an await in the wrong place, a second `endSession`
from the close of a stopping socket, or a close that does not stop. `KeepsPromise`
relates all of it to the abstract life of a session: whatever is pushed into the
live arrays while the save waits, and whatever delete arrives meanwhile, the
record is exact and written once. Two connections and two sessions suffice for
every pair of overlapping stops; a queue of two holds a save behind another job.
The pair and the promise are proved for any number.

**session_shared.** Clients may name the same id at the same time and again
after it ended. Listeners never outlive their session, and no tick is appended to a track
that has been written. `ListenersBelong` exempts falsy ids, for which the code never unsubscribes.

**session_store.** Starts with a file, or without one but with no reader until it
is there (`EarlyReaders = FALSE`). Three jobs are one running, one to be lost by
it and one behind; one reader, restarted at will, meets every state.
`AnswersAreCurrent` says a reader is answered with a state that was current
while it was at work or with the empty list (the fallback for a half-written
file), and `RecordsKept` that between writes the file is what the finished jobs
amount to since a write was last cut short.

**navigation_engine.** Timeout 2 within 5 ticks allows a fix, its expiry and a
second fix; a skew of 2 is the whole timeout, a delay of one tick less than it.
The five kinds stand on both sides of each threshold (satellites 4/5, HDOP 4/5,
speed, bearing). Uncertainties 0, 7 and 34 m put the score at its cap, inside and at
its floor. `NoFusionWithoutFixes` is stated for device clocks that are not ahead:
with a clock ahead, the code extends the timeout by the difference.
`ConfidenceNeverRisesUnseen` exempts snapshots in degraded mode: there the score
does rise when the fix expires (10 points give way to less).

**imu_pipeline.** The whole engine, with the clocks at rest and the fixes, the button
and the snapshots anywhere between the samples. Five samples fill a window of three, drop two and leave room for
three anomalies; the magnitudes 0, 40 and 120 reach no, each, and the highest
severity against every baseline; times repeat, go back and jump.
`AnomaliesAreSpaced` holds for clocks that go back, too. `BaselineIsRecent` relates the
window to everything felt since the anchor. All three are proved for every window,
interval, magnitude and order of timestamps.

**model_registry.** Two versions and four requests allow an active version, two
writers that contend for its place and a delete, at every point of each other,
with failures anywhere. `OneActive` and `ActiveIsReplaced` are the comments
"ensuring only one active version" and "Atomically deactivate";
`BinariesBehindRows` says that every row has the bytes its checksum was computed
from, outside the contested cases.

**telemetry.** Two calls are two frames that overlap, a frame and the stop or the
second start of a session, or a frame's own start of a session with another's.
Two dashboards are the least for an order to disagree on and for one to leave
while another is served. Three calls go beyond what TLC does in minutes; all six
properties are proved for any number of calls and dashboards.

**training_pipeline.** Two runs are one that leaves something, finished or cut
short at any file, and one that finds it; a third meets nothing a second does not
meet, for the files forget all but their last writer. The two recordings are one that
passes the integrity gate and one that does not without the other. Trainings of
up to three epochs with patience 2, 1 and 1 end by patience and by exhaustion, and
three metrics contain an improvement smaller than `MinDelta` and one larger.
`WrittenInOrder` says that the metadata of the deployed models, written last,
never describes networks of an earlier run; `NetworksAreBest` that what is
evaluated and exported are this run's best weights; `TracksAreWhole` that no copy
cut short gets into the dataset. All of them are proved for every number of
recordings, epochs and runs.

**device_access.** Two requests, each of which may be followed by any other, meet
at every pair of statements: two registrations, a registration or a request and
an update, an update and the deletion of its model, two updates. Two row ids let
one row exist while a second one is asked for; a request in a slot may
begin again without bound. `ReferencesHold` relates rows, tokens and models;
`UpdatesStay` says that only an administrator undoes what an administrator did.
All its properties are proved for any number of requests, rows and models.

**phone_navigation.** Fix 1 is the one an earlier process may have stored, fix 2 a
new one; two fixes are the least of which latitude and longitude can mix.
Saves of both screens overlap (`MaxSaves = 2`). Two still samples instead of the
code's three keep the difference between one and enough of them. `LockedShowsFix` exempts, by
`strayed`, the two situations in which the code does claim a lock and show
something else (see below). All four properties are proved for any number of
sessions, fixes, still samples and overlapping saves.

### Deadlock

Deadlock is checked in `ring_buffer`, the two session runs, where a delete
can always be requested, `navigation_engine`, `imu_pipeline`, `device_access` and
`phone_navigation`. It is switched off where the instance
really comes to an end: all jobs submitted and finished (`session_store`), all
requests answered (`model_registry`), all calls made and every socket gone
(`telemetry`), all runs made (`training_pipeline`).

### Fairness

Two runs check liveness. `session_generated` assumes weak fairness of the store's
work alone (`StoreStep`): Node serves the callbacks of file system calls that have
returned, whatever else is going on. Clients, ticks and deletes are not assumed to
do anything. Under it a session no open connection holds is eventually recorded,
or lost with the process. `session_store` assumes the same at its finer grain:
each job's own calls return. Readers are not assumed fair. Nothing else in the
project assumes fairness.

## Proofs

TLAPS proves every obligation of the eight proof modules. They hold for every
value of the constants that satisfies the named assumptions of the modules
(`CapacityAssumption`, `IdAssumption`, `BoundAssumption`, `StoreAssumption`,
`FileAssumption`, `EngineAssumption`, `RegistryAssumption`, `HubAssumption`,
`TelemetryAssumption`, `ScreenAssumption`, `PipelineAssumption` of the IMU samples and of
the training, `AccessAssumption`, `RowAssumption`), which TLC evaluates in the runs.
Most of them only say that the number or null that stands for nothing is none of
the things it is compared with.

| Module | Theorems | Further assumption | Inductive invariant |
|---|---|---|---|
| `RingBufferProofs` | `TypeCorrect`, `SlotSafety`, `Refinement` | none | `Inv` |
| `SessionLifecycleProofs` | `TypeCorrect`, `NoDeadSession`, `NoStrayListener`, `WholeTracks` | none | `Inv`, `Whole` |
| (the same) | `GeneratedHeldIsLive`, `GeneratedRunningIsHeld`, `GeneratedRefinement` | `NamedIds = {}` | `GInv`, `PInv` |
| `SessionStoreProofs` | `TypeCorrect`, `NothingClobbered`, `ReadersSeeTheStore`, `Refinement` | `~ EarlyReaders` | `Inv` |
| `NavigationEngineProofs` | `TypeCorrect`, `TrustedHeading`, `HonestMode`, `FreshFusion`, `NeverRisesUnseen`, `SpacedAnomalies`, `RecentBaseline` | none | `Inv` |
| `ModelRegistryProofs` | `TypeCorrect`, `AtMostOneActive`, `NoRowWithoutBinary`, `Replaced` | none | `Inv` |
| `PhoneProofs` | `TypeCorrect`, `NothingMiscounted`, `NothingInvented`, `NothingTwice`, `OneOrder`, `NobodyLeftOut` | none | `Inv`, `Order`, `Served` |
| (the same) | `ScreensTypeCorrect`, `LocksShowFixes`, `StopsInARow`, `SavesSettleDown` | none | `ScreensInv`, `SavesInv` |
| `TrainingPipelineProofs` | `TypeCorrect`, `Ordered`, `BestNetworks`, `WholeTracks`, `SplitsPartition` | none | `IInv` |
| `DeviceAccessProofs` | `TypeCorrect`, `References`, `LastingUpdates`, `NoTokenWhenDeactivated` | none | `Inv` |

*Ring buffer.* `NoSlotRace` needs to know that a producer past its test still has
room though `tail_` moved since, and a consumer past its test still has a packet.
`Inv` adds that each thread's loaded index is the present one, that the test's
result stays true, and, for `clear`, that the head it loaded is not beyond the
present head as seen from the tail (`Dist`), so that storing it to `tail_` only
frees slots. For `Refinement` it is also `Known` which packet each slot between the
two indices holds; `Reads` gives the contents of the queue without remainders, so
that publishing a push appends a packet, releasing a pop takes the first, and a
`clear` discards a prefix.

*Session lifecycle.* That a stopped session is still being saved is preserved by
a job's completion only if the entry removed is the one whose save completed;
`IdsAgree` says queued saves and entries of the map carry the id of their object.
A written track stays whole because of what no step does: `StoppedStay` says that no
timer starts again and that only running timers append, `Whole` that queued saves,
the record being written and those on disk are of stopped objects.

*Generated ids.* `OneToOne` adds that an object's id is its number, that
connections hold distinct, running, registered objects, that running objects are
held, and that a queued save is never of a running object. The last one is what
fails with shared ids and leads to the leak. The refinement needs `Once` as well: no
session is queued twice or again after it was recorded, and its record lies under its own
number. It has one lemma per step: a start is `Begin`, a tick or an anomaly `Grow`,
a stop or a close `End`, a save `Persist`, a delete `Discard` or nothing, the
process's death `Crash`; serialising and asking for a delete are stutters.

*Session store.* `Shape` says that only a job creates the file and only the
running job truncates it; `Current` that the file is what the finished jobs amount
to and that a job past its read has read exactly that; `Met` that a reader at
work has met the present state. With readers before there is a file, `Shape` fails at
once. `Refinement` maps each step to `Accept`, `Apply`, `Fail`, `Crash` or a stutter;
the liveness part `JobsEnd` is not in it.

*Navigation engine.* `FixIsNotYounger` bounds the stamp of the last fix by its
arrival on the device's clock, which with a skew of at most zero gives
`FreshFusion`; `SnapshotIsEarlier` says that since the last snapshot, if nothing
changed, only the age has grown, which makes the comparison of two snapshots a
comparison of two scores. The theorem about confidence includes the arithmetic of the rounding
for every uncertainty. Of the samples, `AnomaliesAreSpaced` needs that the debouncing
counts from the anomaly reported last (`LastEventIsLast`): that the timestamps of samples
go back does not matter, since a sample before the last event is too close to it.
`BaselineIsRecent` is inductive by itself: one more sample moves the window
along by one, or lengthens it while it is not full.

*Model registry.* `OneActive` and the uniqueness of versions follow from the table's
constraints (`Allowed`), which every committed table satisfies. That no step leaves
the type without an active version needs `VictimsAreReplaced`: only a request that
activates something has a row to deactivate. `BinariesBehindRows` needs three
facts about the requests in flight with an uncontested version: there is at most one
writer (`WritersAreContested`), an upload finds no row of its version before its
commit and its own binary after its upload (`UploadsAreAlone`), and a delete removes
the version's only row before it touches the binary (`DeletesAreAlone`). Each
failure may strike at any place; none of the facts survives the two contested cases.

*Telemetry.* What a dashboard has been sent came from a round, which began with
an event from the inbox or from a handler past its commit: `EventsAreStored` and
`FramesAreRecorded`. That a counted frame stays recorded where it was posted needs to
know that nothing of it is on its way any more, which in turn needs the agreement
of a request with the place of its call (`WireAtPlace`), that a handler that
broadcasts has not answered (`RoundsAreAwaited`), and that sessions named in
requests exist (`SessionsExist`). `NothingTwice` follows an event from place to
place: `NotYetSent` says that until its round begins it is in one place only and nobody
has been sent it, `VisitedOnce` that a round does not come back to whom it has sent
it. In `OneOrder` the event of the subscriber's round is the last one anybody was
sent (`LastOfRound`), so that no dashboard has it before an earlier one. `NobodyLeftOut`
needs no order of events but the progress of a round: `Served` says that everyone it
has come to has its event or is stale. A round that is not cut short ends
only when it has come to everyone who was there from its start, and takes the
stale ones out of the set.

*Phone screens.* That a locked screen shows a fix is kept by more than the property
says: `FixIsKept` has it in a tunnel test, too, from which the button could otherwise
return to a dead-reckoned position. `CounterIsQuiet` ties the code's counter to the number of
still samples in a row; it holds for sessions, which have one outage each, and not
for the dashboard. `LoadedFirst` says that nothing is written before the
preferences are loaded. The saves are followed along their way (`SavesInv`):
the last one that has not begun is of the fix last shown or, if all have begun, the
latitude in memory is (`NewestSave`); the last write of each key is of its value
in memory or, if none is on its way, the disk has that value (`Written`); and when all
latitudes are stored the longitude in memory is of the same fix (`Paired`), because the
platform stores values in the order they were sent. When nothing awaits and nothing
is written, the three together are `SavesSettle`. What is last in a queue of several kinds
is the business of two lemmas about sequences, `LastOfAppended` and `LastOfTail`.

*Training pipeline.* `WrittenInOrder` is kept because a run writes its files in
order: `Progress` says that every file before the place of the run under way
is whole and of this run, and no file is of a later one. `LoadBest` reads the
checkpoint at its own place, so that `NetworksAreBest` needs to know that it is
of this run as soon as one epoch was trained, and that `kept` is the best metric
(`Trained`): the first epoch of a training always improves on nothing. `Copied`
says that copies are whole from the dataset's making on. The last
theorem is about the splits alone: for every sequence of more than three tracks
the three sets put together are the sequence.

*Device access.* `Fits` ties what a request asks for and the row it has loaded to
its place, and says that the row's id and name are still those of a row: rows are
never removed, and neither column is ever changed. `TokensHaveRows` follows, and
with it that the row read again after a registration's commit exists.
`UpdatesStay` is kept because an update that overlapped no other has loaded what is
committed (`StillLoaded`), but for a pin whose model was deleted meanwhile, which
an update to the same model leaves at nothing; `Undisturbed` says that such an
update is alone with its row.

*Only model-checked:* the two liveness properties, `EndedSessionsAreRecorded` and
`JobsEnd`, since TLAPS offers no reasoning about fairness here, and the run that
shows a disagreement. Every invariant and action property of a passing run is a
theorem.

## Disagreements

One run shows the code doing otherwise than its own text says; `findings` in
`PROJECT.json` quotes it.

- **registry_delete** (`model_registry_service.py:242`). `delete_model` removes a
  version that a rollback has activated since it was read.

Met while modelling. Those the models contain appear as exemptions, constants or
history variables; the others were read in the code.

*Engine.*

- A `start_session` for an id whose save is in progress joins the dying session,
  and is left with an id that has no session. When a third start has created
  a session under the id meanwhile, the second save's completion removes that
  one, and its timer runs for ever (`sessionManager.ts:104`).
- A session with the id `''` is never stopped; a second start replaces its
  unsubscribe functions.
- Without a data file, a list request that found it missing writes the empty
  list after the first save has finished (`sessionStore.ts:21`; the constant
  `EarlyReaders`).
- A fix that is the session's first is used although an outage is simulated
  (`navigationEngine.ts:95`); it sets the heading at any speed and shows FUSION
  whatever its quality. Confidence rises when the last degraded fix grows stale.
- When a sample's clock goes back, the time until it is level again is counted twice.

*Backend.*

- The registry's cleanup deletes by key: after a conflict between two uploads of
  a version it deletes the winner's binary, after a failed read-back its own
  (`contested`).
- A broadcast is cut short when a dashboard joins or leaves during it. Without
  Redis the committed record is then answered with an error, and broadcasts of two
  requests may reach two dashboards in different orders.
- Two updates of a device that overlap mix their columns (`overlapped`).

*Phone.*

- The client's calls overlap: frames that tick during `initialize` start sessions of
  their own which stay active; one screen's close stops the session the other
  sends to; the server accepts records for stopped sessions. A frame that is
  given up is dropped, though the file's comment (line 20) has the client buffering, and
  may be stored all the same.
- The lock (`_hasGpsFix`) is never given up. A cached position that is loaded
  late replaces a fix under the lock, and after a tunnel test the lock is
  claimed for a dead-reckoned position until the next fix (`strayed`).
- The start-up's answers are shown in a tunnel test, too, though the message
  announces "Pure INS Propagation".
- A screen opened from the dashboard before the first fix is given dead
  reckoning as its mode, which it takes for a tunnel test that nothing ends
  (`active_nav_screen.dart:102`): it ignores the stream of fixes as long as it lives.
- A screen that is closed during its start-up listens to the stream afterwards,
  and nothing cancels that subscription.
- The dashboard's counter of still samples survives the end of an outage and goes
  on in the next one.
- Latitude and longitude are stored by two calls: a process that ends between
  them leaves a position that is of two fixes.

*Training.*

- `--force-reprocess` has no effect: a cleaned dataset is always taken, so that
  new recordings never reach it, and it is filtered again in each run. A dataset cut short
  stops every later run, as it is found and cannot be read.
- With two or three tracks the test set is the validation set, though the
  splits are called leak-free (`ml/README.md:29`).
- The last network's R² is computed from the last epoch's outputs, not from the
  weights that were loaded. The anomaly detector is saved untrained with a
  constant accuracy; the TFLite files hold a header and zeros.

## Left out

- The numbers of the Kalman filter, of the map matching and of the drift figures:
  real-valued algebra, out of reach of both tools.
- `getSnapshot` (REST polling) of the engine, replay over the dashboard's socket,
  the batch endpoint that no client calls, list and summary queries: they change
  nothing the properties tell apart.
- Backoff lengths and timeouts as durations: a timeout may fire at any time.
- Malformed frames, authentication, wording, logging and layout.
- The screens' compass filter and list of road events; the tile cache (planned, below),
  whose tiles are written in place.
- The networks, features and plots of the training; only what decides which files
  and weights there are is modelled.
- Weak memory beyond release and acquire; several producers or consumers, which
  the ring buffer does not support.

## Plan

Order of work, the most important behaviour first; all but the last are done.

1. `RingBuffer` ⊑ `BoundedFifo`.
2. `SessionLifecycle` ⊑ `SessionPromise`: the engine's sessions.
3. `SessionStore` ⊑ `RecordStore`: the engine's file.
4. `NavigationEngine` and `ImuPipeline`: what a session computes.
5. `ModelRegistry`: transactions and storage.
6. `Telemetry` over `TelemetryHub`: phone to dashboards.
7. `TrainingPipeline`: what is deployed, over runs cut short.
8. `DeviceAccess`: registrations, updates, tokens.
9. `PhoneNavigation`: what the two screens show.
10. `TileCache`: concurrent loads and writes cut short, with a restart.

The proofs have caught up with the runs. What would say more: that the store's map
in `SessionLifecycle` may be replaced by `SessionStore` as a theorem of the two
together (now the refinement of each is proved), and proofs of `TileCache` once it is there.
