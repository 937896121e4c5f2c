# TLA+ models of TensorFlow Serving

The repository holds TensorFlow and, in `src/tensorflow_serving/`, TensorFlow
Serving.  This project models the concurrent parts of the serving system: how
versions of models are found, loaded, served and unloaded while clients use
them, how the configuration of a running server is changed, and how requests
are put into batches.  `PROJECT.json` lists components, runs, faulty variants,
the correspondence of definitions and source lines, findings, hazards and
theorems.

Paths below are relative to `src/tensorflow_serving/` unless they begin with
`tensorflow/`, which is relative to `src/`.

## 1. The system

| Part | State | Operations | What is hard about it | Module |
|---|---|---|---|---|
| `core/basic_manager`, `core/loader_harness`, `util/retrier` | `managed_map_`, harness states, serving map, executors, three mutexes, a counter | manage, load, unload, stop managing, cancel retries, set number of load threads, get handles | two phases under three mutexes; a load waits for resources with the decision mutex held; harness pointers are used without `mu_`; the map update blocks on client handles | `BasicManager` |
| `util/fast_read_dynamic_ptr.h` | current wrapper, reference counts, notifications | `get`, release, `Update`, destruction | readers come and go while two updates wait | `FastReadDynamicPtr` |
| `resources/*` | used and total resources | reserve, recompute; arithmetic on bound and unbound resources | an approval has to hold wherever earlier reservations end up | `ResourceTracker`, `ResourceUtil` |
| `core/aspired_versions_manager`, policies | pending requests, aspired flags, manager thread | set aspired versions; flush, handle requests, invoke the policy | decisions on stale snapshots; re-aspired versions; availability across a switch | `AspiredVersionsManager` |
| `core/caching_manager` | map of load mutexes | get a handle, loading on demand | entries are erased while requests still wait for their mutex | `CachingManager` |
| `model_servers/server_core`, `sources/storage_path`, `core/dynamic_source_router.h`, adapters, `core/servable_state_monitor`, `core/load_servables_fast` | configuration, polling thread, routes, states seen | reload, poll, route, wait until available | reconfiguration in several steps that can fail, while the source polls | `ServerCore`, `FileSystemStoragePathSource`, `DynamicSourceRouter` |
| `tensorflow/core/kernels/batching_util/shared_batch_scheduler.h` | queues of batches, scan position, batch threads | add queue, schedule, scan, process, close | three critical sections per queue in a scan that erases queues | `SharedBatchScheduler` |
| `batching/streaming_batch_scheduler`, `batching/batch_scheduler_retrier.h` | open batch, thread pool, batch closer | schedule with retries, close by size or timeout, destroy | timeouts race sizes; shutdown with work queued | `StreamingBatchScheduler` |
| servables, BatchingSession, request logging, model server, APIs | - | conversions, I/O | sequential | - |

How they interact.  `ServerCore::ReloadConfig()` builds and changes a pipeline:
the storage path source polls base paths and calls `SetAspiredVersions()`, the
router sends each model to the adapter of its platform, the adapters hand
loaders to AspiredVersionsManager.  Its thread turns requests into calls on
BasicManager, which runs loads and unloads on executors, keeps resources within
the pool, replaces the serving map (a FastReadDynamicPtr) and publishes states
on the event bus; ServerCore waits for these.  Clients take handles out of the
serving map.  CachingManager is another owner of a BasicManager.  The batch
schedulers sit beside all this, between request handlers and sessions.

How the modules compose:

- `AspiredVersionsManager` and `CachingManager` EXTEND `BasicManager` and take
  the place of its free owner.
- `AspiredServables` is what AspiredVersionsManager promises to sources and
  subscribers.  AspiredVersionsManager implements it (checked and proved), and
  `ServerCore` is modelled on top of it, together with
  `FileSystemStoragePathSource` and `DynamicSourceRouter`.
- `PatientOwner` is BasicManager with an owner that waits for its requests;
  CachingManager implements it (proved).
- `DynamicPtr` is what FastReadDynamicPtr promises (checked and proved).
- `BatchScheduler` is what the interface of that name promises; both schedulers
  implement it (checked and proved).

## 2. Modules

### `BasicManager` (with LoaderHarness, ServingMap, Retrier)

State: `state[i]` is the harness state of servable `i` (`kUnmanaged` if it is
not in `managed_map_`), `serving` the current handles map, `held`/`stale` the
clients' handles and which of them belong to a replaced map, `mu` and `decider`
the two mutexes, `accepted`/`scheduled` the requests on their way to a thread,
`pc`/`job`/`tries` what each executor thread does, `ongoing` the counter,
`load_pool`/`resizing` the load executor, `event` the last published state.

A critical section of `mu_` that cannot block is one step.  The exceptions are
modelled step by step: `UpdateServingMap()` reads the states
(`BeginUpdateServingMap`), swaps the map (`SwapHandlesMap`) and waits for the
old handles (`EndUpdateServingMap`) with `mu_` held; `ReserveResources()` waits
without `mu_` and with the decision mutex.  `load_executor_mu_` is held while a
load runs inline and while `SetNumLoadThreads()` drains the old pool.

| Code | Actions |
|---|---|
| `ManageServable*`, `StopManagingServable`, `LoadServable`, `UnloadServable`, `CancelLoadServableRetry` | the same names; a refused call changes nothing and is no step |
| `load_executor_->Schedule()` | `ScheduleLoad`, `Start` |
| `SetNumLoadThreads` | `SetNumLoadThreads`, `LoadExecutorReset` |
| `HandleLoadOrUnloadRequest`, `ApproveLoadOrUnload`, `ReserveResources` | `EnterDecisionPhase`, `ApproveLoad`, `RejectLoad`, `AwaitResources`, `SpuriousWakeup`, `ApproveUnload` |
| `ExecuteLoad`, `LoaderHarness::Load`, `Retry` | `BeginLoad`, `LoadSucceeds`, `LoadFails`, map update, `AnnounceAvailable` |
| `ExecuteUnload`, `LoaderHarness::Unload` | map update, `BeginUnload`, `EndUnload`, `AnnounceEnd` |
| end of `ExecuteLoadOrUnload` | `Finish` |
| handles | `GetUntypedServableHandle`, `GetAvailableUntypedServableHandles`, `ReleaseHandle` |

Abstractions: one bound resource, counted in units; a loader is its two
estimates (before and after `Load()`) and a free choice of success; a request
for the latest version may get any version in the map; the cancel flag is kept
only as long as the `Retry()` of `Load()` can act on it (the one in
`ReserveResources()` runs with `mu_` held, so nobody sets the flag meanwhile).

`PatientOwner` restricts the owner: it waits for the done callback of a request
before it calls again for the same servable.  The order of events holds for
such an owner only (see the remarks in section 4).

### `ResourceUtil` and `ResourceTracker`

`ResourceUtil` has the arithmetic of `resource_util.cc` as operators on
functions from resources (a device and an instance, or Unbound) to quantities.
The kind of a resource is part of the device here.  `ResourceTracker` is the
tracker with the servables that use it: `ReserveResources(s)` recomputes the
used resources and then reserves, as BasicManager does with `mu_` held; `Load`,
`Release` and `Shrink` are what loaders do, within the requirements of
`core/loader.h` (estimates do not grow, before or after the load; a loaded
servable names its instances).

An allocation that names the only instance of a device in one entry and leaves
it out in another is left out (`AllocationsAssumption`), and quantities are
taken not to reach 2^64: see the remarks.

### `AspiredVersionsManager` (with both policies) and `AspiredServables`

EXTENDS BasicManager and replaces its free owner by sources, which stage
requests (`EnqueueAspiredVersionsRequest`), and by the manager thread.  `phase`,
`visit` and `calls` are the place of that thread: each call on BasicManager
takes `mu_` for itself and is a step.  `aspired` are the `is_aspired` flags,
`pending` the staged request of each stream, `latest` the last one processed (a
history variable, used by properties and not by any guard), `actions` what the
policy returned so far in this round.  `AvailabilityPreservingPolicy` and
`ResourcePreservingPolicy` are operators on the snapshot of a stream; `First`
is the order of `CompareActions`.

The snapshot of a stream is one step although executor threads may change
harness states without `mu_` while it is taken.  Such changes concern different
harnesses and are independent of each other, so a snapshot taken piece by piece
is the state of another interleaving of the same steps.

`AspiredServables` keeps the pending requests, what is wanted, managed and
aspired, and the last event of each servable, and forgets how loads and unloads
are done.

### `CachingManager`

EXTENDS BasicManager.  `at[c]` is the place of a client's request: `GetCachedHandle`,
`FindLoadMutex`, `LockLoadMutex`, `GetManagedServableStateSnapshot`,
`ManageLoader`, `RequestLoad`, `WaitForNotification`, `UnlockLoadMutex`,
`ResetLoadMutex`, `MaybeEraseLoadMutexMapEntry`, `GetLoadedHandle`.
`load_mutex_map`, `servable_id_mu` and `locked` are the map, the references that
`unique()` counts and the holders.  The loader factory may return an error.

### `FileSystemStoragePathSource`, `DynamicSourceRouter` and `ServerCore`

The source: `source_config` is `config_`, `found` what a poll has yet to hand on
(while it is not empty the poll holds `mu_`), `children` the file system.  The
three version policies work on children whose names need not be numbers and
need not be in numerical order; two names may stand for one number.

ServerCore: `config`, `pipeline` (none, made, connected, stowed), `reload` (how
far the running `ReloadConfig()` is; `config_mu_` allows one at a time),
`new_models`, `monitor` and `answer` (the ServableStateMonitor it waits with),
`port` (the adapter a model's versions come through), and the state of
AspiredServables.  `ReloadConfigOnly` is a reload that keeps its config and
fails before it has any other effect; the others take these steps:
for a first list `ReloadFirstList`, `ConnectAdaptersToManager`, `WaitReturns`;
for later ones `ReloadNextList`, `AddNewRoutes` (or `OldAndNewRoutesConflict`),
`ReloadStoragePathSourceConfig`, `RemoveOldRoutes`, `WaitReturns`.  `Poll` and
the steps of the manager come in between.  `phase` is what the manager has done
with a servable.  Most of the time it is announced in the same step
(`Announce`); as kAvailable and kEnd are published without a lock, the thread may
also be held up (`Delay`, `delayed`) and announce it after whatever has happened
to the servable since (`AnnounceLate`), so that the monitor may hear events late
and in the wrong order.

### `Batch`, `BatchScheduler`, `SharedBatchScheduler`, `StreamingBatchScheduler`

`Batch` has the operators on batches.  `BatchScheduler` says what a scheduler
promises: tasks it accepts wait in line, batches are taken from the front and
are not too large, the destructor returns when everything is processed.

SharedBatchScheduler: one step of the module runs under the mutex of one queue;
a scan of `ThreadLogic()` asks each queue three times (`BeginScan`,
`ScheduleBatch`, `Advance`) with the scheduler's `mu_` held, and clients get in
between.  `notifying` are calls of `Schedule()` between the queue's critical
section and the callback that wakes threads up.  `elapsed` abstracts from time.
`SharedBatchSchedulerInterface` maps each queue to a BatchScheduler of its own:
its line is what its batches hold, one after the other.

StreamingBatchScheduler: batches are named by `open_batch_num_`; the thread
pool runs their closures in any order (`BatchStarts`, `CallbackReturns`,
`ClosureEnds`); the batch closer picks up its task and invokes it in separate
steps (`PickUpUpdatedTask`, `NoUpdatedTask`, `CloseBatch`), so that it can be
overtaken; the retrier's attempts are `ScheduleAccepts`, `ScheduleUnavailable`
and `RetryBudgetEnds`.  `MaxBatchNum` bounds the number of batches.

### `FastReadDynamicPtr` and `DynamicPtr`

`FastReadDynamicPtr` is the code: wrappers with a reference count and a
notification, `Update()` in four steps (`BeginUpdate`, `Swap`, `DropReference`,
`EndUpdate`), the destructor, which ends in the same two steps, `get` and
`ReleaseReadPtr`.  A wrapper may hold a null pointer if `NullAllowed`.
`DynamicPtr` says that a replaced object is given back when nobody reads it.
BasicManager's `stale` and `HandlesReleased` are DynamicPtr's promise for the
handles map, which is never null and is updated under `mu_` only.

### Faulty variants

Definitions marked `faulty` are not used.  Each is what the definition after it
would be with a plausible bug; `PROJECT.json` pairs it with a property that then
fails.

## 3. Runs

Passing runs (distinct states; time with two workers):

| Run | Instance | Checks |
|---|---|---|
| `manager_pool` (759,974; 60 s) | 2 servables, of which one fits while loading; loads inline or on 2 threads, changed at any time; 1 unload thread, 1 client, any owner | `HandlesAreLive`, `ResourceBound`, `HarnessAsExpected`, `NoLostWakeup`, `StaysAvailable` |
| `patient_owner` (11,104; 110 s) | 2 load threads, 1 unload thread, 1 client, 1 retry, failing estimates, fairness | `EventsTellState`, `EventsMoveForward`, `RequestsSettle` |
| `resource_tracker` (361,951; 80 s) | devices with 1 and 2 instances, 3 servables, 6 estimates (bound, unbound, both, too large, invalid), 3 totals of which one is refused | `ApprovalIsGuarantee`, `ReservationsFindRoom` |
| `aspired_pool` (28,700; 105 s) | 2 versions, availability policy, 1 load thread, 1 retry, fairness | `CallsAccepted`, `NoSpontaneousUnload`, `StreamStaysAvailable`, `StreamsSettle` |
| `aspired_live` (16,864; 70 s) | 2 versions, one aspired to at a time, resource policy, loads in the manager thread, 1 unload thread, 1 client, fairness | `OldVersionsUnloadFirst`, `RequestsProcessed`, `ImplementsAspiredServables` |
| `fast_ptr` (3,097; 3 s) | 3 wrappers, 3 readers, 2 updaters, no null pointers, fairness | `DeletersFindTheirWrapper`, `ImplementsDynamicPtr`, `UpdateReturns` |
| `caching_manager` (80,155; 55 s) | 3 clients, 2 servables, 1 load thread, fairness | `LoadsAreExclusive`, `LoadedIsServed`, `CallsReturn` |
| `server_core` (71,948; 100 s) | 2 models, 5 configs, up to 3 reloads and 1 change of the file system, 1 announcement held up at a time, fairness | `NothingIsMisrouted`, `PlatformIsKept`, `FirstReloadReturns`, `SourceCatchesUp`, `RemovedModelsUnload` |
| `shared_batch` (85,635; 130 s) | 2 queues, one with a zero timeout, 3 tasks, 2 batch threads, fairness | `UsedQueuesExist`, `EmptyNotificationIsSound`, `NoLostWakeUp`, `CapacityIsGuaranteed`, `ImplementsBatchScheduler`, `AcceptedTasksAreProcessed`, `DestructorsReturn` |
| `streaming_batch` (8,199; 15 s) | 3 tasks, 2 threads, batches of size 2, at most 3 batches, fairness | `OpenBatchWillBeClosed`, `NoBatchAfterDestruction`, `TasksHaveThreads`, `ImplementsBatchScheduler`, `WorkComesToAnEnd` |

The comment above each property says what it means.

Bounds.  Two servables are enough for one load to wait for another's resources
and for a map update of one to meet every state of the other; two load threads
and an unload thread let the decision phase of one request overlap the execution
of two others.  Two versions let one take over from the other; several streams
are covered by the proofs, which put no bound on them.  `MaxNumLoadRetries` 1
gives a first and a last attempt.  Three wrappers are the current object and
those of two waiting updates.  Three clients of CachingManager are one that
holds the mutex, one that waits for it and one that makes a new one; five
mutexes are as many as can be in use at once (`MutexAssumption`).  Three
reloads are a first list, a change of it, and one more after either failed; one
announcement held up (`MaxDelayed`) is overtaken by those of the same servable
and of others.  `num_versions` is 0 in the configs, which stands for 1: with the
two latest versions of a model the run gets too long.
Two queues let a scan erase one while it goes on to the other.  The two
tasks of the first queue do not fit into one batch, and no queue gets full (a
fourth task makes the run too long); what holds for batches of several tasks and
for tasks that are turned away rests on `CapacityIsKept` and
`SharedIsABatchScheduler`, which are proved for any number of tasks.  Three servables
let a third one be approved on top of a loaded and a reserved one.  The load
threads of `manager_pool` and the servables of `resource_tracker` are
symmetric; neither run checks liveness.  Deadlock is checked except where a
system may end: after the destruction of a FastReadDynamicPtr, and in ServerCore
when the bounds on reloads and changes are used up.

`StreamStaysAvailable` assumes sources that always aspire to some version
(`SomeVersions`); otherwise everything may be unloaded on purpose.

Fairness.  A thread that can go on does; `Load()`, `Unload()` and batch callbacks
return; timeouts elapse; clients release their handles (the doc of
`ServableHandle` asks for short-lived handles).  Steps that compete for a mutex
or for a pool thread are strongly fair: nsync mutexes do not starve a waiter,
and pool threads look at every queue before they sleep.  This concerns the
decision phase and `mu_` in BasicManager, the calls of CachingManager, the steps
of a reload, which compete with polls for the source's mutex, and the begin of a
scan in SharedBatchScheduler (by some thread).  The manager thread and the
polling thread are PeriodicFunctions.  Owners, sources, reloads, new requests,
new tasks and new readers are not fair: nobody has to call anything.  In
ServerCore the manager does not stop while it has something to do
(`ManagerStep`): requests are processed, loads and unloads come to an end, one
way or the other, late announcements are made, and a stream that nothing is
aspired of is unloaded.  Whether an old version of another stream is unloaded is
up to the policy, and is not assumed.

## 4. Findings

Each is a run that TLC must find violated.

1. `reaspired` (`RequestsProcessed`): with AvailabilityPreservingPolicy, version
   1 is served, version 2 is requested and fails to load, version 1 is requested
   again: the request waits for version 1 to go away, which the policy prevents.
   It stays pending, with any other version it names, until another request
   replaces it.
2. `reload_hangs` (`ReloadsReturn`): a first model list fails because of one
   model, which stays managed and aspired; a list without the model succeeds; a
   third list that has it again waits for an event that the manager, who sees
   nothing new, does not publish.  `ReloadConfig()` does not return and holds
   `config_mu_`.

Remarks on the code that have no run of their own:

- `core/basic_manager.cc:485`: kAvailable is published without `mu_`, so the
  events of an unload accepted just before can come first.  `EventsMoveForward`
  is checked for a patient owner; in `manager_pool` it does not hold.
- `core/basic_manager.cc:176`: the map update of one servable drops another
  whose unload is requested and for which kUnloading is not yet published.
- `core/basic_manager.cc:694`: an error while the used resources are summed up
  is ignored and leaves a partial sum.  `ResourceBound` is checked and proved for
  `EstimatesFail = FALSE`; it does not hold for `TRUE`.
- `util/fast_read_dynamic_ptr.h:157`: the wait is skipped for null pointers,
  although their deleters run, too.  `DeletersFindTheirWrapper` is checked and
  proved for `NullAllowed = FALSE`.  BasicManager's handles map is never null.
- `util/fast_read_dynamic_ptr.h` speaks of at most two objects; two `Update()`
  calls at once can make it three.  BasicManager's updates are serialised.
- `core/basic_manager.h` speaks of FIFO order of loads; a pool keeps none.
- `core/simple_loader.h` keeps a memoized estimate that `Load()` replaces without
  a lock while `RecomputeUsedResources()` may read it in another thread.  The
  modules take an estimate as a value that changes in one step.
- `core/caching_manager.cc:127`: after a failed load the servable stays in
  kError with its entry in the mutex map, and the next request gets an error
  (and a DCHECK failure in debug builds).
- A client that holds a handle while the same thread requests another servable
  from CachingManager blocks the map update it waits for.  The model gives a
  client one request or one handle at a time.
- `sources/storage_path/file_system_storage_path_source.cc:285`: one missing
  base path ends the poll for all servables.  Lines 221-230 look at the file
  system twice; the model reads it once per poll.
- The same file, 104-121: the "all" policy passes on two names of one version
  number, and line 297 of `aspired_versions_manager.cc` has a DCHECK against it.
- `model_servers/server_core.cc:361` expects that no conflict of routes is left
  to be found; after a reload that failed half way there can be one, and the
  reload returns an error.
- `tensorflow/core/kernels/batching_util/shared_batch_scheduler.h:581`: with
  `max_enqueued_batches = 0`, which `AddQueue()` accepts, the capacity wraps
  around.  `CapacityIsGuaranteed` leaves such queues out.
- `batching/streaming_batch_scheduler.h:131-133` says that a zero timeout closes
  batches at once; line 365 sets no task for the closer then.  The properties
  speak of positive timeouts.
- `resources/resource_util.h:48-49`: an allocation that has a device with one
  instance both bound and unbound is valid, but `Normalize()` gives it a repeated
  entry.  Lines 115-120 compare unbound entries with the right-hand side, the
  code with what the bound ones leave of it.  Sums of quantities may wrap at
  2^64.

## 5. Proofs

All theorems hold for every value of the constants that satisfies the named
assumptions of the modules: `WorkersAssumption` and `EstimateAssumption`
(BasicManager: threads are distinct and finite, estimates are numbers that do
not grow, as `loader.h` requires), `StreamsAssumption` (an id has one stream and
version), `MutexAssumption` (CachingManager never runs out of mutexes),
`AllocationsAssumption` (devices have instances, quantities are natural numbers,
servables are finite in number, and `Normalize()` works on the allocations that
are valid), `PtrAssumption`, `StreamingAssumption`, `SchedulerAssumption`,
`PortsAssumption`, `PlatformAssumption` and `ChildrenAssumption` (types, finitely
many threads, and adapters at other ports than the error adapter's).

- `BasicManagerProofs`: `TypeCorrect`, `OngoingIsCounted`, `NoIllegalTransition`,
  `ExactlyOneCarrier`.  The type invariant is not inductive: the counter stays a
  natural number because it counts the executing workers, and a worker executes
  with a servable because of its label.  `CoreInv` adds who holds the mutexes
  (`Locks`), what a label implies (`Labels`) and the count.  `Ownership` says that
  a harness in transit has one carrier - the caller, a queue or a worker - and
  that nobody else changes it, which is why a harness pointer may be used without
  `mu_` and after the wait for resources.
  From these follow `HandlesStayLive`, `ReadyStaysAvailable`,
  `ResourcesNeverOvercommitted` (if estimates do not fail) and `WakeupNotLost`.
  `Handles` adds that fresh handles belong to the current map, that stale ones
  exist only while somebody waits for them, and that the servable being unloaded
  is not in the map it waits on.  Resource use is the cardinality of a set of
  units; every step but an approval can only shrink that set.
- `AspiredVersionsManagerProofs`: `ImplementsBasicManager` (every step is a step
  of BasicManager or leaves it alone, so all of the above carries over;
  `AspiredHandlesStayLive` does it for handles), `CallsAlwaysAccepted`,
  `NothingUnloadsSpontaneously`, `KeepsItsContract`.  `ManagerInv` says what each
  remaining call and action still relies on; worker threads cannot disturb it
  because they only change harnesses in transit.  `KeepsItsContract` is the
  refinement of AspiredServables; `EventInv` says that something was published
  for every servable that is managed or worked on, and that what is being
  unloaded is not aspired, so that every publication is one that the abstract
  manager may make.
  About the policies: `AspiredAlwaysAsRequested`; `StreamsStayAvailable`
  (availability policy, sources that always aspire to some version);
  `OldVersionsAlwaysUnloadFirst` (resource policy).  For availability,
  `AvailabilityInv` says that another version is ready whenever one is to be
  unloaded, that some version is ready whenever one is served, and that the map
  being built has one of them: the version that takes over need not be in the
  current map.  For resources, `UnloadedInv` says that the unaspired versions of
  a stream are finished from the decision to load until the load is requested.
- `CachingManagerProofs`: `ExclusiveLoads`, `LoadedServableIsServed`,
  `MutexMapGetsCollected`, `CachingManagerIsPatient`, `CachedHandlesAreLive`,
  `CachingTypeCorrect`.  `MutexInv` says that as long as a request refers to
  a mutex, that is the one the map has for its servable, since only the last
  user erases an entry; `SafeInv` is BasicManager's invariant, carried over;
  `WaitInv` says that a servable under way has a request that waits for it, and
  that nothing is unloaded; `RequestInv` says what each place in the code knows
  of the servable's state.
  The module begins with PatientOwner, which CachingManager implements:
  `EventsTellTheState`, `EventsAlwaysMoveForward`.  Neither property is
  inductive, since the events of a request are published at several places, some
  of them without `mu_`.  `PatientInv` says what has been published at each place
  of a request (`Told`) and of a servable that nobody works on (`Settled`).  Both
  are kept because of `OneRequest`: until its done callback a request has its
  servable for itself.  That is where patience is needed; for any owner it is
  wrong.
- `StreamingBatchSchedulerProofs`: `EveryOpenBatchIsClosed`,
  `NothingStartsAfterDestruction`, `EveryTaskHasAThread`, `CapacityIsAPromise`,
  `StreamingTypeOK`.  `StreamingInv` joins what is true of the pool (`GoodPool`:
  the batches in progress are counted, one more than the threads is the open one
  and empty), of closings to come (`ClosingsInv`: the batch they name has tasks
  or is closed), of destruction (`LifeInv`) and the property that the closer is
  set for the open batch.
  `StreamingIsABatchScheduler` is the refinement of BatchScheduler.  The mapping
  takes the tasks of the open batch as the line and closed batches as formed.
  A call of `Schedule()` that closes batches on its way is one abstract step, and
  the proof names the batches that it forms (`...Forms`) and what is left in line
  (`...Is`).  `TasksInv` adds that the size of a batch is the sum of its tasks'
  sizes and does not exceed the limit (`Sizes`), and that no task is in two
  batches that are still to be processed (`Apart`).
- `SharedBatchSchedulerSteps`, `SharedBatchSchedulerInterfaceProofs` and
  `SharedBatchSchedulerProofs`, each of which extends the one before:
  `QueuesOutliveTheirUse`, `HandlesCloseWhenEmpty`, `WakeUpsAreNotLost`,
  `CapacityIsKept`, all from `SharedInvariant`.  (The last one compares a queue's
  capacity before and after a step: a batch that a thread takes makes room for
  another, or an empty one takes its place.)  A scan lets
  clients in between its three visits to a queue and moves on in a list that it
  shortens.  So the invariant relates the list, the position in it and the number
  of queues the scan has yet to try (`ListInv`); says which tasks a batch can have
  and that the open one fits (`BatchInv`); counts the threads between
  `ScheduleBatch()` and the end of `ProcessBatch()`, so that a closed and empty
  queue is one that nobody uses (`HandleInv`); and says that a queue with its
  `schedulable_batch_` flag set is still to be tried by the scan, or a thread is
  awake or about to be woken (`WakeInv`).
  `SharedIsABatchScheduler` is the refinement of BatchScheduler, queue by queue.
  `TasksInv` adds where the tasks are: batches of a queue but the last have
  tasks, sizes add up to the batch's size and stay within the limit (`LinesInv`),
  and a task is in one place only, the line of its queue or the hands of one
  thread (`HandsInv`).  A line is the concatenation of a queue's batches, which
  is a recursive function; its lemmas are inductions over the number of batches
  with the property as a set of numbers, which the provers can do.
- `ServingPartsProofs` has three components that have nothing in common.
  FastReadDynamicPtr: `UniqueUponReturn` (null pointers or not), and
  without null pointers `DeletersAlwaysFindTheirWrapper` and the refinement
  `PtrImplementsDynamicPtr`.  `PtrInv` says that a wrapper has one owner whose
  place in the code tells the wrapper's state.
  ServerCore: `NoModelIsMisrouted`, `ModelsKeepTheirPlatform`.  `RouteInv`
  says that the routes always cover the source's config and what a poll has yet
  to hand on, and from which step of a reload on they agree with the new config.
  ResourceTracker: `ReservationsAreKept`, `ApprovalsAreGuaranteed`.  The loop of
  `RecomputeUsedResources()` and the demands in the properties are folds over
  sets of servables.  `SubsetInduction` gives what they add up to, in any order
  (`SumsCompare`, `RecomputedIsCombined`), and `LessThanOrEqualEffect` what the
  comparison of bound and unbound entries comes to: what is bound fits on each
  instance, and what is open fits on some instance besides.  For the
  reservations that is the invariant (`Roomy`, in `TrackerInv`): a servable that
  binds its resources while it loads finds room on the instance that has room
  for all open demand, and wherever it goes that instance still has room for
  the rest.  For approvals
  (`FitsIsGuaranteed`) the other servables' worst placement is the one that puts
  all their open demand on the same instance (`TotalAtMost`, `TotalCanBe`).

Only model-checked: liveness, which needs fairness and is out of the prover's
reach (`RequestsSettle`, `RequestsProcessed`, `StreamsSettle`, `UpdateReturns`,
`CallsReturn`, `FirstReloadReturns`, `SourceCatchesUp`, `RemovedModelsUnload`,
`AcceptedTasksAreProcessed`, `DestructorsReturn`, `WorkComesToAnEnd`).  Every
other property of a passing run is stated by a theorem.

## 6. Not modelled

- The destructors of BasicManager and AspiredVersionsManager with
  `UnloadAllServables()`: the modules take the managers to outlive their users.
- ServableStateMonitor's live states, bounded log and notification functions,
  `fail_if_zero_versions_at_startup` and changed poll intervals of the source,
  the static router, detaching of targets and orphaning of observers: ServerCore
  does not use them, or they are single critical sections.
- `StaticManagerBuilder`, builders and wrappers: loops of calls and forwarding.
- `ResourceUtil`'s `Max`, `Multiply` and `Equal`: not called by the tracker.
- BatchingSession and `batching_util` (splitting, padding and merging of tensors),
  request conversion and sessions (`servables/`): sequential transformations of
  data.
- Request logging, gRPC services and flags: input and output.
- Generated code, and TensorFlow itself apart from its batch scheduler and from
  what its mutexes, notifications and thread pools promise.  TensorFlow makes up
  nearly all lines of `src/`, so the mapped lines are a small share of them,
  though they are most of the concurrent code of `src/tensorflow_serving/`.
