----------------------- MODULE StreamingBatchScheduler -----------------------
(***************************************************************************)
(* StreamingBatchScheduler and its SingleTaskScheduler                     *)
(* (tensorflow_serving/batching/streaming_batch_scheduler.{h,cc}), used    *)
(* through a BatchSchedulerRetrier (batch_scheduler_retrier.h) the way     *)
(* CreateRetryingStreamingBatchScheduler() composes them.                  *)
(*                                                                         *)
(* A batch is handed to the thread pool when it is started; the process-   *)
(* batch callback can finish once the batch is closed, because the         *)
(* destructor of Batch waits for that.  A batch is closed by Schedule()    *)
(* when it is full or the next task does not fit, by the thread of the     *)
(* SingleTaskScheduler when its time is over, or by the destructor.        *)
(* Batches are named by the value of open_batch_num_ when they were        *)
(* started.  One step of the module runs under mu_.                        *)
(***************************************************************************)
EXTENDS Integers, Sequences, FiniteSets, Functions, Batch

CONSTANTS
    Tasks,            \* task objects; a processed one may be submitted again
    Size,             \* BatchTask::size()
    MaxBatchSize,     \* Options::max_batch_size
    NumBatchThreads,  \* Options::num_batch_threads
    BatchTimeout,     \* Options::batch_timeout_micros; only its sign matters
    MaxBatchNum       \* bound: with this open_batch_num_ clients submit nothing new

ASSUME StreamingAssumption ==
    /\ Size \in [Tasks -> Nat]
    /\ MaxBatchSize \in Nat \ {0}
    /\ NumBatchThreads \in Nat \ {0}
    /\ BatchTimeout \in Int
    /\ MaxBatchNum \in Nat

VARIABLES
    batch,         \* the batches in the thread pool, by number
    stage,         \* of each of them: has its closure a thread, has the callback returned?
    openBatch,     \* number of open_batch_, 0 for a null pointer
    openBatchNum,  \* open_batch_num_
    numInProgress, \* num_batches_in_progress_
    updatedTask,   \* SingleTaskScheduler: the batch that updated_task_ closes, or 0
    currentTask,   \* its thread: the batch that current_task closes, or 0
    invoking,      \* its thread: past the check for an updated task
    retry,         \* per task, the call of BatchSchedulerRetrier::Schedule()
    life           \* the life of the scheduler object

poolVars   == <<batch, stage, openBatch, openBatchNum, numInProgress>>
closerVars == <<updatedTask, currentTask, invoking>>
vars == <<poolVars, closerVars, retry, life>>

TypeOK ==
    /\ DOMAIN batch \in SUBSET Nat /\ DOMAIN stage = DOMAIN batch
    /\ \A n \in DOMAIN batch :
           /\ batch[n] \in BatchesOf(Tasks)
           /\ stage[n] \in {"queued", "running", "returned"}
    /\ openBatch \in Nat /\ openBatchNum \in Nat
    /\ numInProgress \in Nat
    /\ updatedTask \in Nat /\ currentTask \in Nat
    /\ invoking \in BOOLEAN
    /\ retry \in [Tasks -> {"none", "pausing", "out of time"}]
    /\ life \in {"alive", "draining", "joining", "destroyed"}

Init ==
    /\ batch = <<>> /\ stage = <<>>
    /\ openBatch = 0 /\ openBatchNum = 0
    /\ numInProgress = 0
    /\ updatedTask = 0 /\ currentTask = 0
    /\ invoking = FALSE
    /\ retry = [t \in Tasks |-> "none"]
    /\ life = "alive"
-----------------------------------------------------------------------------
(***************************************************************************)
(* The scheduler.                                                          *)
(***************************************************************************)
Extended(f, n, v) == [m \in DOMAIN f \cup {n} |-> IF m = n THEN v ELSE f[m]]

\* The scheduler's fields after StartNewBatch(), given those before.  That the old
\* open batch is closed shows in open having another value.
StartNewBatch(pool) ==
    [batch |-> Extended(pool.batch, pool.num + 1, EmptyBatch),
     stage |-> Extended(pool.stage, pool.num + 1, "queued"),
     open  |-> pool.num + 1,
     num   |-> pool.num + 1,
     inProgress |-> pool.inProgress + 1]

Pool == [batch |-> batch, stage |-> stage, open |-> openBatch, num |-> openBatchNum,
         inProgress |-> numInProgress]

BecomePool(pool) ==
    /\ batch' = pool.batch /\ stage' = pool.stage
    /\ openBatch' = pool.open /\ openBatchNum' = pool.num
    /\ numInProgress' = pool.inProgress

TaskFitsInBatch(t, b) == b.size + Size[t] <= MaxBatchSize

\* Schedule() first makes sure that there is an open batch with room for the task.
WithRoom(t) ==
    IF openBatch = 0 \/ ~TaskFitsInBatch(t, batch[openBatch]) THEN StartNewBatch(Pool) ELSE Pool

FilledInFront(pool, t) ==    \* faulty: puts the task before the earlier ones
    LET added == [pool EXCEPT !.batch[pool.open] =
                      [tasks |-> <<t>> \o @.tasks, size |-> @.size + Size[t]]] IN
    IF added.batch[pool.open].size = MaxBatchSize THEN StartNewBatch(added) ELSE added

Filled(pool, t) ==
    LET added == [pool EXCEPT !.batch[pool.open] = AddTask(@, t, Size[t])] IN
    IF added.batch[pool.open].size = MaxBatchSize THEN StartNewBatch(added) ELSE added

SchedulingCapacity(inProgress, open, bs) ==
    IF inProgress > NumBatchThreads THEN 0
    ELSE (NumBatchThreads - inProgress) * MaxBatchSize
             + (IF open = 0 THEN 0 ELSE MaxBatchSize - bs[open].size)

Held(t) == \E n \in DOMAIN batch : stage[n] # "returned" /\ t \in Range(batch[n].tasks)

\* A client enters the retrier's loop, or the loop comes around after a pause.  A
\* task that is too large is refused before anything changes.
MayAttempt(t) ==
    /\ life = "alive"
    /\ ~Held(t)
    /\ Size[t] <= MaxBatchSize
    /\ retry[t] = "none" => openBatchNum < MaxBatchNum

CloseTaskIfNone(pool) ==    \* faulty: does not supersede an updated task
    IF BatchTimeout > 0 /\ IsEmptyBatch(pool.batch[pool.open]) /\ updatedTask = 0
    THEN pool.num ELSE updatedTask

\* The first task of a batch calls ScheduleCloseOfCurrentOpenBatch().
CloseTask(pool) ==
    IF BatchTimeout > 0 /\ IsEmptyBatch(pool.batch[pool.open]) THEN pool.num ELSE updatedTask

ScheduleAcceptsOneMore(t) ==    \* faulty: counts the threads from zero
    LET pool == WithRoom(t) IN
    /\ MayAttempt(t)
    /\ pool.inProgress <= NumBatchThreads + 1
    /\ updatedTask' = CloseTask(pool)
    /\ BecomePool(Filled(pool, t))
    /\ retry' = [retry EXCEPT ![t] = "none"]
    /\ UNCHANGED <<currentTask, invoking, life>>

ScheduleAccepts(t) ==
    LET pool == WithRoom(t) IN
    /\ MayAttempt(t)
    /\ pool.inProgress <= NumBatchThreads
    /\ updatedTask' = CloseTask(pool)
    /\ BecomePool(Filled(pool, t))
    /\ retry' = [retry EXCEPT ![t] = "none"]
    /\ UNCHANGED <<currentTask, invoking, life>>

\* UNAVAILABLE: the retrier pauses while its time budget lasts.
ScheduleUnavailable(t) ==
    LET pool == WithRoom(t) IN
    /\ MayAttempt(t)
    /\ pool.inProgress > NumBatchThreads
    /\ BecomePool(pool)
    /\ \E r \in IF retry[t] = "out of time" THEN {"none"} ELSE {"none", "pausing"} :
           retry' = [retry EXCEPT ![t] = r]
    /\ UNCHANGED <<closerVars, life>>

RetryBudgetEnds(t) ==
    /\ retry[t] = "pausing"
    /\ retry' = [retry EXCEPT ![t] = "out of time"]
    /\ UNCHANGED <<poolVars, closerVars, life>>
-----------------------------------------------------------------------------
(***************************************************************************)
(* The thread pool: a closure gets a thread, in whatever order.            *)
(***************************************************************************)
BatchStarts(n) ==
    /\ stage[n] = "queued"
    /\ Cardinality({m \in DOMAIN stage : stage[m] # "queued"}) < NumBatchThreads
    /\ stage' = [stage EXCEPT ![n] = "running"]
    /\ UNCHANGED <<batch, openBatch, openBatchNum, numInProgress, closerVars, retry, life>>

\* The callback processes the batch, which must be closed.
CallbackReturns(n) ==
    /\ stage[n] = "running" /\ n # openBatch
    /\ stage' = [stage EXCEPT ![n] = "returned"]
    /\ UNCHANGED <<batch, openBatch, openBatchNum, numInProgress, closerVars, retry, life>>

ClosureEnds(n) ==
    /\ stage[n] = "returned"
    /\ numInProgress' = numInProgress - 1
    /\ batch' = Restrict(batch, DOMAIN batch \ {n})
    /\ stage' = Restrict(stage, DOMAIN stage \ {n})
    /\ UNCHANGED <<openBatch, openBatchNum, closerVars, retry, life>>
-----------------------------------------------------------------------------
(***************************************************************************)
(* SingleTaskScheduler::ThreadLogic().  The sleeps take any time.          *)
(***************************************************************************)
PickUpUpdatedTask ==
    /\ updatedTask # 0 /\ ~invoking
    /\ currentTask' = updatedTask
    /\ updatedTask' = 0
    /\ UNCHANGED <<poolVars, invoking, retry, life>>

NoUpdatedTaskWhenStopped ==    \* faulty: sleeps until the destructor comes
    /\ currentTask # 0 /\ updatedTask = 0 /\ ~invoking /\ life # "alive"
    /\ invoking' = TRUE
    /\ UNCHANGED <<poolVars, updatedTask, currentTask, retry, life>>

\* The time of the current task has come and there is no updated one.
NoUpdatedTask ==
    /\ currentTask # 0 /\ updatedTask = 0 /\ ~invoking
    /\ invoking' = TRUE
    /\ UNCHANGED <<poolVars, updatedTask, currentTask, retry, life>>

\* The closure of ScheduleCloseOfCurrentOpenBatch().
CloseBatch ==
    /\ invoking
    /\ IF openBatchNum = currentTask THEN BecomePool(StartNewBatch(Pool)) ELSE UNCHANGED poolVars
    /\ currentTask' = 0
    /\ invoking' = FALSE
    /\ UNCHANGED <<updatedTask, retry, life>>
-----------------------------------------------------------------------------
(***************************************************************************)
(* The destructor; no call of Schedule() overlaps with it.                 *)
(***************************************************************************)
BeginDestructorKeepsNumber ==    \* faulty: open_batch_num_ still names the closed batch
    /\ life = "alive"
    /\ \A t \in Tasks : retry[t] = "none"
    /\ life' = "draining"
    /\ openBatch' = 0
    /\ UNCHANGED <<batch, stage, openBatchNum, numInProgress, closerVars, retry>>

BeginDestructor ==
    /\ life = "alive"
    /\ \A t \in Tasks : retry[t] = "none"
    /\ life' = "draining"
    /\ openBatch' = 0
    /\ openBatchNum' = IF openBatch = 0 THEN openBatchNum ELSE openBatchNum + 1
    /\ UNCHANGED <<batch, stage, numInProgress, closerVars, retry>>

\* batch_threads_ is deleted, which waits for the closures.
ThreadPoolDrained ==
    /\ life = "draining" /\ DOMAIN batch = {}
    /\ life' = "joining"
    /\ UNCHANGED <<poolVars, closerVars, retry>>

\* batch_closer_ is deleted, which waits until its thread has nothing left to run.
BatchCloserJoined ==
    /\ life = "joining" /\ updatedTask = 0 /\ currentTask = 0
    /\ life' = "destroyed"
    /\ UNCHANGED <<poolVars, closerVars, retry>>

Terminated == life = "destroyed" /\ UNCHANGED vars

PoolStep(n) == BatchStarts(n) \/ CallbackReturns(n) \/ ClosureEnds(n)

CloserStep == PickUpUpdatedTask \/ NoUpdatedTask \/ CloseBatch

Attempt(t) == ScheduleAccepts(t) \/ ScheduleUnavailable(t)

Next ==
    \/ \E t \in Tasks : Attempt(t) \/ RetryBudgetEnds(t)
    \/ \E n \in DOMAIN batch : PoolStep(n)
    \/ CloserStep
    \/ BeginDestructor \/ ThreadPoolDrained \/ BatchCloserJoined \/ Terminated

Spec == Init /\ [][Next]_vars

\* Threads run, callbacks return once their batch is closed, clocks advance, and
\* a client inside of the retrier comes back from its pause.  Nothing obliges a
\* client to submit a task or to destroy the scheduler.
Fairness ==
    /\ WF_vars(\E n \in DOMAIN batch : PoolStep(n))
    /\ WF_vars(CloserStep)
    /\ \A t \in Tasks : WF_vars(RetryBudgetEnds(t)) /\ WF_vars(retry[t] = "out of time" /\ Attempt(t))
    /\ WF_vars(ThreadPoolDrained \/ BatchCloserJoined)

FairSpec == Spec /\ Fairness
-----------------------------------------------------------------------------
(***************************************************************************)
(* Properties.                                                             *)
(***************************************************************************)
\* While a batch with a task in it is open, the batch closer is about to close
\* this batch: the task set for it last, which cancels any other, names it.  So
\* no task waits forever in a batch that does not fill up.
OpenBatchWillBeClosed ==
    BatchTimeout > 0 /\ openBatch # 0 /\ ~IsEmptyBatch(batch[openBatch])
        => IF updatedTask # 0 THEN updatedTask = openBatch ELSE currentTask = openBatch

\* StreamingBatchScheduler does not enqueue tasks: at any time the batches that
\* have tasks are no more than the threads.  There can be one batch more, also
\* when the batch closer started it; while the scheduler lives it is the open one
\* and it is empty (the DCHECK in Schedule()).
TasksHaveThreads ==
    /\ Cardinality({n \in DOMAIN batch : ~IsEmptyBatch(batch[n])}) <= NumBatchThreads
    /\ numInProgress = Cardinality(DOMAIN batch)
    /\ numInProgress > NumBatchThreads =>
           /\ numInProgress = NumBatchThreads + 1
           /\ life = "alive" => openBatch # 0 /\ IsEmptyBatch(batch[openBatch])

\* After the destructor has begun no batch is started any more: a closing that is
\* still scheduled finds another batch number.  When the thread pool is gone, no
\* batch is left.
NoBatchAfterDestruction ==
    /\ life # "alive" => openBatch = 0
    /\ life \in {"joining", "destroyed"} => DOMAIN batch = {}

\* SchedulingCapacity() is a guarantee: as long as it is positive a task of size
\* 1 is not turned away, and accepting it lowers the capacity by exactly 1.
CapacityIsGuaranteed ==
    [][\A t \in Tasks :
           LET capacity == SchedulingCapacity(numInProgress, openBatch, batch) IN
           Attempt(t) /\ Size[t] = 1 /\ capacity > 0
               => /\ ScheduleAccepts(t)
                  /\ SchedulingCapacity(numInProgress', openBatch', batch') = capacity - 1]_vars

\* The tasks of the open batch, and of the closed ones until they are processed.
OpenTasks == IF openBatch = 0 THEN <<>> ELSE batch[openBatch].tasks

ClosedTasks ==
    {batch[n].tasks : n \in {m \in DOMAIN batch :
        m # openBatch /\ stage[m] # "returned" /\ ~IsEmptyBatch(batch[m])}}

\* The line of the scheduler is its open batch; to close a batch is to form it.
Interface ==
    INSTANCE BatchScheduler WITH
        Schedulers   <- {1},
        Target       <- [t \in Tasks |-> 1],
        MaxBatchSize <- [s \in {1} |-> MaxBatchSize],
        line         <- [s \in {1} |-> OpenTasks],
        inProgress   <- ClosedTasks,
        destroyed    <- {s \in {1} : life = "destroyed"}

\* The scheduler implements BatchScheduler: whether a batch is closed by its size,
\* by the batch closer or by the destructor, the tasks are put into batches in the
\* order of Schedule(), and ~StreamingBatchScheduler() waits for all of them.
ImplementsBatchScheduler == Interface!Spec

\* Every accepted task is processed, whether or not its batch fills up, every
\* call of the retrier's Schedule() returns, and so does the destructor.
WorkComesToAnEnd ==
    /\ \A t \in Tasks : Held(t) ~> ~Held(t)
    /\ \A t \in Tasks : retry[t] # "none" ~> retry[t] = "none"
    /\ life = "draining" ~> life = "destroyed"
=============================================================================
