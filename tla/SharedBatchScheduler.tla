------------------------ MODULE SharedBatchScheduler ------------------------
(***************************************************************************)
(* SharedBatchScheduler (tensorflow/core/kernels/batching_util/            *)
(* shared_batch_scheduler.h): a pool of batch threads that serves several  *)
(* queues in turn.  A queue is a deque of batches of which the last one is *)
(* open; a client submits tasks through a QueueHandle, whose destructor    *)
(* closes the queue and waits until it is empty.  The batch threads drop a *)
(* queue that is closed and empty.                                         *)
(*                                                                         *)
(* The scheduler's mu_ is held through a scan of the queues by             *)
(* ThreadLogic(): it is held iff "scan" is not NoScan.  Each queue has a   *)
(* mutex of its own, under which one step of this module runs; a scan asks *)
(* each queue three times (closed(), ScheduleBatch(), IsEmpty()), and      *)
(* clients get in between.  Time is abstract: "elapsed" tells whether the  *)
(* open batch of a queue is older than batch_timeout_micros.               *)
(***************************************************************************)
EXTENDS Integers, Sequences, FiniteSets, Functions, Batch

CONSTANTS
    Queues,              \* the queues that clients may add
    Tasks,               \* task objects; a processed one may be submitted again
    Threads,             \* batch_threads_
    QueueOf,             \* the queue each task is submitted to
    Size,                \* BatchTask::size()
    MaxBatchSize,        \* QueueOptions::max_batch_size
    MaxEnqueuedBatches,  \* QueueOptions::max_enqueued_batches
    ZeroTimeout,         \* the queues whose batch_timeout_micros is 0
    NoScan,              \* mu_ is free
    NoBatch              \* a null pointer to a batch

\* The locals of ThreadLogic() during a scan, and where it is in the loop body.
Scans ==
    [thread : Threads, at : {"ScheduleBatch()", "IsEmpty()"},
     num_queues : Nat, tried : Nat, queue_closed : BOOLEAN,
     batch : BatchesOf(Tasks) \cup {NoBatch}]

ASSUME SchedulerAssumption ==
    /\ QueueOf \in [Tasks -> Queues]
    /\ Size \in [Tasks -> Nat]
    /\ MaxBatchSize \in [Queues -> Nat \ {0}]
    /\ MaxEnqueuedBatches \in [Queues -> Nat]
    /\ ZeroTimeout \subseteq Queues
    /\ IsFiniteSet(Threads) /\ Threads # {}    \* Create() refuses num_batch_threads < 1
    /\ NoBatch \notin BatchesOf(Tasks)
    /\ NoScan \notin Queues \cup Scans

VARIABLES
    queues,         \* queues_
    next,           \* position of next_queue_to_schedule_ in queues_
    batches,        \* per queue, batches_
    elapsed,        \* per queue, is the timeout of the open batch over?
    closed,         \* per queue, closed_
    schedulable,    \* per queue, schedulable_batch_
    numProcessing,  \* per queue, num_batches_being_processed_
    handle,         \* per queue, the life of its QueueHandle
    notification,   \* per queue, empty_notification_ and the object it points to
    scan,           \* the scan of the thread that holds mu_
    pc,             \* what each batch thread is doing
    job,            \* per batch thread, its queue_for_batch and batch_to_process
    notifying,      \* tasks whose Schedule() has yet to call schedulable_batch_callback_
    life            \* the life of the scheduler object

queueVars  == <<batches, elapsed, closed, schedulable, numProcessing>>
threadVars == <<scan, pc, job>>
clientVars == <<handle, notification, notifying, life>>
vars == <<queues, next, queueVars, threadVars, clientVars>>

NoJob == [queue |-> NoScan, batch |-> NoBatch]

TypeOK ==
    /\ queues \in Seq(Queues)
    /\ next \in Nat
    /\ batches \in [Queues -> Seq(BatchesOf(Tasks))]
    /\ elapsed \in [Queues -> BOOLEAN]
    /\ closed \in [Queues -> BOOLEAN]
    /\ schedulable \in [Queues -> BOOLEAN]
    /\ numProcessing \in [Queues -> Nat]
    /\ handle \in [Queues -> {"none", "open", "closing", "destroyed"}]
    /\ notification \in [Queues -> {"null", "set", "notified", "misused"}]
    /\ scan \in Scans \cup {NoScan}
    /\ pc \in [Threads -> {"idle", "scan", "wait", "callback", "finish", "exited"}]
    /\ job \in [Threads -> [queue : Queues, batch : BatchesOf(Tasks)] \cup {NoJob}]
    /\ notifying \subseteq Tasks
    /\ life \in {"owned", "draining", "joining", "destroyed"}

Init ==
    /\ queues = <<>>
    /\ next = 1
    /\ batches = [q \in Queues |-> <<EmptyBatch>>]
    /\ elapsed = [q \in Queues |-> FALSE]
    /\ closed = [q \in Queues |-> FALSE]
    /\ schedulable = [q \in Queues |-> FALSE]
    /\ numProcessing = [q \in Queues |-> 0]
    /\ handle = [q \in Queues |-> "none"]
    /\ notification = [q \in Queues |-> "null"]
    /\ scan = NoScan
    /\ pc = [th \in Threads |-> "idle"]
    /\ job = [th \in Threads |-> NoJob]
    /\ notifying = {}
    /\ life = "owned"
-----------------------------------------------------------------------------
(***************************************************************************)
(* Queue.                                                                  *)
(***************************************************************************)
OpenBatch(bs) == bs[Len(bs)]

IsEmptyIgnoringProcessing(bs, processing) ==    \* faulty: forgets the batch threads
    Len(bs) = 1 /\ IsEmptyBatch(OpenBatch(bs))

IsEmptyInternal(bs, processing) ==
    processing = 0 /\ Len(bs) = 1 /\ IsEmptyBatch(OpenBatch(bs))

StartNewBatchInPlace(bs) == [bs EXCEPT ![Len(bs)] = EmptyBatch]    \* faulty: loses the batch

StartNewBatch(bs) == Append(bs, EmptyBatch)

IsOpenBatchSchedulable(q, bs, late) ==
    /\ ~IsEmptyBatch(OpenBatch(bs))
    /\ closed[q] \/ OpenBatch(bs).size >= MaxBatchSize[q] \/ late

CapacityInNewBatches(q, bs) ==    \* faulty: forgets the room in the open batch
    (MaxEnqueuedBatches[q] - Len(bs)) * MaxBatchSize[q]

SchedulingCapacity(q, bs) ==
    (MaxEnqueuedBatches[q] - Len(bs)) * MaxBatchSize[q]
        + (MaxBatchSize[q] - OpenBatch(bs).size)

\* The tasks that a queue or a thread owns.
Held(t) ==
    \/ \E i \in DOMAIN batches[QueueOf[t]] : t \in Range(batches[QueueOf[t]][i].tasks)
    \/ scan # NoScan /\ scan.batch # NoBatch /\ t \in Range(scan.batch.tasks)
    \/ \E th \in Threads : job[th] # NoJob /\ t \in Range(job[th].batch.tasks)

\* The client has a queue handle and owns the task.
MaySchedule(t) ==
    /\ handle[QueueOf[t]] = "open"
    /\ t \notin notifying
    /\ ~Held(t)

FitsOpenBatch(t) ==
    OpenBatch(batches[QueueOf[t]]).size + Size[t] <= MaxBatchSize[QueueOf[t]]

\* What Schedule() returns.  An error is returned before anything has changed.
ScheduleStatus(t) ==
    CASE Size[t] > MaxBatchSize[QueueOf[t]] -> "INVALID_ARGUMENT"
      [] /\ Size[t] <= MaxBatchSize[QueueOf[t]]
         /\ ~FitsOpenBatch(t)
         /\ Len(batches[QueueOf[t]]) >= MaxEnqueuedBatches[QueueOf[t]] -> "UNAVAILABLE"
      [] OTHER -> "OK"

\* Schedule() up to the release of the queue's mu_.
Schedule(t) ==
    LET q    == QueueOf[t]
        room == IF FitsOpenBatch(t) THEN batches[q] ELSE StartNewBatch(batches[q])
        late == IF IsEmptyBatch(OpenBatch(room)) THEN q \in ZeroTimeout ELSE elapsed[q]
        bs   == [room EXCEPT ![Len(room)] = AddTask(@, t, Size[t])]
        ready == Len(bs) > 1 \/ IsOpenBatchSchedulable(q, bs, late)
    IN  /\ MaySchedule(t)
        /\ ScheduleStatus(t) = "OK"
        /\ batches' = [batches EXCEPT ![q] = bs]
        /\ elapsed' = [elapsed EXCEPT ![q] = late]
        /\ schedulable' = [schedulable EXCEPT ![q] = @ \/ ready]
        /\ notifying' = IF ready /\ ~schedulable[q] THEN notifying \cup {t} ELSE notifying
        /\ UNCHANGED <<queues, next, closed, numProcessing, threadVars, handle,
                       notification, life>>

\* schedulable_batch_callback_: notify_one under the scheduler's mu_.
NotifySchedulable(t) ==
    /\ t \in notifying
    /\ scan = NoScan
    /\ notifying' = notifying \ {t}
    /\ IF \E th \in Threads : pc[th] = "wait"
       THEN \E th \in Threads : pc[th] = "wait" /\ pc' = [pc EXCEPT ![th] = "idle"]
       ELSE UNCHANGED pc
    /\ UNCHANGED <<queues, next, queueVars, scan, job, handle, notification, life>>

\* The age of an open batch matters as long as nothing else makes it schedulable.
TimeoutElapses(q) ==
    /\ ~IsEmptyBatch(OpenBatch(batches[q]))
    /\ ~IsOpenBatchSchedulable(q, batches[q], elapsed[q])
    /\ elapsed' = [elapsed EXCEPT ![q] = TRUE]
    /\ UNCHANGED <<queues, next, batches, closed, schedulable, numProcessing, threadVars,
                   clientVars>>
-----------------------------------------------------------------------------
(***************************************************************************)
(* ThreadLogic(): the scan.                                                *)
(***************************************************************************)
Erase(list, pos) == SubSeq(list, 1, pos - 1) \o SubSeq(list, pos + 1, Len(list))

\* Behind the last queue of the list comes the first one.
Wrapped(pos, list) == IF pos > Len(list) /\ list # <<>> THEN 1 ELSE pos

BeginScanAtFront(th) ==    \* faulty: every scan begins with the first queue
    /\ pc[th] = "idle" /\ life \in {"owned", "draining"}
    /\ scan = NoScan
    /\ next' = 1
    /\ IF queues = <<>>
       THEN pc' = [pc EXCEPT ![th] = "wait"] /\ UNCHANGED scan
       ELSE /\ pc' = [pc EXCEPT ![th] = "scan"]
            /\ scan' = [thread |-> th, at |-> "ScheduleBatch()", num_queues |-> Len(queues),
                        tried |-> 0, queue_closed |-> closed[queues[1]], batch |-> NoBatch]
    /\ UNCHANGED <<queues, queueVars, job, clientVars>>

\* With no queue at all the loop body is skipped.  Taking mu_ and asking the
\* first queue for closed() is one step: what others do in between, they might
\* as well do before, because none of it concerns mu_.
BeginScan(th) ==
    /\ pc[th] = "idle" /\ life \in {"owned", "draining"}
    /\ scan = NoScan
    /\ IF queues = <<>>
       THEN pc' = [pc EXCEPT ![th] = "wait"] /\ UNCHANGED scan
       ELSE /\ pc' = [pc EXCEPT ![th] = "scan"]
            /\ scan' = [thread |-> th, at |-> "ScheduleBatch()", num_queues |-> Len(queues),
                        tried |-> 0, queue_closed |-> closed[queues[next]], batch |-> NoBatch]
    /\ UNCHANGED <<queues, next, queueVars, job, clientVars>>

ScheduleBatchKeepsFlag ==    \* faulty: does not reset schedulable_batch_
    LET q  == queues[next]
        bs == IF Len(batches[q]) = 1 /\ IsOpenBatchSchedulable(q, batches[q], elapsed[q])
              THEN StartNewBatch(batches[q]) ELSE batches[q]
    IN  /\ scan # NoScan /\ scan.at = "ScheduleBatch()"
        /\ IF Len(bs) >= 2
           THEN /\ numProcessing' = [numProcessing EXCEPT ![q] = @ + 1]
                /\ batches' = [batches EXCEPT ![q] = Tail(bs)]
                /\ elapsed' = [elapsed EXCEPT ![q] = @ /\ Len(batches[q]) > 1]
                /\ scan' = [scan EXCEPT !.at = "IsEmpty()", !.batch = Head(bs)]
           ELSE /\ scan' = [scan EXCEPT !.at = "IsEmpty()"]
                /\ UNCHANGED <<numProcessing, batches, elapsed>>
        /\ UNCHANGED <<queues, next, closed, schedulable, pc, job, clientVars>>

ScheduleBatch ==
    LET q  == queues[next]
        bs == IF Len(batches[q]) = 1 /\ IsOpenBatchSchedulable(q, batches[q], elapsed[q])
              THEN StartNewBatch(batches[q]) ELSE batches[q]
    IN  /\ scan # NoScan /\ scan.at = "ScheduleBatch()"
        /\ IF Len(bs) >= 2
           THEN /\ numProcessing' = [numProcessing EXCEPT ![q] = @ + 1]
                /\ batches' = [batches EXCEPT ![q] = Tail(bs)]
                /\ elapsed' = [elapsed EXCEPT ![q] = @ /\ Len(batches[q]) > 1]
                /\ scan' = [scan EXCEPT !.at = "IsEmpty()", !.batch = Head(bs)]
                /\ UNCHANGED schedulable
           ELSE /\ schedulable' = [schedulable EXCEPT ![q] = FALSE]
                /\ scan' = [scan EXCEPT !.at = "IsEmpty()"]
                /\ UNCHANGED <<numProcessing, batches, elapsed>>
        /\ UNCHANGED <<queues, next, closed, pc, job, clientVars>>

DropsClosedQueue(q) == scan.queue_closed /\ scan.batch = NoBatch    \* faulty: omits IsEmpty()

DropsQueueWithBatch(q) ==    \* faulty: the test for a batch is inverted
    scan.queue_closed /\ IsEmptyInternal(batches[q], numProcessing[q]) /\ scan.batch # NoBatch

DropsQueue(q) ==
    scan.queue_closed /\ IsEmptyInternal(batches[q], numProcessing[q]) /\ scan.batch = NoBatch

\* The rest of the loop body, the loop's condition and what follows the loop: the
\* snapshot of the next queue's closed_, or the release of mu_.  (IsEmpty() of one
\* queue and closed() of the next are one step: no other step concerns both.)
Advance ==
    LET q    == queues[next]
        drop == DropsQueue(q)
        list == IF drop THEN Erase(queues, next) ELSE queues
        pos  == Wrapped(IF drop THEN next ELSE next + 1, list)
        th   == scan.thread
    IN  /\ scan # NoScan /\ scan.at = "IsEmpty()"
        /\ queues' = list
        /\ next' = pos
        /\ IF scan.batch = NoBatch /\ scan.tried + 1 < scan.num_queues
           THEN /\ scan' = [scan EXCEPT !.at = "ScheduleBatch()", !.tried = @ + 1,
                                      !.queue_closed = closed[list[pos]]]
                /\ UNCHANGED <<pc, job>>
           ELSE /\ scan' = NoScan
                /\ pc' = [pc EXCEPT ![th] = IF scan.batch = NoBatch THEN "wait" ELSE "callback"]
                /\ job' = [job EXCEPT ![th] = IF scan.batch = NoBatch THEN NoJob
                                              ELSE [queue |-> q, batch |-> scan.batch]]
        /\ UNCHANGED <<queueVars, clientVars>>

\* The wait on schedulable_batch_cv_ ends after a millisecond.
WaitTimesOut(th) ==
    /\ pc[th] = "wait"
    /\ pc' = [pc EXCEPT ![th] = "idle"]
    /\ UNCHANGED <<queues, next, queueVars, scan, job, clientVars>>

\* ProcessBatch(): the callback processes the batch and deletes it ...
ProcessBatchCallback(th) ==
    /\ pc[th] = "callback"
    /\ pc' = [pc EXCEPT ![th] = "finish"]
    /\ job' = [job EXCEPT ![th].batch = EmptyBatch]
    /\ UNCHANGED <<queues, next, queueVars, scan, clientVars>>

\* ... and then the thread takes the queue's mu_.
FinishBatch(th) ==
    LET q == job[th].queue IN
    /\ pc[th] = "finish"
    /\ numProcessing' = [numProcessing EXCEPT ![q] = @ - 1]
    /\ notification' =
           IF notification[q] # "null" /\ IsEmptyInternal(batches[q], numProcessing[q] - 1)
           THEN [notification EXCEPT ![q] = IF @ = "set" THEN "notified" ELSE "misused"]
           ELSE notification
    /\ pc' = [pc EXCEPT ![th] = "idle"]
    /\ job' = [job EXCEPT ![th] = NoJob]
    /\ UNCHANGED <<queues, next, batches, elapsed, closed, schedulable, scan,
                   handle, notifying, life>>
-----------------------------------------------------------------------------
(***************************************************************************)
(* Queue handles and the scheduler object.                                 *)
(***************************************************************************)
AddQueue(q) ==
    /\ handle[q] = "none" /\ life = "owned"
    /\ scan = NoScan
    /\ queues' = Append(queues, q)
    /\ next' = IF next = Len(queues) + 1 THEN 1 ELSE next
    /\ handle' = [handle EXCEPT ![q] = "open"]
    /\ UNCHANGED <<queueVars, threadVars, notification, notifying, life>>

\* ~QueueHandle(), which no call of Schedule() overlaps.
CloseAndWaitUntilEmpty(q) ==
    /\ handle[q] = "open"
    /\ \A t \in notifying : QueueOf[t] # q
    /\ closed' = [closed EXCEPT ![q] = TRUE]
    /\ IF IsEmptyInternal(batches[q], numProcessing[q])
       THEN handle' = [handle EXCEPT ![q] = "destroyed"] /\ UNCHANGED notification
       ELSE /\ handle' = [handle EXCEPT ![q] = "closing"]
            /\ notification' = [notification EXCEPT ![q] = "set"]
    /\ UNCHANGED <<queues, next, batches, elapsed, schedulable, numProcessing, threadVars,
                   notifying, life>>

WaitForNotificationReturns(q) ==
    /\ handle[q] = "closing" /\ notification[q] = "notified"
    /\ handle' = [handle EXCEPT ![q] = "destroyed"]
    /\ UNCHANGED <<queues, next, queueVars, threadVars, notification, notifying, life>>

\* The creator and the queue handles share the ownership of the scheduler; its
\* destructor begins when none of them refers to it any more.
LastReferenceDropped ==
    /\ life = "owned"
    /\ \A q \in Queues : handle[q] \in {"none", "destroyed"}
    /\ life' = "draining"
    /\ UNCHANGED <<queues, next, queueVars, threadVars, handle, notification, notifying>>

\* The destructor waits until no queue is left, then it deletes the threads.  It
\* stops one after the other; as there are no queues any more it does not matter
\* which of them go on looking for a batch, so they are stopped at once.
DestructorSeesNoQueues ==
    /\ life = "draining"
    /\ scan = NoScan /\ queues = <<>>
    /\ life' = "joining"
    /\ UNCHANGED <<queues, next, queueVars, threadVars, handle, notification, notifying>>

ThreadExits(th) ==
    /\ pc[th] = "idle" /\ life = "joining"
    /\ pc' = [pc EXCEPT ![th] = "exited"]
    /\ UNCHANGED <<queues, next, queueVars, scan, job, clientVars>>

DestructorReturns ==
    /\ life = "joining" /\ \A th \in Threads : pc[th] = "exited"
    /\ life' = "destroyed"
    /\ UNCHANGED <<queues, next, queueVars, threadVars, handle, notification, notifying>>

Terminated == life = "destroyed" /\ UNCHANGED vars

ThreadLogic(th) ==
    \/ BeginScan(th) \/ WaitTimesOut(th) \/ ProcessBatchCallback(th) \/ FinishBatch(th)
    \/ ThreadExits(th)

Next ==
    \/ \E t \in Tasks : Schedule(t) \/ NotifySchedulable(t)
    \/ \E q \in Queues : \/ AddQueue(q) \/ CloseAndWaitUntilEmpty(q)
                         \/ WaitForNotificationReturns(q) \/ TimeoutElapses(q)
    \/ \E th \in Threads : ThreadLogic(th)
    \/ ScheduleBatch \/ Advance
    \/ LastReferenceDropped \/ DestructorSeesNoQueues \/ DestructorReturns \/ Terminated

Spec == Init /\ [][Next]_vars

\* Threads run, callbacks return, clocks advance.  mu_ is contended: some thread
\* gets it when it is free again and again.  Nothing obliges a client to act.
Fairness ==
    /\ SF_vars(\E th \in Threads : BeginScan(th))
    /\ WF_vars(ScheduleBatch \/ Advance)
    /\ \A th \in Threads : WF_vars(\/ WaitTimesOut(th) \/ ProcessBatchCallback(th)
                                  \/ FinishBatch(th) \/ ThreadExits(th))
    /\ \A q \in Queues : WF_vars(TimeoutElapses(q)) /\ WF_vars(WaitForNotificationReturns(q))
    /\ WF_vars(DestructorSeesNoQueues \/ DestructorReturns)

FairSpec == Spec /\ Fairness
-----------------------------------------------------------------------------
(***************************************************************************)
(* Properties.                                                             *)
(***************************************************************************)
\* ThreadLogic() deletes a queue only when nobody will use it any more: while a
\* client has its handle, while a task waits in it, and from ScheduleBatch() to
\* the end of ProcessBatch() the queue exists.
UsedQueuesExist ==
    \A q \in Queues :
        \/ q \in Range(queues)
        \/ /\ handle[q] \in {"none", "closing", "destroyed"}
           /\ handle[q] = "closing" => notification[q] = "notified"
           /\ IsEmptyInternal(batches[q], numProcessing[q])
           /\ \A th \in Threads : job[th].queue # q

\* empty_notification_ points to a local variable of CloseAndWaitUntilEmpty():
\* it is notified once, before the wait returns, and never again.  And the
\* destructor of a handle returns only when all tasks have been processed.
EmptyNotificationIsSound ==
    \A q \in Queues :
        /\ notification[q] # "misused"
        /\ handle[q] = "destroyed" =>
               /\ notification[q] # "set"
               /\ \A t \in Tasks : QueueOf[t] = q => ~Held(t)

\* No wake-up is lost: while a queue has a batch that is ready because of its
\* size, not all batch threads sleep until their millisecond is over, unless a
\* client is about to wake one.  (A batch that becomes ready by its age is found
\* by that millisecond wait only.)
NoLostWakeUp ==
    (\E q \in Range(queues) :
        Len(batches[q]) > 1 \/ OpenBatch(batches[q]).size >= MaxBatchSize[q])
        => notifying # {} \/ \E th \in Threads : pc[th] # "wait"

\* The capacity of q before and after a step.
Capacity(q) == SchedulingCapacity(q, batches[q])

\* SchedulingCapacity() is the number of tasks of size 1 that a queue takes for
\* sure: while it is positive such a task is not turned away, accepting the task
\* lowers it by exactly 1, and nothing but tasks for this queue lowers it, not
\* the batch threads that take its batches and close the open one, the clients
\* of other queues, nor the closing of the queue.  (A queue with
\* max_enqueued_batches = 0 is excepted: its capacity is a wrapped negative.)
CapacityIsGuaranteed ==
    [][/\ \A t \in Tasks :
              LET q == QueueOf[t] IN
              Size[t] = 1 /\ MaxEnqueuedBatches[q] > 0 /\ Capacity(q) > 0
                  => /\ ScheduleStatus(t) = "OK"
                     /\ Schedule(t) => Capacity(q)' = Capacity(q) - 1
       /\ \A q \in Queues :
              Capacity(q)' < Capacity(q) => \E t \in Tasks : QueueOf[t] = q /\ Schedule(t)]_vars

\* Every accepted task is processed: no queue is starved by the others, and the
\* last, partly filled batch of a queue is found too.
AcceptedTasksAreProcessed == \A t \in Tasks : Held(t) ~> ~Held(t)

\* The destructor of a handle returns, and so does the one of the scheduler.
DestructorsReturn ==
    /\ \A q \in Queues : handle[q] = "closing" ~> handle[q] = "destroyed"
    /\ life = "draining" ~> life = "destroyed"
=============================================================================
