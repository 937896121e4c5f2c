-------------------- MODULE SharedBatchSchedulerInterface --------------------
(***************************************************************************)
(* The queues of a SharedBatchScheduler, seen through their QueueHandles:  *)
(* each of them is a BatchScheduler.                                       *)
(***************************************************************************)
EXTENDS SharedBatchScheduler

\* The concatenation of some sequences.
Flatten(seqs) ==
    LET front[i \in 1 .. Len(seqs)] == IF i = 1 THEN seqs[i] ELSE front[i - 1] \o seqs[i]
    IN  IF seqs = <<>> THEN <<>> ELSE front[Len(seqs)]

\* The line of a queue is what its batches hold, one after the other.
LineOf(bs) == Flatten([i \in DOMAIN bs |-> bs[i].tasks])

Lines == [q \in Queues |-> LineOf(batches[q])]

\* A batch is formed when ScheduleBatch() hands it over, and processed when the
\* callback has returned.
Formed ==
    {job[th].batch.tasks : th \in {u \in Threads : pc[u] = "callback"}}
        \cup (IF scan # NoScan /\ scan.batch # NoBatch THEN {scan.batch.tasks} ELSE {})

Destroyed == {q \in Queues : handle[q] = "destroyed"}

Interface ==
    INSTANCE BatchScheduler WITH
        Schedulers <- Queues,
        Target     <- QueueOf,
        line       <- Lines,
        inProgress <- Formed,
        destroyed  <- Destroyed

\* Each queue implements BatchScheduler: tasks are put into batches in the order
\* in which they were accepted, none is lost or processed twice, and the handle's
\* destructor waits for all of them.
ImplementsBatchScheduler == Interface!Spec
=============================================================================
