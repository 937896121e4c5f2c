--------------------------- MODULE BatchScheduler ---------------------------
(***************************************************************************)
(* What the interface BatchScheduler promises                              *)
(* (tensorflow/core/kernels/batching_util/batch_scheduler.h and the        *)
(* documentation of QueueOptions in shared_batch_scheduler.h), for a set   *)
(* of schedulers that do not influence each other.                         *)
(*                                                                         *)
(* A task that a scheduler accepts waits in line.  The batches a scheduler *)
(* forms are taken from the front of its line and never exceed its maximum *)
(* batch size; a batch is processed as a whole, and then its tasks belong  *)
(* to the client again, which may submit them anew.  The destructor of a   *)
(* scheduler returns only when every task it accepted has been processed.  *)
(***************************************************************************)
EXTENDS Naturals, Sequences, Functions

CONSTANTS
    Schedulers,   \* objects that implement BatchScheduler
    Tasks,        \* objects of the clients' task type
    Target,       \* the scheduler each task is submitted to
    Size,         \* BatchTask::size()
    MaxBatchSize  \* of each scheduler

VARIABLES
    line,        \* per scheduler, the tasks it accepted and has not put in a batch
    inProgress,  \* formed batches whose processing has not ended
    destroyed    \* schedulers whose destructor has returned

vars == <<line, inProgress, destroyed>>

Init ==
    /\ line = [s \in Schedulers |-> <<>>]
    /\ inProgress = {}
    /\ destroyed = {}

Accepted(t) ==
    \/ t \in Range(line[Target[t]])
    \/ \E batch \in inProgress : t \in Range(batch)

\* The sizes of the tasks add up to max or less: sum[i] is that of the first i.
SizesFit(tasks, max) ==
    \E sum \in [0..Len(tasks) -> 0..max] :
        /\ sum[0] = 0
        /\ \A i \in 1..Len(tasks) : sum[i] = sum[i - 1] + Size[tasks[i]]

\* The tasks of line l up to position j become one batch or, divided at i, two.
Form(s, l, i, j) ==
    LET formed == {SubSeq(l, 1, i), SubSeq(l, i + 1, j)} \ {<<>>} IN
    /\ line' = [line EXCEPT ![s] = SubSeq(l, j + 1, Len(l))]
    /\ inProgress' = inProgress \cup formed
    /\ \A batch \in formed : SizesFit(batch, MaxBatchSize[s])
    /\ UNCHANGED destroyed

\* Schedule() returns OK.  It may complete a batch without room for the task, and
\* the batch that the task fills.
Accept(t) ==
    LET l == Append(line[Target[t]], t) IN
    /\ Target[t] \notin destroyed
    /\ ~Accepted(t)
    /\ \E j \in 0..Len(l) : \E i \in 0..j : Form(Target[t], l, i, j)

FormBatch(s) == \E n \in 1..Len(line[s]) : Form(s, line[s], 0, n)

EndProcessing(batch) ==
    /\ inProgress' = inProgress \ {batch}
    /\ UNCHANGED <<line, destroyed>>

Destroy(s) ==
    /\ s \notin destroyed
    /\ \A t \in Tasks : Target[t] = s => ~Accepted(t)
    /\ destroyed' = destroyed \cup {s}
    /\ UNCHANGED <<line, inProgress>>

Next ==
    \/ \E t \in Tasks : Accept(t)
    \/ \E s \in Schedulers : FormBatch(s) \/ Destroy(s)
    \/ \E batch \in inProgress : EndProcessing(batch)

Spec == Init /\ [][Next]_vars
=============================================================================
