------------------------------- MODULE Batch -------------------------------
(***************************************************************************)
(* Batch (tensorflow/core/kernels/batching_util/batch_scheduler.h): the    *)
(* tasks of a batch in the order of their insertion, and the sum of their  *)
(* sizes, which AddTask() keeps up to date.  Whether a batch is closed is  *)
(* the scheduler's business: it knows which of its batches is open.        *)
(***************************************************************************)
EXTENDS Naturals, Sequences

EmptyBatch == [tasks |-> <<>>, size |-> 0]

IsEmptyBatch(batch) == batch.tasks = <<>>

AddTask(batch, task, size) ==
    [tasks |-> Append(batch.tasks, task), size |-> batch.size + size]

BatchesOf(tasks) == [tasks : Seq(tasks), size : Nat]
=============================================================================
