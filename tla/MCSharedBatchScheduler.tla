----------------------- MODULE MCSharedBatchScheduler -----------------------
(* Small instances of SharedBatchScheduler. *)
EXTENDS SharedBatchSchedulerInterface, TLC

CONSTANTS q1, q2, t1, t2, t4

MCQueueOf == (t1 :> q1) @@ (t2 :> q1) @@ (t4 :> q2)
MCSize == (t1 :> 1) @@ (t2 :> 2) @@ (t4 :> 1)
MCMaxBatchSize == (q1 :> 2) @@ (q2 :> 1)
MCMaxEnqueuedBatches == (q1 :> 2) @@ (q2 :> 1)
=============================================================================
