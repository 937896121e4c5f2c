---------------------- MODULE MCStreamingBatchScheduler ----------------------
(* Small instances of StreamingBatchScheduler. *)
EXTENDS StreamingBatchScheduler, TLC

CONSTANTS t1, t2, t3

MCSize == (t1 :> 1) @@ (t2 :> 1) @@ (t3 :> 2)
=============================================================================
