--------------------------- MODULE MCBasicManager ---------------------------
(***************************************************************************)
(* Instances of BasicManager for TLC: two servables, of which one fits in  *)
(* the pool at a time while it loads, and both once they are loaded.       *)
(***************************************************************************)
EXTENDS BasicManager, TLC

CONSTANTS i1, i2, l1, l2

MCLoadEstimate  == i1 :> 2 @@ i2 :> 2
MCServeEstimate == i1 :> 1 @@ i2 :> 2
TwoThreads == {{l1, l2}}
InlineOrTwo == {{}, {l1, l2}}
Symmetry == Permutations({l1, l2})
=============================================================================
