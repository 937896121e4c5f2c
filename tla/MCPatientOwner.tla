--------------------------- MODULE MCPatientOwner ---------------------------
(***************************************************************************)
(* PatientOwner on the instances of MCBasicManager.                        *)
(***************************************************************************)
EXTENDS PatientOwner, TLC

CONSTANTS i1, i2, l1, l2

MCLoadEstimate  == i1 :> 2 @@ i2 :> 2
MCServeEstimate == i1 :> 1 @@ i2 :> 2
TwoThreads == {{l1, l2}}
=============================================================================
