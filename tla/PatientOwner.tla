----------------------------- MODULE PatientOwner -----------------------------
(***************************************************************************)
(* A BasicManager whose owner waits for the done callback of its last      *)
(* request on a servable before the next call on that servable, as         *)
(* CachingManager does.  The order of the published states, which the      *)
(* manager alone does not guarantee, follows.                              *)
(***************************************************************************)
EXTENDS BasicManager

\* faulty: done_callback is called before kAvailable is published
BusyUntilLoaded(i) == \E w \in Workers : job[w] = i /\ pc[w] # "announce"

\* HandleLoadOrUnloadRequest() has not called done_callback for i yet.
Busy(i) == \E w \in Workers : job[w] = i

PatientNext ==
    \/ \E i \in Ids : ~Busy(i) /\ OwnerCall(i)
    \/ \E i \in Ids : CancelLoadServableRetry(i)
    \/ \E pool \in LoadPools : SetNumLoadThreads(pool)
    \/ Internal

PatientSpec == Init /\ [][PatientNext]_vars

PatientFairSpec == PatientSpec /\ Fairness
-----------------------------------------------------------------------------
\* When nothing is under way for a servable, the last published state tells
\* the harness state, and an available servable can be had (the publications
\* of ExecuteLoad() and ExecuteUnload() come in the order of their effects).
EventsTellState ==
    \A i \in Ids : ~Busy(i) =>
        /\ state[i] = "kNew" => event[i] = "kStart"
        /\ state[i] = "kReady" => event[i] = "kAvailable" /\ i \in serving
        /\ state[i] \in {"kDisabled", "kError"} => event[i] = "kEnd"
        /\ event[i] = "kAvailable" => state[i] \in {"kReady", "kUnloadRequested"}
=============================================================================
