-------------------------- MODULE BasicManagerProofs --------------------------
(***************************************************************************)
(* Proofs about BasicManager, for any set of servables, threads and        *)
(* clients.                                                                *)
(***************************************************************************)
EXTENDS BasicManager, FiniteSetTheorems, TLAPS

\* mu_ is held exactly in UpdateServingMap(), the decision mutex exactly in
\* the decision phase.
Locks ==
    /\ \A w \in Workers : mu = w <=> pc[w] \in {"swap", "drain"}
    /\ \A w \in Workers : decider = w <=> pc[w] \in Deciding

\* Every busy worker has a servable, and load and unload workers keep to
\* their own code.
Labels ==
    \A w \in Workers :
        /\ pc[w] # "idle" => job[w] \in Ids
        /\ w \in UnloadThreads =>
              pc[w] \in {"idle", "decide", "approve", "exec", "swap", "drain",
                         "unload", "unloading", "unloaded", "finish"}
        /\ w \notin UnloadThreads =>
              pc[w] \notin {"unload", "unloading", "unloaded"}

BaseInv == TypeOK /\ Locks /\ Labels

USE WorkersAssumption, EstimateAssumption

\* Initially nobody does anything.
LEMMA InitBase == Init => BaseInv
BY DEF Init, BaseInv, TypeOK, Locks, Labels, PC, Deciding, Executing, Workers

\* TransitionState() goes to the next state or to kError.
LEMMA TransitionType ==
    ASSUME TypeOK, NEW i \in Ids, NEW from, NEW to \in HarnessState,
           TransitionState(i, from, to)
    PROVE  /\ state' \in [Ids -> HarnessState \cup {"kUnmanaged"}]
           /\ event' \in [Ids -> ManagerState \cup {"none"}]
BY DEF TransitionState, Error, TypeOK, HarnessState, ManagerState

\* The owner's calls on a servable take no lock for longer than the call.
LEMMA OwnerBase ==
    ASSUME BaseInv, NEW i \in Ids, OwnerCall(i) \/ CancelLoadServableRetry(i)
    PROVE  BaseInv'
<1>1. ASSUME NEW ok \in BOOLEAN, ManageServable(i, ok)
      PROVE  BaseInv'
  BY <1>1, Zenon DEF ManageServable, BaseInv, TypeOK, Locks, Labels, servingVars,
              workerVars, queueVars, Publish, HarnessState, ManagerState
<1>2. CASE StopManagingServable(i)
  BY <1>2,
     Zenon DEF StopManagingServable, Removable, BaseInv, TypeOK, Locks, Labels,
        servingVars,
              workerVars, queueVars
<1>3. CASE LoadServable(i)
  BY <1>3,
     ZenonT(30) DEF LoadServable, LoadRequested, BaseInv, TypeOK, Locks, Labels,
        servingVars,
              workerVars, HarnessState
<1>4. CASE UnloadServable(i)
  BY <1>4 DEF UnloadServable, BaseInv, TypeOK, Locks, Labels, servingVars,
              workerVars, HarnessState, Requests
<1>5. CASE CancelLoadServableRetry(i)
  BY <1>5, Zenon DEF CancelLoadServableRetry, BaseInv, TypeOK, Locks, Labels,
              servingVars, workerVars, queueVars
<1> QED
  BY <1>1, <1>2, <1>3, <1>4, <1>5, Zenon DEF OwnerCall

\* Replacing and using the load executor, and clients.
LEMMA CallerBase ==
    ASSUME BaseInv,
           \/ \E pool \in LoadPools : SetNumLoadThreads(pool)
           \/ \E i \in Ids : ScheduleLoad(i)
           \/ LoadExecutorReset
           \/ \E c \in Clients : ClientNext(c)
    PROVE  BaseInv'
<1> USE DEF BaseInv, TypeOK, Locks, Labels
<1>1. ASSUME NEW pool \in LoadPools, SetNumLoadThreads(pool)
      PROVE  BaseInv'
  BY <1>1, Zenon DEF SetNumLoadThreads, harnessVars, servingVars, workerVars
<1>2. ASSUME NEW i \in Ids, ScheduleLoad(i)
      PROVE  BaseInv'
  <2> Inline \in Workers /\ Inline \notin UnloadThreads
    BY Zenon DEF Workers
  <2> QED
    BY <1>2 DEF ScheduleLoad, harnessVars, servingVars, Goto, Requests, PC,
                Deciding, Executing
<1>3. CASE LoadExecutorReset
  BY <1>3 DEF LoadExecutorReset, harnessVars, servingVars, workerVars
<1>4. ASSUME NEW c \in Clients, NEW i \in Ids,
             GetUntypedServableHandle(c, i) \/ ReleaseHandle(c, i)
      PROVE  BaseInv'
  BY <1>4 DEF GetUntypedServableHandle, ReleaseHandle, harnessVars, workerVars,
              queueVars
<1>5. ASSUME NEW c \in Clients, GetAvailableUntypedServableHandles(c)
      PROVE  BaseInv'
  BY <1>5, Zenon DEF GetAvailableUntypedServableHandles, harnessVars, workerVars,
              queueVars
<1> QED
  BY <1>1, <1>2, <1>3, <1>4, <1>5, Zenon DEF ClientNext

\* The decision phase is entered and left with its mutex.
LEMMA DecisionBase ==
    ASSUME BaseInv, NEW w \in Workers,
           (\E i \in Ids : Start(w, i)) \/ DecisionStep(w) \/ SpuriousWakeup(w)
    PROVE  BaseInv'
<1> USE DEF BaseInv, TypeOK, Locks, Labels, Goto, PC, Deciding, Executing
<1> w # Nobody
  BY Zenon
<1>1. ASSUME NEW i \in Ids, Start(w, i)
      PROVE  BaseInv'
  BY <1>1 DEF Start, harnessVars, servingVars, Requests
<1>2. CASE EnterDecisionPhase(w)
  BY <1>2 DEF EnterDecisionPhase, harnessVars, servingVars, queueVars
<1>3. CASE ApproveLoad(w)
  BY <1>3, TransitionType DEF ApproveLoad, Approve, Reserving, Reject,
       servingVars, queueVars, HarnessState
<1>4. CASE RejectLoad(w)
  BY <1>4 DEF RejectLoad, Reserving, Reject, Error, servingVars, queueVars,
       HarnessState, ManagerState
<1>5. CASE AwaitResources(w)
  BY <1>5 DEF AwaitResources, Reserving, harnessVars, servingVars, queueVars
<1>6. CASE ApproveUnload(w)
  BY <1>6, TransitionType DEF ApproveUnload, Approve, Reject, servingVars,
       queueVars, HarnessState
<1>7. CASE SpuriousWakeup(w)
  BY <1>7 DEF SpuriousWakeup, harnessVars, servingVars, queueVars
<1> QED
  BY <1>1, <1>2, <1>3, <1>4, <1>5, <1>6, <1>7, Zenon DEF DecisionStep

\* There are finitely many workers, so the executions can be counted.
LEMMA FiniteWorkers == IsFiniteSet(ExecutingWorkers)
<1>1. IsFiniteSet(LoadThreads \cup {Inline})
  BY FS_AddElement, Zenon
<1>2. IsFiniteSet(Workers)
  BY <1>1, FS_Union, Zenon DEF Workers
<1> QED
  BY <1>2, FS_Subset, Zenon DEF ExecutingWorkers

\* A step leaves the executions alone, or one begins, or one ends.
Counted(w) ==
    \/ ongoing' = ongoing /\ ExecutingWorkers' = ExecutingWorkers
    \/ /\ ongoing' = ongoing + 1
       /\ w \notin ExecutingWorkers
       /\ ExecutingWorkers' = ExecutingWorkers \cup {w}
    \/ /\ ongoing' = ongoing - 1
       /\ w \in ExecutingWorkers
       /\ ExecutingWorkers' = ExecutingWorkers \ {w}

\* A worker that is counted when it begins to execute and when it ends keeps
\* the count right.
LEMMA CountedStep ==
    ASSUME OngoingCount, NEW w \in Workers, Counted(w)
    PROVE  OngoingCount' /\ ongoing' \in Nat
<1>1. /\ IsFiniteSet(ExecutingWorkers)
      /\ Cardinality(ExecutingWorkers) \in Nat
      /\ Cardinality(ExecutingWorkers) = 0 => ExecutingWorkers = {}
  BY FiniteWorkers, FS_CardinalityType, FS_EmptySet, Zenon
<1>2. CASE ongoing' = ongoing /\ ExecutingWorkers' = ExecutingWorkers
  BY <1>1, <1>2, Zenon DEF OngoingCount
<1>3. CASE /\ ongoing' = ongoing + 1
           /\ w \notin ExecutingWorkers
           /\ ExecutingWorkers' = ExecutingWorkers \cup {w}
  <2>1. Cardinality(ExecutingWorkers \cup {w}) = Cardinality(ExecutingWorkers) + 1
    BY <1>1, <1>3, FS_AddElement, Zenon
  <2> QED
    BY <1>1, <1>3, <2>1 DEF OngoingCount
<1>4. CASE /\ ongoing' = ongoing - 1
           /\ w \in ExecutingWorkers
           /\ ExecutingWorkers' = ExecutingWorkers \ {w}
  <2>1. ongoing' = Cardinality(ExecutingWorkers')
    BY <1>1, <1>4, FS_RemoveElement, Zenon DEF OngoingCount
  <2>2. Cardinality(ExecutingWorkers) # 0
    BY <1>1, <1>4, Zenon
  <2> QED
    BY <1>1, <1>4, <2>1, <2>2 DEF OngoingCount
<1> QED
  BY <1>2, <1>3, <1>4, Zenon DEF Counted

\* An approved request is counted, a rejected or waiting one is not.
LEMMA DecisionCounted ==
    ASSUME BaseInv, NEW w \in Workers,
           (\E i \in Ids : Start(w, i)) \/ DecisionStep(w) \/ SpuriousWakeup(w)
    PROVE  Counted(w)
<1> USE DEF BaseInv, TypeOK, Goto, PC, Deciding, Executing, ExecutingWorkers,
            Counted
<1>0. ASSUME NEW i \in Ids, Start(w, i)
      PROVE  Counted(w)
  BY <1>0, Zenon DEF Start
<1>1. CASE EnterDecisionPhase(w) \/ SpuriousWakeup(w)
  BY <1>1 DEF EnterDecisionPhase, SpuriousWakeup
<1>2. CASE ApproveLoad(w) \/ ApproveUnload(w)
  BY <1>2 DEF ApproveLoad, ApproveUnload, Reserving, Approve, Reject
<1>3. CASE RejectLoad(w) \/ AwaitResources(w)
  BY <1>3 DEF RejectLoad, AwaitResources, Reserving, Reject
<1> QED
  BY <1>0, <1>1, <1>2, <1>3, Zenon DEF DecisionStep

\* Only the end of ExecuteLoadOrUnload() counts down.
LEMMA ExecutionCounted ==
    ASSUME BaseInv, NEW w \in Workers, ExecutionStep(w)
    PROVE  Counted(w)
<1> USE DEF BaseInv, TypeOK, Goto, PC, Deciding, Executing, ExecutingWorkers,
            Counted
<1>1. CASE BeginLoad(w) \/ LoadSucceeds(w) \/ LoadFails(w)
  BY <1>1 DEF BeginLoad, LoadSucceeds, LoadFails
<1>2. CASE \/ BeginUpdateServingMap(w) \/ SwapHandlesMap(w)
           \/ EndUpdateServingMap(w) \/ AnnounceAvailable(w)
  BY <1>2 DEF BeginUpdateServingMap, SwapHandlesMap, NewHandlesMaps,
        EndUpdateServingMap, HandlesReleased,
              AnnounceAvailable
<1>3. CASE BeginUnload(w) \/ EndUnload(w) \/ AnnounceEnd(w)
  BY <1>3 DEF BeginUnload, EndUnload, AnnounceEnd
<1>4. CASE Finish(w)
  BY <1>4 DEF Finish, NotifyAll
<1> QED
  BY <1>1, <1>2, <1>3, <1>4, Zenon DEF ExecutionStep

\* The execution phase; the count is positive when Finish() takes one off.
LEMMA ExecutionBase ==
    ASSUME BaseInv, OngoingCount, NEW w \in Workers, ExecutionStep(w)
    PROVE  BaseInv'
<1> USE DEF BaseInv, TypeOK, Locks, Labels, Goto, PC, Deciding, Executing
<1> w # Nobody
  BY Zenon
<1>1. CASE BeginLoad(w)
  BY <1>1 DEF BeginLoad, Error, Publish, servingVars, queueVars, HarnessState,
       ManagerState
<1>2. CASE LoadSucceeds(w)
  BY <1>2, TransitionType DEF LoadSucceeds, servingVars, queueVars, HarnessState
<1>3. CASE LoadFails(w)
  BY <1>3 DEF LoadFails, Error, servingVars, queueVars, HarnessState, ManagerState
<1>4. CASE BeginUpdateServingMap(w)
  BY <1>4 DEF BeginUpdateServingMap, Publish, Ready, harnessVars, queueVars,
       ManagerState
<1>5. CASE SwapHandlesMap(w)
  BY <1>5 DEF SwapHandlesMap, NewHandlesMaps, Ready, harnessVars, queueVars
<1>6. CASE EndUpdateServingMap(w)
  BY <1>6, TransitionType DEF EndUpdateServingMap, HandlesReleased, queueVars,
        HarnessState
<1>7. CASE AnnounceAvailable(w)
  BY <1>7 DEF AnnounceAvailable, Publish, harnessVars, servingVars, queueVars,
       ManagerState
<1>8. CASE BeginUnload(w)
  BY <1>8, TransitionType DEF BeginUnload, servingVars, queueVars, HarnessState
<1>9. CASE EndUnload(w)
  BY <1>9, TransitionType DEF EndUnload, servingVars, queueVars, HarnessState
<1>10. CASE AnnounceEnd(w)
  BY <1>10 DEF AnnounceEnd, Publish, harnessVars, servingVars, queueVars,
       ManagerState
<1>11. CASE Finish(w)
  <2>1. ongoing' \in Nat
    BY <1>11, ExecutionCounted, CountedStep, Zenon DEF ExecutionStep
  <2> QED
    BY <1>11, <2>1 DEF Finish, NotifyAll, harnessVars, servingVars, queueVars
<1> QED
  BY <1>1, <1>2, <1>3, <1>4, <1>5, <1>6, <1>7, <1>8, <1>9, <1>10, <1>11, Zenon
     DEF ExecutionStep

\* Nobody but a worker begins or ends an execution.
LEMMA OthersCounted ==
    ASSUME BaseInv, OngoingCount,
           \/ \E i \in Ids : OwnerCall(i) \/ CancelLoadServableRetry(i)
           \/ \E pool \in LoadPools : SetNumLoadThreads(pool)
           \/ \E i \in Ids : ScheduleLoad(i)
           \/ LoadExecutorReset
           \/ \E c \in Clients : ClientNext(c)
           \/ UNCHANGED vars
    PROVE  OngoingCount'
<1>1. SUFFICES ongoing' = ongoing /\ ExecutingWorkers' = ExecutingWorkers
  BY Zenon DEF OngoingCount
<1>2. CASE UNCHANGED <<pc, ongoing>>
  BY <1>2, Zenon DEF ExecutingWorkers
<1>3. ASSUME NEW i \in Ids, OwnerCall(i) \/ CancelLoadServableRetry(i)
      PROVE  UNCHANGED <<pc, ongoing>>
  BY <1>3, Zenon DEF OwnerCall, ManageServable, StopManagingServable, Removable,
        LoadServable, LoadRequested,
       UnloadServable, CancelLoadServableRetry, workerVars
<1>4. ASSUME NEW pool \in LoadPools, SetNumLoadThreads(pool)
      PROVE  UNCHANGED <<pc, ongoing>>
  BY <1>4, Zenon DEF SetNumLoadThreads, workerVars
<1>5. ASSUME LoadExecutorReset
      PROVE  UNCHANGED <<pc, ongoing>>
  BY <1>5, Zenon DEF LoadExecutorReset, workerVars
<1>6. ASSUME NEW c \in Clients, ClientNext(c)
      PROVE  UNCHANGED <<pc, ongoing>>
  BY <1>6, Zenon DEF ClientNext, GetUntypedServableHandle, ReleaseHandle,
       GetAvailableUntypedServableHandles, workerVars
<1>7. ASSUME NEW i \in Ids, ScheduleLoad(i)
      PROVE  ongoing' = ongoing /\ ExecutingWorkers' = ExecutingWorkers
  BY <1>7 DEF ScheduleLoad, Goto, ExecutingWorkers, Executing, BaseInv, TypeOK
<1> QED
  BY <1>2, <1>3, <1>4, <1>5, <1>6, <1>7, Zenon DEF vars

CoreInv == BaseInv /\ OngoingCount

\* Every step keeps the locks, the labels and the count.
LEMMA CoreStep ==
    ASSUME CoreInv, [Next]_vars
    PROVE  CoreInv'
<1> USE DEF CoreInv
<1>1. ASSUME NEW i \in Ids, OwnerCall(i) \/ CancelLoadServableRetry(i)
      PROVE  CoreInv'
  BY <1>1, OwnerBase, OthersCounted, Zenon
<1>2. CASE \/ \E pool \in LoadPools : SetNumLoadThreads(pool)
           \/ \E i \in Ids : ScheduleLoad(i)
           \/ LoadExecutorReset
           \/ \E c \in Clients : ClientNext(c)
  BY <1>2, CallerBase, OthersCounted, Zenon
<1>3. ASSUME NEW w \in Workers, WorkerNext(w)
      PROVE  CoreInv'
  <2>1. CASE (\E i \in Ids : Start(w, i)) \/ DecisionStep(w) \/ SpuriousWakeup(w)
    BY <2>1, DecisionBase, DecisionCounted, CountedStep, Zenon
  <2>2. CASE ExecutionStep(w)
    BY <2>2, ExecutionBase, ExecutionCounted, CountedStep, Zenon
  <2> QED
    BY <1>3, <2>1, <2>2, Zenon DEF WorkerNext
<1>4. CASE UNCHANGED vars
  BY <1>4, OthersCounted, Zenon DEF vars, BaseInv, TypeOK, Locks, Labels
<1> QED
  BY <1>1, <1>2, <1>3, <1>4, Zenon DEF Next, Internal

\* Initially nothing is executed.
LEMMA InitCore == Init => CoreInv
<1> SUFFICES ASSUME Init PROVE CoreInv
  BY Zenon
<1>1. ExecutingWorkers = {}
  BY Zenon DEF Init, ExecutingWorkers, Executing
<1> QED
  BY <1>1, InitBase, FS_EmptySet, Zenon DEF Init, CoreInv, OngoingCount

\* Every variable keeps its type; in particular the count of ongoing
\* executions, a plain int in the code, never drops below zero.
THEOREM TypeCorrect == Spec => []TypeOK
<1>1. CoreInv /\ [Next]_vars => CoreInv'
  BY CoreStep, Zenon
<1>2. CoreInv => TypeOK
  BY Zenon DEF CoreInv, BaseInv
<1> QED
  BY InitCore, <1>1, <1>2, PTL DEF Spec

\* num_ongoing_load_unload_executions_ is the number of requests in their
\* execution phase.
THEOREM OngoingIsCounted == Spec => []OngoingCount
<1>1. CoreInv /\ [Next]_vars => CoreInv'
  BY CoreStep, Zenon
<1>2. CoreInv => OngoingCount
  BY Zenon DEF CoreInv
<1> QED
  BY InitCore, <1>1, <1>2, PTL DEF Spec
-----------------------------------------------------------------------------
(***************************************************************************)
(* Ownership says who may change a harness without holding mu_.  From it   *)
(* follow that no illegal transition happens, that no request is lost,     *)
(* and, with Handles below, that a servable is unloaded                    *)
(* only when no handle to it is left.                                      *)
(***************************************************************************)
Owns(w) == Expected(w) # {}

Ownership ==
    /\ HarnessAsExpected
    /\ \A v, w \in Workers : Owns(v) /\ Owns(w) /\ job[v] = job[w] => v = w
    /\ \A w \in Workers : Owns(w) => /\ job[w] \notin accepted
                                     /\ <<"load", job[w]>> \notin scheduled
                                     /\ <<"unload", job[w]>> \notin scheduled
    /\ \A i \in accepted : /\ state[i] = "kLoadRequested"
                           /\ <<"load", i>> \notin scheduled
    /\ \A i \in Ids : <<"load", i>> \in scheduled => state[i] = "kLoadRequested"
    /\ \A i \in Ids : <<"unload", i>> \in scheduled => state[i] = "kUnloadRequested"
    /\ \A i \in Ids : state[i] \in InTransit =>
          \/ i \in accepted
          \/ <<"load", i>> \in scheduled
          \/ <<"unload", i>> \in scheduled
          \/ \E w \in Workers : Owns(w) /\ job[w] = i


\* The owner of a harness takes it to its next state, or lets it go.
LEMMA OwnerMoves ==
    ASSUME CoreInv, Ownership, NEW w \in Workers, Owns(w), NEW s,
           UNCHANGED <<accepted, scheduled>>,
           \A v \in Workers \ {w} : Expected(v)' = Expected(v) /\ job'[v] = job[v],
           state' = [state EXCEPT ![job[w]] = s],
           \/ s \in Expected(w)' /\ job'[w] = job[w]
           \/ Expected(w)' = {} /\ s \notin InTransit
    PROVE  Ownership'
<1> USE DEF CoreInv, BaseInv, TypeOK
<1>1. job[w] \in Ids /\ state'[job[w]] = s /\ \A i \in Ids \ {job[w]} : state'[i] = state[i]
  BY DEF Ownership, HarnessAsExpected, Owns
<1>2. HarnessAsExpected'
  BY <1>1 DEF Ownership, HarnessAsExpected, Owns
<1>3. \A v, u \in Workers : Owns(v)' /\ Owns(u)' /\ job'[v] = job'[u] => v = u
  BY <1>1 DEF Ownership, Owns
<1>4. \A v \in Workers : Owns(v)' => /\ job'[v] \notin accepted'
                                     /\ <<"load", job'[v]>> \notin scheduled'
                                     /\ <<"unload", job'[v]>> \notin scheduled'
  BY <1>1, Zenon DEF Ownership, Owns
<1>5. /\ \A i \in accepted' : /\ state'[i] = "kLoadRequested"
                              /\ <<"load", i>> \notin scheduled'
      /\ \A i \in Ids : <<"load", i>> \in scheduled' => state'[i] = "kLoadRequested"
      /\ \A i \in Ids : <<"unload", i>> \in scheduled' => state'[i] = "kUnloadRequested"
  <2>1. /\ job[w] \notin accepted
        /\ <<"load", job[w]>> \notin scheduled
        /\ <<"unload", job[w]>> \notin scheduled
    BY Zenon DEF Ownership
  <2>2. accepted' = accepted /\ scheduled' = scheduled /\ accepted \subseteq Ids
    BY Zenon
  <2> QED
    BY <1>1, <2>1, <2>2 DEF Ownership
<1>6. ASSUME NEW i \in Ids, state'[i] \in InTransit
      PROVE  \/ i \in accepted'
             \/ <<"load", i>> \in scheduled'
             \/ <<"unload", i>> \in scheduled'
             \/ \E v \in Workers : Owns(v)' /\ job'[v] = i
  <2>1. CASE i = job[w]
    BY <1>1, <1>6, <2>1 DEF Owns
  <2>2. CASE i # job[w]
    BY <1>1, <1>6, <2>2, ZenonT(30) DEF Ownership, Owns
  <2> QED
    BY <2>1, <2>2, Zenon
<1> QED
  BY <1>2, <1>3, <1>4, <1>5, <1>6, Zenon DEF Ownership

\* A step that touches no harness in transit, and nobody's ownership.
LEMMA OthersMove ==
    ASSUME CoreInv, Ownership,
           UNCHANGED <<accepted, scheduled>>,
           \A v \in Workers : /\ Expected(v)' = Expected(v)
                              /\ Owns(v) => job'[v] = job[v],
           \A i \in Ids : \/ state'[i] = state[i]
                          \/ state[i] \notin InTransit /\ state'[i] \notin InTransit,
           \A v \in Workers : Expected(v) \subseteq InTransit
    PROVE  Ownership'
<1>1. HarnessAsExpected'
  BY DEF Ownership, HarnessAsExpected, Owns
<1>2. \A i \in Ids : \/ i \in accepted
                     \/ <<"load", i>> \in scheduled
                     \/ <<"unload", i>> \in scheduled
                     => state'[i] = state[i]
  BY Zenon DEF Ownership, InTransit
<1>3. \A i \in Ids : state'[i] \in InTransit => state'[i] = state[i]
  BY Zenon
<1>4. /\ \A i \in accepted' : /\ state'[i] = "kLoadRequested"
                              /\ <<"load", i>> \notin scheduled'
      /\ \A i \in Ids : <<"load", i>> \in scheduled' => state'[i] = "kLoadRequested"
      /\ \A i \in Ids : <<"unload", i>> \in scheduled' => state'[i] = "kUnloadRequested"
  BY <1>2, Zenon DEF Ownership, CoreInv, BaseInv, TypeOK
<1>5. \A v, w \in Workers : Owns(v)' /\ Owns(w)' /\ job'[v] = job'[w] => v = w
  BY DEF Ownership, Owns
<1>6. \A w \in Workers : Owns(w)' => /\ job'[w] \notin accepted'
                                     /\ <<"load", job'[w]>> \notin scheduled'
                                     /\ <<"unload", job'[w]>> \notin scheduled'
  BY Zenon DEF Ownership, Owns
<1>7. ASSUME NEW i \in Ids, state'[i] \in InTransit
      PROVE  \/ i \in accepted'
             \/ <<"load", i>> \in scheduled'
             \/ <<"unload", i>> \in scheduled'
             \/ \E v \in Workers : Owns(v)' /\ job'[v] = i
  BY <1>3, <1>7, ZenonT(30) DEF Ownership, Owns
<1> QED
  BY <1>1, <1>4, <1>5, <1>6, <1>7, ZenonT(30) DEF Ownership

\* What a worker expects depends on its place in the code only.
LEMMA ExpectedFrame ==
    ASSUME NEW v, pc'[v] = pc[v]
    PROVE  Expected(v)' = Expected(v)
BY DEF Expected

\* Workers only expect harnesses that are in transit.
LEMMA ExpectedInTransit ==
    ASSUME NEW v
    PROVE  Expected(v) \subseteq InTransit
BY Zenon DEF Expected, InTransit

\* Steps that change no pc, no queue, and no harness in transit.
LEMMA QuietStep ==
    ASSUME CoreInv, Ownership, UNCHANGED <<accepted, scheduled, pc, job>>,
           \A i \in Ids : \/ state'[i] = state[i]
                          \/ state[i] \notin InTransit /\ state'[i] \notin InTransit
    PROVE  Ownership'
BY OthersMove, ExpectedFrame, ExpectedInTransit, Zenon

\* The owner's calls: a load or unload is accepted for a harness that is not
\* in transit, and only such a harness is forgotten.
LEMMA OwnerOwnership ==
    ASSUME CoreInv, Ownership, NEW i \in Ids,
           OwnerCall(i) \/ CancelLoadServableRetry(i)
    PROVE  Ownership'
<1> USE DEF CoreInv, BaseInv, TypeOK
<1>1. ASSUME NEW ok \in BOOLEAN, ManageServable(i, ok)
      PROVE  Ownership'
  BY <1>1, QuietStep, Zenon DEF ManageServable, workerVars, queueVars, InTransit
<1>2. CASE StopManagingServable(i)
  BY <1>2, QuietStep, Zenon DEF StopManagingServable, Removable, workerVars,
        queueVars, InTransit
<1>3. CASE CancelLoadServableRetry(i)
  BY <1>3, QuietStep, Zenon DEF CancelLoadServableRetry, workerVars, queueVars
<1>4. ASSUME LoadServable(i) \/ UnloadServable(i)
      PROVE  Ownership'
  <2>1. /\ state[i] \notin InTransit
        /\ \A j \in Ids \ {i} : state'[j] = state[j]
        /\ UNCHANGED <<pc, job>>
    BY <1>4,
       ZenonT(30) DEF LoadServable, LoadRequested, UnloadServable, workerVars, InTransit
  <2>2. \A v \in Workers : Owns(v)' = Owns(v) /\ Expected(v)' = Expected(v)
    BY <2>1, ExpectedFrame, Zenon DEF Owns
  <2>3. \A v \in Workers : Owns(v) => job[v] \in Ids \ {i}
    BY <2>1, ExpectedInTransit DEF Ownership, HarnessAsExpected, Owns
  <2>4. /\ i \notin accepted
        /\ <<"load", i>> \notin scheduled
        /\ <<"unload", i>> \notin scheduled
    BY <2>1, ZenonT(30) DEF Ownership, InTransit
  <2>5. HarnessAsExpected'
    BY <2>1, <2>2, <2>3 DEF Ownership, HarnessAsExpected, Owns
  <2>6. CASE LoadServable(i)
    <3>1. /\ state'[i] = "kLoadRequested"
          /\ accepted' = accepted \cup {i}
          /\ scheduled' = scheduled
      BY <2>6, Zenon DEF LoadServable, LoadRequested
    <3> QED
      BY <2>1, <2>2, <2>3, <2>4, <2>5, <3>1, Zenon DEF Ownership
  <2>7. CASE UnloadServable(i)
    <3>1. /\ state'[i] = "kUnloadRequested"
          /\ accepted' = accepted
          /\ scheduled' = scheduled \cup {<<"unload", i>>}
      BY <2>7, Zenon DEF UnloadServable
    <3> HIDE DEF CoreInv, BaseInv, TypeOK
    <3>2. \A j \in Ids :
             /\ <<"load", j>> \in scheduled' <=> <<"load", j>> \in scheduled
             /\ <<"unload", j>> \in scheduled' <=>
                   j = i \/ <<"unload", j>> \in scheduled
      BY <3>1, Zenon
    <3>3. \A v, w \in Workers :
             Owns(v)' /\ Owns(w)' /\ job'[v] = job'[w] => v = w
      BY <2>1, <2>2, Zenon DEF Ownership
    <3>4. \A w \in Workers : Owns(w)' => /\ job'[w] \notin accepted'
                                         /\ <<"load", job'[w]>> \notin scheduled'
                                         /\ <<"unload", job'[w]>> \notin scheduled'
      BY <2>1, <2>2, <2>3, <3>1, <3>2, Zenon DEF Ownership
    <3>5. accepted' \subseteq Ids
      BY <3>1, Zenon DEF CoreInv, BaseInv, TypeOK
    <3>6. \A j \in accepted' : /\ state'[j] = "kLoadRequested"
                               /\ <<"load", j>> \notin scheduled'
      BY <2>1, <2>4, <3>1, <3>2, <3>5, ZenonT(90) DEF Ownership
    <3>7. \A j \in Ids :
             /\ <<"load", j>> \in scheduled' => state'[j] = "kLoadRequested"
             /\ <<"unload", j>> \in scheduled' => state'[j] = "kUnloadRequested"
      BY <2>1, <2>4, <3>1, <3>2, Zenon DEF Ownership
    <3>8. \A j \in Ids : state'[j] \in InTransit =>
             \/ j \in accepted'
             \/ <<"load", j>> \in scheduled'
             \/ <<"unload", j>> \in scheduled'
             \/ \E w \in Workers : Owns(w)' /\ job'[w] = j
      BY <2>1, <2>2, <3>1, <3>2, Zenon DEF Ownership
    <3> QED
      BY <2>5, <3>3, <3>4, <3>6, <3>7, <3>8, Zenon DEF Ownership
  <2> QED
    BY <1>4, <2>6, <2>7, Zenon
<1> QED
  BY <1>1, <1>2, <1>3, <1>4, Zenon DEF OwnerCall

\* An idle worker gets a request from a caller or a queue.
LEMMA HandOver ==
    ASSUME CoreInv, Ownership, NEW w \in Workers, NEW i \in Ids,
           pc[w] = "idle", UNCHANGED state,
           pc' = [pc EXCEPT ![w] = "decide"],
           job' = [job EXCEPT ![w] = i],
           \/ /\ i \in accepted /\ w \notin UnloadThreads
              /\ accepted' = accepted \ {i} /\ scheduled' = scheduled
           \/ /\ <<Kind(w), i>> \in scheduled
              /\ accepted' = accepted /\ scheduled' = scheduled \ {<<Kind(w), i>>}
    PROVE  Ownership'
<1> USE DEF CoreInv, BaseInv, TypeOK
<1>1. /\ job'[w] = i /\ pc'[w] = "decide"
      /\ \A v \in Workers \ {w} : job'[v] = job[v] /\ pc'[v] = pc[v]
  OBVIOUS
<1>2. \A v \in Workers \ {w} : Owns(v)' = Owns(v) /\ Expected(v)' = Expected(v)
  BY <1>1, ExpectedFrame, Zenon DEF Owns
<1>3. /\ state[i] \in Expected(w)'
      /\ Owns(w)'
      /\ ~Owns(w)
  <2>1. state[i] = IF w \in UnloadThreads THEN "kUnloadRequested"
                                          ELSE "kLoadRequested"
    BY Zenon DEF Ownership, Kind
  <2>2. Expected(w)' = {IF w \in UnloadThreads THEN "kUnloadRequested"
                                               ELSE "kLoadRequested"}
    BY <1>1, Zenon DEF Expected
  <2>3. Expected(w) = {}
    BY Zenon DEF Expected, Deciding
  <2> QED
    BY <2>1, <2>2, <2>3, Zenon DEF Owns
<1>4. \A v \in Workers : Owns(v) => job[v] # i
  <2>1. \/ i \in accepted
        \/ <<"load", i>> \in scheduled
        \/ <<"unload", i>> \in scheduled
    BY Zenon DEF Kind
  <2> QED
    BY <2>1 DEF Ownership
<1>5. /\ i \notin accepted'
      /\ <<"load", i>> \notin scheduled'
      /\ <<"unload", i>> \notin scheduled'
  BY ZenonT(30) DEF Ownership, Kind
<1>6. HarnessAsExpected'
  BY <1>1, <1>2, <1>3, SMTT(30) DEF Ownership, HarnessAsExpected, Owns
<1>7. \A v, u \in Workers : Owns(v)' /\ Owns(u)' /\ job'[v] = job'[u] => v = u
  BY <1>1, <1>2, <1>4 DEF Ownership
<1>8. ASSUME NEW j \in Ids, state'[j] \in InTransit
      PROVE  \/ j \in accepted'
             \/ <<"load", j>> \in scheduled'
             \/ <<"unload", j>> \in scheduled'
             \/ \E v \in Workers : Owns(v)' /\ job'[v] = j
  <2>1. CASE j = i
    BY <1>1, <1>3, <2>1, ZenonT(30)
  <2>2. CASE j # i
    BY <1>1, <1>2, <1>3, <1>8, <2>2 DEF Ownership
  <2> QED
    BY <2>1, <2>2, Zenon
<1> QED
  BY <1>1, <1>2, <1>5, <1>6, <1>7, <1>8, SMTT(30) DEF Ownership

\* The decision phase: an approved request goes on with its harness, a
\* rejected one lets it go in kError.
LEMMA DecisionOwnership ==
    ASSUME CoreInv, Ownership, NEW w \in Workers,
           DecisionStep(w) \/ SpuriousWakeup(w)
    PROVE  Ownership'
<1> USE DEF CoreInv, BaseInv, TypeOK, Goto
<1> DEFINE i == job[w]
<1>1. ASSUME pc[w] \in {"decide", "approve", "reserve", "waiting"}
      PROVE  /\ Owns(w) /\ i \in Ids
             /\ state[i] = IF w \in UnloadThreads THEN "kUnloadRequested"
                                                  ELSE "kLoadRequested"
  BY <1>1, ZenonT(90) DEF Labels, Ownership, HarnessAsExpected, Owns, Expected, Deciding
<1>2. ASSUME \A v \in Workers \ {w} : pc'[v] = pc[v] /\ job'[v] = job[v]
      PROVE  \A v \in Workers \ {w} : Expected(v)' = Expected(v) /\ job'[v] = job[v]
  BY <1>2, ExpectedFrame, Zenon
<1>3. CASE EnterDecisionPhase(w) \/ AwaitResources(w) \/ SpuriousWakeup(w)
  <2>1. /\ pc[w] \in {"decide", "approve", "reserve", "waiting"}
        /\ pc'[w] \in {"approve", "reserve", "waiting"}
        /\ w \in UnloadThreads => pc'[w] = "approve"
        /\ \A v \in Workers \ {w} : pc'[v] = pc[v]
        /\ UNCHANGED <<job, state, accepted, scheduled>>
    BY <1>3 DEF EnterDecisionPhase, AwaitResources, SpuriousWakeup, Reserving,
         Labels, harnessVars, queueVars
  <2>2. Expected(w)' = {state[i]}
    BY <1>1, <2>1, Zenon DEF Expected, Deciding
  <2>3. state' = [state EXCEPT ![i] = state[i]]
    BY <1>1, <2>1, Zenon
  <2>4. \A v \in Workers \ {w} : Expected(v)' = Expected(v) /\ job'[v] = job[v]
    BY <1>2, <2>1, Zenon
  <2>5. Owns(w) /\ state[i] \in Expected(w)' /\ job'[w] = job[w]
    BY <1>1, <2>1, <2>2, Zenon
  <2>6. UNCHANGED <<accepted, scheduled>>
    BY <2>1, Zenon
  <2> QED
    BY <2>3, <2>4, <2>5, <2>6, OwnerMoves, ZenonT(30)
<1>4. CASE ApproveLoad(w)
  <2>1. /\ pc[w] \in {"approve", "reserve"} /\ w \notin UnloadThreads
        /\ Approve(w, "kLoadRequested", "kLoadApproved")
        /\ UNCHANGED <<accepted, scheduled>>
    BY <1>4, Zenon DEF ApproveLoad, Reserving, queueVars
  <2>2. /\ state' = [state EXCEPT ![i] = "kLoadApproved"]
        /\ pc' = [pc EXCEPT ![w] = "exec"] /\ job' = job
    BY <1>1, <2>1, Zenon DEF Approve, TransitionState
  <2>3. Expected(w)' = {"kLoadApproved"}
    BY <2>1, <2>2, Zenon DEF Expected, Deciding
  <2>4. \A v \in Workers \ {w} : Expected(v)' = Expected(v) /\ job'[v] = job[v]
    BY <1>2, <2>2, ZenonT(30)
  <2>5. Owns(w)
    BY <1>1, <2>1, Zenon
  <2>6. UNCHANGED <<accepted, scheduled>>
    BY <2>1, Zenon
  <2> QED
    BY <2>2, <2>3, <2>4, <2>5, <2>6, OwnerMoves, ZenonT(30)
<1>5. CASE RejectLoad(w)
  <2>1. /\ pc[w] \in {"approve", "reserve"} /\ w \notin UnloadThreads
        /\ Reject(w)
        /\ UNCHANGED <<accepted, scheduled>>
    BY <1>5, Zenon DEF RejectLoad, Reserving, queueVars
  <2>2. state' = [state EXCEPT ![i] = "kError"]
    BY <1>1, <1>5, <2>1, ZenonT(30) DEF RejectLoad, Healthy, Error
  <2>3. pc'[w] = "idle" /\ \A v \in Workers \ {w} : pc'[v] = pc[v] /\ job'[v] = job[v]
    BY <2>1 DEF Reject
  <2>4. Expected(w)' = {}
    BY <2>3, ZenonT(30) DEF Expected, Deciding
  <2> QED
    BY <1>1, <1>2, <2>1, <2>2, <2>3, <2>4, OwnerMoves, ZenonT(30) DEF InTransit
<1>6. CASE ApproveUnload(w)
  <2>1. /\ pc[w] = "approve" /\ w \in UnloadThreads
        /\ UNCHANGED <<accepted, scheduled>>
    BY <1>6, Zenon DEF ApproveUnload, queueVars
  <2>2. /\ state' = [state EXCEPT ![i] = "kQuiescing"]
        /\ pc' = [pc EXCEPT ![w] = "exec"] /\ job' = job
    BY <1>1, <1>6, <2>1, Zenon DEF ApproveUnload, Healthy, Approve, TransitionState
  <2>3. Expected(w)' = {"kQuiescing"}
    BY <2>1, <2>2, Zenon DEF Expected
  <2>4. \A v \in Workers \ {w} : Expected(v)' = Expected(v) /\ job'[v] = job[v]
    BY <1>2, <2>2, ZenonT(30)
  <2>5. Owns(w)
    BY <1>1, <2>1, Zenon
  <2>6. UNCHANGED <<accepted, scheduled>>
    BY <2>1, Zenon
  <2> QED
    BY <2>2, <2>3, <2>4, <2>5, <2>6, OwnerMoves, ZenonT(30)
<1> QED
  BY <1>3, <1>4, <1>5, <1>6, ZenonT(30) DEF DecisionStep

\* What the harness of an executing request looks like.
LEMMA ExecutingHarness ==
    ASSUME CoreInv, Ownership, NEW w \in Workers
    PROVE  /\ pc[w] # "idle" => job[w] \in Ids
           /\ w \notin UnloadThreads =>
                /\ pc[w] = "exec" => Owns(w) /\ state[job[w]] = "kLoadApproved"
                /\ pc[w] = "loading" => Owns(w) /\ state[job[w]] = "kLoading"
           /\ w \in UnloadThreads =>
                /\ pc[w] \in {"exec", "swap", "drain"} =>
                      Owns(w) /\ state[job[w]] = "kQuiescing"
                /\ pc[w] = "unload" => Owns(w) /\ state[job[w]] = "kQuiesced"
                /\ pc[w] = "unloading" => Owns(w) /\ state[job[w]] = "kUnloading"
           /\ pc[w] = "loading" => w \notin UnloadThreads
           /\ pc[w] \in {"unload", "unloading"} => w \in UnloadThreads
BY ZenonT(30) DEF CoreInv, BaseInv, Labels, Ownership, HarnessAsExpected, Owns, Expected,
      Deciding

\* A worker goes on to label l and takes its harness to state s.
LEMMA OwnerGoto ==
    ASSUME CoreInv, Ownership, NEW w \in Workers, Owns(w), NEW l, NEW s,
           UNCHANGED <<accepted, scheduled, job>>, Goto(w, l),
           state' = [state EXCEPT ![job[w]] = s],
           s \in Expected(w)' \/ (Expected(w)' = {} /\ s \notin InTransit)
    PROVE  Ownership'
<1>1. \A v \in Workers \ {w} : Expected(v)' = Expected(v) /\ job'[v] = job[v]
  BY ExpectedFrame DEF Goto, CoreInv, BaseInv, TypeOK
<1>2. UNCHANGED <<accepted, scheduled>> /\ job'[w] = job[w]
  BY Zenon
<1> QED
  BY <1>1, <1>2, OwnerMoves, Zenon

\* A worker that owns no harness goes on to label l, and still owns none.
LEMMA LooseGoto ==
    ASSUME CoreInv, Ownership, NEW w \in Workers, NEW l,
           UNCHANGED <<accepted, scheduled, job, state>>, Goto(w, l),
           Expected(w) = {}, Expected(w)' = {}
    PROVE  Ownership'
<1>1. \A v \in Workers : Expected(v)' = Expected(v)
  BY ExpectedFrame, Zenon DEF Goto, CoreInv, BaseInv, TypeOK
<1> QED
  BY <1>1, OthersMove, ExpectedInTransit, Zenon

\* LoaderHarness::Load() takes the harness to kReady or kError.
LEMMA LoadOwnership ==
    ASSUME CoreInv, Ownership, NEW w \in Workers,
           BeginLoad(w) \/ LoadSucceeds(w) \/ LoadFails(w)
    PROVE  Ownership'
<1> USE DEF CoreInv, BaseInv, TypeOK
<1>1. CASE BeginLoad(w)
  <2>1. /\ w \notin UnloadThreads /\ Owns(w) /\ Goto(w, "loading")
        /\ state' = [state EXCEPT ![job[w]] = "kLoading"]
        /\ UNCHANGED <<accepted, scheduled, job>>
    BY <1>1, ExecutingHarness, Zenon DEF BeginLoad, queueVars
  <2>2. Expected(w)' = {"kLoading"}
    BY <2>1, Zenon DEF Goto, Expected, Deciding
  <2> QED
    BY <2>1, <2>2, OwnerGoto, Zenon
<1>2. CASE LoadSucceeds(w)
  <2>1. /\ w \notin UnloadThreads /\ Owns(w) /\ Goto(w, "loaded")
        /\ state' = [state EXCEPT ![job[w]] = "kReady"]
        /\ UNCHANGED <<accepted, scheduled, job>>
    BY <1>2, ExecutingHarness, Zenon DEF LoadSucceeds, TransitionState, queueVars
  <2>2. Expected(w)' = {}
    BY <2>1, ZenonT(30) DEF Goto, Expected, Deciding
  <2> QED
    BY <2>1, <2>2, OwnerGoto, Zenon DEF InTransit
<1>3. CASE LoadFails(w)
  <2>1. CASE job[w] \in cancel \/ tries[w] = MaxNumLoadRetries
    <3>1. /\ Owns(w) /\ Goto(w, "finish")
          /\ state' = [state EXCEPT ![job[w]] = "kError"]
          /\ UNCHANGED <<accepted, scheduled, job>>
      BY <1>3, <2>1, ExecutingHarness, Zenon DEF LoadFails, Error, queueVars
    <3>2. Expected(w)' = {}
      BY <3>1, ZenonT(30) DEF Goto, Expected, Deciding
    <3> QED
      BY <3>1, <3>2, OwnerGoto, Zenon DEF InTransit
  <2>2. CASE ~(job[w] \in cancel \/ tries[w] = MaxNumLoadRetries)
    BY <1>3, <2>2, QuietStep, Zenon DEF LoadFails, queueVars
  <2> QED
    BY <2>1, <2>2, Zenon
<1> QED
  BY <1>1, <1>2, <1>3, Zenon

\* UpdateServingMap() keeps the harness of an unload with its worker.
LEMMA UpdateOwnership ==
    ASSUME CoreInv, Ownership, NEW w \in Workers,
           \/ BeginUpdateServingMap(w) \/ SwapHandlesMap(w)
           \/ EndUpdateServingMap(w) \/ AnnounceAvailable(w)
    PROVE  Ownership'
<1> USE DEF CoreInv, BaseInv, TypeOK
<1>1. CASE w \in UnloadThreads /\ (BeginUpdateServingMap(w) \/ SwapHandlesMap(w))
  <2>1. /\ pc[w] \in {"exec", "swap"} /\ \E l \in {"swap", "drain"} : Goto(w, l)
        /\ UNCHANGED <<accepted, scheduled, job, state>>
    BY <1>1, Zenon DEF BeginUpdateServingMap, SwapHandlesMap, NewHandlesMaps,
          harnessVars, queueVars
  <2>2. Owns(w) /\ job[w] \in Ids /\ state[job[w]] = "kQuiescing"
    BY <1>1, <2>1, ExecutingHarness, Zenon
  <2>3. Expected(w)' = {"kQuiescing"}
    BY <1>1, <2>1, ZenonT(30) DEF Goto, Expected
  <2>4. state' = [state EXCEPT ![job[w]] = "kQuiescing"]
    BY <2>1, <2>2, Zenon
  <2> QED
    BY <2>1, <2>2, <2>3, <2>4, OwnerGoto, ZenonT(30)
<1>2. CASE w \in UnloadThreads /\ EndUpdateServingMap(w)
  <2>1. /\ Owns(w) /\ Goto(w, "unload")
        /\ state' = [state EXCEPT ![job[w]] = "kQuiesced"]
        /\ UNCHANGED <<accepted, scheduled, job>>
    BY <1>2, ExecutingHarness, Zenon DEF EndUpdateServingMap, HandlesReleased,
          TransitionState, queueVars
  <2>2. Expected(w)' = {"kQuiesced"}
    BY <1>2, <2>1, Zenon DEF Goto, Expected
  <2> QED
    BY <2>1, <2>2, OwnerGoto, Zenon
<1>3. CASE w \notin UnloadThreads \/ AnnounceAvailable(w)
  <2>1. /\ pc[w] \in {"loaded", "swap", "drain", "announce"}
        /\ w \notin UnloadThreads
        /\ \E l \in {"swap", "drain", "announce", "finish"} : Goto(w, l)
        /\ UNCHANGED <<accepted, scheduled, job, state>>
    BY <1>3, Zenon DEF BeginUpdateServingMap, SwapHandlesMap, NewHandlesMaps,
          EndUpdateServingMap, HandlesReleased,
                AnnounceAvailable, Labels, harnessVars, queueVars
  <2>2. Expected(w) = {} /\ Expected(w)' = {}
    BY <2>1, ZenonT(30) DEF Goto, Expected, Deciding
  <2> QED
    BY <2>1, <2>2, LooseGoto, Zenon
<1> QED
  BY <1>1, <1>2, <1>3, Zenon

\* LoaderHarness::Unload() takes the harness to kDisabled.
LEMMA UnloadOwnership ==
    ASSUME CoreInv, Ownership, NEW w \in Workers,
           BeginUnload(w) \/ EndUnload(w) \/ AnnounceEnd(w) \/ Finish(w)
    PROVE  Ownership'
<1> USE DEF CoreInv, BaseInv, TypeOK
<1>1. CASE BeginUnload(w)
  <2>1. /\ Owns(w) /\ w \in UnloadThreads /\ Goto(w, "unloading")
        /\ state' = [state EXCEPT ![job[w]] = "kUnloading"]
        /\ UNCHANGED <<accepted, scheduled, job>>
    BY <1>1, ExecutingHarness, Zenon DEF BeginUnload, TransitionState, queueVars
  <2>2. Expected(w)' = {"kUnloading"}
    BY <2>1, Zenon DEF Goto, Expected
  <2> QED
    BY <2>1, <2>2, OwnerGoto, Zenon
<1>2. CASE EndUnload(w)
  <2>1. /\ Owns(w) /\ w \in UnloadThreads /\ Goto(w, "unloaded")
        /\ state' = [state EXCEPT ![job[w]] = "kDisabled"]
        /\ UNCHANGED <<accepted, scheduled, job>>
    BY <1>2, ExecutingHarness, Zenon DEF EndUnload, TransitionState, queueVars
  <2>2. Expected(w)' = {}
    BY <2>1, ZenonT(30) DEF Goto, Expected
  <2> QED
    BY <2>1, <2>2, OwnerGoto, Zenon DEF InTransit
<1>3. CASE AnnounceEnd(w)
  <2>1. /\ pc[w] = "unloaded" /\ Goto(w, "finish")
        /\ UNCHANGED <<accepted, scheduled, job, state>>
    BY <1>3, Zenon DEF AnnounceEnd, harnessVars, queueVars
  <2>2. Expected(w) = {} /\ Expected(w)' = {}
    BY <2>1, Zenon DEF Goto, Expected, Deciding
  <2> QED
    BY <2>1, <2>2, LooseGoto, Zenon
<1>4. CASE Finish(w)
  <2>1. /\ UNCHANGED <<accepted, scheduled, state>>
        /\ pc[w] = "finish" /\ pc'[w] = "idle"
        /\ \A v \in Workers \ {w} :
              /\ job'[v] = job[v]
              /\ pc'[v] = IF pc[v] = "waiting" THEN "reserve" ELSE pc[v]
    BY <1>4, ZenonT(30) DEF Finish, NotifyAll, harnessVars, queueVars
  <2>2. Expected(w) = {} /\ Expected(w)' = {}
    BY <2>1, Zenon DEF Expected, Deciding
  <2>3. ASSUME NEW v \in Workers \ {w}
        PROVE  Expected(v)' = Expected(v)
    <3>1. CASE pc[v] = "waiting"
      BY <2>1, <3>1, Zenon DEF Expected, Deciding, Labels
    <3>2. CASE pc[v] # "waiting"
      BY <2>1, <3>2, ExpectedFrame, Zenon
    <3> QED
      BY <3>1, <3>2, Zenon
  <2> QED
    BY <2>1, <2>2, <2>3, OthersMove, ExpectedInTransit, Zenon DEF Owns
<1> QED
  BY <1>1, <1>2, <1>3, <1>4, Zenon

\* Every step keeps the ownership of harnesses.
LEMMA OwnershipStep ==
    ASSUME CoreInv, Ownership, [Next]_vars
    PROVE  Ownership'
<1>1. ASSUME NEW i \in Ids, OwnerCall(i) \/ CancelLoadServableRetry(i)
      PROVE  Ownership'
  BY <1>1, OwnerOwnership, Zenon
<1>2. ASSUME NEW pool \in LoadPools, SetNumLoadThreads(pool)
      PROVE  Ownership'
  BY <1>2, QuietStep, Zenon DEF SetNumLoadThreads, harnessVars, workerVars
<1>3. CASE LoadExecutorReset
  BY <1>3, QuietStep, Zenon DEF LoadExecutorReset, harnessVars, workerVars
<1>4. ASSUME NEW c \in Clients, ClientNext(c)
      PROVE  Ownership'
  BY <1>4, QuietStep, Zenon DEF ClientNext, GetUntypedServableHandle, ReleaseHandle,
       GetAvailableUntypedServableHandles, harnessVars, workerVars, queueVars
<1>5. ASSUME NEW i \in Ids, ScheduleLoad(i)
      PROVE  Ownership'
  <2>1. CASE load_pool = {}
    <3>1. Inline \in Workers /\ Inline \notin UnloadThreads
      BY Zenon DEF Workers
    <3> QED
      BY <1>5, <2>1, <3>1, HandOver, Zenon DEF ScheduleLoad, Goto, harnessVars
  <2>2. CASE load_pool # {}
    <3>1. /\ i \in accepted /\ accepted' = accepted \ {i}
          /\ scheduled' = scheduled \cup {<<"load", i>>}
          /\ UNCHANGED <<pc, job, state>>
      BY <1>5, <2>2, Zenon DEF ScheduleLoad, harnessVars
    <3>2. \A v \in Workers : Owns(v)' = Owns(v) /\ Expected(v)' = Expected(v)
      BY <3>1, ExpectedFrame, Zenon DEF Owns
    <3>3. \A v \in Workers : Owns(v) => job[v] # i
      <4>1. i \in accepted
        BY <3>1, Zenon
      <4>2. \A v \in Workers : Owns(v) => job[v] \notin accepted
        BY Zenon DEF Ownership
      <4> QED
        BY <4>1, <4>2
    <3>4. HarnessAsExpected'
      BY <3>1, <3>2, SMTT(30) DEF Ownership, HarnessAsExpected
    <3> QED
      BY <3>1, <3>2, <3>3, <3>4, Zenon DEF Ownership
  <2> QED
    BY <2>1, <2>2, Zenon
<1>6. ASSUME NEW w \in Workers, NEW i \in Ids, Start(w, i)
      PROVE  Ownership'
  BY <1>6, HandOver, Zenon DEF Start, Goto, harnessVars
<1>7. ASSUME NEW w \in Workers, DecisionStep(w) \/ SpuriousWakeup(w) \/ ExecutionStep(w)
      PROVE  Ownership'
  BY <1>7, DecisionOwnership, LoadOwnership, UpdateOwnership, UnloadOwnership, Zenon
     DEF ExecutionStep
<1>8. CASE UNCHANGED vars
  BY <1>8, QuietStep, Zenon DEF vars
<1> QED
  BY <1>1, <1>2, <1>3, <1>4, <1>5, <1>6, <1>7, <1>8,
     Zenon DEF Next, Internal, WorkerNext

\* Initially no harness is in transit.
LEMMA InitOwnership == Init => Ownership
BY DEF Init, Ownership, HarnessAsExpected, Owns, Expected, Deciding, InTransit

\* No request finds its harness gone or in a state it did not expect, so
\* TransitionState() never reports an illegal transition.
THEOREM NoIllegalTransition == Spec => []HarnessAsExpected
<1>1. CoreInv /\ Ownership /\ [Next]_vars => (CoreInv /\ Ownership)'
  BY CoreStep, OwnershipStep, Zenon
<1>2. Ownership => HarnessAsExpected
  BY Zenon DEF Ownership
<1> QED
  BY InitCore, InitOwnership, <1>1, <1>2, PTL DEF Spec

\* Every harness in transit is carried by exactly one request.
THEOREM ExactlyOneCarrier == Spec => []OneCarrier
<1>1. CoreInv /\ Ownership /\ [Next]_vars => (CoreInv /\ Ownership)'
  BY CoreStep, OwnershipStep, Zenon
<1>2. ASSUME CoreInv, Ownership
      PROVE  OneCarrier
  <2> SUFFICES ASSUME NEW i \in Ids
               PROVE  /\ state[i] \in InTransit <=> Carriers(i) # {}
                      /\ \A x, y \in Carriers(i) : x = y
    BY Zenon DEF OneCarrier
  <2>1. \A x : x \in Carriers(i) <=>
           \/ x = <<"caller", i>> /\ i \in accepted
           \/ x = <<"load", i>> /\ x \in scheduled
           \/ x = <<"unload", i>> /\ x \in scheduled
           \/ \E w \in Workers : x = <<"worker", w>> /\ Owns(w) /\ job[w] = i
    BY DEF Carriers, Owns
  <2>2. /\ i \in accepted => state[i] = "kLoadRequested" /\ <<"load", i>> \notin scheduled
        /\ <<"load", i>> \in scheduled => state[i] = "kLoadRequested"
        /\ <<"unload", i>> \in scheduled => state[i] = "kUnloadRequested"
    BY <1>2, Zenon DEF Ownership
  <2>3. \A w \in Workers : Owns(w) /\ job[w] = i =>
           /\ i \notin accepted
           /\ <<"load", i>> \notin scheduled
           /\ <<"unload", i>> \notin scheduled
    BY <1>2 DEF Ownership
  <2>4. \A w \in Workers : Owns(w) /\ job[w] = i => state[i] \in InTransit
    BY <1>2, ExpectedInTransit, Zenon DEF Ownership, HarnessAsExpected, Owns
  <2>5. ASSUME NEW x \in Carriers(i)
        PROVE  state[i] \in InTransit
    BY <2>1, <2>2, <2>4, ZenonT(30) DEF InTransit
  <2>6. ASSUME state[i] \in InTransit
        PROVE  \E x : x \in Carriers(i)
    <3>1. \/ i \in accepted
          \/ <<"load", i>> \in scheduled
          \/ <<"unload", i>> \in scheduled
          \/ \E w \in Workers : Owns(w) /\ job[w] = i
      BY <1>2, <2>6, Zenon DEF Ownership
    <3>2. CASE i \in accepted
      BY <2>1, <3>2, Zenon
    <3>3. CASE <<"load", i>> \in scheduled
      BY <2>1, <3>3, Zenon
    <3>4. CASE <<"unload", i>> \in scheduled
      BY <2>1, <3>4, Zenon
    <3>5. ASSUME NEW w \in Workers, Owns(w), job[w] = i
          PROVE  \E x : x \in Carriers(i)
      <4>1. <<"worker", w>> \in Carriers(i)
        BY <2>1, <3>5, Zenon
      <4> QED
        BY <4>1, Zenon
    <3> QED
      BY <3>1, <3>2, <3>3, <3>4, <3>5, Zenon
  <2>7. ASSUME NEW x \in Carriers(i), NEW y \in Carriers(i)
        PROVE  x = y
    <3>1. CASE \E w \in Workers : x = <<"worker", w>> /\ Owns(w) /\ job[w] = i
      <4>1. PICK w \in Workers : x = <<"worker", w>> /\ Owns(w) /\ job[w] = i
        BY <3>1, Zenon
      <4>2. PICK v \in Workers : y = <<"worker", v>> /\ Owns(v) /\ job[v] = i
        BY <2>1, <2>3, <4>1
      <4> QED
        BY <1>2, <4>1, <4>2, Zenon DEF Ownership
    <3>2. CASE ~\E w \in Workers : x = <<"worker", w>> /\ Owns(w) /\ job[w] = i
      BY <2>1, <2>2, <2>3, <3>2
    <3> QED
      BY <3>1, <3>2, Zenon
  <2> QED
    BY <2>5, <2>6, <2>7, Zenon
<1> QED
  BY InitCore, InitOwnership, <1>1, <1>2, PTL DEF Spec

-----------------------------------------------------------------------------
(***************************************************************************)
(* BasicManager unloads a servable only when no handle to it is left,      *)
(* keeps a ready servable available, never commits more resources than     *)
(* there are, and never sleeps for resources that nobody is going to free. *)
(***************************************************************************)

\* A handle that is not on the current map holds up the one rebuild that
\* replaced its map; what is being unloaded is not in the map it waits with.
Handles ==
    /\ \A i \in serving : state[i] \in Live
    /\ \A c \in Clients : \A i \in held[c] : state[i] \in Live
    /\ \A c \in Clients : c \notin stale => held[c] \subseteq serving
    /\ stale # {} => \E w \in Workers : pc[w] = "drain"
    /\ \A w \in Workers : pc[w] = "drain" /\ w \in UnloadThreads =>
          job[w] \notin serving
    /\ \A w \in Workers : pc[w] = "swap" =>
          \A i \in serving : state[i] = "kReady" => i \in scan

SafeInv == CoreInv /\ Ownership /\ Handles

\* A step that stays away from the handles map.
LEMMA AwayFromMap ==
    ASSUME SafeInv, UNCHANGED servingVars,
           \A w \in Workers :
              \/ pc'[w] = pc[w] /\ job'[w] = job[w]
              \/ pc[w] \notin {"swap", "drain"} /\ pc'[w] \notin {"swap", "drain"},
           \A i \in Ids : state[i] \in Live =>
              /\ state'[i] \in Live
              /\ state'[i] = "kReady" => state[i] = "kReady"
    PROVE  Handles'
<1> USE DEF SafeInv, CoreInv, BaseInv, TypeOK, servingVars
<1>1. /\ \A i \in serving' : state'[i] \in Live
      /\ \A c \in Clients : \A i \in held'[c] : state'[i] \in Live
      /\ \A c \in Clients : c \notin stale' => held'[c] \subseteq serving'
  BY Zenon DEF Handles
<1>2. stale' # {} => \E w \in Workers : pc'[w] = "drain"
  BY Zenon DEF Handles
<1>3. \A w \in Workers : pc'[w] = "drain" /\ w \in UnloadThreads =>
          job'[w] \notin serving'
  BY Zenon DEF Handles
<1>4. \A w \in Workers : pc'[w] = "swap" =>
          \A i \in serving' : state'[i] = "kReady" => i \in scan'
  BY Zenon DEF Handles
<1> QED
  BY <1>1, <1>2, <1>3, <1>4, Zenon DEF Handles

\* The owner's calls leave the handles map alone; UnloadServable() leaves its
\* servable live.
LEMMA OwnerHandles ==
    ASSUME SafeInv, NEW i \in Ids, OwnerCall(i) \/ CancelLoadServableRetry(i)
    PROVE  Handles'
<1> USE DEF SafeInv, CoreInv, BaseInv, TypeOK
<1>1. UNCHANGED <<servingVars, pc, job>>
  BY ZenonT(30) DEF OwnerCall, ManageServable, StopManagingServable, Removable,
        LoadServable, LoadRequested,
         UnloadServable, CancelLoadServableRetry, workerVars
<1>2. \A j \in Ids : state[j] \in Live =>
         /\ state'[j] \in Live
         /\ state'[j] = "kReady" => state[j] = "kReady"
  BY DEF OwnerCall, ManageServable, StopManagingServable, Removable,
        LoadServable, LoadRequested,
         UnloadServable, CancelLoadServableRetry, Live
<1> QED
  BY <1>1, <1>2, AwayFromMap, Zenon

\* Replacing and using the load executor leaves the handles map alone.
LEMMA CallerHandles ==
    ASSUME SafeInv,
           \/ \E pool \in LoadPools : SetNumLoadThreads(pool)
           \/ \E i \in Ids : ScheduleLoad(i)
           \/ LoadExecutorReset
           \/ UNCHANGED vars
    PROVE  Handles'
<1> USE DEF SafeInv, CoreInv, BaseInv, TypeOK, harnessVars, workerVars
<1>1. ASSUME NEW pool \in LoadPools, SetNumLoadThreads(pool)
      PROVE  Handles'
  BY <1>1, AwayFromMap, Zenon DEF SetNumLoadThreads
<1>2. CASE LoadExecutorReset
  BY <1>2, AwayFromMap, ZenonT(30) DEF LoadExecutorReset
<1>3. ASSUME NEW i \in Ids, ScheduleLoad(i)
      PROVE  Handles'
  BY <1>3, AwayFromMap DEF ScheduleLoad, Goto
<1>4. CASE UNCHANGED vars
  BY <1>4, AwayFromMap, Zenon DEF vars, servingVars
<1> QED
  BY <1>1, <1>2, <1>3, <1>4, Zenon

\* A client gets handles from the current map and releases them.
LEMMA ClientHandles ==
    ASSUME SafeInv, NEW c \in Clients, ClientNext(c)
    PROVE  Handles'
<1> USE DEF SafeInv, CoreInv, BaseInv, TypeOK, harnessVars, workerVars
<1>1. ASSUME NEW i \in Ids, GetUntypedServableHandle(c, i)
      PROVE  Handles'
  BY <1>1 DEF GetUntypedServableHandle, Handles
<1>2. CASE GetAvailableUntypedServableHandles(c)
  BY <1>2, SMTT(30) DEF GetAvailableUntypedServableHandles, Handles
<1>3. ASSUME NEW i \in Ids, ReleaseHandle(c, i)
      PROVE  Handles'
  BY <1>3 DEF ReleaseHandle, Handles
<1> QED
  BY <1>1, <1>2, <1>3, ZenonT(30) DEF ClientNext

\* Requests outside UpdateServingMap() only change harnesses that are not live.
LEMMA WorkerHandles ==
    ASSUME SafeInv, NEW w \in Workers,
           \/ \E i \in Ids : Start(w, i)
           \/ DecisionStep(w) \/ SpuriousWakeup(w)
           \/ BeginLoad(w) \/ LoadSucceeds(w) \/ LoadFails(w)
           \/ AnnounceAvailable(w) \/ BeginUnload(w) \/ EndUnload(w)
           \/ AnnounceEnd(w) \/ Finish(w)
    PROVE  Handles'
<1> USE DEF SafeInv, CoreInv, BaseInv, TypeOK, Goto, harnessVars
<1>1. ASSUME NEW s, state[job[w]] \notin Live,
             state' = [state EXCEPT ![job[w]] = s]
      PROVE  \A i \in Ids : state[i] \in Live =>
                /\ state'[i] \in Live
                /\ state'[i] = "kReady" => state[i] = "kReady"
  BY <1>1, ZenonT(30)
<1>2. ASSUME UNCHANGED state
      PROVE  \A i \in Ids : state[i] \in Live =>
                /\ state'[i] \in Live
                /\ state'[i] = "kReady" => state[i] = "kReady"
  BY <1>2, Zenon
<1>3. ASSUME NEW i \in Ids, Start(w, i)
      PROVE  Handles'
  BY <1>2, <1>3, AwayFromMap, ZenonT(30) DEF Start
<1>4. CASE EnterDecisionPhase(w) \/ AwaitResources(w) \/ SpuriousWakeup(w)
  BY <1>2, <1>4, AwayFromMap, ZenonT(90) DEF EnterDecisionPhase, AwaitResources, Reserving,
     SpuriousWakeup
<1>5. CASE ApproveLoad(w) \/ RejectLoad(w)
  <2>1. /\ UNCHANGED servingVars
        /\ pc[w] \in {"approve", "reserve"} /\ w \notin UnloadThreads
        /\ pc'[w] \in {"idle", "exec"}
        /\ \A v \in Workers \ {w} : pc'[v] = pc[v] /\ job'[v] = job[v]
    <3>1. /\ UNCHANGED servingVars
          /\ pc[w] \in {"approve", "reserve"} /\ w \notin UnloadThreads
          /\ Approve(w, "kLoadRequested", "kLoadApproved") \/ Reject(w)
      BY <1>5, Zenon DEF ApproveLoad, RejectLoad, Reserving
    <3>2. \/ pc' = [pc EXCEPT ![w] = "exec"] /\ job' = job
          \/ pc' = [pc EXCEPT ![w] = "idle"] /\ job' = [job EXCEPT ![w] = NoId]
      BY <3>1, Zenon DEF Approve, Reject
    <3>3. DOMAIN pc = Workers /\ DOMAIN job = Workers
      BY Zenon
    <3> QED  BY <3>1, <3>2, <3>3, ZenonT(30)
  <2>2. state[job[w]] = "kLoadRequested"
    BY <2>1, ZenonT(30) DEF Ownership, HarnessAsExpected, Expected, Deciding
  <2>3. UNCHANGED state \/ \E s : state' = [state EXCEPT ![job[w]] = s]
    BY <1>5, Zenon DEF ApproveLoad, RejectLoad, Approve, TransitionState, Error
  <2> QED
    BY <1>1, <1>2, <2>1, <2>2, <2>3, AwayFromMap, Zenon DEF Live
<1>6. CASE ApproveUnload(w)
  <2>1. /\ UNCHANGED servingVars
        /\ pc[w] = "approve" /\ w \in UnloadThreads
        /\ pc'[w] \in {"idle", "exec"}
        /\ \A v \in Workers \ {w} : pc'[v] = pc[v] /\ job'[v] = job[v]
    BY <1>6 DEF ApproveUnload, Approve, Reject
  <2>2. state[job[w]] = "kUnloadRequested" /\ job[w] \in Ids
    BY <2>1, Zenon DEF Ownership, HarnessAsExpected, Expected
  <2>3. state' = [state EXCEPT ![job[w]] = "kQuiescing"]
    BY <1>6, <2>2, Zenon DEF ApproveUnload, Healthy, Approve, TransitionState
  <2> QED
    BY <2>1, <2>2, <2>3, AwayFromMap, ZenonT(30) DEF Live
<1>7. CASE \/ BeginLoad(w) \/ LoadSucceeds(w) \/ LoadFails(w)
           \/ BeginUnload(w) \/ EndUnload(w)
  <2>1. /\ UNCHANGED <<servingVars, job>>
        /\ pc[w] \in {"exec", "loading", "unload", "unloading"}
        /\ pc[w] = "exec" => w \notin UnloadThreads
        /\ pc'[w] \in {"loading", "finish", "loaded", "unloading", "unloaded"}
        /\ \A v \in Workers \ {w} : pc'[v] = pc[v]
    <3>1. CASE BeginLoad(w) \/ LoadSucceeds(w)
      BY <3>1, SMTT(30) DEF BeginLoad, LoadSucceeds
    <3>2. CASE LoadFails(w)
      BY <3>2, SMTT(30) DEF LoadFails
    <3>3. CASE BeginUnload(w) \/ EndUnload(w)
      BY <3>3 DEF BeginUnload, EndUnload
    <3> QED  BY <1>7, <3>1, <3>2, <3>3, ZenonT(30)
  <2>2. state[job[w]] \notin Live
    BY <2>1, ExecutingHarness, Zenon DEF Live
  <2>3. UNCHANGED state \/ \E s : state' = [state EXCEPT ![job[w]] = s]
    BY <1>7, Zenon DEF BeginLoad, LoadSucceeds, LoadFails, BeginUnload, EndUnload,
       TransitionState, Error
  <2> QED
    BY <1>1, <1>2, <2>1, <2>2, <2>3, AwayFromMap, ZenonT(30)
<1>8. CASE AnnounceAvailable(w) \/ AnnounceEnd(w)
  BY <1>2, <1>8, AwayFromMap, ZenonT(30) DEF AnnounceAvailable, AnnounceEnd
<1>9. CASE Finish(w)
  BY <1>2, <1>9, AwayFromMap, ZenonT(30) DEF Finish, NotifyAll
<1> QED
  BY <1>3, <1>4, <1>5, <1>6, <1>7, <1>8, <1>9, Zenon DEF DecisionStep

\* ServingMap::Update(): the new map holds ready servables, and it ends only
\* when no handle of the replaced map is left.
LEMMA UpdateHandles ==
    ASSUME SafeInv, NEW w \in Workers,
           \/ BeginUpdateServingMap(w) \/ SwapHandlesMap(w)
           \/ EndUpdateServingMap(w)
    PROVE  Handles'
<1> USE DEF SafeInv, CoreInv, BaseInv, TypeOK, Goto, harnessVars
<1>1. CASE BeginUpdateServingMap(w)
  <2>1. /\ UNCHANGED <<state, serving, held, stale, job>>
        /\ pc[w] \notin {"swap", "drain"} /\ pc'[w] = "swap"
        /\ \A v \in Workers \ {w} : pc'[v] = pc[v]
        /\ mu = Nobody /\ scan' = Ready
    BY <1>1, ZenonT(30) DEF BeginUpdateServingMap
  <2>2. \A v \in Workers : pc[v] \notin {"swap", "drain"}
    BY <2>1, ZenonT(30) DEF Locks
  <2>3. \A i \in serving : state[i] = "kReady" => i \in scan'
    BY <2>1, Zenon DEF Ready
  <2> QED
    BY <2>1, <2>2, <2>3, Zenon DEF Handles
<1>2. CASE SwapHandlesMap(w)
  <2>1. /\ UNCHANGED <<state, held, job>>
        /\ pc[w] = "swap" /\ pc'[w] = "drain"
        /\ \A v \in Workers \ {w} : pc'[v] = pc[v]
        /\ \A i \in serving' : state[i] = "kReady"
        /\ stale' = {c \in Clients : held[c] # {}}
    BY <1>2, ZenonT(30) DEF SwapHandlesMap, NewHandlesMaps, Ready
  <2>2. \A v \in Workers \ {w} : pc'[v] \notin {"swap", "drain"}
    BY <2>1, ZenonT(30) DEF Locks
  <2>3. w \in UnloadThreads => state[job[w]] = "kQuiescing"
    BY <2>1, ExecutingHarness, ZenonT(30)
  <2> QED
    BY <2>1, <2>2, <2>3, ZenonT(30) DEF Handles, Live
<1>3. CASE EndUpdateServingMap(w)
  <2>1. /\ UNCHANGED <<serving, held, stale, job>>
        /\ pc[w] = "drain" /\ stale = {}
        /\ pc'[w] \notin {"swap", "drain"}
        /\ \A v \in Workers \ {w} : pc'[v] = pc[v]
    BY <1>3 DEF EndUpdateServingMap, HandlesReleased
  <2>2. \A v \in Workers : pc'[v] \notin {"swap", "drain"}
    BY <2>1, Zenon DEF Locks
  <2>3. \A c \in Clients : held[c] \subseteq serving
    BY <2>1, ZenonT(30) DEF Handles
  <2>4. \A i \in serving : state'[i] = state[i]
    BY <1>3, <2>1 DEF EndUpdateServingMap, HandlesReleased, TransitionState,
          Error, Handles
  <2> QED
    BY <2>1, <2>2, <2>3, <2>4, ZenonT(30) DEF Handles
<1> QED
  BY <1>1, <1>2, <1>3, Zenon

\* Every step keeps the combined invariant.
LEMMA SafeStep ==
    ASSUME SafeInv, [Next]_vars
    PROVE  SafeInv'
<1>1. (CoreInv /\ Ownership)'
  BY CoreStep, OwnershipStep, Zenon DEF SafeInv
<1>2. Handles'
  BY OwnerHandles, CallerHandles, ClientHandles, WorkerHandles, UpdateHandles, Zenon
     DEF Next, Internal, WorkerNext, ExecutionStep
<1> QED
  BY <1>1, <1>2, Zenon DEF SafeInv

\* Initially nothing is served.
LEMMA InitSafe == Init => SafeInv
BY InitCore, InitOwnership, Zenon DEF Init, SafeInv, Handles

\* Clients can only reach servables that are loaded, and what a handle refers
\* to stays loaded until the handle is released.
THEOREM HandlesStayLive == Spec => []HandlesAreLive
<1>1. SafeInv /\ [Next]_vars => SafeInv'
  BY SafeStep, Zenon
<1>2. SafeInv => HandlesAreLive
  BY Zenon DEF SafeInv, Handles, HandlesAreLive
<1> QED
  BY InitSafe, <1>1, <1>2, PTL DEF Spec

\* A servable in the handles map stays there until its unload is requested.
THEOREM ReadyStaysAvailable == Spec => StaysAvailable
<1>1. SafeInv /\ [Next]_vars => SafeInv'
  BY SafeStep, Zenon
<1>2. ASSUME SafeInv, [Next]_vars
      PROVE  [\A i \in serving : state[i] = "kReady" => i \in serving']_vars
  <2>1. CASE UNCHANGED serving
    BY <2>1, Zenon
  <2>2. ASSUME NEW w \in Workers, SwapHandlesMap(w)
        PROVE  \A i \in serving : state[i] = "kReady" => i \in serving'
    BY <1>2, <2>2, Zenon DEF SwapHandlesMap, NewHandlesMaps, SafeInv, Handles
  <2>3. UNCHANGED serving \/ \E w \in Workers : SwapHandlesMap(w)
    <3> USE DEF servingVars
    <3>1. CASE UNCHANGED vars
      BY <3>1, Zenon DEF vars
    <3>2. ASSUME NEW i \in Ids, OwnerCall(i) \/ CancelLoadServableRetry(i) \/ ScheduleLoad(i)
          PROVE  UNCHANGED serving
      BY <3>2, Zenon DEF OwnerCall, ManageServable, StopManagingServable, Removable,
            LoadServable, LoadRequested,
         UnloadServable, CancelLoadServableRetry, ScheduleLoad
    <3>3. ASSUME NEW pool, SetNumLoadThreads(pool) \/ LoadExecutorReset
          PROVE  UNCHANGED serving
      BY <3>3, Zenon DEF SetNumLoadThreads, LoadExecutorReset
    <3>4. ASSUME NEW c \in Clients, ClientNext(c)
          PROVE  UNCHANGED serving
      BY <3>4, Zenon DEF ClientNext, GetUntypedServableHandle, ReleaseHandle,
         GetAvailableUntypedServableHandles
    <3>5. ASSUME NEW w \in Workers, WorkerNext(w)
          PROVE  UNCHANGED serving \/ SwapHandlesMap(w)
      BY <3>5,
         Zenon DEF WorkerNext, Start, DecisionStep, EnterDecisionPhase, ApproveLoad,
         RejectLoad, AwaitResources, ApproveUnload, SpuriousWakeup, ExecutionStep,
         BeginLoad, LoadSucceeds, LoadFails, BeginUpdateServingMap,
         EndUpdateServingMap, HandlesReleased, AnnounceAvailable, BeginUnload, EndUnload,
         AnnounceEnd, Finish, NotifyAll
    <3> QED
      BY <1>2, <3>1, <3>2, <3>3, <3>4, <3>5, Zenon DEF Next, Internal
  <2> QED
    BY <2>1, <2>2, <2>3, Zenon
<1> QED
  BY InitSafe, <1>1, <1>2, PTL DEF Spec, StaysAvailable
-----------------------------------------------------------------------------
(***************************************************************************)
(* Resources.                                                              *)
(***************************************************************************)
\* A harness that goes from state s to state t needs no more than before.
Shrinks(s, t) ==
    \/ s = t
    \/ t \notin UsesResources
    \/ /\ s \in UsesResources
       /\ t \in {"kLoadApproved", "kLoading"} => s \in {"kLoadApproved", "kLoading"}

\* A finite set of servables takes finitely many units.
LEMMA FiniteUnits ==
    ASSUME NEW S \in SUBSET Ids
    PROVE  IsFiniteSet(Units(S))
<1> DEFINE U == {{i} \X (1 .. EstimateResources(i)) : i \in S}
<1>1. \A i \in Ids : EstimateResources(i) \in Nat
  BY Zenon DEF EstimateResources
<1>2. ASSUME NEW i \in S
      PROVE  IsFiniteSet({i} \X (1 .. EstimateResources(i)))
  <2>1. IsFiniteSet({i})
    BY FS_Singleton, Zenon
  <2>2. IsFiniteSet(1 .. EstimateResources(i))
    BY <1>1, FS_Interval
  <2> QED
    BY <2>1, <2>2, FS_Product, Zenon
<1>3. IsFiniteSet(S)
  BY FS_Subset, Zenon
<1>4. IsFiniteSet(U)
  <2> DEFINE f == [i \in S |-> {i} \X (1 .. EstimateResources(i))]
  <2>1. f \in Surjection(S, U)
    BY Zenon DEF Surjection
  <2> QED
    BY <1>3, <2>1, FS_Surjection, Zenon
<1>5. \A T \in U : IsFiniteSet(T)
  BY <1>2
<1>6. IsFiniteSet(UNION U)
  <2> HIDE DEF U
  <2> QED
    BY <1>4, <1>5, FS_UNION, Zenon
<1> QED
  BY <1>6, Zenon DEF Units

\* The units of a set are those of its members.
LEMMA UnitsOf ==
    ASSUME NEW S
    PROVE  \A x : x \in Units(S) <=>
              \E i \in S : \E k \in 1 .. EstimateResources(i) : x = <<i, k>>
BY DEF Units

\* A servable takes as many units as it estimates.
LEMMA UnitsOfOne ==
    ASSUME NEW i, NEW n \in Nat
    PROVE  IsFiniteSet({i} \X (1 .. n)) /\ Cardinality({i} \X (1 .. n)) = n
<1>1. IsFiniteSet({i}) /\ Cardinality({i}) = 1
  BY FS_Singleton, Zenon
<1>2. IsFiniteSet(1 .. n) /\ Cardinality(1 .. n) = n
  BY FS_Interval
<1>3. IsFiniteSet({i} \X (1 .. n)) /\ Cardinality({i} \X (1 .. n)) = 1 * n
  BY <1>1, <1>2, FS_Product, ZenonT(90)
<1> QED
  BY <1>3

\* Servables that release resources, or whose estimate drops, take no unit
\* they did not have.
LEMMA UnitsShrink ==
    ASSUME CoreInv, \A i \in Ids : Shrinks(state[i], state'[i])
    PROVE  Units(GetLoadersCurrentlyUsingResources)'
              \subseteq Units(GetLoadersCurrentlyUsingResources)
<1> DEFINE Users == GetLoadersCurrentlyUsingResources
<1>1. ASSUME NEW i \in Users'
      PROVE  /\ i \in Users
             /\ EstimateResources(i)' \in Nat /\ EstimateResources(i) \in Nat
             /\ EstimateResources(i)' =< EstimateResources(i)
  BY <1>1 DEF GetLoadersCurrentlyUsingResources, Shrinks, EstimateResources,
        UsesResources
<1>2. ASSUME NEW x \in Units(Users)'
      PROVE  x \in Units(Users)
  <2>1. PICK i \in Users' : \E k \in 1 .. EstimateResources(i)' : x = <<i, k>>
    BY <1>2 DEF Units
  <2>2. PICK k \in 1 .. EstimateResources(i)' : x = <<i, k>>
    BY <2>1, Zenon
  <2>3. i \in Users /\ k \in 1 .. EstimateResources(i)
    BY <1>1, <2>2
  <2> QED
    BY <2>2, <2>3, UnitsOf, Zenon
<1> QED
  BY <1>2, Zenon

\* Only an approved load takes resources.
LEMMA OnlyApprovalsGrow ==
    ASSUME CoreInv, Ownership, [Next]_vars, \A w \in Workers : ~ApproveLoad(w)
    PROVE  \A i \in Ids : Shrinks(state[i], state'[i])
<1> USE DEF CoreInv, BaseInv, TypeOK, harnessVars
<1>1. ASSUME NEW j \in Ids, NEW t, Shrinks(state[j], t),
             state' = [state EXCEPT ![j] = t]
      PROVE  \A i \in Ids : Shrinks(state[i], state'[i])
  BY <1>1, ZenonT(30) DEF Shrinks
<1>2. ASSUME UNCHANGED state
      PROVE  \A i \in Ids : Shrinks(state[i], state'[i])
  BY <1>2, Zenon DEF Shrinks
<1>3. ASSUME NEW j \in Ids, OwnerCall(j)
      PROVE  \A i \in Ids : Shrinks(state[i], state'[i])
  BY <1>3 DEF OwnerCall, ManageServable, StopManagingServable, Removable,
        LoadServable, LoadRequested,
     UnloadServable, Shrinks, UsesResources
<1>4. CASE \/ UNCHANGED vars \/ LoadExecutorReset
           \/ \E i \in Ids : CancelLoadServableRetry(i) \/ ScheduleLoad(i)
           \/ \E pool \in LoadPools : SetNumLoadThreads(pool)
           \/ \E c \in Clients : ClientNext(c)
  BY <1>2, <1>4,
     Zenon DEF vars, LoadExecutorReset, CancelLoadServableRetry, ScheduleLoad,
     SetNumLoadThreads, ClientNext, GetUntypedServableHandle, ReleaseHandle,
     GetAvailableUntypedServableHandles
<1>5. ASSUME NEW w \in Workers,
             \/ \E i \in Ids : Start(w, i)
             \/ EnterDecisionPhase(w) \/ AwaitResources(w) \/ SpuriousWakeup(w)
             \/ BeginUpdateServingMap(w) \/ SwapHandlesMap(w)
             \/ AnnounceAvailable(w) \/ AnnounceEnd(w) \/ Finish(w)
      PROVE  \A i \in Ids : Shrinks(state[i], state'[i])
  BY <1>2, <1>5,
     Zenon DEF Start, EnterDecisionPhase, AwaitResources, SpuriousWakeup,
     BeginUpdateServingMap, SwapHandlesMap, NewHandlesMaps, AnnounceAvailable, AnnounceEnd, Finish, NotifyAll
<1>6. ASSUME NEW w \in Workers, RejectLoad(w)
      PROVE  \A i \in Ids : Shrinks(state[i], state'[i])
  BY <1>6 DEF RejectLoad, Error, Shrinks, UsesResources
<1>7. ASSUME NEW w \in Workers, ApproveUnload(w)
      PROVE  \A i \in Ids : Shrinks(state[i], state'[i])
  BY <1>7 DEF ApproveUnload, Approve, TransitionState, Error, Shrinks, UsesResources
<1>8. ASSUME NEW w \in Workers,
             \/ BeginLoad(w) \/ LoadSucceeds(w) \/ LoadFails(w)
             \/ EndUpdateServingMap(w) \/ BeginUnload(w) \/ EndUnload(w)
      PROVE  \A i \in Ids : Shrinks(state[i], state'[i])
  <2>1. job[w] \in Ids
    BY <1>8, ExecutingHarness, Zenon DEF BeginLoad, LoadSucceeds, LoadFails,
       EndUpdateServingMap, BeginUnload, EndUnload
  <2>2. \A s : Shrinks(s, "kError")
    BY Zenon DEF Shrinks, UsesResources
  <2>3. ASSUME NEW from, NEW to, Shrinks(from, to),
               TransitionState(job[w], from, to)
        PROVE  \A i \in Ids : Shrinks(state[i], state'[i])
    BY <1>1, <2>1, <2>2, <2>3 DEF TransitionState, Error
  <2>4. /\ Shrinks("kLoadApproved", "kLoading") /\ Shrinks("kLoading", "kReady")
        /\ Shrinks("kQuiescing", "kQuiesced") /\ Shrinks("kQuiesced", "kUnloading")
        /\ Shrinks("kUnloading", "kDisabled")
    BY ZenonT(30) DEF Shrinks, UsesResources
  <2>5. CASE BeginLoad(w) \/ LoadFails(w)
    BY <1>1, <1>2, <2>1, <2>2, <2>4, <2>5 DEF BeginLoad, LoadFails, Error
  <2>6. CASE LoadSucceeds(w) \/ BeginUnload(w) \/ EndUnload(w)
    BY <2>3, <2>4, <2>6, Zenon DEF LoadSucceeds, BeginUnload, EndUnload
  <2>7. CASE EndUpdateServingMap(w)
    BY <1>2, <2>3, <2>4, <2>7, Zenon DEF EndUpdateServingMap
  <2> QED
    BY <1>8, <2>5, <2>6, <2>7, Zenon
<1> QED
  BY <1>3, <1>4, <1>5, <1>6, <1>7, <1>8, Zenon
     DEF Next, Internal, WorkerNext, DecisionStep, ExecutionStep

\* An approval adds what the tracker has checked to fit.
LEMMA ApprovalFits ==
    ASSUME CoreInv, Ownership, ~EstimatesFail, NEW w \in Workers, ApproveLoad(w)
    PROVE  ResourceBound'
<1> USE DEF CoreInv, BaseInv, TypeOK
<1> DEFINE Users == GetLoadersCurrentlyUsingResources
           i == job[w]
           New == {i} \X (1 .. LoadEstimate[i])
<1>1. /\ i \in Ids /\ state[i] = "kLoadRequested"
      /\ Cardinality(Units(Users)) + LoadEstimate[i] =< TotalResources
      /\ state' = [state EXCEPT ![i] = "kLoadApproved"]
  <2>1. pc[w] \in {"approve", "reserve"} /\ w \notin UnloadThreads
    BY Zenon DEF ApproveLoad, Reserving
  <2>2. i \in Ids /\ state[i] = "kLoadRequested"
    BY <2>1, ZenonT(30) DEF Ownership, HarnessAsExpected, Expected, Deciding
  <2> QED
    BY <2>2,
       Zenon DEF ApproveLoad, RecomputeUsedResources, ReserveResources, Approve,
       TransitionState
<1>2. /\ IsFiniteSet(New) /\ Cardinality(New) = LoadEstimate[i]
      /\ LoadEstimate[i] \in Nat
  <2>1. LoadEstimate[i] \in Nat
    BY <1>1, Zenon
  <2> QED
    BY <2>1, UnitsOfOne, Zenon
<1>3. Users \in SUBSET Ids
  BY Zenon DEF GetLoadersCurrentlyUsingResources
<1>4. IsFiniteSet(Units(Users)) /\ Cardinality(Units(Users)) \in Nat
  BY <1>3, FiniteUnits, FS_CardinalityType, Zenon
<1>5. /\ IsFiniteSet(Units(Users) \cup New)
      /\ Cardinality(Units(Users) \cup New) =< Cardinality(Units(Users)) + LoadEstimate[i]
  <2> HIDE DEF New, Users
  <2>1. Units(Users) \cap New \in SUBSET New
    BY Zenon
  <2>2. IsFiniteSet(Units(Users) \cap New)
    BY <1>2, <2>1, FS_Subset, Zenon
  <2>3. Cardinality(Units(Users) \cap New) \in Nat
    BY <2>2, FS_CardinalityType, Zenon
  <2>4. /\ IsFiniteSet(Units(Users) \cup New)
        /\ Cardinality(Units(Users) \cup New) =
              Cardinality(Units(Users)) + Cardinality(New)
                 - Cardinality(Units(Users) \cap New)
    BY <1>2, <1>4, FS_Union, Zenon
  <2> QED
    BY <1>2, <1>4, <2>3, <2>4
<1>6. ASSUME NEW x \in Units(Users)'
      PROVE  x \in Units(Users) \cup New
  <2>1. PICK j \in Users' : \E k \in 1 .. EstimateResources(j)' : x = <<j, k>>
    BY <1>6 DEF Units
  <2>2. PICK k \in 1 .. EstimateResources(j)' : x = <<j, k>>
    BY <2>1, ZenonT(30)
  <2>3. CASE j = i
    BY <1>1, <2>2, <2>3 DEF EstimateResources
  <2>4. CASE j # i
    <3>1. j \in Users /\ EstimateResources(j)' = EstimateResources(j)
      BY <1>1, <2>4,
         ZenonT(90) DEF GetLoadersCurrentlyUsingResources, EstimateResources
    <3> QED
      BY <2>2, <3>1, UnitsOf, Zenon
  <2> QED
    BY <2>3, <2>4, ZenonT(30)
<1>7. Units(Users)' \in SUBSET (Units(Users) \cup New)
  BY <1>6, Zenon
<1>8. /\ Cardinality(Units(Users)') =< Cardinality(Units(Users) \cup New)
      /\ IsFiniteSet(Units(Users)')
  BY <1>5, <1>7, FS_Subset
<1>9. Cardinality(Units(Users)') \in Nat /\ Cardinality(Units(Users) \cup New) \in Nat
  BY <1>5, <1>8, FS_CardinalityType, ZenonT(30)
<1>10. Cardinality(Units(Users)') =< TotalResources
  <2> DEFINE after == Cardinality(Units(Users)')
             together == Cardinality(Units(Users) \cup New)
             before == Cardinality(Units(Users))
             more == LoadEstimate[i]
  <2>1. after \in Nat /\ together \in Nat /\ before \in Nat /\ more \in Nat
    BY <1>2, <1>4, <1>9, ZenonT(30)
  <2>2. after =< together /\ together =< before + more /\ before + more =< TotalResources
    BY <1>1, <1>5, <1>8, ZenonT(30)
  <2>3. TotalResources \in Nat
    BY EstimateAssumption, ZenonT(30)
  <2> HIDE DEF after, together, before, more
  <2>4. after =< TotalResources
    BY <2>1, <2>2, <2>3, SMTT(30)
  <2> QED
    BY <2>4, ZenonT(30) DEF after
<1> QED
  BY <1>10, Zenon DEF ResourceBound

\* Every step keeps the pool from being overcommitted.
LEMMA BoundStep ==
    ASSUME CoreInv, Ownership, ~EstimatesFail, ResourceBound, [Next]_vars
    PROVE  ResourceBound'
<1> DEFINE Users == GetLoadersCurrentlyUsingResources
<1>1. CASE \E w \in Workers : ApproveLoad(w)
  BY <1>1, ApprovalFits, Zenon
<1>2. CASE \A w \in Workers : ~ApproveLoad(w)
  <2>1. Units(Users)' \in SUBSET Units(Users)
    BY <1>2, OnlyApprovalsGrow, UnitsShrink, Zenon
  <2>2. Users \in SUBSET Ids
    BY Zenon DEF GetLoadersCurrentlyUsingResources
  <2>3. IsFiniteSet(Units(Users))
    BY <2>2, FiniteUnits, Zenon
  <2>4. /\ Cardinality(Units(Users)') =< Cardinality(Units(Users))
        /\ IsFiniteSet(Units(Users)')
    BY <2>1, <2>3, FS_Subset, Zenon
  <2>5. Cardinality(Units(Users)') \in Nat /\ Cardinality(Units(Users)) \in Nat
    BY <2>3, <2>4, FS_CardinalityType, Zenon
  <2>6. Cardinality(Units(Users)') =< TotalResources
    BY <2>4, <2>5 DEF ResourceBound
  <2> QED
    BY <2>6, Zenon DEF ResourceBound
<1> QED
  BY <1>1, <1>2, Zenon

\* Initially nothing takes resources.
LEMMA InitBound == Init => ResourceBound
<1> SUFFICES ASSUME Init PROVE ResourceBound
  BY Zenon
<1>1. Units(GetLoadersCurrentlyUsingResources) = {}
  BY DEF Init, GetLoadersCurrentlyUsingResources, UsesResources, Units
<1> QED
  BY <1>1, FS_EmptySet DEF ResourceBound

\* As long as every servable can estimate what it needs, the servables that
\* are loaded or being loaded and unloaded fit into the resource pool.
THEOREM ResourcesNeverOvercommitted ==
    ASSUME ~EstimatesFail
    PROVE  Spec => []ResourceBound
<1> DEFINE I == CoreInv /\ Ownership /\ ResourceBound
<1>1. Init => I
  BY InitCore, InitOwnership, InitBound, Zenon
<1>2. I /\ [Next]_vars => I'
  BY CoreStep, OwnershipStep, BoundStep, Zenon
<1>3. I => ResourceBound
  BY Zenon
<1> QED
  BY <1>1, <1>2, <1>3, PTL DEF Spec

\* No step leaves a sleeping request alone: the last execution wakes it up
\* when it ends.
LEMMA WakeupStep ==
    ASSUME CoreInv, NoLostWakeup, [Next]_vars
    PROVE  NoLostWakeup'
<1> USE DEF CoreInv, BaseInv, TypeOK
<1>1. CoreInv'
  BY CoreStep, Zenon
<1>2. ASSUME NEW w \in Workers, Finish(w)
      PROVE  NoLostWakeup'
  BY <1>2, Zenon DEF Finish, NotifyAll, NoLostWakeup
<1>3. ASSUME NEW w \in Workers, AwaitResources(w)
      PROVE  NoLostWakeup'
  <2>1. ongoing > 0 /\ ongoing' = ongoing
    BY <1>3, Zenon DEF AwaitResources
  <2>2. ongoing' = Cardinality(ExecutingWorkers')
    BY <1>1, Zenon DEF OngoingCount
  <2>3. ASSUME ExecutingWorkers' = {}
        PROVE  FALSE
    <3>1. Cardinality(ExecutingWorkers') = 0
      BY <2>3, FS_EmptySet, Zenon
    <3> QED
      BY <2>1, <2>2, <3>1
  <2> QED
    BY <2>3, Zenon DEF NoLostWakeup
<1>4. ASSUME NEW w \in Workers, WorkerNext(w), ~Finish(w), ~AwaitResources(w)
      PROVE  NoLostWakeup'
  <2> DEFINE Move(l) == /\ pc' = [pc EXCEPT ![w] = l]
                        /\ l # "waiting"
                        /\ pc[w] \in Executing => l \in Executing
  <2>1. \E l \in PC : Move(l)
    <3> USE DEF Goto, Executing, Deciding, PC
    <3>1. CASE \E i \in Ids : Start(w, i)
      <4> QED BY <3>1, Zenon DEF Start
    <3>2. CASE SpuriousWakeup(w)
      <4> QED BY <3>2, Zenon DEF SpuriousWakeup
    <3>3. CASE EnterDecisionPhase(w)
      <4> QED BY <3>3, Zenon DEF EnterDecisionPhase
    <3>4. CASE ApproveLoad(w) \/ ApproveUnload(w)
      <4>1. pc[w] \notin Executing
        BY <3>4, Zenon DEF ApproveLoad, ApproveUnload, Reserving
      <4>2. Goto(w, "exec") \/ Goto(w, "idle")
        BY <3>4, Zenon DEF ApproveLoad, ApproveUnload, Approve, Reject
      <4> QED BY <4>1, <4>2, Zenon
    <3>5. CASE RejectLoad(w)
      <4> QED BY <3>5, Zenon DEF RejectLoad, Reject, Reserving
    <3>6. CASE BeginLoad(w) \/ LoadSucceeds(w)
      <4>1. Goto(w, "loading") \/ Goto(w, "loaded") \/ Goto(w, "finish")
        BY <3>6, Zenon DEF BeginLoad, LoadSucceeds
      <4> QED BY <4>1, Zenon
    <3>7. CASE LoadFails(w)
      <4>1. Goto(w, "finish") \/ Goto(w, "loading")
        BY <3>7 DEF LoadFails
      <4> QED BY <4>1, Zenon
    <3>8. CASE BeginUpdateServingMap(w) \/ SwapHandlesMap(w)
      <4> QED BY <3>8, Zenon DEF BeginUpdateServingMap, SwapHandlesMap
    <3>9. CASE EndUpdateServingMap(w)
      <4>1. Goto(w, "unload") \/ Goto(w, "finish") \/ Goto(w, "announce")
        BY <3>9, Zenon DEF EndUpdateServingMap
      <4> QED BY <4>1, Zenon
    <3>10. CASE AnnounceAvailable(w) \/ AnnounceEnd(w)
      <4> QED BY <3>10, Zenon DEF AnnounceAvailable, AnnounceEnd
    <3>11. CASE BeginUnload(w) \/ EndUnload(w)
      <4>1. Goto(w, "unloading") \/ Goto(w, "unloaded") \/ Goto(w, "finish")
        BY <3>11, Zenon DEF BeginUnload, EndUnload
      <4> QED BY <4>1, Zenon
    <3> QED
      BY <1>4, <3>1, <3>2, <3>3, <3>4, <3>5, <3>6, <3>7, <3>8, <3>9, <3>10,
         <3>11, Zenon DEF WorkerNext, DecisionStep, ExecutionStep
  <2>2. PICK l \in PC : Move(l)
    BY <2>1, Zenon
  <2>3. \A v \in Workers : pc'[v] = "waiting" => pc[v] = "waiting"
    BY <2>2, Zenon
  <2>4. ExecutingWorkers \subseteq ExecutingWorkers'
    BY <2>2, ZenonT(30) DEF ExecutingWorkers
  <2> QED
    BY <2>3, <2>4, ZenonT(30) DEF NoLostWakeup
<1>5. ASSUME NEW i \in Ids, ScheduleLoad(i)
      PROVE  NoLostWakeup'
  BY <1>5 DEF ScheduleLoad, Goto, NoLostWakeup, ExecutingWorkers, Executing
<1>6. CASE UNCHANGED pc
  BY <1>6, Zenon DEF NoLostWakeup, ExecutingWorkers
<1>7. \/ UNCHANGED pc
      \/ \E i \in Ids : ScheduleLoad(i)
      \/ \E w \in Workers : WorkerNext(w)
  BY
     Zenon DEF Next, Internal, OwnerCall, ManageServable, StopManagingServable, Removable,
     LoadServable, LoadRequested, UnloadServable, CancelLoadServableRetry, SetNumLoadThreads,
     LoadExecutorReset, ClientNext, GetUntypedServableHandle, ReleaseHandle,
     GetAvailableUntypedServableHandles, workerVars, vars
<1> QED
  BY <1>2, <1>3, <1>4, <1>5, <1>6, <1>7, Zenon

\* A request sleeps for resources only while some execution is going on; its
\* end will wake the request up.
THEOREM WakeupNotLost == Spec => []NoLostWakeup
<1> DEFINE I == CoreInv /\ NoLostWakeup
<1>1. Init => I
  BY InitCore, Zenon DEF Init, NoLostWakeup
<1>2. I /\ [Next]_vars => I'
  BY CoreStep, WakeupStep, Zenon
<1>3. I => NoLostWakeup
  BY Zenon
<1> QED
  BY <1>1, <1>2, <1>3, PTL DEF Spec
=============================================================================
