-------------------- MODULE AspiredVersionsManagerProofs --------------------
(***************************************************************************)
(* AspiredVersionsManager uses BasicManager only through calls that any    *)
(* owner may make, so it inherits every property of BasicManager.  With    *)
(* ManagerInv, what the manager thread decided stays right until it acts   *)
(* on it, whatever the loading and unloading threads do in between.        *)
(***************************************************************************)
EXTENDS AspiredVersionsManager, BasicManagerProofs

\* What the manager thread knows about the servables it is about to act on.
ManagerInv ==
    /\ ManagerTypeOK
    /\ \A i \in Ids : <<"forget", i>> \in calls =>
          phase = "flush" /\ i \notin aspired /\ state[i] \in Removable
    /\ \A i \in Ids : <<"cancel", i>> \in calls => phase = "pending"
    /\ \A i \in Ids : <<"manage", i>> \in calls =>
          phase = "pending" /\ i \notin aspired /\ state[i] = "kUnmanaged"
    /\ actions # {} => phase \in {"policy", "perform"}
    /\ \A i \in Ids : <<"load", i>> \in actions => state[i] = "kNew"
    /\ \A i \in Ids : <<"unload", i>> \in actions =>
          i \notin aspired /\ state[i] = "kReady"
    /\ \A n \in Names : latest[n] \subseteq {i \in Ids : Name[i] = n}
    /\ \A n \in Names : \A versions \in pending[n] :
          versions \subseteq {i \in Ids : Name[i] = n}

\* What the manager thread, the sources and the observer do to BasicManager
\* are calls that its own specification has.
LEMMA StepsAreBasicManagerSteps ==
    ASSUME [AspiredNext]_allVars
    PROVE  [Next]_vars
<1>1. CASE SourceNext
  BY <1>1, Zenon DEF SourceNext, EnqueueAspiredVersionsRequest
<1>2. ASSUME NEW n \in Names,
             \/ FlushServables(n)
             \/ HandlePendingAspiredVersionsRequests(n)
             \/ GetNextAction(n)
      PROVE  UNCHANGED vars
  BY <1>2, Zenon DEF FlushServables, HandlePendingAspiredVersionsRequests,
              GetNextAction, Visit
<1>3. ASSUME NEW from, NEW to, NextPhase(from, to)
      PROVE  UNCHANGED vars
  BY <1>3, Zenon DEF NextPhase
<1>4. ASSUME NEW i \in Ids, Forget(i) \/ Cancel(i) \/ ManageWithAdditionalState(i)
      PROVE  Next \/ UNCHANGED vars
  BY <1>4, Zenon DEF Forget, Cancel, ManageWithAdditionalState, Next, OwnerCall
<1>5. ASSUME NEW a \in Requests, PerformAction(a)
      PROVE  Next
  <2>1. a[2] \in Ids
    BY Zenon DEF Requests
  <2> QED
    BY <1>5, <2>1, Zenon DEF PerformAction, Next, OwnerCall
<1>6. CASE \/ Internal
           \/ \E pool \in LoadPools : SetNumLoadThreads(pool)
           \/ UNCHANGED allVars
  BY <1>6, Zenon DEF Next, allVars
<1> QED
  BY <1>1, <1>2, <1>3, <1>4, <1>5, <1>6 DEF AspiredNext, ManagerThread

\* The manager thread, its sources and its observer are an owner that
\* BasicManager was proved for: every step of theirs is a call that
\* BasicManager allows, or does not concern it.
THEOREM ImplementsBasicManager == AspiredSpec => Spec
<1>1. AspiredInit => Init
  BY Zenon DEF AspiredInit
<1>2. [AspiredNext]_allVars => [Next]_vars
  BY StepsAreBasicManagerSteps, ZenonT(30)
<1> QED
  BY <1>1, <1>2, PTL DEF AspiredSpec, Spec

\* No version is unloaded or forgotten while handles to it exist, whatever
\* versions the sources ask for and whichever policy decides.
THEOREM AspiredHandlesStayLive == AspiredSpec => []HandlesAreLive
BY ImplementsBasicManager, HandlesStayLive, PTL
-----------------------------------------------------------------------------
\* The part of the type invariant that the manager thread relies on.
LEMMA StateType ==
    ASSUME CoreInv
    PROVE  state \in [Ids -> HarnessState \cup {"kUnmanaged"}]
BY Zenon DEF CoreInv, BaseInv, TypeOK

\* What PerformAction() does to the harnesses.
LEMMA ActionEffects ==
    ASSUME NEW a \in Requests, PerformAction(a)
    PROVE  \E i \in Ids :
              \/ /\ a = <<"load", i>> /\ a \in actions /\ state[i] = "kNew"
                 /\ state' = [state EXCEPT ![i] = "kLoadRequested"]
              \/ /\ a = <<"unload", i>> /\ a \in actions /\ state[i] = "kReady"
                 /\ state' = [state EXCEPT ![i] = "kUnloadRequested"]
<1>1. PICK i \in Ids : a = <<"load", i>> \/ a = <<"unload", i>>
  BY DEF Requests
<1>2. a \in actions
  BY Zenon DEF PerformAction, First
<1>3. CASE a[1] = "load" /\ LoadServable(a[2])
  <2>1. a = <<"load", i>> /\ a[2] = i
    BY <1>1, <1>3
  <2>2. LoadServable(i)
    BY <1>3, <2>1, Zenon
  <2>3. state[i] = "kNew" /\ state' = [state EXCEPT ![i] = "kLoadRequested"]
    BY <2>2, Zenon DEF LoadServable, LoadRequested
  <2> QED
    BY <1>2, <2>1, <2>3, Zenon
<1>4. CASE a[1] = "unload" /\ UnloadServable(a[2])
  <2>1. a = <<"unload", i>> /\ a[2] = i
    BY <1>1, <1>4
  <2>2. UnloadServable(i)
    BY <1>4, <2>1, Zenon
  <2>3. state[i] = "kReady" /\ state' = [state EXCEPT ![i] = "kUnloadRequested"]
    BY <2>2, Zenon DEF UnloadServable
  <2> QED
    BY <1>2, <2>1, <2>3, Zenon
<1> QED
  BY <1>3, <1>4, Zenon DEF PerformAction

\* What the other calls of the manager thread do to the harnesses.
LEMMA CallEffects ==
    ASSUME NEW i \in Ids, Forget(i) \/ Cancel(i) \/ ManageWithAdditionalState(i)
    PROVE  \/ state' = state /\ Cancel(i)
           \/ /\ Forget(i) /\ state[i] \in Removable
              /\ state' = [state EXCEPT ![i] = "kUnmanaged"]
           \/ /\ ManageWithAdditionalState(i) /\ state[i] = "kUnmanaged"
              /\ \E s \in {"kNew", "kError"} : state' = [state EXCEPT ![i] = s]
<1>1. CASE Forget(i)
  BY <1>1, Zenon DEF Forget, StopManagingServable
<1>2. CASE Cancel(i)
  BY <1>2, Zenon DEF Cancel, CancelLoadServableRetry, vars
<1>3. CASE ManageWithAdditionalState(i)
  BY <1>3, Zenon DEF ManageWithAdditionalState, ManageServable
<1> QED
  BY <1>1, <1>2, <1>3, Zenon

\* A worker changes no harness but the one it owns.
LEMMA WorkerChanges ==
    ASSUME CoreInv, Ownership, NEW w \in Workers, WorkerNext(w)
    PROVE  \/ state' = state
           \/ /\ job[w] \in Ids /\ state[job[w]] \in InTransit
              /\ \E s \in HarnessState : state' = [state EXCEPT ![job[w]] = s]
<1> USE DEF CoreInv, BaseInv, TypeOK, HarnessState, InTransit
<1>1. ASSUME pc[w] \in {"decide"} \cup Deciding
      PROVE  job[w] \in Ids /\ state[job[w]] \in InTransit
  <2>1. Expected(w) # {}
    BY <1>1, Zenon DEF Labels, Expected, Deciding
  <2> QED
    BY <2>1, ExpectedInTransit DEF Ownership, HarnessAsExpected
<1>2. CASE (\E i \in Ids : Start(w, i)) \/ SpuriousWakeup(w) \/ EnterDecisionPhase(w)
  BY <1>2, Zenon DEF Start, SpuriousWakeup, EnterDecisionPhase, harnessVars
<1>3. CASE ApproveLoad(w) \/ ApproveUnload(w)
  <2>1. pc[w] \in Deciding
    BY <1>3, Zenon DEF ApproveLoad, ApproveUnload, Reserving, Deciding
  <2>2. \E s \in HarnessState : state' = [state EXCEPT ![job[w]] = s] \/ state' = state
    BY <1>3,
       ZenonT(30) DEF ApproveLoad, ApproveUnload, Approve, TransitionState, Error
  <2> QED
    BY <1>1, <2>1, <2>2, ZenonT(30)
<1>4. CASE RejectLoad(w) \/ AwaitResources(w)
  <2>1. pc[w] \in Deciding
    BY <1>4, Zenon DEF RejectLoad, AwaitResources, Reserving, Deciding
  <2>2. \E s \in HarnessState : state' = [state EXCEPT ![job[w]] = s] \/ state' = state
    BY <1>4, Zenon DEF RejectLoad, AwaitResources, Error, harnessVars
  <2> QED
    BY <1>1, <2>1, <2>2, Zenon
<1>5. CASE BeginLoad(w)
  BY <1>5, ExecutingHarness, ZenonT(30) DEF BeginLoad
<1>6. CASE LoadSucceeds(w)
  BY <1>6, ExecutingHarness, Zenon DEF LoadSucceeds, TransitionState
<1>7. CASE LoadFails(w)
  BY <1>7, ExecutingHarness, Zenon DEF LoadFails, Error
<1>8. CASE BeginUpdateServingMap(w) \/ SwapHandlesMap(w) \/ AnnounceAvailable(w)
  BY <1>8,
     Zenon DEF BeginUpdateServingMap, SwapHandlesMap, AnnounceAvailable, harnessVars
<1>9. CASE EndUpdateServingMap(w)
  BY <1>9, ExecutingHarness, Zenon DEF EndUpdateServingMap, TransitionState
<1>10. CASE BeginUnload(w)
  BY <1>10, ExecutingHarness, Zenon DEF BeginUnload, TransitionState
<1>11. CASE EndUnload(w)
  BY <1>11, ExecutingHarness, Zenon DEF EndUnload, TransitionState
<1>12. CASE AnnounceEnd(w) \/ Finish(w)
  BY <1>12, Zenon DEF AnnounceEnd, Finish, harnessVars
<1> QED
  BY <1>2, <1>3, <1>4, <1>5, <1>6, <1>7, <1>8, <1>9, <1>10, <1>11, <1>12, ZenonT(30)
     DEF WorkerNext, DecisionStep, ExecutionStep

\* Only calls of the manager thread change a servable that is not in transit.
LEMMA SettledStay ==
    ASSUME CoreInv, Ownership, NEW i \in Ids,
           Internal \/ \E pool \in LoadPools : SetNumLoadThreads(pool)
    PROVE  /\ state[i] \notin InTransit => state'[i] = state[i]
           /\ state[i] # "kUnmanaged" => state'[i] # "kUnmanaged"
<1>1. ASSUME NEW w \in Workers, WorkerNext(w)
      PROVE  /\ state[i] \notin InTransit => state'[i] = state[i]
             /\ state[i] # "kUnmanaged" => state'[i] # "kUnmanaged"
  <2>1. "kUnmanaged" \notin HarnessState
    BY Zenon DEF HarnessState
  <2> QED
    BY <1>1, <2>1, WorkerChanges, StateType
<1>2. CASE LoadExecutorReset \/ \E pool \in LoadPools : SetNumLoadThreads(pool)
  BY <1>2, Zenon DEF LoadExecutorReset, SetNumLoadThreads, harnessVars
<1>3. ASSUME NEW j \in Ids, ScheduleLoad(j)
      PROVE  state' = state
  BY <1>3, Zenon DEF ScheduleLoad, harnessVars
<1>4. ASSUME NEW c \in Clients, ClientNext(c)
      PROVE  state' = state
  BY <1>4, Zenon DEF ClientNext, GetUntypedServableHandle, ReleaseHandle,
       GetAvailableUntypedServableHandles, harnessVars
<1> QED
  BY <1>1, <1>2, <1>3, <1>4, ZenonT(30) DEF Internal

\* The constructor starts with no request, call or action.
LEMMA InitManager == AspiredInit => ManagerInv
BY ZenonT(30) DEF AspiredInit, ManagerInv, ManagerTypeOK, Phases, CallKinds

\* Steps of other threads.
LEMMA OthersKeepManagerInv ==
    ASSUME CoreInv, Ownership, ManagerInv, UNCHANGED managerVars,
           Internal \/ \E pool \in LoadPools : SetNumLoadThreads(pool)
    PROVE  ManagerInv'
<1>1. \A i \in Ids : /\ state[i] \notin InTransit => state'[i] = state[i]
                     /\ state[i] # "kUnmanaged" => state'[i] # "kUnmanaged"
  BY SettledStay, Zenon
<1>2. /\ "kUnmanaged" \notin InTransit /\ "kNew" \notin InTransit
      /\ "kReady" \notin InTransit /\ Removable \cap InTransit = {}
  BY Zenon DEF InTransit, Removable
<1>3. ManagerTypeOK'
  BY <1>1, Zenon DEF ManagerInv, ManagerTypeOK, managerVars
<1> QED
  BY <1>1, <1>2, <1>3 DEF ManagerInv, managerVars

\* SetAspiredVersions() only stages a request for one stream.
LEMMA SourceKeepsManagerInv ==
    ASSUME ManagerInv, SourceNext
    PROVE  ManagerInv'
<1>1. PICK n \in Names, versions \in AspiredLists :
         EnqueueAspiredVersionsRequest(n, versions)
  BY Zenon DEF SourceNext
<1>2. /\ pending' = [pending EXCEPT ![n] = {versions}]
      /\ \A i \in versions : Name[i] = n
      /\ UNCHANGED <<state, aspired, latest, phase, visit, calls, actions>>
  BY <1>1, Zenon DEF EnqueueAspiredVersionsRequest, vars
<1>3. ManagerTypeOK'
  BY <1>2 DEF ManagerInv, ManagerTypeOK
<1>4. \A m \in Names : \A list \in pending'[m] :
         list \subseteq {i \in Ids : Name[i] = m}
  <2> SUFFICES ASSUME NEW m \in Names, NEW list \in pending'[m]
               PROVE  list \subseteq {i \in Ids : Name[i] = m}
    BY Zenon
  <2>1. CASE m = n
    <3>1. list = versions
      BY <1>2, <2>1 DEF ManagerInv, ManagerTypeOK
    <3> QED
      BY <1>2, <2>1, <3>1, StreamsAssumption, Zenon
  <2>2. CASE m # n
    BY <1>2, <2>2 DEF ManagerInv, ManagerTypeOK
  <2> QED
    BY <2>1, <2>2, Zenon
<1> QED
  BY <1>2, <1>3, <1>4, Zenon DEF ManagerInv

\* FlushServables() picks removable servables that are not aspired.
LEMMA FlushKeepsManagerInv ==
    ASSUME ManagerInv, NEW n \in Names, FlushServables(n)
    PROVE  ManagerInv'
<1>1. /\ phase = "flush" /\ visit' \subseteq visit
      /\ calls' = {<<"forget", i>> : i \in {j \in Managed(n) : Flushable(j)}}
      /\ UNCHANGED <<state, aspired, pending, latest, phase, actions>>
  BY Zenon DEF FlushServables, Visit, vars
<1>2. \A i \in Ids : <<"forget", i>> \in calls' => Flushable(i)
  BY <1>1
<1>3. calls' \subseteq {"forget"} \X Ids
  BY <1>1 DEF Managed
<1>4. ManagerTypeOK'
  BY <1>1, <1>3 DEF ManagerInv, ManagerTypeOK, CallKinds
<1> QED
  BY <1>1, <1>2, <1>3, <1>4, ZenonT(30) DEF ManagerInv, Flushable

\* A processed request has no version on its way out, so what is to be
\* managed is not managed yet.
LEMMA PendingKeepsManagerInv ==
    ASSUME ManagerInv, NEW n \in Names, HandlePendingAspiredVersionsRequests(n)
    PROVE  ManagerInv'
<1>1. /\ phase = "pending" /\ visit' \subseteq visit /\ calls = {}
      /\ UNCHANGED <<state, phase, actions>>
  BY Zenon DEF HandlePendingAspiredVersionsRequests, Visit, vars
<1>2. CASE UNCHANGED <<aspired, pending, latest, calls>>
  BY <1>1, <1>2, Zenon DEF ManagerInv, ManagerTypeOK
<1>3. ASSUME NEW versions \in pending[n],
             ~ContainsAnyReaspiredVersions(n, versions),
             ProcessAspiredVersionsRequest(n, versions)
      PROVE  ManagerInv'
  <2>1. versions \subseteq {i \in Ids : Name[i] = n}
    BY Zenon DEF ManagerInv
  <2>2. \A i \in versions \ aspired : state[i] = "kUnmanaged"
    BY <1>3, <2>1, Zenon DEF ContainsAnyReaspiredVersions, Managed
  <2>3. /\ aspired' \subseteq aspired
        /\ latest' = [latest EXCEPT ![n] = versions]
        /\ pending' = [pending EXCEPT ![n] = {}]
        /\ calls' = ({"cancel"} \X (Managed(n) \ versions))
                    \cup ({"manage"} \X (versions \ aspired))
    BY <1>3, Zenon DEF ProcessAspiredVersionsRequest, StillAspired
  <2>4. calls' \subseteq {"cancel", "manage"} \X Ids
    BY <2>1, <2>3, Zenon DEF Managed
  <2>5. \A i \in Ids : <<"manage", i>> \in calls' =>
           i \notin aspired' /\ state'[i] = "kUnmanaged"
    BY <1>1, <2>2, <2>3, ZenonT(30)
  <2>6. ManagerTypeOK'
    BY <1>1, <2>1, <2>3, <2>4 DEF ManagerInv, ManagerTypeOK, CallKinds
  <2>7. actions' = {}
    BY <1>1, Zenon DEF ManagerInv
  <2>8. /\ \A m \in Names : latest'[m] \subseteq {i \in Ids : Name[i] = m}
        /\ \A m \in Names : \A list \in pending'[m] :
              list \subseteq {i \in Ids : Name[i] = m}
    BY <2>1, <2>3 DEF ManagerInv, ManagerTypeOK
  <2> QED
    BY <1>1, <2>4, <2>5, <2>6, <2>7, <2>8 DEF ManagerInv
<1> QED
  BY <1>2, <1>3, Zenon DEF HandlePendingAspiredVersionsRequests

\* Each call on BasicManager takes one entry off the list of calls.
LEMMA CallsKeepManagerInv ==
    ASSUME CoreInv, ManagerInv, NEW i \in Ids,
           Forget(i) \/ Cancel(i) \/ ManageWithAdditionalState(i)
    PROVE  ManagerInv'
<1>1. CASE Forget(i)
  <2>1. /\ <<"forget", i>> \in calls /\ calls' = calls \ {<<"forget", i>>}
        /\ aspired' = aspired \ {i}
        /\ state' = [state EXCEPT ![i] = "kUnmanaged"]
        /\ UNCHANGED <<pending, latest, phase, visit, actions>>
    BY <1>1, Zenon DEF Forget, StopManagingServable
  <2>2. phase = "flush" /\ i \notin aspired
    BY <2>1, Zenon DEF ManagerInv
  <2>3. actions = {}
    BY <2>2, Zenon DEF ManagerInv
  <2>4. \A j \in Ids : state'[j] = IF j = i THEN "kUnmanaged" ELSE state[j]
    BY <2>1, StateType, Zenon
  <2>5. aspired' = aspired
    BY <2>1, <2>2
  <2>6. ManagerTypeOK'
    BY <2>1, <2>2, <2>4, <2>5 DEF ManagerInv, ManagerTypeOK
  <2>7. \A j \in Ids : <<"forget", j>> \in calls' =>
           phase' = "flush" /\ j \notin aspired' /\ state'[j] \in Removable
    <3> SUFFICES ASSUME NEW j \in Ids, <<"forget", j>> \in calls'
                 PROVE  phase' = "flush" /\ j \notin aspired' /\ state'[j] \in Removable
      BY Zenon
    <3>1. <<"forget", j>> \in calls /\ j # i
      BY <2>1, Zenon
    <3>2. phase = "flush" /\ j \notin aspired /\ state[j] \in Removable
      BY <3>1, Zenon DEF ManagerInv
    <3> QED  BY <2>1, <2>4, <2>5, <3>1, <3>2, ZenonT(30)
  <2>8. \A j \in Ids : <<"manage", j>> \in calls' =>
           phase' = "pending" /\ j \notin aspired' /\ state'[j] = "kUnmanaged"
    BY <2>1, <2>4, <2>5, ZenonT(30) DEF ManagerInv
  <2> QED
    BY <2>1, <2>3, <2>6, <2>7, <2>8, ZenonT(30) DEF ManagerInv
<1>2. CASE Cancel(i)
  <2>1. /\ calls' \subseteq calls
        /\ UNCHANGED <<state, aspired, pending, latest, phase, visit, actions>>
    BY <1>2, Zenon DEF Cancel, CancelLoadServableRetry, vars
  <2>2. ManagerTypeOK'
    BY <2>1, Zenon DEF ManagerInv, ManagerTypeOK
  <2> QED
    BY <2>1, <2>2 DEF ManagerInv
<1>3. CASE ManageWithAdditionalState(i)
  <2>1. /\ <<"manage", i>> \in calls /\ calls' = calls \ {<<"manage", i>>}
        /\ aspired' = aspired \cup {i}
        /\ UNCHANGED <<pending, latest, phase, visit, actions>>
    BY <1>3, Zenon DEF ManageWithAdditionalState
  <2>2. phase = "pending"
    BY <2>1, Zenon DEF ManagerInv
  <2>3. actions = {}
    BY <2>2, Zenon DEF ManagerInv
  <2>4. /\ state'[i] # "kUnmanaged"
        /\ \A j \in Ids \ {i} : state'[j] = state[j]
    BY <1>3, StateType DEF ManageWithAdditionalState, ManageServable
  <2>5. ManagerTypeOK'
    BY <2>1, <2>4 DEF ManagerInv, ManagerTypeOK
  <2>6. \A j \in Ids : <<"forget", j>> \notin calls'
    BY <2>1, <2>2, Zenon DEF ManagerInv
  <2>7. \A j \in Ids : <<"manage", j>> \in calls' =>
           phase' = "pending" /\ j \notin aspired' /\ state'[j] = "kUnmanaged"
    BY <2>1, <2>4, Zenon DEF ManagerInv
  <2> QED
    BY <2>1, <2>2, <2>3, <2>5, <2>6, <2>7, ZenonT(30) DEF ManagerInv
<1> QED
  BY <1>1, <1>2, <1>3, Zenon

\* Either policy loads new versions only, and unloads ready versions only
\* that are not aspired.
LEMMA PolicyDecides ==
    ASSUME NEW n \in Names, NEW a \in PolicyActions(n)
    PROVE  /\ a \in Requests
           /\ a[1] = "load" => state[a[2]] = "kNew"
           /\ a[1] = "unload" => state[a[2]] = "kReady" /\ a[2] \notin aspired
<1>1. a \in {"unload"} \X UnaspiredServing(n) \/ a \in {"load"} \X HighestAspiredNew(n)
  BY
     Zenon DEF PolicyActions, AvailabilityPreservingPolicy, ResourcePreservingPolicy,
         Lowest
<1> QED
  BY <1>1,
     Zenon DEF UnaspiredServing, HighestAspiredNew, Highest, Managed, Ready, Requests

\* GetNextAction() adds an action that fits the state it is decided in.
LEMMA PolicyKeepsManagerInv ==
    ASSUME ManagerInv, NEW n \in Names, GetNextAction(n)
    PROVE  ManagerInv'
<1>1. /\ phase = "policy" /\ calls = {} /\ visit' \subseteq visit
      /\ UNCHANGED <<state, aspired, pending, latest, phase, calls>>
  BY Zenon DEF GetNextAction, Visit, vars
<1>2. /\ actions' \subseteq Requests
      /\ \A i \in Ids : <<"load", i>> \in actions' => state[i] = "kNew"
      /\ \A i \in Ids : <<"unload", i>> \in actions' =>
            i \notin aspired /\ state[i] = "kReady"
  <2>1. CASE actions' = actions
    BY <2>1, Zenon DEF ManagerInv, ManagerTypeOK
  <2>2. ASSUME NEW a \in PolicyActions(n), actions' = actions \cup {a}
        PROVE  <1>2!1 /\ <1>2!2 /\ <1>2!3
    BY <2>2, PolicyDecides DEF ManagerInv, ManagerTypeOK
  <2> QED
    BY <2>1, <2>2, Zenon DEF GetNextAction
<1>3. ManagerTypeOK'
  BY <1>1, <1>2, Zenon DEF ManagerInv, ManagerTypeOK
<1> QED
  BY <1>1, <1>2, <1>3, Zenon DEF ManagerInv

\* Every step keeps ManagerInv.
LEMMA ManagerStep ==
    ASSUME CoreInv, Ownership, ManagerInv, [AspiredNext]_allVars
    PROVE  ManagerInv'
<1>1. ASSUME NEW from, NEW to,
             to \in Phases, actions # {} => to \in {"policy", "perform"},
             NextPhase(from, to)
      PROVE  ManagerInv'
  <2>1. /\ calls = {} /\ phase' = to /\ visit' = Names
        /\ UNCHANGED <<state, aspired, pending, latest, calls, actions>>
    BY <1>1, Zenon DEF NextPhase, vars
  <2>2. ManagerTypeOK'
    BY <1>1, <2>1, Zenon DEF ManagerInv, ManagerTypeOK
  <2> QED
    BY <1>1, <2>1, <2>2, Zenon DEF ManagerInv
<1>2. CASE \/ NextPhase("flush", "pending")
           \/ NextPhase("pending", "policy")
           \/ NextPhase("policy", IF actions = {} THEN "flush" ELSE "perform")
  <2>1. phase \in {"flush", "pending"} => actions = {}
    BY Zenon DEF ManagerInv
  <2>2. /\ NextPhase("flush", "pending") => actions = {}
        /\ NextPhase("pending", "policy") => actions = {}
    BY <2>1, Zenon DEF NextPhase
  <2> QED
    BY <1>1, <1>2, <2>2, SMTT(30) DEF Phases
<1>3. ASSUME NEW a \in Requests, PerformAction(a)
      PROVE  ManagerInv'
  <2>1. /\ phase = "perform" /\ actions' = {} /\ phase' = "flush"
        /\ UNCHANGED <<aspired, pending, latest, visit, calls>>
    BY <1>3, ZenonT(30) DEF PerformAction
  <2>2. calls = {}
    BY <2>1 DEF ManagerInv, ManagerTypeOK, CallKinds
  <2>3. \A i \in Ids : state[i] # "kUnmanaged" => state'[i] # "kUnmanaged"
    BY <1>3, ActionEffects, StateType
  <2>4. ManagerTypeOK'
    BY <2>1, <2>2, <2>3, ZenonT(30) DEF ManagerInv, ManagerTypeOK, Phases
  <2> QED
    BY <2>1, <2>2, <2>4, Zenon DEF ManagerInv
<1>4. CASE UNCHANGED allVars
  BY <1>4, ZenonT(30) DEF allVars, vars, managerVars, ManagerInv, ManagerTypeOK
<1>5. CASE ManagerThread
  BY <1>2, <1>3, <1>5, FlushKeepsManagerInv, PendingKeepsManagerInv,
     PolicyKeepsManagerInv, CallsKeepManagerInv, ZenonT(30) DEF ManagerThread
<1> QED
  BY <1>4, <1>5, SourceKeepsManagerInv, OthersKeepManagerInv, Zenon DEF AspiredNext

AspiredInv == CoreInv /\ Ownership /\ ManagerInv

\* The invariants of BasicManager and of its manager hold together.
LEMMA AspiredInvHolds == AspiredSpec => []AspiredInv
<1>1. AspiredInit => AspiredInv
  BY InitCore, InitOwnership, InitManager, ZenonT(30) DEF AspiredInit, AspiredInv
<1>2. AspiredInv /\ [AspiredNext]_allVars => AspiredInv'
  BY StepsAreBasicManagerSteps, CoreStep, OwnershipStep, ManagerStep,
     ZenonT(30) DEF AspiredInv
<1> QED
  BY <1>1, <1>2, PTL DEF AspiredSpec

\* BasicManager never refuses what the manager thread asks of it: what the
\* thread saw when it decided still holds when it acts.
THEOREM CallsAlwaysAccepted == AspiredSpec => []CallsAccepted
<1>1. AspiredInv => CallsAccepted
  <2> SUFFICES ASSUME ManagerInv
               PROVE  CallsAccepted
    BY Zenon DEF AspiredInv
  <2>1. \A a \in actions : \E i \in Ids : a = <<"load", i>> \/ a = <<"unload", i>>
    BY DEF ManagerInv, ManagerTypeOK, Requests
  <2> QED
    BY <2>1 DEF ManagerInv, CallsAccepted
<1> QED
  BY <1>1, AspiredInvHolds, PTL

\* A step that leaves a version aspired neither unloads nor forgets it.
LEMMA AspiredStay ==
    ASSUME AspiredInv, [AspiredNext]_allVars, NEW i \in aspired \cap aspired'
    PROVE  /\ state'[i] # "kUnmanaged"
           /\ state[i] = "kReady" => state'[i] = "kReady"
<1> USE DEF AspiredInv
<1>1. i \in Ids /\ state[i] # "kUnmanaged"
  BY Zenon DEF ManagerInv, ManagerTypeOK
<1>2. state \in [Ids -> HarnessState \cup {"kUnmanaged"}]
  BY StateType, ZenonT(30)
<1>3. ASSUME NEW j \in Ids, Forget(j) \/ Cancel(j) \/ ManageWithAdditionalState(j)
      PROVE  state'[i] = state[i]
  <2>1. Forget(j) => j # i
    BY Zenon DEF Forget
  <2> QED
    BY <1>1, <1>2, <1>3, <2>1, CallEffects, SMTT(30)
<1>4. ASSUME NEW a \in Requests, PerformAction(a)
      PROVE  /\ state'[i] # "kUnmanaged"
             /\ state[i] = "kReady" => state'[i] = "kReady"
  <2>1. <<"unload", i>> \notin actions
    BY <1>1, Zenon DEF ManagerInv
  <2> QED
    BY <1>1, <1>2, <1>4, <2>1, ActionEffects, SMTT(30)
<1>5. CASE UNCHANGED vars
  BY <1>1, <1>5, Zenon DEF vars
<1>6. CASE ManagerThread
  BY <1>1, <1>3, <1>4, <1>5, <1>6,
     ZenonT(30) DEF ManagerThread, FlushServables, NextPhase,
     HandlePendingAspiredVersionsRequests, GetNextAction, Visit
<1>7. CASE Internal \/ \E pool \in LoadPools : SetNumLoadThreads(pool)
  BY <1>1, <1>7, SettledStay, ZenonT(30) DEF InTransit
<1>8. CASE SourceNext \/ UNCHANGED allVars
  BY <1>5, <1>8, ZenonT(30) DEF SourceNext, EnqueueAspiredVersionsRequest, allVars
<1> QED
  BY <1>6, <1>7, <1>8, Zenon DEF AspiredNext

\* The manager unloads or forgets no version that is aspired, with either
\* policy, although the state it decides on was read earlier.
THEOREM NothingUnloadsSpontaneously == AspiredSpec => NoSpontaneousUnload
<1>1. AspiredInv /\ [AspiredNext]_allVars =>
         [\A i \in aspired \cap aspired' :
             /\ state'[i] # "kUnmanaged"
             /\ state[i] = "kReady" => state'[i] = "kReady"]_allVars
  BY AspiredStay, Zenon
<1> QED
  BY <1>1, AspiredInvHolds, PTL DEF AspiredSpec, NoSpontaneousUnload
-----------------------------------------------------------------------------
(***************************************************************************)
(* AspiredVersionsManager implements AspiredServables.  The workers of     *)
(* BasicManager announce states late and without mu_; what they announce   *)
(* is allowed because of EventInv.                                         *)
(***************************************************************************)
Unloads == {"kUnloadRequested", "kQuiescing", "kQuiesced", "kUnloading"}

\* Something was published for every servable that is managed or worked on,
\* and what is being unloaded is not aspired.
EventInv ==
    /\ \A i \in Ids : state[i] # "kUnmanaged" => event[i] # "none"
    /\ \A w \in Workers : pc[w] # "idle" => event[job[w]] # "none"
    /\ \A i \in Ids : state[i] \in Unloads => i \notin aspired

\* What a worker publishes.
WorkerAnnounces(w) ==
    \E s \in {"kLoading", "kAvailable", "kUnloading", "kEnd"} :
        /\ pc[w] # "idle" /\ job[w] \in Ids
        /\ event' = [event EXCEPT ![job[w]] = s]
        /\ s = "kLoading" => state[job[w]] # "kUnmanaged"
        /\ s = "kUnloading" => state[job[w]] \in Unloads

\* A worker publishes nothing, or a state of the servable it works on.
LEMMA WorkerEvents ==
    ASSUME CoreInv, Ownership, NEW w \in Workers, WorkerNext(w)
    PROVE  event' = event \/ WorkerAnnounces(w)
<1>1. pc[w] # "idle" => job[w] \in Ids
  BY ExecutingHarness, Zenon
<1>2. ASSUME pc[w] # "idle", NEW s \in {"kAvailable", "kEnd"},
             event' = [event EXCEPT ![job[w]] = s]
      PROVE  WorkerAnnounces(w)
  BY <1>1, <1>2, Zenon DEF WorkerAnnounces
<1>3. CASE \/ \E i \in Ids : Start(w, i)
           \/ SpuriousWakeup(w) \/ EnterDecisionPhase(w) \/ AwaitResources(w)
           \/ SwapHandlesMap(w) \/ Finish(w)
  BY <1>3, Zenon DEF Start, SpuriousWakeup, EnterDecisionPhase, AwaitResources,
              SwapHandlesMap, Finish
<1>4. CASE ApproveLoad(w) \/ ApproveUnload(w)
  BY <1>2, <1>4, Zenon DEF ApproveLoad, ApproveUnload, Reserving, Approve,
                    TransitionState, Error
<1>5. CASE RejectLoad(w)
  BY <1>2, <1>5, ZenonT(30) DEF RejectLoad, Reserving, Error
<1>6. CASE BeginLoad(w)
  BY <1>1, <1>2, <1>6, ZenonT(30) DEF BeginLoad, Publish, Error, WorkerAnnounces
<1>7. CASE LoadSucceeds(w) \/ BeginUnload(w) \/ EndUnload(w)
  BY <1>2, <1>7,
     ZenonT(30) DEF LoadSucceeds, BeginUnload, EndUnload, TransitionState, Error
<1>8. CASE LoadFails(w)
  BY <1>2, <1>8, Zenon DEF LoadFails, Error
<1>9. CASE BeginUpdateServingMap(w)
  <2>1. w \in UnloadThreads => state[job[w]] = "kQuiescing" /\ pc[w] # "idle"
    BY <1>9, ExecutingHarness, ZenonT(30) DEF BeginUpdateServingMap
  <2> QED
    BY <1>1, <1>9, <2>1,
       Zenon DEF BeginUpdateServingMap, Publish, WorkerAnnounces, Unloads
<1>10. CASE EndUpdateServingMap(w)
  BY <1>2, <1>10, ZenonT(30) DEF EndUpdateServingMap, TransitionState, Error
<1>11. CASE AnnounceAvailable(w) \/ AnnounceEnd(w)
  BY <1>2, <1>11, Zenon DEF AnnounceAvailable, AnnounceEnd, Publish
<1> QED
  BY <1>3, <1>4, <1>5, <1>6, <1>7, <1>8, <1>9, <1>10, <1>11, ZenonT(30)
     DEF WorkerNext, DecisionStep, ExecutionStep

\* A step of BasicManager's threads publishes at most what a worker does.
LEMMA InternalEvents ==
    ASSUME CoreInv, Ownership,
           Internal \/ \E pool \in LoadPools : SetNumLoadThreads(pool)
    PROVE  event' = event \/ \E w \in Workers : WorkerAnnounces(w)
<1>1. CASE LoadExecutorReset \/ \E pool \in LoadPools : SetNumLoadThreads(pool)
  BY <1>1, Zenon DEF LoadExecutorReset, SetNumLoadThreads
<1>2. CASE \E i \in Ids : ScheduleLoad(i)
  BY <1>2, Zenon DEF ScheduleLoad
<1>3. CASE \E c \in Clients : ClientNext(c)
  BY <1>3, Zenon DEF ClientNext, GetUntypedServableHandle, ReleaseHandle,
              GetAvailableUntypedServableHandles
<1> QED
  BY <1>1, <1>2, <1>3, WorkerEvents, ZenonT(30) DEF Internal

\* A worker has the servable it had before, or one given to it in transit.
LEMMA JobsKept ==
    ASSUME CoreInv, Ownership, NEW v \in Workers, pc'[v] # "idle",
           Internal \/ \E pool \in LoadPools : SetNumLoadThreads(pool)
    PROVE  \/ pc[v] # "idle" /\ job'[v] = job[v]
           \/ job'[v] \in Ids /\ state[job'[v]] # "kUnmanaged"
<1> USE DEF Goto
<1>0. pc \in [Workers -> PC] /\ job \in [Workers -> Ids \cup {NoId}]
  BY Zenon DEF CoreInv, BaseInv, TypeOK
<1>1. CASE UNCHANGED <<pc, job>>
  BY <1>1, Zenon
<1>2. ASSUME NEW w \in Workers, pc[w] # "idle", NEW l,
             pc' = [pc EXCEPT ![w] = l],
             job' = job \/ (l = "idle" /\ job' = [job EXCEPT ![w] = NoId])
      PROVE  pc[v] # "idle" /\ job'[v] = job[v]
  BY <1>0, <1>2, ZenonT(30)
<1>3. ASSUME NEW i \in Ids, ScheduleLoad(i)
      PROVE  \/ pc[v] # "idle" /\ job'[v] = job[v]
             \/ job'[v] \in Ids /\ state[job'[v]] # "kUnmanaged"
  <2>1. state[i] = "kLoadRequested"
    BY <1>3, Zenon DEF ScheduleLoad, Ownership
  <2>2. Inline \in Workers
    BY Zenon DEF Workers
  <2> QED
    BY <1>0, <1>3, <2>1, <2>2 DEF ScheduleLoad
<1>4. ASSUME NEW w \in Workers, NEW i \in Ids, Start(w, i)
      PROVE  \/ pc[v] # "idle" /\ job'[v] = job[v]
             \/ job'[v] \in Ids /\ state[job'[v]] # "kUnmanaged"
  <2>1. state[i] # "kUnmanaged"
    BY <1>4, Zenon DEF Start, Kind, Ownership
  <2> QED
    BY <1>0, <1>4, <2>1, ZenonT(30) DEF Start
<1>5. ASSUME NEW w \in Workers, DecisionStep(w) \/ SpuriousWakeup(w)
      PROVE  pc[v] # "idle" /\ job'[v] = job[v]
  <2>1. pc[w] # "idle"
    BY <1>5, Zenon DEF DecisionStep, EnterDecisionPhase, AwaitResources, SpuriousWakeup,
                       ApproveLoad, ApproveUnload, RejectLoad, Reserving
  <2>2. CASE EnterDecisionPhase(w) \/ AwaitResources(w) \/ SpuriousWakeup(w)
    <3>1. job' = job /\ \E l \in PC : pc' = [pc EXCEPT ![w] = l]
      BY <2>2, Zenon DEF EnterDecisionPhase, AwaitResources, SpuriousWakeup, PC, Deciding, Executing
    <3> QED  BY <1>2, <2>1, <3>1, Zenon
  <2>3. CASE ApproveLoad(w) \/ ApproveUnload(w) \/ RejectLoad(w)
    <3>1. \/ pc' = [pc EXCEPT ![w] = "idle"] /\ job' = [job EXCEPT ![w] = NoId]
          \/ pc' = [pc EXCEPT ![w] = "exec"] /\ job' = job
      BY <2>3, Zenon DEF ApproveLoad, ApproveUnload, RejectLoad, Approve, Reject
    <3> QED  BY <1>0, <2>1, <3>1
  <2> QED
    BY <1>5, <2>2, <2>3, Zenon DEF DecisionStep
<1>6. ASSUME NEW w \in Workers, ExecutionStep(w)
      PROVE  pc[v] # "idle" /\ job'[v] = job[v]
  <2>1. CASE Finish(w)
    BY <1>0, <2>1 DEF Finish, NotifyAll
  <2>2. CASE \/ BeginLoad(w) \/ LoadSucceeds(w) \/ LoadFails(w)
             \/ BeginUpdateServingMap(w) \/ SwapHandlesMap(w)
             \/ EndUpdateServingMap(w) \/ AnnounceAvailable(w)
             \/ BeginUnload(w) \/ EndUnload(w) \/ AnnounceEnd(w)
    <3>1. pc[w] # "idle" /\ job' = job
      BY <2>2, ZenonT(30) DEF BeginLoad, LoadSucceeds, LoadFails, BeginUpdateServingMap,
                   SwapHandlesMap, EndUpdateServingMap, AnnounceAvailable, BeginUnload,
                   EndUnload, AnnounceEnd
    <3>2. pc' = pc \/ \E l : pc' = [pc EXCEPT ![w] = l]
      BY <2>2, ZenonT(30) DEF BeginLoad, LoadSucceeds, LoadFails, BeginUpdateServingMap,
                   SwapHandlesMap, EndUpdateServingMap, AnnounceAvailable, BeginUnload,
                   EndUnload, AnnounceEnd
    <3> QED  BY <1>1, <1>2, <3>1, <3>2, ZenonT(30)
  <2> QED
    BY <1>6, <2>1, <2>2, ZenonT(30) DEF ExecutionStep
<1>7. CASE LoadExecutorReset \/ \E pool \in LoadPools : SetNumLoadThreads(pool)
  BY <1>1, <1>7, Zenon DEF LoadExecutorReset, SetNumLoadThreads, workerVars
<1>8. CASE \E c \in Clients : ClientNext(c)
  BY <1>1, <1>8, Zenon DEF ClientNext, GetUntypedServableHandle, ReleaseHandle,
                    GetAvailableUntypedServableHandles, workerVars
<1> QED
  BY <1>3, <1>4, <1>5, <1>6, <1>7, <1>8, ZenonT(30) DEF Internal, WorkerNext

\* Only the manager thread begins an unload.
LEMMA UnloadsGoOn ==
    ASSUME CoreInv, Ownership, NEW i \in Ids, state'[i] \in Unloads,
           Internal \/ \E pool \in LoadPools : SetNumLoadThreads(pool)
    PROVE  state[i] \in Unloads
<1> USE DEF Unloads
<1>0. state \in [Ids -> HarnessState \cup {"kUnmanaged"}]
  BY Zenon DEF CoreInv, BaseInv, TypeOK
<1>1. CASE state' = state
  BY <1>1, Zenon
<1>2. ASSUME NEW w \in Workers, NEW j,
             NEW from, NEW to, from \in Unloads \/ to \notin Unloads,
             TransitionState(j, from, to)
      PROVE  state[i] \in Unloads
  BY <1>0, <1>2 DEF TransitionState, Error
<1>3. ASSUME NEW j, NEW s, s \notin Unloads, state' = [state EXCEPT ![j] = s]
      PROVE  state[i] \in Unloads
  BY <1>0, <1>3, ZenonT(30)
<1>4. ASSUME NEW w \in Workers, WorkerNext(w)
      PROVE  state[i] \in Unloads
  <2>1. CASE \/ \E j \in Ids : Start(w, j)
             \/ SpuriousWakeup(w) \/ EnterDecisionPhase(w) \/ AwaitResources(w)
             \/ BeginUpdateServingMap(w) \/ SwapHandlesMap(w)
             \/ AnnounceAvailable(w) \/ AnnounceEnd(w) \/ Finish(w)
    BY <1>1, <2>1,
       ZenonT(30) DEF Start, SpuriousWakeup, EnterDecisionPhase, AwaitResources,
         BeginUpdateServingMap, SwapHandlesMap, AnnounceAvailable, AnnounceEnd,
         Finish, harnessVars
  <2>2. CASE ApproveLoad(w) \/ ApproveUnload(w)
    BY <1>1, <1>2, <2>2 DEF ApproveLoad, ApproveUnload, Approve
  <2>3. CASE RejectLoad(w) \/ BeginLoad(w) \/ LoadFails(w)
    <3>1. state' = state \/ \E s \in {"kLoading", "kError"} : state' = [state EXCEPT ![job[w]] = s]
      BY <2>3, ZenonT(30) DEF RejectLoad, BeginLoad, LoadFails, Error
    <3> QED  BY <1>0, <3>1
  <2>4. CASE \/ LoadSucceeds(w) \/ EndUpdateServingMap(w)
             \/ BeginUnload(w) \/ EndUnload(w)
    BY <1>1, <1>2, <2>4 DEF LoadSucceeds, EndUpdateServingMap, BeginUnload,
                            EndUnload
  <2> QED
    BY <1>4, <2>1, <2>2, <2>3, <2>4,
       ZenonT(30) DEF WorkerNext, DecisionStep, ExecutionStep
<1>5. CASE LoadExecutorReset \/ \E pool \in LoadPools : SetNumLoadThreads(pool)
  BY <1>1, <1>5, Zenon DEF LoadExecutorReset, SetNumLoadThreads, harnessVars
<1>6. CASE \E j \in Ids : ScheduleLoad(j)
  BY <1>1, <1>6, Zenon DEF ScheduleLoad, harnessVars
<1>7. CASE \E c \in Clients : ClientNext(c)
  BY <1>1, <1>7, Zenon DEF ClientNext, GetUntypedServableHandle, ReleaseHandle,
                    GetAvailableUntypedServableHandles, harnessVars
<1> QED
  BY <1>4, <1>5, <1>6, <1>7, ZenonT(30) DEF Internal

\* Steps of other threads keep EventInv.
LEMMA OthersKeepEventInv ==
    ASSUME CoreInv, Ownership, EventInv, UNCHANGED aspired,
           Internal \/ \E pool \in LoadPools : SetNumLoadThreads(pool)
    PROVE  EventInv'
<1>1. \A i \in Ids : event[i] # "none" => event'[i] # "none"
  BY InternalEvents DEF WorkerAnnounces, CoreInv, BaseInv, TypeOK
<1>2. ASSUME NEW i \in Ids, state'[i] # "kUnmanaged"
      PROVE  event'[i] # "none"
  BY <1>1, <1>2, SettledStay, Zenon DEF EventInv, InTransit
<1>3. ASSUME NEW w \in Workers, pc'[w] # "idle"
      PROVE  event'[job'[w]] # "none"
  <2>1. \/ pc[w] # "idle" /\ job'[w] = job[w]
        \/ job'[w] \in Ids /\ state[job'[w]] # "kUnmanaged"
    BY <1>3, JobsKept, Zenon
  <2>2. pc[w] # "idle" => job[w] \in Ids
    BY ExecutingHarness, Zenon
  <2> QED
    <3>1. PICK j \in Ids : j = job'[w] /\ event[j] # "none"
      BY <2>1, <2>2, Zenon DEF EventInv
    <3> QED  BY <1>1, <3>1, Zenon
<1>4. ASSUME NEW i \in Ids, state'[i] \in Unloads
      PROVE  i \notin aspired'
  BY <1>4, UnloadsGoOn, Zenon DEF EventInv
<1> QED
  BY <1>2, <1>3, <1>4, ZenonT(30) DEF EventInv

\* Calls of the manager thread keep EventInv: it asks for the unload of
\* versions that are not aspired, and publishes what it manages.
LEMMA ManagerKeepsEventInv ==
    ASSUME AspiredInv, EventInv, ManagerThread
    PROVE  EventInv'
<1> USE DEF AspiredInv
<1>1. state \in [Ids -> HarnessState \cup {"kUnmanaged"}]
      /\ event \in [Ids -> ManagerState \cup {"none"}]
      /\ \A w \in Workers : pc[w] # "idle" => job[w] \in Ids
  BY ExecutingHarness, Zenon DEF CoreInv, BaseInv, TypeOK
<1>2. ASSUME UNCHANGED vars, aspired' \subseteq aspired
      PROVE  EventInv'
  BY <1>2, ZenonT(30) DEF vars, EventInv
<1>3. ASSUME NEW n \in Names,
             \/ FlushServables(n)
             \/ HandlePendingAspiredVersionsRequests(n)
             \/ GetNextAction(n)
      PROVE  EventInv'
  BY <1>2, <1>3 DEF FlushServables, HandlePendingAspiredVersionsRequests,
     GetNextAction, Visit, ProcessAspiredVersionsRequest, StillAspired
<1>4. ASSUME NEW from, NEW to, NextPhase(from, to)
      PROVE  EventInv'
  BY <1>2, <1>4, Zenon DEF NextPhase
<1>5. ASSUME NEW i \in Ids, Forget(i) \/ Cancel(i)
      PROVE  EventInv'
  <2>1. CASE Forget(i)
    BY <1>1, <2>1 DEF Forget, StopManagingServable, EventInv, Unloads, workerVars
  <2>2. CASE Cancel(i)
    BY <2>2, ZenonT(30) DEF Cancel, CancelLoadServableRetry, EventInv, vars, workerVars
  <2> QED
    BY <1>5, <2>1, <2>2, ZenonT(30)
<1>6. ASSUME NEW i \in Ids, ManageWithAdditionalState(i)
      PROVE  EventInv'
  <2>1. /\ aspired' = aspired \cup {i}
        /\ UNCHANGED <<pc, job>>
        /\ \E s \in {"kStart", "kEnd"} : event' = [event EXCEPT ![i] = s]
        /\ \E s \in {"kNew", "kError"} : state' = [state EXCEPT ![i] = s]
    BY <1>6,
       Zenon DEF ManageWithAdditionalState, ManageServable, Publish, workerVars
  <2> QED
    BY <1>1, <2>1 DEF EventInv, Unloads
<1>7. ASSUME NEW a \in Requests, PerformAction(a)
      PROVE  EventInv'
  <2>1. UNCHANGED <<aspired, pc, job, event>>
    BY <1>7, ZenonT(30) DEF PerformAction, LoadServable, UnloadServable, workerVars
  <2>2. \A i \in Ids : state'[i] # state[i] =>
           /\ state[i] # "kUnmanaged"
           /\ state'[i] \in Unloads => i \notin aspired
    BY <1>1, <1>7, ActionEffects DEF ManagerInv, Unloads
  <2> QED
    BY <2>1, <2>2, Zenon DEF EventInv
<1> QED
  BY <1>3, <1>4, <1>5, <1>6, <1>7 DEF ManagerThread

\* Every step keeps EventInv.
LEMMA EventStep ==
    ASSUME AspiredInv, EventInv, [AspiredNext]_allVars
    PROVE  EventInv'
<1>1. CASE SourceNext \/ UNCHANGED allVars
  BY <1>1,
     Zenon DEF SourceNext, EnqueueAspiredVersionsRequest, allVars, managerVars,
              vars, EventInv
<1> QED
  BY <1>1, OthersKeepEventInv, ManagerKeepsEventInv, ZenonT(30)
     DEF AspiredNext, AspiredInv, managerVars

\* What the manager thread does when it visits a stream: it takes a request
\* that asks for nothing on its way out, or changes nothing that is visible.
LEMMA VisitsImplementServables ==
    ASSUME ManagerInv, NEW n \in Names,
           \/ FlushServables(n)
           \/ HandlePendingAspiredVersionsRequests(n)
           \/ GetNextAction(n)
    PROVE  [Servables!ServableNext]_(Servables!servableVars)
<1> DEFINE Wanted == {i \in Ids : <<"manage", i>> \in calls}
<1>1. calls = {} /\ UNCHANGED <<state, event>>
  BY Zenon DEF FlushServables, HandlePendingAspiredVersionsRequests, GetNextAction,
         Visit, vars
<1>2. ASSUME UNCHANGED <<aspired, pending>>, Wanted' = {}
      PROVE  UNCHANGED Servables!servableVars
  BY <1>1, <1>2, Zenon DEF Servables!servableVars
<1>3. CASE FlushServables(n)
  <2>1. Wanted' = {}
    BY <1>3 DEF FlushServables
  <2> QED
    BY <1>2, <1>3, <2>1, Zenon DEF FlushServables
<1>4. CASE GetNextAction(n)
  BY <1>1, <1>2, <1>4 DEF GetNextAction
<1>5. CASE UNCHANGED <<aspired, pending, latest, calls>>
  BY <1>1, <1>2, <1>5, Zenon
<1>6. ASSUME NEW versions \in pending[n],
             ~ContainsAnyReaspiredVersions(n, versions),
             ProcessAspiredVersionsRequest(n, versions)
      PROVE  Servables!ServableNext
  <2>1. versions \in SUBSET Ids
    BY Zenon DEF ManagerInv
  <2>2. Servables!Of(n, {i \in Ids : state[i] # "kUnmanaged"}) = Managed(n)
    BY Zenon DEF Servables!Of, Managed
  <2>3. Wanted = {} /\ Servables!Of(n, Wanted) = {}
    BY <1>1, Zenon DEF Servables!Of
  <2>4. Managed(n) \cap versions \subseteq aspired
    BY <1>6, Zenon DEF ContainsAnyReaspiredVersions
  <2>5. /\ pending' = [pending EXCEPT ![n] = {}]
        /\ aspired' = aspired \ (Managed(n) \ versions)
        /\ calls' = ({"cancel"} \X (Managed(n) \ versions))
                    \cup ({"manage"} \X (versions \ aspired))
    BY <1>6, Zenon DEF ProcessAspiredVersionsRequest, StillAspired
  <2>6. Wanted' = versions \ aspired
    BY <2>1, <2>5, ZenonT(30)
  <2>7. Servables!Process(n, versions)
    BY <1>1, <2>2, <2>3, <2>4, <2>5, <2>6, ZenonT(30) DEF Servables!Process
  <2> QED
    BY <2>1, <2>7, Zenon DEF Servables!ServableNext
<1> QED
  BY <1>3, <1>4, <1>5, <1>6, ZenonT(30) DEF HandlePendingAspiredVersionsRequests

\* What a call on BasicManager makes of a servable.
LEMMA CallsImplementServables ==
    ASSUME AspiredInv, NEW i \in Ids,
           Forget(i) \/ Cancel(i) \/ ManageWithAdditionalState(i)
    PROVE  [Servables!ServableNext]_(Servables!servableVars)
<1> USE DEF AspiredInv
<1> DEFINE Wanted == {j \in Ids : <<"manage", j>> \in calls}
           Taken == {j \in Ids : state[j] # "kUnmanaged"}
<1>1. state \in [Ids -> HarnessState \cup {"kUnmanaged"}]
  BY StateType, Zenon
<1>2. CASE Forget(i)
  <2>1. /\ <<"forget", i>> \in calls /\ calls' = calls \ {<<"forget", i>>}
        /\ aspired' = aspired \ {i}
        /\ state' = [state EXCEPT ![i] = "kUnmanaged"]
        /\ UNCHANGED <<pending, event>>
    BY <1>2, Zenon DEF Forget, StopManagingServable
  <2>2. i \notin aspired /\ state[i] \in Removable
    BY <2>1, Zenon DEF ManagerInv
  <2>3. i \in Taken \ aspired /\ Taken' = Taken \ {i}
    BY <1>1, <2>1, <2>2, ZenonT(30) DEF Removable
  <2>4. Wanted' = Wanted /\ aspired' = aspired
    BY <2>1, <2>2
  <2>5. Servables!Forget(i)
    BY <2>1, <2>3, <2>4, ZenonT(30) DEF Servables!Forget
  <2> QED
    BY <2>5, Zenon DEF Servables!ServableNext
<1>3. CASE Cancel(i)
  <2>1. UNCHANGED <<aspired, pending, state, event>> /\ Wanted' = Wanted
    BY <1>3, Zenon DEF Cancel, CancelLoadServableRetry, vars
  <2> QED
    BY <2>1, Zenon DEF Servables!servableVars
<1>4. CASE ManageWithAdditionalState(i)
  <2>1. PICK ok \in BOOLEAN : ManageServable(i, ok)
    BY <1>4, Zenon DEF ManageWithAdditionalState
  <2>2. /\ <<"manage", i>> \in calls /\ calls' = calls \ {<<"manage", i>>}
        /\ aspired' = aspired \cup {i}
        /\ pending' = pending
    BY <1>4, Zenon DEF ManageWithAdditionalState
  <2>3. /\ state[i] = "kUnmanaged"
        /\ state' = [state EXCEPT ![i] = IF ok THEN "kNew" ELSE "kError"]
        /\ event' = [event EXCEPT ![i] = IF ok THEN "kStart" ELSE "kEnd"]
    BY <2>1, Zenon DEF ManageServable, Publish
  <2>4. i \in Wanted \ Taken /\ Wanted' = Wanted \ {i} /\ Taken' = Taken \cup {i}
    BY <1>1, <2>2, <2>3
  <2>5. Servables!Manage(i, ok)
    BY <2>2, <2>3, <2>4, Zenon DEF Servables!Manage
  <2> QED
    BY <2>5 DEF Servables!ServableNext
<1> QED
  BY <1>2, <1>3, <1>4, Zenon

\* What the other threads do is a state that they announce.
LEMMA OthersImplementServables ==
    ASSUME AspiredInv, EventInv, UNCHANGED managerVars,
           Internal \/ \E pool \in LoadPools : SetNumLoadThreads(pool)
    PROVE  [Servables!ServableNext]_(Servables!servableVars)
<1> USE DEF AspiredInv
<1> DEFINE Taken == {j \in Ids : state[j] # "kUnmanaged"}
<1>1. Taken' = Taken
  BY SettledStay, Zenon DEF InTransit
<1>2. UNCHANGED <<aspired, pending, calls>>
  BY Zenon DEF managerVars
<1>3. CASE event' = event
  BY <1>1, <1>2, <1>3, ZenonT(30) DEF Servables!servableVars
<1>4. ASSUME NEW w \in Workers, WorkerAnnounces(w)
      PROVE  Servables!ServableNext
  <2>1. PICK s \in {"kLoading", "kAvailable", "kUnloading", "kEnd"} :
           /\ pc[w] # "idle" /\ job[w] \in Ids
           /\ event' = [event EXCEPT ![job[w]] = s]
           /\ s = "kLoading" => state[job[w]] # "kUnmanaged"
           /\ s = "kUnloading" => state[job[w]] \in Unloads
    BY <1>4, Zenon DEF WorkerAnnounces
  <2>2. /\ s = "kLoading" => job[w] \in Taken
        /\ s = "kUnloading" => job[w] \in Taken \ aspired
        /\ event[job[w]] # "none"
    BY <2>1, Zenon DEF EventInv, Unloads
  <2>3. Servables!Announce(job[w], s)
    BY <1>1, <1>2, <2>1, <2>2,
       ZenonT(30) DEF Servables!Announce, Servables!MayAnnounce
  <2> QED
    BY <2>1, <2>3 DEF Servables!ServableNext
<1> QED
  BY <1>3, <1>4, InternalEvents, Zenon

\* Every step of the manager is a step that AspiredServables allows, or
\* changes nothing that sources and subscribers can see.
LEMMA ServablesStep ==
    ASSUME AspiredInv, EventInv, [AspiredNext]_allVars
    PROVE  [Servables!ServableNext]_(Servables!servableVars)
<1> USE DEF AspiredInv
<1>1. CASE SourceNext
  <2>1. PICK n \in Names, versions \in AspiredLists :
           EnqueueAspiredVersionsRequest(n, versions)
    BY <1>1, Zenon DEF SourceNext
  <2> DEFINE lists == [m \in {n} |-> versions]
  <2>2. pending' = [m \in Names |->
                      IF m \in DOMAIN lists THEN {lists[m]} ELSE pending[m]]
    BY <2>1, Zenon DEF EnqueueAspiredVersionsRequest, ManagerInv, ManagerTypeOK
  <2>3. UNCHANGED <<state, calls, aspired, event>>
    BY <2>1, Zenon DEF EnqueueAspiredVersionsRequest, vars
  <2>4. Servables!SetAspiredVersions(lists)
    BY <2>2, <2>3, Zenon DEF Servables!SetAspiredVersions
  <2>5. versions \in SUBSET Ids
    BY StreamsAssumption, Zenon
  <2>6. \E m \in Names, list \in SUBSET Ids :
           \/ Servables!SetAspiredVersions([k \in {m} |-> list])
           \/ Servables!Process(m, list)
    <3> WITNESS n \in Names, versions \in SUBSET Ids
    <3> QED
      BY <2>4, Zenon
  <2> QED
    BY <2>6, Zenon DEF Servables!ServableNext
<1>2. ASSUME NEW a \in Requests, PerformAction(a)
      PROVE  UNCHANGED Servables!servableVars
  <2>1. UNCHANGED <<aspired, pending, calls, event>>
    BY <1>2, Zenon DEF PerformAction, LoadServable, UnloadServable
  <2>2. {j \in Ids : state'[j] # "kUnmanaged"} = {j \in Ids : state[j] # "kUnmanaged"}
    BY <1>2, ActionEffects, StateType
  <2> QED
    BY <2>1, <2>2, Zenon DEF Servables!servableVars
<1>3. CASE UNCHANGED allVars
  BY <1>3, Zenon DEF allVars, vars, managerVars, Servables!servableVars
<1>4. CASE ManagerThread
  <2>1. CASE \E n \in Names : \/ FlushServables(n)
                             \/ HandlePendingAspiredVersionsRequests(n)
                             \/ GetNextAction(n)
    BY <2>1, VisitsImplementServables, Zenon DEF AspiredInv
  <2>2. CASE \E i \in Ids : Forget(i) \/ Cancel(i) \/ ManageWithAdditionalState(i)
    BY <2>2, CallsImplementServables, Zenon
  <2>3. CASE \/ NextPhase("flush", "pending")
             \/ NextPhase("pending", "policy")
             \/ NextPhase("policy", IF actions = {} THEN "flush" ELSE "perform")
    BY <2>3, Zenon DEF NextPhase, vars, Servables!servableVars
  <2> QED  BY <1>2, <1>4, <2>1, <2>2, <2>3, ZenonT(30) DEF ManagerThread
<1> QED
  BY <1>1, <1>3, <1>4, OthersImplementServables, ZenonT(30) DEF AspiredNext

\* The manager keeps to the contract that ServerCore and its sources are
\* modelled on, for any number of streams, versions and threads.
THEOREM KeepsItsContract == AspiredSpec => ImplementsAspiredServables
<1>1. AspiredInit => Servables!ServableInit
  BY EstimateAssumption, StreamsAssumption, ZenonT(30)
     DEF AspiredInit, Init, Servables!ServableInit
<1>2. AspiredInit => EventInv
  BY DEF AspiredInit, Init, EventInv, Unloads
<1>3. AspiredInv /\ EventInv /\ [AspiredNext]_allVars => EventInv'
  BY EventStep, Zenon
<1>4. AspiredInv /\ EventInv /\ [AspiredNext]_allVars
         => [Servables!ServableNext]_(Servables!servableVars)
  BY ServablesStep, Zenon
<1> QED
  BY <1>1, <1>2, <1>3, <1>4, AspiredInvHolds, PTL
     DEF AspiredSpec, ImplementsAspiredServables, Servables!ServableSpec

-----------------------------------------------------------------------------
(***************************************************************************)
(* What the policies achieve: the aspired versions are those asked for,    *)
(* AvailabilityPreservingPolicy keeps streams available, and               *)
(* ResourcePreservingPolicy unloads before it loads.                       *)
(***************************************************************************)

\* What is still to be managed was asked for by the request processed last.
RequestInv ==
    /\ AspiredAsRequested
    /\ \A i \in Ids : <<"manage", i>> \in calls => i \in latest[Name[i]]

\* Why a stream stays available: something else is ready when a version is to
\* be unloaded, something is ready whenever something is served, and the map
\* that is being built has some of it.
AvailabilityInv ==
    /\ \A n \in Names : latest[n] = {} => Managed(n) = {}
    /\ \A i \in Ids : <<"unload", i>> \in actions =>
          \E j \in Ready : j # i /\ Name[j] = Name[i]
    /\ \A i \in serving : \E j \in Ready : Name[j] = Name[i]
    /\ \A w \in Workers : pc[w] = "swap" =>
          \A i \in serving : \E j \in scan : Name[j] = Name[i]

\* While a version is to be loaded, the unaspired versions of its stream are
\* past using resources.
UnloadedInv ==
    \A i, j \in Ids :
        <<"load", i>> \in actions /\ Name[i] = Name[j] /\ j \notin aspired =>
            state[j] \in {"kUnmanaged", "kDisabled", "kError"}
-----------------------------------------------------------------------------
\* Processing a request makes its versions the aspired ones, as far as they
\* are managed already.
LEMMA PendingKeepsRequestInv ==
    ASSUME AspiredInv, RequestInv, NEW n \in Names,
           HandlePendingAspiredVersionsRequests(n)
    PROVE  RequestInv'
<1> USE DEF AspiredInv
<1>1. calls = {}
  BY Zenon DEF HandlePendingAspiredVersionsRequests, Visit
<1>2. CASE UNCHANGED <<aspired, pending, latest, calls>>
  BY <1>2 DEF RequestInv, AspiredAsRequested
<1>3. ASSUME NEW versions \in pending[n],
             ProcessAspiredVersionsRequest(n, versions)
      PROVE  RequestInv'
  <2>1. /\ versions \subseteq {i \in Ids : Name[i] = n}
        /\ \A m \in Names : latest[m] \subseteq {i \in Ids : Name[i] = m}
    BY Zenon DEF ManagerInv
  <2>2. /\ aspired' = aspired \ (Managed(n) \ versions)
        /\ latest' = [latest EXCEPT ![n] = versions]
        /\ \A i \in Ids : <<"manage", i>> \in calls' <=> i \in versions \ aspired
    BY <1>3, <2>1, Zenon DEF ProcessAspiredVersionsRequest, StillAspired
  <2>3. /\ latest'[n] = versions
        /\ \A m \in Names \ {n} : latest'[m] = latest[m]
    BY <2>2 DEF ManagerInv, ManagerTypeOK
  <2>4. \A i \in Ids : i \in aspired /\ Name[i] = n => i \in Managed(n)
    BY Zenon DEF ManagerInv, ManagerTypeOK, Managed
  <2>5. {i \in Ids : Name[i] = n /\ i \in aspired'}
         = {i \in latest'[n] : <<"manage", i>> \notin calls'}
    BY <2>1, <2>2, <2>3, <2>4, ZenonT(30)
  <2>6. ASSUME NEW m \in Names \ {n}
        PROVE  {i \in Ids : Name[i] = m /\ i \in aspired'}
                = {i \in latest'[m] : <<"manage", i>> \notin calls'}
    <3>1. \A i \in Ids : Name[i] = m => (i \in aspired' <=> i \in aspired)
      BY <2>2, Zenon DEF Managed
    <3>2. \A i \in latest[m] : i \in Ids /\ <<"manage", i>> \notin calls'
      BY <2>1, <2>2, Zenon
    <3>3. {i \in Ids : Name[i] = m /\ i \in aspired} = latest[m]
      BY <1>1, Zenon DEF RequestInv, AspiredAsRequested
    <3> QED
      BY <2>3, <3>1, <3>2, <3>3, ZenonT(30)
  <2>7. \A i \in Ids : <<"manage", i>> \in calls' => i \in latest'[Name[i]]
    BY <2>1, <2>2, <2>3, Zenon
  <2> QED
    BY <2>5, <2>6, <2>7, Zenon DEF RequestInv, AspiredAsRequested
<1> QED
  BY <1>2, <1>3, Zenon DEF HandlePendingAspiredVersionsRequests

\* A version becomes aspired when the call that manages it is made.
LEMMA CallsKeepRequestInv ==
    ASSUME AspiredInv, RequestInv, NEW i \in Ids,
           Forget(i) \/ Cancel(i) \/ ManageWithAdditionalState(i)
    PROVE  RequestInv'
<1> USE DEF AspiredInv
<1>1. CASE Forget(i)
  <2>1. /\ aspired' = aspired /\ latest' = latest
        /\ \A j \in Ids : <<"manage", j>> \in calls' <=> <<"manage", j>> \in calls
    BY <1>1 DEF Forget, ManagerInv
  <2>2. \A n \in Names : latest[n] \subseteq Ids
    BY Zenon DEF ManagerInv
  <2> QED
    BY <2>1, <2>2, SMTT(30) DEF RequestInv, AspiredAsRequested
<1>2. CASE Cancel(i)
  <2>1. /\ aspired' = aspired /\ latest' = latest
        /\ \A j \in Ids : <<"manage", j>> \in calls' <=> <<"manage", j>> \in calls
    BY <1>2, Zenon DEF Cancel
  <2>2. \A n \in Names : latest[n] \subseteq Ids
    BY Zenon DEF ManagerInv
  <2> QED
    BY <2>1, <2>2 DEF RequestInv, AspiredAsRequested
<1>3. CASE ManageWithAdditionalState(i)
  <2>1. /\ aspired' = aspired \cup {i} /\ latest' = latest
        /\ <<"manage", i>> \in calls /\ i \in latest[Name[i]]
        /\ calls' = calls \ {<<"manage", i>>}
    BY <1>3, Zenon DEF ManageWithAdditionalState, RequestInv
  <2>2. \A n \in Names : latest[n] \subseteq {j \in Ids : Name[j] = n}
    BY Zenon DEF ManagerInv
  <2>3. ASSUME NEW n \in Names
        PROVE  {j \in Ids : Name[j] = n /\ j \in aspired'}
                = {j \in latest'[n] : <<"manage", j>> \notin calls'}
    <3>1. {j \in Ids : Name[j] = n /\ j \in aspired}
           = {j \in latest[n] : <<"manage", j>> \notin calls}
      BY Zenon DEF RequestInv, AspiredAsRequested
    <3> QED
      BY <2>1, <2>2, <3>1, Zenon
  <2>4. \A j \in Ids : <<"manage", j>> \in calls' => j \in latest'[Name[j]]
    BY <2>1, Zenon DEF RequestInv
  <2> QED
    BY <2>3, <2>4, Zenon DEF RequestInv, AspiredAsRequested
<1> QED
  BY <1>1, <1>2, <1>3, ZenonT(30)

\* Every step keeps RequestInv.
LEMMA RequestStep ==
    ASSUME AspiredInv, RequestInv, [AspiredNext]_allVars
    PROVE  RequestInv'
<1>1. CASE UNCHANGED <<aspired, latest, calls>>
  BY <1>1, Zenon DEF RequestInv, AspiredAsRequested
<1>2. ASSUME NEW n \in Names, FlushServables(n)
      PROVE  RequestInv'
  <2>1. /\ UNCHANGED <<aspired, latest>> /\ calls = {}
        /\ \A i \in Ids : <<"manage", i>> \notin calls'
    BY <1>2, Zenon DEF FlushServables, Visit
  <2>2. \A m \in Names : latest[m] \subseteq Ids
    BY Zenon DEF AspiredInv, ManagerInv
  <2> QED
    BY <2>1, <2>2, ZenonT(30) DEF RequestInv, AspiredAsRequested
<1>3. ASSUME NEW n \in Names, GetNextAction(n)
      PROVE  UNCHANGED <<aspired, latest, calls>>
  BY <1>3, Zenon DEF GetNextAction
<1>4. ASSUME NEW from, NEW to, NextPhase(from, to)
      PROVE  UNCHANGED <<aspired, latest, calls>>
  BY <1>4, Zenon DEF NextPhase
<1>5. ASSUME NEW a \in Requests, PerformAction(a)
      PROVE  UNCHANGED <<aspired, latest, calls>>
  BY <1>5, Zenon DEF PerformAction
<1>6. CASE ManagerThread
  BY <1>1, <1>2, <1>3, <1>4, <1>5, <1>6, PendingKeepsRequestInv,
     CallsKeepRequestInv, ZenonT(30) DEF ManagerThread
<1>7. CASE SourceNext
  BY <1>1, <1>7, Zenon DEF SourceNext, EnqueueAspiredVersionsRequest
<1>8. CASE UNCHANGED managerVars
  BY <1>1, <1>8, ZenonT(30) DEF managerVars
<1> QED
  BY <1>6, <1>7, <1>8, Zenon DEF AspiredNext, allVars

\* The flags that policies decide on are always those of the request
\* processed last: no version stays aspired by mistake, and none is lost,
\* even in error.
THEOREM AspiredAlwaysAsRequested == AspiredSpec => []AspiredAsRequested
<1>1. AspiredInit => RequestInv
  BY Zenon DEF AspiredInit, RequestInv, AspiredAsRequested
<1>2. AspiredInv /\ RequestInv /\ [AspiredNext]_allVars => RequestInv'
  BY RequestStep, Zenon
<1>3. RequestInv => AspiredAsRequested
  BY Zenon DEF RequestInv
<1> QED
  BY <1>1, <1>2, <1>3, AspiredInvHolds, PTL DEF AspiredSpec
-----------------------------------------------------------------------------
\* What a step may do to the harnesses while actions are decided on.
LEMMA DecidedStates ==
    ASSUME AspiredInv, [AspiredNext]_allVars, actions' # {}
    PROVE  /\ aspired' = aspired
           /\ \A i \in Ids : state[i] \notin InTransit => state'[i] = state[i]
<1> USE DEF AspiredInv
<1>1. CASE UNCHANGED <<aspired, state>>
  BY <1>1, Zenon
<1>2. actions = {} \/ phase \in {"policy", "perform"}
  BY Zenon DEF ManagerInv
<1>3. ASSUME NEW i \in Ids, Forget(i) \/ Cancel(i) \/ ManageWithAdditionalState(i)
      PROVE  actions' = {}
  <2>1. phase \in {"flush", "pending"} /\ actions' = actions
    BY <1>3, Zenon DEF Forget, Cancel, ManageWithAdditionalState, ManagerInv
  <2> QED
    BY <1>2, <2>1, Zenon
<1>4. ASSUME NEW n \in Names, HandlePendingAspiredVersionsRequests(n)
      PROVE  actions' = {}
  BY <1>2, <1>4, Zenon DEF HandlePendingAspiredVersionsRequests, Visit
<1>5. ASSUME NEW a \in Requests, PerformAction(a)
      PROVE  actions' = {}
  BY <1>5, Zenon DEF PerformAction
<1>6. ASSUME NEW n \in Names, FlushServables(n) \/ GetNextAction(n)
      PROVE  UNCHANGED <<aspired, state>>
  BY <1>6, Zenon DEF FlushServables, GetNextAction, Visit, vars
<1>7. ASSUME NEW from, NEW to, NextPhase(from, to)
      PROVE  UNCHANGED <<aspired, state>>
  BY <1>7, Zenon DEF NextPhase, vars
<1>8. CASE ManagerThread
  BY <1>1, <1>3, <1>4, <1>5, <1>6, <1>7, <1>8, ZenonT(30) DEF ManagerThread
<1>9. CASE SourceNext
  BY <1>1, <1>9, Zenon DEF SourceNext, EnqueueAspiredVersionsRequest, vars
<1>10. CASE /\ Internal \/ \E pool \in LoadPools : SetNumLoadThreads(pool)
            /\ UNCHANGED managerVars
  BY <1>10, SettledStay, Zenon DEF managerVars
<1>11. CASE UNCHANGED allVars
  BY <1>1, <1>11, Zenon DEF allVars, vars, managerVars
<1> QED
  BY <1>8, <1>9, <1>10, <1>11, ZenonT(30) DEF AspiredNext

\* A step adds no action, or one that the policy wants for some stream in the
\* state it leaves unchanged.
LEMMA DecidedActions ==
    ASSUME AspiredInv, [AspiredNext]_allVars
    PROVE  \/ actions' \subseteq actions
           \/ \E n \in Names : \E a \in PolicyActions(n) :
                 /\ actions' = actions \cup {a}
                 /\ calls = {} /\ UNCHANGED <<vars, aspired, latest, calls>>
<1>1. ASSUME NEW n \in Names, GetNextAction(n)
      PROVE  \/ actions' \subseteq actions
             \/ \E a \in PolicyActions(n) :
                   /\ actions' = actions \cup {a}
                   /\ calls = {} /\ UNCHANGED <<vars, aspired, latest, calls>>
  BY <1>1, Zenon DEF GetNextAction, Visit
<1>2. CASE ManagerThread
  BY <1>1, <1>2, Zenon DEF ManagerThread, FlushServables, NextPhase, Forget, Cancel,
     HandlePendingAspiredVersionsRequests, ManageWithAdditionalState, PerformAction
<1>3. CASE SourceNext \/ UNCHANGED managerVars
  BY <1>3, Zenon DEF SourceNext, EnqueueAspiredVersionsRequest, managerVars
<1> QED
  BY <1>2, <1>3, Zenon DEF AspiredNext, allVars

\* Only the manager thread starts to load a version, as an action that a
\* policy has returned.
LEMMA LoadsAreDecided ==
    ASSUME AspiredInv, [AspiredNext]_allVars, NEW i \in Ids,
           state[i] = "kNew", state'[i] = "kLoadRequested"
    PROVE  <<"load", i>> \in actions
<1> USE DEF AspiredInv
<1>1. state'[i] # state[i]
  BY Zenon
<1>2. ASSUME NEW j \in Ids, Forget(j) \/ Cancel(j) \/ ManageWithAdditionalState(j)
      PROVE  state'[i] = state[i] \/ state'[i] \in {"kUnmanaged", "kNew", "kError"}
  BY <1>2, CallEffects, StateType, ZenonT(30)
<1>3. ASSUME NEW a \in Requests, PerformAction(a)
      PROVE  <<"load", i>> \in actions
  BY <1>1, <1>3, ActionEffects, StateType, ZenonT(30)
<1>4. CASE ManagerThread
  BY <1>1, <1>2, <1>3, <1>4,
     ZenonT(30) DEF ManagerThread, FlushServables, NextPhase,
     HandlePendingAspiredVersionsRequests, GetNextAction, Visit, vars
<1>5. CASE Internal \/ \E pool \in LoadPools : SetNumLoadThreads(pool)
  BY <1>1, <1>5, SettledStay, Zenon DEF InTransit
<1>6. CASE SourceNext \/ UNCHANGED allVars
  BY <1>1, <1>6, Zenon DEF SourceNext, EnqueueAspiredVersionsRequest, allVars, vars
<1> QED
  BY <1>4, <1>5, <1>6, Zenon DEF AspiredNext

\* Once ResourcePreservingPolicy wants to load, nothing unaspired comes back
\* to life before the load is requested.
LEMMA UnloadedStep ==
    ASSUME Policy = "resource", AspiredInv, UnloadedInv, [AspiredNext]_allVars
    PROVE  UnloadedInv'
<1> SUFFICES ASSUME NEW i \in Ids, NEW j \in Ids, <<"load", i>> \in actions',
                    Name[i] = Name[j], j \notin aspired'
             PROVE  state'[j] \in {"kUnmanaged", "kDisabled", "kError"}
  BY Zenon DEF UnloadedInv
<1>1. CASE <<"load", i>> \in actions
  <2>1. aspired' = aspired /\ (state[j] \notin InTransit => state'[j] = state[j])
    BY DecidedStates, Zenon
  <2>2. state[j] \in {"kUnmanaged", "kDisabled", "kError"}
    BY <1>1, <2>1, Zenon DEF UnloadedInv
  <2> QED
    BY <2>1, <2>2, Zenon DEF InTransit
<1>2. ASSUME NEW n \in Names, <<"load", i>> \in PolicyActions(n),
             UNCHANGED <<vars, aspired>>
      PROVE  state'[j] \in {"kUnmanaged", "kDisabled", "kError"}
  <2>1. /\ i \in HighestAspiredNew(n)
        /\ NotAspiredNotFinished(n) = {}
    BY <1>2, Zenon DEF PolicyActions, ResourcePreservingPolicy
  <2>2. Name[j] = n
    BY <2>1, Zenon DEF HighestAspiredNew, Highest, Managed
  <2>3. state[j] \in {"kUnmanaged", "kDisabled", "kError"}
    BY <1>2, <2>1, <2>2, ZenonT(30) DEF NotAspiredNotFinished, Managed
  <2> QED
    BY <1>2, <2>3, Zenon DEF vars
<1> QED
  BY <1>1, <1>2, DecidedActions, Zenon

\* With ResourcePreservingPolicy, no version is loaded while an unaspired one
\* of its stream has resources, although unloads go on in other threads when
\* the policy decides.
THEOREM OldVersionsAlwaysUnloadFirst ==
    ASSUME Policy = "resource"
    PROVE  AspiredSpec => OldVersionsUnloadFirst
<1>1. AspiredInit => UnloadedInv
  BY Zenon DEF AspiredInit, UnloadedInv
<1>2. AspiredInv /\ UnloadedInv /\ [AspiredNext]_allVars => UnloadedInv'
  BY UnloadedStep, Zenon
<1>3. AspiredInv /\ UnloadedInv /\ [AspiredNext]_allVars =>
        [\A i, j \in Ids :
           /\ Name[i] = Name[j]
           /\ state[i] = "kNew" /\ state'[i] = "kLoadRequested"
           => j \in aspired \/ state[j] \notin UsesResources]_allVars
  BY LoadsAreDecided, Zenon DEF UnloadedInv, UsesResources
<1> QED
  BY <1>1, <1>2, <1>3, AspiredInvHolds, PTL DEF AspiredSpec, OldVersionsUnloadFirst
-----------------------------------------------------------------------------
\* What a step of another thread may do to the handles map: nothing, begin to
\* build a map from all that is ready, or install the map.
LEMMA MapSteps ==
    ASSUME CoreInv, Internal \/ \E pool \in LoadPools : SetNumLoadThreads(pool)
    PROVE  \/ /\ UNCHANGED <<serving, scan>>
              /\ \A v \in Workers : pc'[v] = "swap" => pc[v] = "swap"
           \/ UNCHANGED <<serving, state>> /\ scan' = Ready
           \/ /\ \E w \in Workers : pc[w] = "swap"
              /\ serving' \in NewHandlesMaps
              /\ state' = state
              /\ \A v \in Workers : pc'[v] # "swap"
<1> DEFINE Same == /\ UNCHANGED <<serving, scan>>
                   /\ \A v \in Workers : pc'[v] = "swap" => pc[v] = "swap"
<1>0. pc \in [Workers -> PC] /\ Locks
  BY Zenon DEF CoreInv, BaseInv, TypeOK
<1> USE <1>0 DEF servingVars
<1>1. CASE LoadExecutorReset \/ \E pool \in LoadPools : SetNumLoadThreads(pool)
  BY <1>1, Zenon DEF LoadExecutorReset, SetNumLoadThreads, workerVars
<1>2. ASSUME NEW i \in Ids, ScheduleLoad(i)
      PROVE  Same
  BY <1>2, Zenon DEF ScheduleLoad, Goto
<1>3. ASSUME NEW c \in Clients, ClientNext(c)
      PROVE  Same
  BY <1>3, Zenon DEF ClientNext, GetUntypedServableHandle, ReleaseHandle,
     GetAvailableUntypedServableHandles, workerVars
<1>4. ASSUME NEW w \in Workers, BeginUpdateServingMap(w)
      PROVE  UNCHANGED <<serving, state>> /\ scan' = Ready
  BY <1>4, Zenon DEF BeginUpdateServingMap, harnessVars
<1>5. ASSUME NEW w \in Workers, SwapHandlesMap(w)
      PROVE  /\ pc[w] = "swap" /\ serving' \in NewHandlesMaps /\ state' = state
             /\ \A v \in Workers : pc'[v] # "swap"
  <2>1. pc[w] = "swap" /\ pc' = [pc EXCEPT ![w] = "drain"]
    BY <1>5, Zenon DEF SwapHandlesMap, Goto
  <2>2. \A v \in Workers \ {w} : pc[v] # "swap"
    BY <2>1 DEF Locks
  <2> QED
    BY <1>5, <2>1, <2>2, Zenon DEF SwapHandlesMap, harnessVars
<1>6. ASSUME NEW w \in Workers, (\E i \in Ids : Start(w, i)) \/ SpuriousWakeup(w)
      PROVE  Same
  BY <1>6, Zenon DEF Start, SpuriousWakeup, Goto
<1>7. ASSUME NEW w \in Workers, DecisionStep(w)
      PROVE  Same
  <2>1. CASE EnterDecisionPhase(w) \/ AwaitResources(w)
    BY <2>1, Zenon DEF EnterDecisionPhase, AwaitResources, Goto
  <2>2. CASE ApproveLoad(w) \/ ApproveUnload(w)
    <3>1. Goto(w, "exec") \/ Goto(w, "idle")
      BY <2>2, Zenon DEF ApproveLoad, ApproveUnload, Approve, Reject, Goto
    <3>2. UNCHANGED <<serving, scan>>
      BY <2>2, Zenon DEF ApproveLoad, ApproveUnload
    <3> QED
      BY <3>1, <3>2, Zenon DEF Goto
  <2>3. CASE RejectLoad(w)
    BY <2>3, Zenon DEF RejectLoad, Reject
  <2> QED
    BY <1>7, <2>1, <2>2, <2>3, Zenon DEF DecisionStep
<1>8. ASSUME NEW w \in Workers, ExecutionStep(w), ~BeginUpdateServingMap(w),
             ~SwapHandlesMap(w)
      PROVE  Same
  <2>1. CASE BeginLoad(w) \/ LoadSucceeds(w)
    <3>1. /\ UNCHANGED <<serving, scan>>
          /\ Goto(w, "loading") \/ Goto(w, "loaded") \/ Goto(w, "finish")
      BY <2>1, Zenon DEF BeginLoad, LoadSucceeds
    <3> QED
      BY <3>1, Zenon DEF Goto
  <2>2. CASE LoadFails(w)
    <3>1. UNCHANGED <<serving, scan>> /\ (Goto(w, "finish") \/ UNCHANGED pc)
      BY <2>2, Zenon DEF LoadFails
    <3> QED
      BY <3>1, Zenon DEF Goto
  <2>3. CASE EndUpdateServingMap(w)
    <3>1. /\ UNCHANGED <<serving, scan>>
          /\ Goto(w, "unload") \/ Goto(w, "finish") \/ Goto(w, "announce")
      BY <2>3, Zenon DEF EndUpdateServingMap
    <3> QED
      BY <3>1, Zenon DEF Goto
  <2>4. CASE AnnounceAvailable(w) \/ AnnounceEnd(w)
    BY <2>4, Zenon DEF AnnounceAvailable, AnnounceEnd, Goto
  <2>5. CASE BeginUnload(w) \/ EndUnload(w)
    <3>1. /\ UNCHANGED <<serving, scan>>
          /\ Goto(w, "unloading") \/ Goto(w, "unloaded") \/ Goto(w, "finish")
      BY <2>5, Zenon DEF BeginUnload, EndUnload
    <3> QED
      BY <3>1, Zenon DEF Goto
  <2>6. CASE Finish(w)
    BY <2>6, Zenon DEF Finish, NotifyAll
  <2> QED
    BY <1>8, <2>1, <2>2, <2>3, <2>4, <2>5, <2>6, ZenonT(30) DEF ExecutionStep
<1> QED
  BY <1>1, <1>2, <1>3, <1>4, <1>5, <1>6, <1>7, <1>8,
     ZenonT(30) DEF Internal, WorkerNext,
     LoadExecutorReset, SetNumLoadThreads, workerVars

\* AvailabilityPreservingPolicy unloads a version only if another one of the
\* stream is ready: an aspired one, or another unaspired one.
LEMMA UnloadsLeaveOne ==
    ASSUME Policy = "availability", AspiredInv, RequestInv, AvailabilityInv,
           calls = {}, NEW n \in Names, NEW i \in Ids,
           <<"unload", i>> \in PolicyActions(n)
    PROVE  \E j \in Ready : j # i /\ Name[j] = Name[i]
<1>1. i \in UnaspiredServing(n) /\ MayUnload(n)
  BY Zenon DEF PolicyActions, AvailabilityPreservingPolicy, Lowest
<1>2. Name[i] = n /\ i \notin aspired /\ i \in Managed(n)
  BY <1>1, Zenon DEF UnaspiredServing, Managed
<1>3. CASE Managed(n) \cap aspired = {}
  <2>1. {j \in Ids : Name[j] = n /\ j \in aspired} = latest[n]
    BY Zenon DEF RequestInv, AspiredAsRequested
  <2>2. latest[n] = {}
    BY <1>3, <2>1, ZenonT(30) DEF AspiredInv, ManagerInv, ManagerTypeOK, Managed
  <2> QED
    BY <1>2, <2>2, Zenon DEF AvailabilityInv
<1>4. CASE Managed(n) \cap aspired \cap Ready # {}
  BY <1>2, <1>4, Zenon DEF Managed
<1>5. CASE Cardinality(UnaspiredServing(n)) > 1
  <2>1. ASSUME UnaspiredServing(n) = {i}
        PROVE  FALSE
    <3>1. Cardinality({i}) = 1
      BY FS_Singleton, Zenon
    <3> QED
      BY <1>5, <2>1, <3>1
  <2>2. PICK j \in UnaspiredServing(n) : j # i
    BY <1>1, <2>1, Zenon
  <2> QED
    BY <1>2, <2>2, Zenon DEF UnaspiredServing, Managed
<1> QED
  BY <1>1, <1>3, <1>4, <1>5, Zenon DEF MayUnload

\* A version becomes managed only by a call that manages it.
LEMMA ManagedByCall ==
    ASSUME AspiredInv, [AspiredNext]_allVars, NEW i \in Ids,
           state[i] = "kUnmanaged", state'[i] # "kUnmanaged"
    PROVE  <<"manage", i>> \in calls /\ latest' = latest
<1> USE DEF AspiredInv
<1>1. state'[i] # state[i]
  BY Zenon
<1>2. ASSUME NEW j \in Ids, Forget(j) \/ Cancel(j)
      PROVE  state'[i] = state[i]
  BY <1>2, StateType, Zenon DEF Forget, StopManagingServable, Cancel,
     CancelLoadServableRetry, vars
<1>3. ASSUME NEW j \in Ids, ManageWithAdditionalState(j)
      PROVE  <<"manage", i>> \in calls /\ latest' = latest
  BY <1>1, <1>3, StateType, Zenon DEF ManageWithAdditionalState, ManageServable
<1>4. ASSUME NEW a \in Requests, PerformAction(a)
      PROVE  state'[i] = state[i]
  BY <1>4, ActionEffects, StateType, Zenon
<1>5. CASE ManagerThread
  BY <1>1, <1>2, <1>3, <1>4, <1>5,
     ZenonT(30) DEF ManagerThread, FlushServables, NextPhase,
     HandlePendingAspiredVersionsRequests, GetNextAction, Visit, vars
<1>6. CASE Internal \/ \E pool \in LoadPools : SetNumLoadThreads(pool)
  BY <1>1, <1>6, SettledStay, ZenonT(30) DEF InTransit
<1>7. CASE SourceNext \/ UNCHANGED allVars
  BY <1>1, <1>7, Zenon DEF SourceNext, EnqueueAspiredVersionsRequest, allVars, vars
<1> QED
  BY <1>5, <1>6, <1>7, Zenon DEF AspiredNext

\* If sources always aspire to some version, a stream for which nothing is
\* asked has never had a version.
LEMMA NothingAskedNothingManaged ==
    ASSUME {} \notin AspiredLists, AspiredInv, RequestInv, AvailabilityInv,
           [AspiredNext]_allVars, NEW n \in Names, latest'[n] = {}
    PROVE  Managed(n)' = {}
<1>1. latest[n] = {}
  <2>1. ASSUME NEW m \in Names, HandlePendingAspiredVersionsRequests(m)
        PROVE  latest[n] = {}
    <3>1. CASE latest' = latest
      BY <3>1, Zenon
    <3>2. ASSUME NEW versions \in pending[m], latest' = [latest EXCEPT ![m] = versions]
          PROVE  latest[n] = {}
      <4>1. versions # {}
        <5>1. versions \in AspiredLists
          BY ZenonT(30) DEF AspiredInv, ManagerInv, ManagerTypeOK
        <5> QED
          BY <5>1, Zenon
      <4>2. n # m
        BY <3>2, <4>1 DEF AspiredInv, ManagerInv, ManagerTypeOK
      <4> QED
        BY <3>2, <4>2 DEF AspiredInv, ManagerInv, ManagerTypeOK
    <3> QED
      BY <2>1, <3>1, <3>2, ZenonT(30) DEF HandlePendingAspiredVersionsRequests,
         ProcessAspiredVersionsRequest
  <2>2. CASE ManagerThread
    BY <2>1, <2>2,
       Zenon DEF ManagerThread, FlushServables, NextPhase, Forget, Cancel,
       GetNextAction, ManageWithAdditionalState, PerformAction
  <2>3. CASE SourceNext \/ UNCHANGED managerVars
    BY <2>3, Zenon DEF SourceNext, EnqueueAspiredVersionsRequest, managerVars
  <2> QED
    BY <2>2, <2>3, Zenon DEF AspiredNext, allVars
<1>2. Managed(n) = {}
  BY <1>1, Zenon DEF AvailabilityInv
<1>3. ASSUME NEW i \in Ids, Name[i] = n, state'[i] # "kUnmanaged"
      PROVE  FALSE
  <2>1. state[i] = "kUnmanaged"
    BY <1>2, <1>3, Zenon DEF Managed
  <2>2. i \in latest[n]
    BY <1>3, <2>1, ManagedByCall, Zenon DEF RequestInv
  <2> QED
    BY <1>1, <2>2, Zenon
<1> QED
  BY <1>3, Zenon DEF Managed

\* The handles map changes in steps of other threads only, and a version
\* stops being ready only when the manager thread unloads it.
LEMMA ReadyStays ==
    ASSUME AspiredInv, [AspiredNext]_allVars
    PROVE  \/ \E i \in Ids : /\ <<"unload", i>> \in actions
                             /\ \A j \in Ready : j # i => j \in Ready'
                             /\ UNCHANGED <<serving, scan, pc>>
           \/ /\ Ready \subseteq Ready'
              /\ \/ UNCHANGED <<serving, scan, pc>>
                 \/ Internal \/ \E pool \in LoadPools : SetNumLoadThreads(pool)
<1> USE DEF AspiredInv
<1>1. CASE UNCHANGED vars
  BY <1>1, Zenon DEF vars, Ready
<1>2. ASSUME NEW i \in Ids, Forget(i) \/ Cancel(i) \/ ManageWithAdditionalState(i)
      PROVE  Ready \subseteq Ready' /\ UNCHANGED <<serving, scan, pc>>
  <2>1. Ready \subseteq Ready'
    BY <1>2, CallEffects, StateType, ZenonT(30) DEF Ready, Removable
  <2>2. UNCHANGED <<serving, scan, pc>>
    BY <1>2,
       Zenon DEF Forget, StopManagingServable, Cancel, CancelLoadServableRetry, vars,
       ManageWithAdditionalState, ManageServable, servingVars, workerVars
  <2> QED
    BY <2>1, <2>2, Zenon
<1>3. ASSUME NEW a \in Requests, PerformAction(a)
      PROVE  \/ \E i \in Ids : /\ <<"unload", i>> \in actions
                               /\ \A j \in Ready : j # i => j \in Ready'
                               /\ UNCHANGED <<serving, scan, pc>>
             \/ Ready \subseteq Ready' /\ UNCHANGED <<serving, scan, pc>>
  <2>1. UNCHANGED <<serving, scan, pc>>
    BY <1>3,
       Zenon DEF PerformAction, LoadServable, UnloadServable, servingVars, workerVars
  <2>2. PICK i \in Ids :
              \/ /\ a = <<"load", i>> /\ a \in actions /\ state[i] = "kNew"
                 /\ state' = [state EXCEPT ![i] = "kLoadRequested"]
              \/ /\ a = <<"unload", i>> /\ a \in actions /\ state[i] = "kReady"
                 /\ state' = [state EXCEPT ![i] = "kUnloadRequested"]
    BY <1>3, ActionEffects, Zenon
  <2>3. CASE a = <<"load", i>>
    BY <2>1, <2>2, <2>3, StateType, ZenonT(30) DEF Ready
  <2>4. CASE a = <<"unload", i>>
    BY <2>1, <2>2, <2>4, StateType, ZenonT(30) DEF Ready
  <2> QED
    BY <2>2, <2>3, <2>4, ZenonT(30)
<1>4. CASE ManagerThread
  BY <1>1, <1>2, <1>3, <1>4,
     ZenonT(30) DEF ManagerThread, FlushServables, NextPhase,
     HandlePendingAspiredVersionsRequests, GetNextAction, Visit
<1>5. CASE Internal \/ \E pool \in LoadPools : SetNumLoadThreads(pool)
  <2>1. Ready \subseteq Ready'
    BY <1>5, SettledStay, Zenon DEF Ready, InTransit
  <2> QED
    BY <1>5, <2>1, ZenonT(30)
<1>6. CASE SourceNext \/ UNCHANGED allVars
  BY <1>1, <1>6, Zenon DEF SourceNext, EnqueueAspiredVersionsRequest, allVars
<1> QED
  BY <1>4, <1>5, <1>6, ZenonT(30) DEF AspiredNext

\* Every step keeps AvailabilityInv.
LEMMA AvailabilityStep ==
    ASSUME Policy = "availability", {} \notin AspiredLists,
           AspiredInv, RequestInv, AvailabilityInv, [AspiredNext]_allVars
    PROVE  AvailabilityInv'
<1>1. ASSUME NEW i \in Ids, <<"unload", i>> \in actions'
      PROVE  \E j \in Ready' : j # i /\ Name[j] = Name[i]
  <2>1. CASE <<"unload", i>> \in actions
    <3>1. PICK j \in Ready : j # i /\ Name[j] = Name[i]
      BY <2>1, Zenon DEF AvailabilityInv
    <3>2. state'[j] = state[j]
      BY <1>1, DecidedStates, Zenon DEF Ready, InTransit
    <3> QED
      BY <3>1, <3>2, ZenonT(30) DEF Ready
  <2>2. ASSUME NEW n \in Names, <<"unload", i>> \in PolicyActions(n), calls = {},
               UNCHANGED vars
        PROVE  \E j \in Ready' : j # i /\ Name[j] = Name[i]
    BY <2>2, UnloadsLeaveOne, Zenon DEF vars, Ready
  <2> QED
    BY <1>1, <2>1, <2>2, DecidedActions, ZenonT(30)
<1>2. /\ \A i \in serving' : \E j \in Ready' : Name[j] = Name[i]
      /\ \A w \in Workers : pc'[w] = "swap" =>
            \A i \in serving' : \E j \in scan' : Name[j] = Name[i]
  <2>1. ASSUME NEW i \in Ids, <<"unload", i>> \in actions,
               \A j \in Ready : j # i => j \in Ready',
               UNCHANGED <<serving, scan, pc>>
        PROVE  <1>2!1 /\ <1>2!2
    <3>1. PICK k \in Ready : k # i /\ Name[k] = Name[i]
      BY <2>1, Zenon DEF AvailabilityInv
    <3>2. \A s \in serving : \E j \in Ready' : Name[j] = Name[s]
      BY <2>1, <3>1, Zenon DEF AvailabilityInv
    <3> QED
      BY <2>1, <3>2, Zenon DEF AvailabilityInv
  <2>2. CASE /\ Ready \subseteq Ready'
             /\ UNCHANGED <<serving, scan>>
             /\ \A v \in Workers : pc'[v] = "swap" => pc[v] = "swap"
    BY <2>2, Zenon DEF AvailabilityInv
  <2>3. CASE UNCHANGED <<serving, state>> /\ scan' = Ready
    BY <2>3, Zenon DEF AvailabilityInv, Ready
  <2>4. CASE /\ serving' \in NewHandlesMaps /\ state' = state
             /\ \A v \in Workers : pc'[v] # "swap"
    BY <2>4, ZenonT(30) DEF NewHandlesMaps, Ready
  <2> QED
    BY <2>1, <2>2, <2>3, <2>4, ReadyStays, MapSteps, ZenonT(30) DEF AspiredInv
<1> QED
  BY <1>1, <1>2, NothingAskedNothingManaged, Zenon DEF AvailabilityInv

\* With AvailabilityPreservingPolicy, and sources that always aspire to some
\* version, a stream that is available stays available: when one version is
\* taken out of the handles map, the new map has another one, even if that
\* one became ready in another thread and was not in the map before.
THEOREM StreamsStayAvailable ==
    ASSUME Policy = "availability", {} \notin AspiredLists
    PROVE  AspiredSpec => StreamStaysAvailable
<1> DEFINE I == RequestInv /\ AvailabilityInv
<1>1. AspiredInit => I
  BY DEF AspiredInit, RequestInv, AspiredAsRequested, AvailabilityInv, Init, Managed
<1>2. AspiredInv /\ I /\ [AspiredNext]_allVars => I'
  BY RequestStep, AvailabilityStep, Zenon
<1>3. AspiredInv /\ I /\ [AspiredNext]_allVars =>
        [\A n \in Names : (\E i \in serving : Name[i] = n)
                           => (\E i \in serving' : Name[i] = n)]_allVars
  <2> SUFFICES ASSUME AspiredInv, AvailabilityInv, [AspiredNext]_allVars,
                      NEW i \in serving
               PROVE  \E j \in serving' : Name[j] = Name[i]
    BY Zenon
  <2>1. CASE serving' = serving
    BY <2>1, Zenon
  <2>2. CASE (\E w \in Workers : pc[w] = "swap") /\ serving' \in NewHandlesMaps
    BY <2>2, Zenon DEF AvailabilityInv, NewHandlesMaps
  <2> QED
    BY <2>1, <2>2, ReadyStays, MapSteps, ZenonT(30) DEF AspiredInv
<1> QED
  BY <1>1, <1>2, <1>3, AspiredInvHolds, PTL DEF AspiredSpec, StreamStaysAvailable
=============================================================================
