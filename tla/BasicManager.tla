---------------------------- MODULE BasicManager ----------------------------
(***************************************************************************)
(* BasicManager and the LoaderHarness objects it owns                      *)
(* (tensorflow_serving/core/basic_manager.{h,cc}, loader_harness.{h,cc}).  *)
(*                                                                         *)
(* A caller manages servables, asks for loads and unloads, and forgets     *)
(* servables; load and unload requests run on executor threads in two      *)
(* phases (decision, execution); clients take handles out of the serving   *)
(* map and release them at any time.                                       *)
(*                                                                         *)
(* Locks.  A critical section of mu_ that cannot block is one step, taken  *)
(* when nobody holds mu_.  UpdateServingMap() blocks with mu_ held, until  *)
(* the handles of the replaced map are gone, so the variable mu records    *)
(* who holds it there.  The wait in ReserveResources() gives up mu_ but    *)
(* not load_unload_decision_phase_mu_, which is the variable decider.      *)
(*                                                                         *)
(* Definitions marked faulty are variants with a bug that the code does    *)
(* not have; nothing uses them.  They show that a property would fail if   *)
(* the definition that follows were replaced by them.                      *)
(***************************************************************************)
EXTENDS Integers, FiniteSets

CONSTANTS
    Ids,             \* the servable ids callers use
    LoadThreads,     \* threads that load pools are made of
    LoadPools,       \* the pools callers configure: sets of threads, {} is inline
    Inline,          \* the calling thread, while it runs an InlineExecutor load
    UnloadThreads,   \* threads that run unload requests, pooled or calling ones
    Clients,         \* holders of servable handles
    Nobody,          \* the holder of a free mutex
    NoId,            \* what an idle worker works on
    LoadEstimate,    \* [Ids -> Nat]: EstimateResources() until Load() is done
    ServeEstimate,   \* [Ids -> Nat]: EstimateResources() of a loaded servable
    TotalResources,  \* units in the pool of the resource tracker
    MaxNumLoadRetries,
    EstimatesFail    \* may EstimateResources() report errors?

Workers == LoadThreads \cup {Inline} \cup UnloadThreads

ASSUME WorkersAssumption ==
    /\ Inline \notin LoadThreads
    /\ UnloadThreads \cap (LoadThreads \cup {Inline}) = {}
    /\ Nobody \notin Workers
    /\ IsFiniteSet(LoadThreads) /\ IsFiniteSet(UnloadThreads)
    /\ LoadPools \subseteq SUBSET LoadThreads

\* loader.h requires estimates that do not grow over time.
ASSUME EstimateAssumption ==
    /\ IsFiniteSet(Ids) /\ NoId \notin Ids
    /\ LoadEstimate \in [Ids -> Nat] /\ ServeEstimate \in [Ids -> Nat]
    /\ \A i \in Ids : ServeEstimate[i] =< LoadEstimate[i]
    /\ TotalResources \in Nat
    /\ MaxNumLoadRetries \in Nat
    /\ EstimatesFail \in BOOLEAN

VARIABLES
    state,      \* harness state of each id, kUnmanaged if not in managed_map_
    cancel,     \* ids whose cancel_load_retry_ is set
    serving,    \* ids in the current handles_map_
    held,       \* per client, the ids its handles refer to
    stale,      \* clients whose handles refer to the replaced handles_map_
    mu,         \* holder of mu_ while it blocks in UpdateServingMap()
    scan,       \* ids that were kReady when that UpdateServingMap() began
    decider,    \* holder of load_unload_decision_phase_mu_
    accepted,   \* ids whose load is accepted but not yet given to load_executor_
    scheduled,  \* requests waiting in an executor
    pc,         \* what each worker is doing
    job,        \* the id each worker is working on
    tries,      \* failed Load() attempts of the running Retry()
    ongoing,    \* num_ongoing_load_unload_executions_
    load_pool,  \* threads of load_executor_
    resizing,   \* the pool a running SetNumLoadThreads() will install, if any
    event       \* the last ServableState published for each id

harnessVars == <<state, cancel>>
servingVars == <<serving, held, stale, mu, scan>>
workerVars  == <<decider, pc, job, tries, ongoing>>
queueVars   == <<accepted, scheduled, load_pool, resizing>>
vars == <<state, cancel, serving, held, stale, mu, scan, decider, accepted,
          scheduled, pc, job, tries, ongoing, load_pool, resizing, event>>
-----------------------------------------------------------------------------
HarnessState ==
    {"kNew", "kLoadRequested", "kLoadApproved", "kLoading", "kReady",
     "kUnloadRequested", "kQuiescing", "kQuiesced", "kUnloading",
     "kDisabled", "kError"}

ManagerState == {"kStart", "kLoading", "kAvailable", "kUnloading", "kEnd"}

\* Positions in HandleLoadOrUnloadRequest() and what it calls.
Deciding  == {"approve", "waiting", "reserve"}
Executing == {"exec", "loading", "loaded", "swap", "drain", "announce",
              "unload", "unloading", "unloaded", "finish"}
PC == {"idle", "decide"} \cup Deciding \cup Executing

Requests == {"load", "unload"} \X Ids
Kind(w) == IF w \in UnloadThreads THEN "unload" ELSE "load"

TypeOK ==
    /\ state \in [Ids -> HarnessState \cup {"kUnmanaged"}]
    /\ cancel \subseteq Ids
    /\ serving \subseteq Ids
    /\ held \in [Clients -> SUBSET Ids]
    /\ stale \subseteq Clients
    /\ mu \in Workers \cup {Nobody}
    /\ scan \subseteq Ids
    /\ decider \in Workers \cup {Nobody}
    /\ accepted \subseteq Ids
    /\ scheduled \subseteq Requests
    /\ pc \in [Workers -> PC]
    /\ job \in [Workers -> Ids \cup {NoId}]
    /\ tries \in [Workers -> 0 .. MaxNumLoadRetries]
    /\ ongoing \in Nat
    /\ load_pool \in LoadPools
    /\ resizing \subseteq LoadPools
    /\ event \in [Ids -> ManagerState \cup {"none"}]

Init ==
    /\ state = [i \in Ids |-> "kUnmanaged"]
    /\ cancel = {}
    /\ serving = {}
    /\ held = [c \in Clients |-> {}]
    /\ stale = {}
    /\ mu = Nobody
    /\ scan = {}
    /\ decider = Nobody
    /\ accepted = {}
    /\ scheduled = {}
    /\ pc = [w \in Workers |-> "idle"]
    /\ job = [w \in Workers |-> NoId]
    /\ tries = [w \in Workers |-> 0]
    /\ ongoing = 0
    /\ load_pool \in LoadPools
    /\ resizing = {}
    /\ event = [i \in Ids |-> "none"]
-----------------------------------------------------------------------------
(***************************************************************************)
(* LoaderHarness::TransitionState(): an illegal transition is an error of  *)
(* the servable, and the error callback publishes kEnd.                    *)
(***************************************************************************)
ErrorUnreported(i) ==    \* faulty: no error callback
    /\ state' = [state EXCEPT ![i] = "kError"]
    /\ event' = event

Error(i) ==
    /\ state' = [state EXCEPT ![i] = "kError"]
    /\ event' = [event EXCEPT ![i] = "kEnd"]

TransitionState(i, from, to) ==
    IF state[i] = from
    THEN state' = [state EXCEPT ![i] = to] /\ event' = event
    ELSE Error(i)

Publish(i, s) == event' = [event EXCEPT ![i] = s]

Goto(w, l) == pc' = [pc EXCEPT ![w] = l]

\* A request leaves its worker without having been executed.
Reject(w) ==
    /\ pc' = [pc EXCEPT ![w] = "idle"]
    /\ job' = [job EXCEPT ![w] = NoId]
    /\ decider' = Nobody
    /\ ongoing' = ongoing

Healthy(i) == i \in Ids /\ state[i] \notin {"kUnmanaged", "kError"}
-----------------------------------------------------------------------------
(* Calls of the manager's owner. *)

\* A servable whose source reports an error is managed in kError.
ManageServable(i, ok) ==
    /\ mu = Nobody
    /\ state[i] = "kUnmanaged"
    /\ state' = [state EXCEPT ![i] = IF ok THEN "kNew" ELSE "kError"]
    /\ Publish(i, IF ok THEN "kStart" ELSE "kEnd")
    /\ cancel' = cancel \ {i}
    /\ UNCHANGED <<servingVars, workerVars, queueVars>>

RemovableUnlessReady == HarnessState \ {"kReady"}    \* faulty

Removable == {"kNew", "kError", "kDisabled"}

StopManagingServable(i) ==
    /\ mu = Nobody
    /\ state[i] \in Removable
    /\ state' = [state EXCEPT ![i] = "kUnmanaged"]
    /\ cancel' = cancel \ {i}
    /\ UNCHANGED <<servingVars, workerVars, queueVars, event>>

LoadRequested(i) == state[i] = "kNew"

LoadServable(i) ==
    /\ mu = Nobody
    /\ LoadRequested(i)
    /\ state' = [state EXCEPT ![i] = "kLoadRequested"]
    /\ accepted' = accepted \cup {i}
    /\ UNCHANGED <<cancel, servingVars, workerVars, scheduled, load_pool,
                   resizing, event>>

\* load_executor_->Schedule() under load_executor_mu_, which is held while a
\* load runs inline and while SetNumLoadThreads() drains the old pool.
ScheduleLoad(i) ==
    /\ i \in accepted
    /\ resizing = {}
    /\ pc[Inline] = "idle"
    /\ accepted' = accepted \ {i}
    /\ IF load_pool = {}
       THEN /\ Goto(Inline, "decide")
            /\ job' = [job EXCEPT ![Inline] = i]
            /\ UNCHANGED scheduled
       ELSE /\ scheduled' = scheduled \cup {<<"load", i>>}
            /\ UNCHANGED <<pc, job>>
    /\ UNCHANGED <<harnessVars, servingVars, decider, tries, ongoing,
                   load_pool, resizing, event>>

UnloadServable(i) ==
    /\ mu = Nobody
    /\ state[i] = "kReady"
    /\ state' = [state EXCEPT ![i] = "kUnloadRequested"]
    /\ scheduled' = scheduled \cup {<<"unload", i>>}
    /\ UNCHANGED <<cancel, servingVars, workerVars, accepted, load_pool,
                   resizing, event>>

\* Load() may still come to retry.
RetryAhead(i) ==
    /\ MaxNumLoadRetries > 0
    /\ state[i] \in {"kNew", "kLoadRequested", "kLoadApproved", "kLoading"}

\* Two Retry() loops read the flag.  The one in ReserveResources() runs with mu_
\* held, so its attempts are one step and the flag can only make them fewer,
\* which changes nothing: whether they fail is up to the environment.  So the
\* flag matters to the Retry() of Load(); it is not kept once that is over, nor
\* set when there are no retries or they are over.
CancelLoadServableRetry(i) ==
    /\ mu = Nobody
    /\ RetryAhead(i)
    /\ cancel' = cancel \cup {i}
    /\ UNCHANGED <<state, servingVars, workerVars, queueVars, event>>

\* load_executor_.reset() waits for the old pool's work with
\* load_executor_mu_ held.
SetNumLoadThreads(pool) ==
    /\ resizing = {}
    /\ pc[Inline] = "idle"
    /\ resizing' = {pool}
    /\ UNCHANGED <<harnessVars, servingVars, workerVars, accepted, scheduled,
                   load_pool, event>>

LoadExecutorReset ==
    /\ \A i \in Ids : <<"load", i>> \notin scheduled
    /\ \A w \in load_pool : pc[w] = "idle"
    /\ \E pool \in resizing : load_pool' = pool
    /\ resizing' = {}
    /\ UNCHANGED <<harnessVars, servingVars, workerVars, accepted, scheduled,
                   event>>
-----------------------------------------------------------------------------
(* Clients. *)

\* A request for a version, or for the latest one of a stream.
GetUntypedServableHandle(c, i) ==
    /\ held[c] = {}
    /\ i \in serving
    /\ held' = [held EXCEPT ![c] = {i}]
    /\ UNCHANGED <<harnessVars, serving, stale, mu, scan, workerVars,
                   queueVars, event>>

GetAvailableUntypedServableHandles(c) ==
    /\ held[c] = {}
    /\ serving # {}
    /\ held' = [held EXCEPT ![c] = serving]
    /\ UNCHANGED <<harnessVars, serving, stale, mu, scan, workerVars,
                   queueVars, event>>

ReleaseHandle(c, i) ==
    /\ i \in held[c]
    /\ held' = [held EXCEPT ![c] = @ \ {i}]
    /\ stale' = IF held[c] = {i} THEN stale \ {c} ELSE stale
    /\ UNCHANGED <<harnessVars, serving, mu, scan, workerVars, queueVars, event>>
-----------------------------------------------------------------------------
(* Decision phase of HandleLoadOrUnloadRequest(). *)

\* An executor thread takes any waiting request: a thread pool of several
\* threads keeps no order between them.
Start(w, i) ==
    /\ w \in load_pool \cup UnloadThreads
    /\ pc[w] = "idle"
    /\ <<Kind(w), i>> \in scheduled
    /\ scheduled' = scheduled \ {<<Kind(w), i>>}
    /\ Goto(w, "decide")
    /\ job' = [job EXCEPT ![w] = i]
    /\ UNCHANGED <<harnessVars, servingVars, decider, tries, ongoing,
                   accepted, load_pool, resizing, event>>

EnterDecisionPhase(w) ==
    /\ pc[w] = "decide"
    /\ decider = Nobody
    /\ decider' = w
    /\ Goto(w, "approve")
    /\ UNCHANGED <<harnessVars, servingVars, job, tries, ongoing, queueVars,
                   event>>

\* The end of an approval: the harness changes state, the execution is
\* counted and the decision mutex is released.
Approve(w, from, to) ==
    /\ TransitionState(job[w], from, to)
    /\ IF state[job[w]] = from
       THEN /\ ongoing' = ongoing + 1
            /\ Goto(w, "exec")
            /\ decider' = Nobody
            /\ job' = job
       ELSE Reject(w)

UsesResources == {"kLoadApproved", "kLoading", "kReady", "kUnloadRequested",
                  "kQuiescing", "kQuiesced", "kUnloading"}

GetLoadersCurrentlyUsingResources == {i \in Ids : state[i] \in UsesResources}

EstimateResources(i) ==
    IF state[i] \in {"kLoadApproved", "kLoading"} THEN LoadEstimate[i]
                                                  ELSE ServeEstimate[i]

\* The resource units that a set of servables takes.
Units(S) == UNION {{i} \X (1 .. EstimateResources(i)) : i \in S}

\* RecomputeUsedResources() stops at the first servable that has no estimate,
\* the caller ignores the error, and the servables come in hash order.
RecomputeUsedResources(S) ==
    IF EstimatesFail THEN S \subseteq GetLoadersCurrentlyUsingResources
                     ELSE S = GetLoadersCurrentlyUsingResources

ReserveNothing(i, S) == Cardinality(Units(S)) =< TotalResources    \* faulty

\* ResourceTracker::ReserveResources() when S is what is counted as used.
ReserveResources(i, S) ==
    Cardinality(Units(S)) + LoadEstimate[i] =< TotalResources

\* About to reserve resources in ApproveLoad(), for the first time or after a
\* wait.  After a wait the harness is not looked up again.
Reserving(w) ==
    /\ w \notin UnloadThreads
    /\ pc[w] \in {"approve", "reserve"}
    /\ mu = Nobody

ApproveLoad(w) ==
    /\ Reserving(w)
    /\ pc[w] = "approve" => Healthy(job[w])
    /\ \E S \in SUBSET Ids :
          RecomputeUsedResources(S) /\ ReserveResources(job[w], S)
    /\ Approve(w, "kLoadRequested", "kLoadApproved")
    /\ UNCHANGED <<cancel, servingVars, tries, queueVars>>

\* Out of resources with nothing under way that may free some, or no estimate.
\* Without a healthy harness the request just fails.
RejectLoad(w) ==
    /\ Reserving(w)
    /\ IF pc[w] = "approve" /\ ~Healthy(job[w])
       THEN UNCHANGED <<state, event>>
       ELSE /\ \/ EstimatesFail
               \/ /\ ongoing = 0
                  /\ ~ReserveResources(job[w], GetLoadersCurrentlyUsingResources)
            /\ Error(job[w])
    /\ Reject(w)
    /\ UNCHANGED <<cancel, servingVars, tries, queueVars>>

AwaitResources(w) ==
    /\ Reserving(w)
    /\ pc[w] = "approve" => Healthy(job[w])
    /\ ongoing > 0
    /\ \E S \in SUBSET Ids :
          RecomputeUsedResources(S) /\ ~ReserveResources(job[w], S)
    /\ Goto(w, "waiting")
    /\ UNCHANGED <<harnessVars, servingVars, decider, job, tries, ongoing,
                   queueVars, event>>

SpuriousWakeup(w) ==
    /\ pc[w] = "waiting"
    /\ Goto(w, "reserve")
    /\ UNCHANGED <<harnessVars, servingVars, decider, job, tries, ongoing,
                   queueVars, event>>

ApproveUnload(w) ==
    /\ w \in UnloadThreads
    /\ pc[w] = "approve"
    /\ mu = Nobody
    /\ IF Healthy(job[w]) THEN Approve(w, "kUnloadRequested", "kQuiescing")
                          ELSE Reject(w) /\ UNCHANGED <<state, event>>
    /\ UNCHANGED <<cancel, servingVars, tries, queueVars>>
-----------------------------------------------------------------------------
(* Execution phase: ExecuteLoad(), ExecuteUnload() and UpdateServingMap(). *)

Ready == {i \in Ids : state[i] = "kReady"}

\* kLoading is published and LoaderHarness::Load() begins.
BeginLoad(w) ==
    /\ w \notin UnloadThreads
    /\ pc[w] = "exec"
    /\ IF state[job[w]] = "kLoadApproved"
       THEN /\ state' = [state EXCEPT ![job[w]] = "kLoading"]
            /\ Publish(job[w], "kLoading")
            /\ Goto(w, "loading")
       ELSE /\ Error(job[w])
            /\ Goto(w, "finish")
    /\ UNCHANGED <<cancel, servingVars, decider, job, tries, ongoing, queueVars>>

\* loader_->Load() succeeds.
LoadSucceeds(w) ==
    /\ pc[w] = "loading"
    /\ TransitionState(job[w], "kLoading", "kReady")
    /\ Goto(w, IF state[job[w]] = "kLoading" THEN "loaded" ELSE "finish")
    /\ tries' = [tries EXCEPT ![w] = 0]
    /\ cancel' = cancel \ {job[w]}
    /\ UNCHANGED <<servingVars, decider, job, ongoing, queueVars>>

\* It fails.  Retry() tests for cancellation after every attempt, and starts
\* another one only if max_num_load_retries allows it.
LoadFails(w) ==
    /\ pc[w] = "loading"
    /\ IF job[w] \in cancel \/ tries[w] = MaxNumLoadRetries
       THEN /\ Error(job[w])
            /\ Goto(w, "finish")
            /\ tries' = [tries EXCEPT ![w] = 0]
            /\ cancel' = cancel \ {job[w]}
       ELSE /\ tries' = [tries EXCEPT ![w] = @ + 1]
            /\ UNCHANGED <<state, event, pc, cancel>>
    /\ UNCHANGED <<servingVars, decider, job, ongoing, queueVars>>

\* mu_ is taken and ServingMap::Update() starts to read the harness states.
\* An unload publishes kUnloading first.
BeginUpdateServingMap(w) ==
    /\ pc[w] = IF w \in UnloadThreads THEN "exec" ELSE "loaded"
    /\ mu = Nobody
    /\ mu' = w
    /\ scan' = Ready
    /\ IF w \in UnloadThreads THEN Publish(job[w], "kUnloading")
                              ELSE event' = event
    /\ Goto(w, "swap")
    /\ UNCHANGED <<harnessVars, serving, held, stale, decider, job, tries,
                   ongoing, queueVars>>

OneReadyVersion == {S \in SUBSET Ready : Cardinality(S) =< 1}    \* faulty

\* A harness that becomes kReady while the states are read may or may not be
\* in the new map; none stops being kReady, that takes mu_.
NewHandlesMaps == {S \in SUBSET Ready : scan \subseteq S}

\* The handles given out so far belong to the replaced map.
SwapHandlesMap(w) ==
    /\ pc[w] = "swap"
    /\ serving' \in NewHandlesMaps
    /\ stale' = {c \in Clients : held[c] # {}}
    /\ scan' = {}
    /\ Goto(w, "drain")
    /\ UNCHANGED <<harnessVars, held, mu, decider, job, tries, ongoing,
                   queueVars, event>>

HandlesLeaked == TRUE    \* faulty: does not wait

\* FastReadDynamicPtr::Update() waits for the last handle of the replaced map.
HandlesReleased == stale = {}

\* The replaced map is gone.  An unload is DoneQuiescing() before it releases
\* mu_.
EndUpdateServingMap(w) ==
    /\ pc[w] = "drain"
    /\ HandlesReleased
    /\ mu' = Nobody
    /\ IF w \in UnloadThreads
       THEN /\ TransitionState(job[w], "kQuiescing", "kQuiesced")
            /\ Goto(w, IF state[job[w]] = "kQuiescing" THEN "unload" ELSE "finish")
       ELSE /\ UNCHANGED <<state, event>>
            /\ Goto(w, "announce")
    /\ UNCHANGED <<cancel, serving, held, stale, scan, decider, job, tries,
                   ongoing, queueVars>>

AnnounceAvailable(w) ==
    /\ pc[w] = "announce"
    /\ Publish(job[w], "kAvailable")
    /\ Goto(w, "finish")
    /\ UNCHANGED <<harnessVars, servingVars, decider, job, tries, ongoing,
                   queueVars>>

BeginUnload(w) ==
    /\ pc[w] = "unload"
    /\ TransitionState(job[w], "kQuiesced", "kUnloading")
    /\ Goto(w, IF state[job[w]] = "kQuiesced" THEN "unloading" ELSE "finish")
    /\ UNCHANGED <<cancel, servingVars, decider, job, tries, ongoing, queueVars>>

\* loader_->Unload() returns.
EndUnload(w) ==
    /\ pc[w] = "unloading"
    /\ TransitionState(job[w], "kUnloading", "kDisabled")
    /\ Goto(w, IF state[job[w]] = "kUnloading" THEN "unloaded" ELSE "finish")
    /\ UNCHANGED <<cancel, servingVars, decider, job, tries, ongoing, queueVars>>

AnnounceEnd(w) ==
    /\ pc[w] = "unloaded"
    /\ Publish(job[w], "kEnd")
    /\ Goto(w, "finish")
    /\ UNCHANGED <<harnessVars, servingVars, decider, job, tries, ongoing,
                   queueVars>>

NotifyNobody(w) == [pc EXCEPT ![w] = "idle"]    \* faulty

NotifyAll(w) == [v \in Workers |-> IF v = w THEN "idle"
                                   ELSE IF pc[v] = "waiting" THEN "reserve"
                                   ELSE pc[v]]

\* The execution is over: whoever waits for resources tries again.
Finish(w) ==
    /\ pc[w] = "finish"
    /\ mu = Nobody
    /\ ongoing' = ongoing - 1
    /\ pc' = NotifyAll(w)
    /\ job' = [job EXCEPT ![w] = NoId]
    /\ UNCHANGED <<harnessVars, servingVars, decider, tries, queueVars, event>>
-----------------------------------------------------------------------------
OwnerCall(i) ==
    \/ \E ok \in BOOLEAN : ManageServable(i, ok)
    \/ StopManagingServable(i)
    \/ LoadServable(i)
    \/ UnloadServable(i)

ClientNext(c) ==
    \/ \E i \in Ids : GetUntypedServableHandle(c, i) \/ ReleaseHandle(c, i)
    \/ GetAvailableUntypedServableHandles(c)

\* Steps of a request in its decision and in its execution phase.
DecisionStep(w) ==
    \/ EnterDecisionPhase(w)
    \/ ApproveLoad(w) \/ RejectLoad(w) \/ AwaitResources(w)
    \/ ApproveUnload(w)

ExecutionStep(w) ==
    \/ BeginLoad(w) \/ LoadSucceeds(w) \/ LoadFails(w)
    \/ BeginUpdateServingMap(w) \/ SwapHandlesMap(w) \/ EndUpdateServingMap(w)
    \/ AnnounceAvailable(w)
    \/ BeginUnload(w) \/ EndUnload(w) \/ AnnounceEnd(w)
    \/ Finish(w)

WorkerNext(w) ==
    \/ \E i \in Ids : Start(w, i)
    \/ DecisionStep(w)
    \/ SpuriousWakeup(w)
    \/ ExecutionStep(w)

\* What goes on without a new call of the owner.
Internal ==
    \/ \E i \in Ids : ScheduleLoad(i)
    \/ LoadExecutorReset
    \/ \E c \in Clients : ClientNext(c)
    \/ \E w \in Workers : WorkerNext(w)

Next ==
    \/ \E i \in Ids : OwnerCall(i) \/ CancelLoadServableRetry(i)
    \/ \E pool \in LoadPools : SetNumLoadThreads(pool)
    \/ Internal

Spec == Init /\ [][Next]_vars

(***************************************************************************)
(* Fairness.  A thread that can go on does; Load() returns; a client gives *)
(* its handles back.  A step that needs a mutex or a pool thread which     *)
(* others keep taking gets it in the end (nsync mutexes do not starve a    *)
(* waiter, a pool thread looks at every queue before it sleeps).  Owners   *)
(* need not call anything.                                                 *)
(***************************************************************************)
Fairness ==
    /\ \A i \in Ids :
          /\ SF_vars(ScheduleLoad(i))
          /\ SF_vars(\E w \in LoadThreads : Start(w, i))
          /\ SF_vars(\E w \in UnloadThreads : Start(w, i))
    /\ WF_vars(LoadExecutorReset)
    /\ \A c \in Clients : WF_vars(\E i \in Ids : ReleaseHandle(c, i))
    /\ \A w \in Workers : SF_vars(DecisionStep(w) \/ ExecutionStep(w))

FairSpec == Spec /\ Fairness
-----------------------------------------------------------------------------
(* Properties *)

\* States in which a servable can be used: Load() has returned and Unload()
\* has not been called.
Live == {"kReady", "kUnloadRequested", "kQuiescing"}

\* States that a request under way is expected to take further.
InTransit == {"kLoadRequested", "kLoadApproved", "kLoading",
              "kUnloadRequested", "kQuiescing", "kQuiesced", "kUnloading"}

\* A servable is neither unloaded nor forgotten while a client holds a handle
\* to it or can still get one (ExecuteUnload() calls Unload() only after
\* UpdateServingMap() has waited for the handles of the replaced map).
HandlesAreLive ==
    /\ \A i \in serving : state[i] \in Live
    /\ \A c \in Clients : \A i \in held[c] : state[i] \in Live

\* The servables that hold or have reserved resources fit into the pool
\* (ReserveResources() against every interleaving of loads and unloads), as
\* long as every servable can estimate what it needs.
ResourceBound ==
    Cardinality(Units(GetLoadersCurrentlyUsingResources)) =< TotalResources

\* The harness state that a worker relies on at its place in the code.
Expected(w) ==
    IF w \in UnloadThreads
    THEN CASE pc[w] \in {"decide", "approve"}       -> {"kUnloadRequested"}
           [] pc[w] \in {"exec", "swap", "drain"}   -> {"kQuiescing"}
           [] pc[w] = "unload"                      -> {"kQuiesced"}
           [] pc[w] = "unloading"                   -> {"kUnloading"}
           [] OTHER                                 -> {}
    ELSE CASE pc[w] \in {"decide"} \cup Deciding    -> {"kLoadRequested"}
           [] pc[w] = "exec"                        -> {"kLoadApproved"}
           [] pc[w] = "loading"                     -> {"kLoading"}
           [] OTHER                                 -> {}

\* A request uses its harness without mu_: the harness must still be managed,
\* and in the state the request left it in, so that TransitionState() never
\* meets an illegal transition.
HarnessAsExpected ==
    \A w \in Workers : Expected(w) # {} => /\ job[w] \in Ids
                                           /\ state[job[w]] \in Expected(w)

\* Who is to take the harness of i further: a caller about to schedule the
\* load, an executor's queue, or a worker.
Carriers(i) ==
    {<<"caller", i>> : j \in accepted \cap {i}}
    \cup ({<<"load", i>>, <<"unload", i>>} \cap scheduled)
    \cup {<<"worker", w>> : w \in {v \in Workers : job[v] = i /\ Expected(v) # {}}}

\* A harness is in transit exactly when one request carries it: no accepted
\* request is lost, and no two requests work on the same harness.
OneCarrier ==
    \A i \in Ids :
        /\ state[i] \in InTransit <=> Carriers(i) # {}
        /\ \A x, y \in Carriers(i) : x = y

\* The requests in their execution phase.
ExecutingWorkers == {w \in Workers : pc[w] \in Executing}

\* num_ongoing_load_unload_executions_ counts the requests in their execution
\* phase, whatever path they leave it by.
OngoingCount == ongoing = Cardinality(ExecutingWorkers)

\* A request that waits for resources holds the decision mutex, so it must
\* never sleep when no execution is left to wake it up (the count is read and
\* the wait begun under mu_, and every execution ends with notify_all).
NoLostWakeup ==
    \A w \in Workers : pc[w] = "waiting" => ExecutingWorkers # {}

\* Once a servable is in the handles map it stays there until an unload of it
\* is requested: rebuilding the map for another servable never drops it.
StaysAvailable ==
    [][\A i \in serving : state[i] = "kReady" => i \in serving']_vars

\* The order of ServableState::ManagerState.
Rank(s) == CASE s = "none" -> 0 [] s = "kStart" -> 1 [] s = "kLoading" -> 2
             [] s = "kAvailable" -> 3 [] s = "kUnloading" -> 4 [] s = "kEnd" -> 5

\* The states published for a servable only move forward, until it is managed
\* anew (servable_state.h: states can only transition from higher to lower
\* ones on the list).
EventsMoveForward ==
    [][\A i \in Ids : \/ Rank(event[i]) =< Rank(event'[i])
                      \/ event[i] = "kEnd" /\ event'[i] = "kStart"]_vars

\* Every accepted load or unload comes to its end: the servable becomes
\* ready, is unloaded, or is in error, although the request may wait for
\* resources with the decision mutex held, for client handles with mu_ held,
\* or for a pool that is being replaced.
RequestsSettle ==
    \A i \in Ids : state[i] \in InTransit ~> state[i] \notin InTransit
=============================================================================
