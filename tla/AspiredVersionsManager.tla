----------------------- MODULE AspiredVersionsManager -----------------------
(***************************************************************************)
(* AspiredVersionsManager and its policies, on top of BasicManager         *)
(* (tensorflow_serving/core/aspired_versions_manager.{h,cc},               *)
(* aspired_version_policy, availability_preserving_policy and              *)
(* resource_preserving_policy).                                            *)
(*                                                                         *)
(* Sources say which versions of a servable they aspire to.  The manager   *)
(* thread goes round three phases: FlushServables(),                       *)
(* HandlePendingAspiredVersionsRequests(), InvokePolicyAndExecuteAction(). *)
(* Every call it makes on BasicManager takes mu_ for itself, so each is a  *)
(* step; loads and unloads go on between them.                             *)
(***************************************************************************)
EXTENDS BasicManager

CONSTANTS
    Names,          \* the servable streams
    Name,           \* [Ids -> Names]
    Version,        \* [Ids -> Nat]
    AspiredLists,   \* sets of ids that sources may ask for
    Policy,         \* "availability" or "resource"
    InlineUnload    \* num_unload_threads = 0: unloads run in the manager thread

ASSUME StreamsAssumption ==
    /\ Name \in [Ids -> Names]
    /\ Version \in [Ids -> Nat]
    /\ \A i, j \in Ids : Name[i] = Name[j] /\ Version[i] = Version[j] => i = j
    /\ AspiredLists \subseteq SUBSET Ids
    /\ Policy \in {"availability", "resource"}
    /\ InlineUnload \in BOOLEAN

VARIABLES
    aspired,    \* managed ids with is_aspired
    pending,    \* pending_aspired_versions_requests_: the list, if any
    latest,     \* the last list that was processed for each stream
    phase,      \* what the manager thread is doing
    visit,      \* streams left to visit in this phase
    calls,      \* calls on BasicManager left to make for the stream visited
    actions     \* what the policy wants for the streams visited so far

managerVars == <<aspired, pending, latest, phase, visit, calls, actions>>
allVars == <<vars, managerVars>>

Phases == {"flush", "pending", "policy", "perform"}
CallKinds == {"forget", "cancel", "manage"}

ManagerTypeOK ==
    /\ aspired \subseteq {i \in Ids : state[i] # "kUnmanaged"}
    /\ pending \in [Names -> SUBSET AspiredLists]
    /\ latest \in [Names -> SUBSET Ids]
    /\ phase \in Phases
    /\ visit \subseteq Names
    /\ calls \subseteq CallKinds \X Ids
    /\ actions \subseteq Requests

AspiredInit ==
    /\ Init
    /\ aspired = {}
    /\ pending = [n \in Names |-> {}]
    /\ latest = [n \in Names |-> {}]
    /\ phase = "flush"
    /\ visit = Names
    /\ calls = {}
    /\ actions = {}

Managed(n) == {i \in Ids : Name[i] = n /\ state[i] # "kUnmanaged"}
-----------------------------------------------------------------------------
(* Sources. *)

\* The pending mutex is held while pending requests are handled.  A request
\* replaces the one that is pending for the stream.
EnqueueAspiredVersionsRequest(n, versions) ==
    /\ phase # "pending"
    /\ \A i \in versions : Name[i] = n
    /\ pending' = [pending EXCEPT ![n] = {versions}]
    /\ UNCHANGED <<vars, aspired, latest, phase, visit, calls, actions>>
-----------------------------------------------------------------------------
(* The manager thread. *)

\* A load accepted by BasicManager is scheduled, or run, by the manager
\* thread; an inline unload is run by it.
Unblocked ==
    /\ accepted = {}
    /\ pc[Inline] = "idle"
    /\ InlineUnload => /\ \A w \in UnloadThreads : pc[w] = "idle"
                       /\ \A i \in Ids : <<"unload", i>> \notin scheduled

\* The next phase begins when all streams are visited.
NextPhase(from, to) ==
    /\ phase = from
    /\ visit = {} /\ calls = {}
    /\ Unblocked
    /\ phase' = to
    /\ visit' = Names
    /\ UNCHANGED <<vars, aspired, pending, latest, calls, actions>>

Visit(n, during) ==
    /\ phase = during
    /\ calls = {}
    /\ mu = Nobody
    /\ Unblocked
    /\ n \in visit
    /\ visit' = visit \ {n}
    /\ UNCHANGED <<vars, phase>>

FlushableAspired(i) == state[i] \in Removable    \* faulty: even if aspired

FlushableErrors(i) == state[i] = "kError" /\ i \notin aspired    \* faulty

\* What FlushServables() removes.
Flushable(i) == state[i] \in Removable /\ i \notin aspired

FlushServables(n) ==
    /\ Visit(n, "flush")
    /\ calls' = {<<"forget", i>> : i \in {j \in Managed(n) : Flushable(j)}}
    /\ UNCHANGED <<aspired, pending, latest, actions>>

Forget(i) ==
    /\ <<"forget", i>> \in calls
    /\ StopManagingServable(i)
    /\ aspired' = aspired \ {i}
    /\ calls' = calls \ {<<"forget", i>>}
    /\ UNCHANGED <<pending, latest, phase, visit, actions>>

NeverReaspired(n, versions) == FALSE    \* faulty

\* The request asks for a version that is on its way out.
ContainsAnyReaspiredVersions(n, versions) ==
    (Managed(n) \cap versions) \ aspired # {}

\* The versions that keep is_aspired.
StillAspired(n, versions) == aspired \ (Managed(n) \ versions)

\* is_aspired is only used by this thread, so all flags change at once.
ProcessAspiredVersionsRequest(n, versions) ==
    /\ aspired' = StillAspired(n, versions)
    /\ latest' = [latest EXCEPT ![n] = versions]
    /\ pending' = [pending EXCEPT ![n] = {}]
    /\ calls' = ({"cancel"} \X (Managed(n) \ versions))
                \cup ({"manage"} \X (versions \ aspired))

\* A request with re-aspired versions stays in the queue.
HandlePendingAspiredVersionsRequests(n) ==
    /\ Visit(n, "pending")
    /\ \/ \E versions \in pending[n] :
              /\ ~ContainsAnyReaspiredVersions(n, versions)
              /\ ProcessAspiredVersionsRequest(n, versions)
       \/ /\ \A versions \in pending[n] : ContainsAnyReaspiredVersions(n, versions)
          /\ UNCHANGED <<aspired, pending, latest, calls>>
    /\ UNCHANGED actions

Cancel(i) ==
    /\ <<"cancel", i>> \in calls
    /\ \/ CancelLoadServableRetry(i)
       \/ /\ mu = Nobody
          /\ ~RetryAhead(i)
          /\ UNCHANGED vars
    /\ calls' = calls \ {<<"cancel", i>>}
    /\ UNCHANGED <<aspired, pending, latest, phase, visit, actions>>

\* A source hands over a loader, or an error in place of one.
ManageWithAdditionalState(i) ==
    /\ <<"manage", i>> \in calls
    /\ \A j \in Ids : <<"cancel", j>> \notin calls
    /\ \E ok \in BOOLEAN : ManageServable(i, ok)
    /\ aspired' = aspired \cup {i}
    /\ calls' = calls \ {<<"manage", i>>}
    /\ UNCHANGED <<pending, latest, phase, visit, actions>>
-----------------------------------------------------------------------------
(* Policies: the action a policy may return for a stream, if any. *)

Lowest(S) == {i \in S : \A j \in S : Version[i] =< Version[j]}
Highest(S) == {i \in S : \A j \in S : Version[j] =< Version[i]}

\* GetHighestAspiredNewServableId()
HighestAspiredNew(n) ==
    Highest({i \in Managed(n) \cap aspired : state[i] = "kNew"})

AnyServing(n) == Managed(n) \cap Ready    \* faulty

UnaspiredServing(n) == (Managed(n) \cap Ready) \ aspired

UnloadAny(n) == UnaspiredServing(n) # {}    \* faulty

\* AvailabilityPreservingPolicy may unload something.
MayUnload(n) ==
    \/ Managed(n) \cap aspired = {}
    \/ Managed(n) \cap aspired \cap Ready # {}
    \/ Cardinality(UnaspiredServing(n)) > 1

AvailabilityPreservingPolicy(n) ==
    IF MayUnload(n) /\ UnaspiredServing(n) # {}
    THEN {"unload"} \X Lowest(UnaspiredServing(n))
    ELSE {"load"} \X HighestAspiredNew(n)

\* Unaspired versions that are not in an end state.
NotAspiredNotFinished(n) ==
    {i \in Managed(n) \ aspired : state[i] \notin {"kDisabled", "kError"}}

LoadBeforeUnload(n) ==    \* faulty: the order of the two
    IF HighestAspiredNew(n) # {}
    THEN {"load"} \X HighestAspiredNew(n)
    ELSE {"unload"} \X UnaspiredServing(n)

\* The first version in hash order is unloaded.
ResourcePreservingPolicy(n) ==
    IF UnaspiredServing(n) # {}
    THEN {"unload"} \X UnaspiredServing(n)
    ELSE IF NotAspiredNotFinished(n) # {}
    THEN {}
    ELSE {"load"} \X HighestAspiredNew(n)

PolicyActions(n) == IF Policy = "availability"
                    THEN AvailabilityPreservingPolicy(n)
                    ELSE ResourcePreservingPolicy(n)

\* One round of the loop in GetNextAction().
GetNextAction(n) ==
    /\ Visit(n, "policy")
    /\ IF PolicyActions(n) = {} THEN actions' = actions
       ELSE \E a \in PolicyActions(n) : actions' = actions \cup {a}
    /\ UNCHANGED <<aspired, pending, latest, calls>>

\* The action sorted first: CompareActions prefers any unload to a load.
First(a) ==
    /\ a \in actions
    /\ a[1] = "load" => \A b \in actions : b[1] = "load"

PerformAction(a) ==
    /\ phase = "perform"
    /\ First(a)
    /\ \/ a[1] = "load" /\ LoadServable(a[2])
       \/ a[1] = "unload" /\ UnloadServable(a[2])
    /\ actions' = {}
    /\ phase' = "flush"
    /\ UNCHANGED <<aspired, pending, latest, visit, calls>>
-----------------------------------------------------------------------------
SourceNext ==
    \E n \in Names, versions \in AspiredLists :
        EnqueueAspiredVersionsRequest(n, versions)

ManagerThread ==
    \/ \E n \in Names : \/ FlushServables(n)
                        \/ HandlePendingAspiredVersionsRequests(n)
                        \/ GetNextAction(n)
    \/ NextPhase("flush", "pending")
    \/ NextPhase("pending", "policy")
    \/ NextPhase("policy", IF actions = {} THEN "flush" ELSE "perform")
    \/ \E i \in Ids : Forget(i) \/ Cancel(i) \/ ManageWithAdditionalState(i)
    \/ \E a \in Requests : PerformAction(a)

\* The num_load_threads observer runs in a thread of its own.
AspiredNext ==
    \/ SourceNext
    \/ ManagerThread
    \/ /\ Internal \/ \E pool \in LoadPools : SetNumLoadThreads(pool)
       /\ UNCHANGED managerVars

AspiredSpec == AspiredInit /\ [][AspiredNext]_allVars

\* As in BasicManager; the manager thread runs again and again.
AspiredFairness ==
    /\ SF_allVars(ManagerThread)
    /\ \A i \in Ids :
          /\ SF_allVars(ScheduleLoad(i) /\ UNCHANGED managerVars)
          /\ SF_allVars(\E w \in LoadThreads : Start(w, i) /\ UNCHANGED managerVars)
          /\ SF_allVars(\E w \in UnloadThreads : Start(w, i) /\ UNCHANGED managerVars)
    /\ WF_allVars(LoadExecutorReset /\ UNCHANGED managerVars)
    /\ \A c \in Clients :
          WF_allVars(\E i \in Ids : ReleaseHandle(c, i) /\ UNCHANGED managerVars)
    /\ \A w \in Workers :
          SF_allVars((DecisionStep(w) \/ ExecutionStep(w)) /\ UNCHANGED managerVars)

AspiredFairSpec == AspiredSpec /\ AspiredFairness
-----------------------------------------------------------------------------
(* Properties *)

\* BasicManager accepts every call of the manager thread, although loads and
\* unloads go on while it decides (DCHECK(manage_status.ok()) holds, and no
\* ignored status is an error).
CallsAccepted ==
    /\ \A i \in Ids : <<"manage", i>> \in calls => state[i] = "kUnmanaged"
    /\ \A i \in Ids : <<"forget", i>> \in calls => state[i] \in Removable
    /\ \A a \in actions : state[a[2]] = IF a[1] = "load" THEN "kNew" ELSE "kReady"

\* The aspired versions of a stream are those of the request processed last,
\* except for the ones still to be managed: none is forgotten, even in error.
AspiredAsRequested ==
    \A n \in Names : {i \in Ids : Name[i] = n /\ i \in aspired}
                      = {i \in latest[n] : <<"manage", i>> \notin calls}

\* A version is neither unloaded nor forgotten while it is aspired
\* (aspired_versions_manager.h: no spontaneous unloading).
NoSpontaneousUnload ==
    [][\A i \in aspired \cap aspired' :
           /\ state'[i] # "kUnmanaged"
           /\ state[i] = "kReady" => state'[i] = "kReady"]_allVars

\* With AvailabilityPreservingPolicy, a stream of which some version can be
\* served stays available, if its sources always aspire to some version.
StreamStaysAvailable ==
    [][\A n \in Names : (\E i \in serving : Name[i] = n)
                         => (\E i \in serving' : Name[i] = n)]_allVars

\* With ResourcePreservingPolicy, no version of a stream is loaded while an
\* unaspired version of it still has resources.
OldVersionsUnloadFirst ==
    [][\A i, j \in Ids :
           /\ Name[i] = Name[j]
           /\ state[i] = "kNew" /\ state'[i] = "kLoadRequested"
           => j \in aspired \/ state[j] \notin UsesResources]_allVars

\* A request that no other one replaces is processed in the end
\* (aspired_versions_manager.h: an invocation specifies the versions the
\* manager should aim to have loaded and supersedes any prior one).
RequestsProcessed ==
    \A n \in Names, versions \in AspiredLists :
        pending[n] = {versions} ~> pending[n] # {versions}

\* All aspired versions of a stream are loaded or in error, and the others
\* are gone.  AvailabilityPreservingPolicy keeps one of those as long as no
\* aspired version can be served.
Settled(n) ==
    /\ \A i \in latest[n] : state[i] \in {"kReady", "kError"}
    /\ \/ Managed(n) = latest[n]
       \/ /\ Policy = "availability"
          /\ latest[n] \cap Ready = {} /\ latest[n] # {}
          /\ Cardinality(UnaspiredServing(n)) = 1

\* When no more requests come, every stream settles.
StreamsSettle ==
    \A n \in Names : <>[](pending[n] = {}) => <>[]Settled(n)

\* What sources and subscribers see of the manager.
Servables == INSTANCE AspiredServables WITH
    wanted <- {i \in Ids : <<"manage", i>> \in calls},
    managed <- {i \in Ids : state[i] # "kUnmanaged"}

\* The manager keeps to the contract that its sources and the subscribers of
\* its event bus are modelled on, whatever goes on in BasicManager: requests
\* wait for versions on their way out, only unaspired versions are announced
\* to unload or forgotten, and nothing is announced of a version never managed.
ImplementsAspiredServables == Servables!ServableSpec
=============================================================================
