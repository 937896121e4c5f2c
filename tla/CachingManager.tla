--------------------------- MODULE CachingManager ---------------------------
(***************************************************************************)
(* CachingManager (tensorflow_serving/core/caching_manager.{h,cc}): a      *)
(* servable is managed and loaded by its first request.  Requests for the  *)
(* same servable find each other through load_mutex_map_, whose entries    *)
(* are shared mutexes, made when they are needed and erased by the last    *)
(* user.  Below is the BasicManager of that module, called by nobody else. *)
(*                                                                         *)
(* A client has one request or one handle at a time.  Which version stands *)
(* for the latest one is the loader factory's affair, so requests are for  *)
(* any id.                                                                 *)
(***************************************************************************)
EXTENDS PatientOwner

CONSTANTS
    Mutexes,   \* mutex objects
    NoMutex    \* a null shared_ptr

\* A new mutex can always be made: the map and the clients refer to all but one.
ASSUME MutexAssumption ==
    /\ NoMutex \notin Mutexes /\ Nobody \notin Clients
    /\ IsFiniteSet(Mutexes) /\ IsFiniteSet(Clients)
    /\ Cardinality(Ids) + Cardinality(Clients) =< Cardinality(Mutexes)

VARIABLES
    at,               \* where each client's GetUntypedServableHandle() is
    target,           \* the id it asks for
    load_mutex_map,   \* load_mutex_map_, NoMutex where it has no entry
    servable_id_mu,   \* the reference each client has to a mutex
    locked            \* the holder of each mutex

callVars == <<at, target, load_mutex_map, servable_id_mu, locked>>
cachingVars == <<vars, callVars>>

\* The places in LoadServable() at which the mutex of the servable is held.
Critical == {"snapshot", "manage", "load", "wait", "unlock"}

CachingTypeOK ==
    /\ at \in [Clients -> Critical \cup {"idle", "find", "lock", "reset", "erase", "get"}]
    /\ target \in [Clients -> Ids \cup {NoId}]
    /\ load_mutex_map \in [Ids -> Mutexes \cup {NoMutex}]
    /\ servable_id_mu \in [Clients -> Mutexes \cup {NoMutex}]
    /\ \A m \in Mutexes : locked[m] # Nobody =>
           /\ servable_id_mu[locked[m]] = m
           /\ at[locked[m]] \in Critical

CachingInit ==
    /\ Init
    /\ at = [c \in Clients |-> "idle"]
    /\ target = [c \in Clients |-> NoId]
    /\ load_mutex_map = [i \in Ids |-> NoMutex]
    /\ servable_id_mu = [c \in Clients |-> NoMutex]
    /\ locked = [m \in Mutexes |-> Nobody]
-----------------------------------------------------------------------------
GoOn(c, place) == at' = [at EXCEPT ![c] = place]

\* The request is over, with a handle or with an error.
Return(c) ==
    /\ GoOn(c, "idle")
    /\ target' = [target EXCEPT ![c] = NoId]

\* The servable is in the handles map already.
GetCachedHandle(c, i) ==
    /\ at[c] = "idle"
    /\ GetUntypedServableHandle(c, i)
    /\ UNCHANGED callVars

BeginLoadServable(c, i) ==
    /\ at[c] = "idle" /\ held[c] = {}
    /\ i \notin serving
    /\ GoOn(c, "find")
    /\ target' = [target EXCEPT ![c] = i]
    /\ UNCHANGED <<vars, load_mutex_map, servable_id_mu, locked>>

References(m) == {c \in Clients : servable_id_mu[c] = m}

\* A mutex object that nothing refers to.
NewMutex == CHOOSE m \in Mutexes :
    References(m) = {} /\ \A i \in Ids : load_mutex_map[i] # m

FindLoadMutex(c) ==
    /\ at[c] = "find"
    /\ LET i == target[c]
           m == IF load_mutex_map[i] = NoMutex THEN NewMutex ELSE load_mutex_map[i]
       IN /\ load_mutex_map' = [load_mutex_map EXCEPT ![i] = m]
          /\ servable_id_mu' = [servable_id_mu EXCEPT ![c] = m]
    /\ GoOn(c, "lock")
    /\ UNCHANGED <<vars, target, locked>>

LockLoadMutex(c) ==
    /\ at[c] = "lock"
    /\ locked[servable_id_mu[c]] = Nobody
    /\ locked' = [locked EXCEPT ![servable_id_mu[c]] = c]
    /\ GoOn(c, "snapshot")
    /\ UNCHANGED <<vars, target, load_mutex_map, servable_id_mu>>

Unlock(c) == locked' = [locked EXCEPT ![servable_id_mu[c]] = Nobody]

RetryLoad(c) ==    \* faulty: begins again after an error
    /\ GoOn(c, "find")
    /\ Unlock(c)
    /\ servable_id_mu' = [servable_id_mu EXCEPT ![c] = NoMutex]
    /\ UNCHANGED <<target, load_mutex_map>>

\* A return out of the locked block: the mutex is unlocked and the reference
\* to it dropped, and the map is left as it is.
ReturnError(c) ==
    /\ Return(c)
    /\ Unlock(c)
    /\ servable_id_mu' = [servable_id_mu EXCEPT ![c] = NoMutex]
    /\ UNCHANGED load_mutex_map

GoOnLocked(c, place) ==
    /\ GoOn(c, place)
    /\ UNCHANGED <<target, load_mutex_map, servable_id_mu, locked>>

\* "already being managed, but is not loaded" is an error.
GetManagedServableStateSnapshot(c) ==
    /\ at[c] = "snapshot"
    /\ mu = Nobody
    /\ CASE state[target[c]] = "kUnmanaged" -> GoOnLocked(c, "manage")
         [] state[target[c]] = "kReady" -> GoOnLocked(c, "unlock")
         [] OTHER -> ReturnError(c)
    /\ UNCHANGED vars

\* The loader factory has a loader for the servable or an error.  The check of
\* what ManageServable() returns cannot fail: the servable was seen unmanaged,
\* and requests that would manage it wait for the mutex.
ManageLoader(c) ==
    /\ at[c] = "manage"
    /\ \E ok \in BOOLEAN : ManageServable(target[c], ok)
    /\ GoOnLocked(c, "load")

RequestLoad(c) ==
    /\ at[c] = "load"
    /\ mu = Nobody
    /\ IF Healthy(target[c])
       THEN /\ LoadServable(target[c])
            /\ GoOnLocked(c, "wait")
       ELSE /\ ReturnError(c)
            /\ UNCHANGED vars

LoadedByHarness(i) == state[i] \notin InTransit    \* faulty: not served yet

\* No load of i is under way: its done_callback has been called.
LoadDone(i) == ~Busy(i) /\ i \notin accepted /\ <<"load", i>> \notin scheduled

WaitForNotification(c) ==
    /\ at[c] = "wait"
    /\ LoadDone(target[c])
    /\ IF state[target[c]] = "kReady" THEN GoOnLocked(c, "unlock") ELSE ReturnError(c)
    /\ UNCHANGED vars

UnlockLoadMutex(c) ==
    /\ at[c] = "unlock"
    /\ Unlock(c)
    /\ GoOn(c, "reset")
    /\ UNCHANGED <<vars, target, load_mutex_map, servable_id_mu>>

ResetLoadMutex(c) ==
    /\ at[c] = "reset"
    /\ servable_id_mu' = [servable_id_mu EXCEPT ![c] = NoMutex]
    /\ GoOn(c, "erase")
    /\ UNCHANGED <<vars, target, load_mutex_map, locked>>

AlwaysUnique(m) == TRUE    \* faulty

\* Only the map refers to the mutex.
Unique(m) == References(m) = {}

MaybeEraseLoadMutexMapEntry(c) ==
    /\ at[c] = "erase"
    /\ load_mutex_map' = IF Unique(load_mutex_map[target[c]])
                         THEN [load_mutex_map EXCEPT ![target[c]] = NoMutex]
                         ELSE load_mutex_map
    /\ GoOn(c, "get")
    /\ UNCHANGED <<vars, target, servable_id_mu, locked>>

\* The second look at the handles map.
GetLoadedHandle(c) ==
    /\ at[c] = "get"
    /\ IF target[c] \in serving THEN GetUntypedServableHandle(c, target[c])
                                ELSE UNCHANGED vars
    /\ Return(c)
    /\ UNCHANGED <<load_mutex_map, servable_id_mu, locked>>
-----------------------------------------------------------------------------
CallStep(c) ==
    \/ FindLoadMutex(c) \/ LockLoadMutex(c)
    \/ GetManagedServableStateSnapshot(c) \/ ManageLoader(c) \/ RequestLoad(c)
    \/ WaitForNotification(c)
    \/ UnlockLoadMutex(c) \/ ResetLoadMutex(c)
    \/ MaybeEraseLoadMutexMapEntry(c) \/ GetLoadedHandle(c)

ManagerStep ==
    /\ \/ \E i \in Ids : ScheduleLoad(i)
       \/ \E w \in Workers : WorkerNext(w)
       \/ \E c \in Clients, i \in Ids : ReleaseHandle(c, i)
       \/ \E c \in Clients : at[c] = "idle" /\ GetAvailableUntypedServableHandles(c)
    /\ UNCHANGED callVars

CachingNext ==
    \/ \E c \in Clients, i \in Ids : GetCachedHandle(c, i) \/ BeginLoadServable(c, i)
    \/ \E c \in Clients : CallStep(c)
    \/ ManagerStep

CachingSpec == CachingInit /\ [][CachingNext]_cachingVars

\* The threads of BasicManager go on, Load() returns, clients give handles
\* back, and a request that can go on does; it gets a mutex that others keep
\* taking.
CachingFairness ==
    /\ WF_vars(\E i \in Ids : ScheduleLoad(i) \/ \E w \in Workers : Start(w, i))
    /\ WF_vars(\E w \in Workers : DecisionStep(w) \/ ExecutionStep(w))
    /\ \A c \in Clients : /\ WF_vars(\E i \in Ids : ReleaseHandle(c, i))
                          /\ SF_cachingVars(CallStep(c))

CachingFairSpec == CachingSpec /\ CachingFairness
-----------------------------------------------------------------------------
(* Properties *)

\* One request at a time manages and loads a servable, although the mutex it
\* holds may be erased and made anew while others wait (caching_manager.cc:
\* "Ensure only one thread attempts to load the servable at a time").
LoadsAreExclusive ==
    \A c, d \in Clients :
        c # d /\ target[c] = target[d] => ~(at[c] \in Critical /\ at[d] \in Critical)

\* When LoadServable() succeeds, whoever did the load, the handle is there
\* (caching_manager.h: "All other requests block until the load completes and
\* then trivially succeed").
LoadedIsServed == \A c \in Clients : at[c] \in {"reset", "erase", "get"} => target[c] \in serving

\* An entry of load_mutex_map_ goes with its last user, in whichever order
\* they leave, unless the load failed.
MutexMapIsCollected ==
    \A i \in Ids : load_mutex_map[i] # NoMutex =>
        \/ state[i] = "kError"
        \/ \E c \in Clients : target[c] = i /\ at[c] \notin {"find", "get"}

\* CachingManager is a patient owner of its BasicManager, so the states it
\* publishes come in order.
ImplementsPatientOwner == PatientSpec

\* Every request returns, although it may wait for the load of another one,
\* and that for resources and for handles of the replaced map.
CallsReturn == \A c \in Clients : at[c] # "idle" ~> at[c] = "idle"
=============================================================================
