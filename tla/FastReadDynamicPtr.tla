------------------------- MODULE FastReadDynamicPtr -------------------------
(***************************************************************************)
(* FastReadDynamicPtr (tensorflow_serving/util/fast_read_dynamic_ptr.h):   *)
(* an object that many threads read through reference-counted pointers     *)
(* while other threads replace it.                                         *)
(*                                                                         *)
(* Each object is wrapped in a ReleasableSharedPtr.  A wrapper is          *)
(*   free     not constructed, or destroyed;                               *)
(*   counted  its read_only_object_ keeps the reference count above zero;  *)
(*   dropped  read_only_object_ has been reset in BlockingRelease().       *)
(* The count of a wrapper is the number of readers that point to it, plus  *)
(* one if it is counted; the deleter that runs when it becomes zero        *)
(* notifies no_longer_referenced_, a member of the wrapper.                *)
(***************************************************************************)
CONSTANTS
    Wrappers,    \* ReleasableSharedPtr objects
    Readers,     \* threads that call get()
    Updaters,    \* threads that call Update() or the destructor
    None,        \* no wrapper
    NullAllowed  \* may a wrapped object be a null pointer?

ASSUME PtrAssumption ==
    /\ None \notin Wrappers
    /\ NullAllowed \in BOOLEAN

VARIABLES
    object_,    \* the wrapper that get() uses, None after destruction
    reading,    \* per reader, the wrapper its ReadPtr belongs to
    wrapper,    \* state of each wrapper
    null,       \* wrappers whose object is a null pointer
    notified,   \* wrappers whose no_longer_referenced_ is notified
    upc,        \* what each updater is doing
    local_ptr   \* per updater, its local wrapper

ptrVars == <<object_, reading, wrapper, null, notified, upc, local_ptr>>

PtrTypeOK ==
    /\ object_ \in Wrappers \cup {None}
    /\ reading \in [Readers -> Wrappers \cup {None}]
    /\ wrapper \in [Wrappers -> {"free", "counted", "dropped"}]
    /\ null \subseteq Wrappers
    /\ notified \subseteq Wrappers
    /\ upc \in [Updaters -> {"idle", "swap", "release", "wait"}]
    /\ local_ptr \in [Updaters -> Wrappers \cup {None}]

PtrInit ==
    /\ object_ \in Wrappers
    /\ reading = [r \in Readers |-> None]
    /\ wrapper = [w \in Wrappers |-> IF w = object_ THEN "counted" ELSE "free"]
    /\ null \in IF NullAllowed THEN {{}, {object_}} ELSE {{}}
    /\ notified = {}
    /\ upc = [u \in Updaters |-> "idle"]
    /\ local_ptr = [u \in Updaters |-> None]
-----------------------------------------------------------------------------
ReadersOf(w) == {r \in Readers : reading[r] = w}

get(r) ==
    /\ reading[r] = None /\ object_ # None
    /\ reading' = [reading EXCEPT ![r] = object_]
    /\ UNCHANGED <<object_, wrapper, null, notified, upc, local_ptr>>

ReleaseSilently(r) ==    \* faulty: the last reference notifies nobody
    /\ reading[r] # None
    /\ reading' = [reading EXCEPT ![r] = None]
    /\ UNCHANGED <<object_, wrapper, null, notified, upc, local_ptr>>

\* The last reference runs the deleter, also for a null pointer.
ReleaseReadPtr(r) ==
    /\ reading[r] # None
    /\ reading' = [reading EXCEPT ![r] = None]
    /\ notified' = IF wrapper[reading[r]] # "counted" /\ ReadersOf(reading[r]) = {r}
                   THEN notified \cup {reading[r]} ELSE notified
    /\ UNCHANGED <<object_, wrapper, null, upc, local_ptr>>

\* Update(): the new object is wrapped outside of the lock.
BeginUpdate(u, w, isNull) ==
    /\ upc[u] = "idle" /\ object_ # None
    /\ wrapper[w] = "free" /\ ReadersOf(w) = {}
    /\ wrapper' = [wrapper EXCEPT ![w] = "counted"]
    /\ null' = IF isNull THEN null \cup {w} ELSE null \ {w}
    /\ notified' = notified \ {w}
    /\ upc' = [upc EXCEPT ![u] = "swap"]
    /\ local_ptr' = [local_ptr EXCEPT ![u] = w]
    /\ UNCHANGED <<object_, reading>>

SwapNothing(u) ==    \* faulty: readers still get the old object
    /\ upc[u] = "swap"
    /\ upc' = [upc EXCEPT ![u] = "release"]
    /\ UNCHANGED <<object_, reading, wrapper, null, notified, local_ptr>>

Swap(u) ==
    /\ upc[u] = "swap"
    /\ object_' = local_ptr[u]
    /\ local_ptr' = [local_ptr EXCEPT ![u] = object_]
    /\ upc' = [upc EXCEPT ![u] = "release"]
    /\ UNCHANGED <<reading, wrapper, null, notified>>

\* The destructor runs when no call is in progress (its caller sees to that);
\* readers may still hold pointers.  It releases the last wrapper.
Destroy(u) ==
    /\ object_ # None /\ \A v \in Updaters : upc[v] = "idle"
    /\ object_' = None
    /\ local_ptr' = [local_ptr EXCEPT ![u] = object_]
    /\ upc' = [upc EXCEPT ![u] = "release"]
    /\ UNCHANGED <<reading, wrapper, null, notified>>

\* BlockingRelease() resets read_only_object_.
DropReference(u) ==
    /\ upc[u] = "release"
    /\ wrapper' = [wrapper EXCEPT ![local_ptr[u]] = "dropped"]
    /\ notified' = IF ReadersOf(local_ptr[u]) = {} THEN notified \cup {local_ptr[u]}
                                                  ELSE notified
    /\ upc' = [upc EXCEPT ![u] = "wait"]
    /\ UNCHANGED <<object_, reading, null, local_ptr>>

ReleasableAtOnce(w) == TRUE    \* faulty: does not wait

\* WaitForNotification(), which is skipped for a null pointer.
Releasable(w) == w \in null \/ w \in notified

\* The object goes to the caller, and the wrapper is destroyed.
EndUpdate(u) ==
    /\ upc[u] = "wait"
    /\ Releasable(local_ptr[u])
    /\ wrapper' = [wrapper EXCEPT ![local_ptr[u]] = "free"]
    /\ notified' = notified \ {local_ptr[u]}
    /\ upc' = [upc EXCEPT ![u] = "idle"]
    /\ local_ptr' = [local_ptr EXCEPT ![u] = None]
    /\ UNCHANGED <<object_, reading, null>>
-----------------------------------------------------------------------------
ReaderNext(r) == get(r) \/ ReleaseReadPtr(r)

UpdaterNext(u) ==
    \/ \E w \in Wrappers, isNull \in BOOLEAN :
          (isNull => NullAllowed) /\ BeginUpdate(u, w, isNull)
    \/ Swap(u) \/ Destroy(u) \/ DropReference(u) \/ EndUpdate(u)

PtrNext == (\E r \in Readers : ReaderNext(r)) \/ (\E u \in Updaters : UpdaterNext(u))

PtrSpec == PtrInit /\ [][PtrNext]_ptrVars

\* An update that has begun goes on, and readers drop their pointers; nobody
\* has to read or to start an update.
PtrFairness ==
    /\ \A u \in Updaters : WF_ptrVars(Swap(u) \/ DropReference(u) \/ EndUpdate(u))
    /\ \A r \in Readers : WF_ptrVars(ReleaseReadPtr(r))

PtrFairSpec == PtrSpec /\ PtrFairness
-----------------------------------------------------------------------------
(* Properties *)

\* An object that was given back by Update() is read by nobody, so its new
\* owner may change or destroy it.
UniqueOnReturn ==
    \A r \in Readers : reading[r] # None /\ reading[r] \notin null
                       => wrapper[reading[r]] # "free"

\* The deleter of every pointer handed out finds the notification it has to
\* notify (~ReleasableSharedPtr(): this prevents the last shared_ptr from
\* notifying after destruction).
DeletersFindTheirWrapper ==
    \A r \in Readers : reading[r] # None => wrapper[reading[r]] # "free"

\* An update that has begun comes to its end although other threads keep
\* reading: they read the new object.
UpdateReturns == \A u \in Updaters : upc[u] # "idle" ~> upc[u] = "idle"

\* The wrappers, counts and notifications do what DynamicPtr says.
Replaced == {local_ptr[u] : u \in {v \in Updaters : upc[v] \in {"release", "wait"}}}

Abstract == INSTANCE DynamicPtr WITH Objects <- Wrappers, current <- object_,
                                     replaced <- Replaced

\* Every step is a step of DynamicPtr, or invisible to readers and callers.
ImplementsDynamicPtr == Abstract!Spec
=============================================================================
