----------------------------- MODULE DynamicPtr -----------------------------
(***************************************************************************)
(* What FastReadDynamicPtr promises: readers get the current object, an    *)
(* update replaces it at once, and gives the replaced object back only     *)
(* when nobody reads it any more.                                          *)
(***************************************************************************)
CONSTANTS Objects, Readers, None

VARIABLES
    current,    \* the object that get() returns, None once it is closed
    reading,    \* per reader, the object it reads, or None
    replaced    \* objects that were replaced and not yet given back

vars == <<current, reading, replaced>>

Init ==
    /\ current \in Objects
    /\ reading = [r \in Readers |-> None]
    /\ replaced = {}

Get(r) ==
    /\ reading[r] = None /\ current # None
    /\ reading' = [reading EXCEPT ![r] = current]
    /\ UNCHANGED <<current, replaced>>

Release(r) ==
    /\ reading[r] # None
    /\ reading' = [reading EXCEPT ![r] = None]
    /\ UNCHANGED <<current, replaced>>

Replace(o) ==
    /\ current # None /\ o # current /\ o \notin replaced
    /\ current' = o
    /\ replaced' = replaced \cup {current}
    /\ UNCHANGED reading

Close ==
    /\ current # None
    /\ current' = None
    /\ replaced' = replaced \cup {current}
    /\ UNCHANGED reading

GiveBack(o) ==
    /\ o \in replaced
    /\ \A r \in Readers : reading[r] # o
    /\ replaced' = replaced \ {o}
    /\ UNCHANGED <<current, reading>>

Next ==
    \/ \E r \in Readers : Get(r) \/ Release(r)
    \/ \E o \in Objects : Replace(o) \/ GiveBack(o)
    \/ Close

Spec == Init /\ [][Next]_vars
=============================================================================
