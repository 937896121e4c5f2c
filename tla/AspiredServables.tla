-------------------------- MODULE AspiredServables --------------------------
(***************************************************************************)
(* What AspiredVersionsManager promises to the sources above it and to the *)
(* subscribers of its event bus: which requests it takes, when a servable  *)
(* comes under its management and leaves it, and what it announces.        *)
(* AspiredVersionsManager implements this specification; ServerCore and    *)
(* its source pipeline are modelled on top of it.                          *)
(***************************************************************************)
CONSTANTS
    Ids,     \* the servable ids
    Names,   \* the servable streams
    Name     \* [Ids -> Names]

VARIABLES
    pending,   \* the aspired-versions request that waits for each stream, if any
    wanted,    \* ids of a request under way that are still to be managed
    managed,   \* ids the manager has a harness for
    aspired,   \* managed ids that the last request of their stream asks for
    event      \* the last ServableState published for each id

servableVars == <<pending, wanted, managed, aspired, event>>

ServableInit ==
    /\ pending = [n \in Names |-> {}]
    /\ wanted = {}
    /\ managed = {}
    /\ aspired = {}
    /\ event = [i \in Ids |-> "none"]

Of(n, S) == {i \in S : Name[i] = n}

\* SetAspiredVersions() for each of the streams in DOMAIN lists: a request
\* takes the place of one that waits.
SetAspiredVersions(lists) ==
    /\ pending' = [n \in Names |->
                     IF n \in DOMAIN lists THEN {lists[n]} ELSE pending[n]]
    /\ UNCHANGED <<wanted, managed, aspired, event>>

\* A request waits while it asks for a version on its way out.
Process(n, versions) ==
    /\ versions \in pending[n]
    /\ Of(n, wanted) = {}
    /\ Of(n, managed) \cap versions \subseteq aspired
    /\ pending' = [pending EXCEPT ![n] = {}]
    /\ aspired' = aspired \ (Of(n, managed) \ versions)
    /\ wanted' = wanted \cup (versions \ aspired)
    /\ UNCHANGED <<managed, event>>

\* The servable is managed, in error if the source has no loader for it.
Manage(i, ok) ==
    /\ i \in wanted \ managed
    /\ wanted' = wanted \ {i}
    /\ managed' = managed \cup {i}
    /\ aspired' = aspired \cup {i}
    /\ event' = [event EXCEPT ![i] = IF ok THEN "kStart" ELSE "kEnd"]
    /\ UNCHANGED pending

\* What may be announced of a servable: loading while it is managed, unloading
\* while it is managed and not aspired.  kAvailable and kEnd are published by
\* threads that are done with the servable, so they may come late: after what
\* the next request brought about, after the servable was forgotten, and even
\* after it was managed again.
MayAnnounce(i, s) ==
    \/ s = "kLoading" /\ i \in managed
    \/ s = "kUnloading" /\ i \in managed \ aspired
    \/ s \in {"kAvailable", "kEnd"} /\ event[i] # "none"

Announce(i, s) ==
    /\ MayAnnounce(i, s)
    /\ event' = [event EXCEPT ![i] = s]
    /\ UNCHANGED <<pending, wanted, managed, aspired>>

Forget(i) ==
    /\ i \in managed \ aspired
    /\ managed' = managed \ {i}
    /\ UNCHANGED <<pending, wanted, aspired, event>>

ServableNext ==
    \/ \E n \in Names, versions \in SUBSET Ids :
           \/ SetAspiredVersions([m \in {n} |-> versions])
           \/ Process(n, versions)
    \/ \E i \in Ids : \/ \E ok \in BOOLEAN : Manage(i, ok)
                      \/ \E s \in {"kLoading", "kAvailable", "kUnloading", "kEnd"} :
                             Announce(i, s)
                      \/ Forget(i)

ServableSpec == ServableInit /\ [][ServableNext]_servableVars
=============================================================================
