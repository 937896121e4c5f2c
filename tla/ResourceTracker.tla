--------------------------- MODULE ResourceTracker --------------------------
(***************************************************************************)
(* ResourceTracker (tensorflow_serving/resources/resource_tracker.{h,cc}), *)
(* as BasicManager::ReserveResources() uses it: the used resources are     *)
(* summed up anew from the loaders that use some, then resources for one   *)
(* more loader are reserved, both with mu_ held.                           *)
(*                                                                         *)
(* BasicManager's own module counts units of one kind on one device.  Here *)
(* devices have several instances and an estimate may leave the instance   *)
(* open.  The requirements on Loader::EstimateResources() are those of     *)
(* loader.h: no estimate grows, and a loaded servable names the instances  *)
(* it is on.                                                               *)
(***************************************************************************)
EXTENDS ResourceUtil, FiniteSets

CONSTANTS
    Servables,
    Totals,       \* allocations a tracker may be created with
    Estimates     \* what EstimateResources() may return before the load

ASSUME AllocationsAssumption ==
    /\ NumInstances \in [Devices -> Nat \ {0}]
    /\ Unbound \notin Nat
    /\ IsFiniteSet(Servables)
    /\ \A a \in Totals \cup Estimates :
          /\ a \in [DOMAIN a -> Nat]
          /\ \A r \in DOMAIN a : r = <<r[1], r[2]>>
          /\ VerifyValidity(a) => Normalizable(a)

VARIABLES
    total_resources,
    used_resources,
    stage,      \* "new", "reserved" or "loaded", for each servable
    estimate    \* what EstimateResources() returns for each servable

trackerVars == <<total_resources, used_resources, stage, estimate>>

NoResources == [r \in {} |-> 0]

\* Create() takes valid and bound totals only.
Create(totals) == {Normalize(a) : a \in {t \in totals : VerifyValidity(t) /\ IsBound(t)}}

TrackerInit ==
    /\ total_resources \in Create(Totals)
    /\ used_resources = NoResources
    /\ stage = [s \in Servables |-> "new"]
    /\ estimate \in [Servables -> Estimates]

UsingLoaded == {s \in Servables : stage[s] = "loaded"}    \* faulty

\* GetLoadersCurrentlyUsingResources()
Using == {s \in Servables : stage[s] # "new"}

\* Estimates of servables that use resources were valid when they were
\* reserved, and are taken to stay so.
RecomputeUsedResources(S) ==
    FoldFunctionOnSet(Add, NoResources, estimate, S)

\* The test in ReserveResources() when the resources used are as given.
Fits(s, used) ==
    LessThanOrEqual(Add(estimate[s], Overbind(used)), total_resources)

\* The call returns an error for an invalid estimate, and says whether
\* resources were reserved otherwise.
ReserveResources(s) ==
    LET used == RecomputeUsedResources(Using)
    IN  /\ stage[s] = "new"
        /\ IF VerifyValidity(estimate[s]) /\ Fits(s, used)
           THEN /\ used_resources' = Add(estimate[s], used)
                /\ stage' = [stage EXCEPT ![s] = "reserved"]
           ELSE /\ used_resources' = used
                /\ stage' = stage
        /\ UNCHANGED <<total_resources, estimate>>
-----------------------------------------------------------------------------
(* The loaders, which are external to the tracker. *)

\* The ways to bind an allocation: an instance for every unbound resource.
Bindings(a) ==
    LET open == {r \in DOMAIN a : ~IsBoundTo(r)}
    IN  {f \in [open -> UNION {InstancesOf(r[1]) : r \in open}] :
            \A r \in open : f[r] \in InstancesOf(r[1])}

\* How much of an instance is taken if the choices f are made.
Demand(a, f, b) ==
    GetQuantity(b, a)
    + (IF <<b[1], Unbound>> \in DOMAIN f /\ f[<<b[1], Unbound>>] = b[2]
       THEN a[<<b[1], Unbound>>] ELSE 0)

AllInstances == UNION {{d} \X InstancesOf(d) : d \in Devices}

BoundDemand(S, b) ==
    SumFunctionOnSet([s \in Servables |-> GetQuantity(b, Normalize(estimate[s]))], S)

\* The choices for which every instance has room besides what is bound already.
RoomyBindings(s) ==
    LET a == Normalize(estimate[s])
    IN  {f \in Bindings(a) : \A b \in AllInstances :
            Demand(a, f, b) + BoundDemand(Using \ {s}, b)
                =< GetQuantity(b, total_resources)}

\* Load() succeeds: the servable names the instances that it is on.
Load(s) ==
    /\ stage[s] = "reserved"
    /\ \E f \in RoomyBindings(s) :
          LET a == Normalize(estimate[s])
          IN  estimate' = [estimate EXCEPT ![s] =
                             [b \in {c \in AllInstances : Demand(a, f, c) > 0} |->
                                 Demand(a, f, b)]]
    /\ stage' = [stage EXCEPT ![s] = "loaded"]
    /\ UNCHANGED <<total_resources, used_resources>>

\* Load() fails, or the servable is unloaded; the next version comes with an
\* estimate of its own.
Release(s) ==
    /\ stage[s] # "new"
    /\ stage' = [stage EXCEPT ![s] = "new"]
    /\ \E a \in Estimates : estimate' = [estimate EXCEPT ![s] = a]
    /\ UNCHANGED <<total_resources, used_resources>>

\* The servable turns out to need less, before or after it is loaded: an estimate
\* never increases.
Shrink(s) ==
    /\ stage[s] # "new"
    /\ \E b \in DOMAIN estimate[s] :
          /\ estimate[s][b] > 0
          /\ estimate' = [estimate EXCEPT ![s][b] = @ - 1]
    /\ UNCHANGED <<total_resources, used_resources, stage>>

TrackerNext ==
    \E s \in Servables :
        ReserveResources(s) \/ Load(s) \/ Release(s) \/ Shrink(s)

TrackerSpec == TrackerInit /\ [][TrackerNext]_trackerVars
-----------------------------------------------------------------------------
(* Properties *)

\* The demand of servables S on instance b, when each makes the choices p[s].
Total(S, p, b) ==
    SumFunctionOnSet([s \in S |-> Demand(Normalize(estimate[s]), p[s], b)], S)

\* Every way in which the servables in S may bind their resources.
Placements(S) ==
    {p \in [S -> UNION {Bindings(Normalize(estimate[s])) : s \in S}] :
        \A s \in S : p[s] \in Bindings(Normalize(estimate[s]))}

\* s has a place that is left free however the others bind their resources.
Guaranteed(s) ==
    \E f \in Bindings(Normalize(estimate[s])) :
        \A p \in Placements(Using) : \A b \in AllInstances :
            Demand(Normalize(estimate[s]), f, b) + Total(Using, p, b)
                =< GetQuantity(b, total_resources)

\* ReserveResources() says yes exactly when the servable is guaranteed to fit
\* in the gap between the used and the total resources (resource_tracker.h),
\* whichever instances the servables reserved earlier end up on.
ApprovalIsGuarantee ==
    \A s \in Servables :
        stage[s] = "new" /\ VerifyValidity(estimate[s])
            => (Fits(s, RecomputeUsedResources(Using)) <=> Guaranteed(s))

\* What is recorded as used is less than or equal to the total, as the comment
\* on used_resources_ says, and a servable that has its resources reserved
\* always finds room for them, in whatever order the others were reserved,
\* loaded, unloaded and shrunk.
ReservationsFindRoom ==
    /\ LessThanOrEqual(used_resources, total_resources)
    /\ \A s \in Servables : stage[s] = "reserved" => RoomyBindings(s) # {}
=============================================================================
