---------------------------- MODULE ResourceUtil ----------------------------
(***************************************************************************)
(* Resource allocations (tensorflow_serving/resources/resource_util.{h,cc} *)
(* and resources.proto).                                                   *)
(*                                                                         *)
(* A resource is a pair of a device and one of its instances, or Unbound.  *)
(* The kind of a resource is only compared for equality, so a device here  *)
(* stands for a device and a kind.  An allocation without repeated entries *)
(* is a function from its resources to their quantities.  Quantities are   *)
(* far below 2^64, as sizes of memory are, so that sums do not wrap.       *)
(***************************************************************************)
EXTENDS Integers, Functions

CONSTANTS
    NumInstances,   \* devices_: number of instances of each device
    Unbound

Devices == DOMAIN NumInstances
InstancesOf(d) == 0 .. NumInstances[d] - 1

IsBoundTo(r) == r[2] # Unbound

\* VerifyValidity(): known devices and instances.
VerifyValidity(a) ==
    \A r \in DOMAIN a : /\ r[1] \in Devices
                        /\ IsBoundTo(r) => r[2] \in InstancesOf(r[1])

\* The only instance of a device need not be named.
NormalizeResource(r) ==
    IF ~IsBoundTo(r) /\ NumInstances[r[1]] = 1 THEN <<r[1], 0>> ELSE r

\* Entries of quantity zero are dropped.  An allocation that names the only
\* instance of a device in one entry and leaves it out in another would get a
\* repeated entry: such allocations are left out.
Normalizable(a) ==
    \A r, s \in DOMAIN a : NormalizeResource(r) = NormalizeResource(s) => r = s

Normalize(a) ==
    LET used == {r \in DOMAIN a : a[r] # 0}
    IN  [n \in {NormalizeResource(r) : r \in used} |->
            a[CHOOSE r \in used : NormalizeResource(r) = n]]

IsBound(a) == \A r \in DOMAIN Normalize(a) : IsBoundTo(r)

\* GetQuantity(), and what FindOrInsertMutableEntry() finds or inserts.
GetQuantity(r, a) == IF r \in DOMAIN a THEN a[r] ELSE 0

AddNormalized(to_add, base) ==
    [r \in DOMAIN to_add \cup DOMAIN base |->
        GetQuantity(r, to_add) + GetQuantity(r, base)]

Add(to_add, base) == AddNormalized(Normalize(to_add), Normalize(base))

\* Subtract() does nothing if it would make a quantity negative.
CanSubtract(to_subtract, base) ==
    \A r \in DOMAIN to_subtract : to_subtract[r] =< GetQuantity(r, base)

Subtract(to_subtract, base) ==
    Normalize([r \in DOMAIN base |-> base[r] - GetQuantity(r, to_subtract)])

HasRoom(r, quantity, a) ==
    \E i \in InstancesOf(r[1]) : quantity =< GetQuantity(<<r[1], i>>, a)

\* The bound entries of lhs are subtracted from rhs, then every unbound entry
\* needs some instance that has room for all of it.
LessThanOrEqualNormalized(lhs, rhs) ==
    LET bound == Restrict(lhs, {r \in DOMAIN lhs : IsBoundTo(r)})
    IN  /\ CanSubtract(bound, rhs)
        /\ \A r \in DOMAIN lhs \ DOMAIN bound :
               HasRoom(r, lhs[r], Subtract(bound, rhs))

LessThanOrEqual(lhs, rhs) ==
    LessThanOrEqualNormalized(Normalize(lhs), Normalize(rhs))

OverbindFirst(a) ==    \* faulty: unbound entries go to the first instance
    [b \in {IF IsBoundTo(r) THEN r ELSE <<r[1], 0>> : r \in DOMAIN a} |->
        GetQuantity(b, a)
        + (IF b[2] = 0 THEN GetQuantity(<<b[1], Unbound>>, a) ELSE 0)]

\* An unbound quantity is counted on every instance of its device.
OverbindNormalized(a) ==
    LET unbound == {r \in DOMAIN a : ~IsBoundTo(r)}
        everywhere == UNION {{r[1]} \X InstancesOf(r[1]) : r \in unbound}
    IN  [b \in (DOMAIN a \ unbound) \cup everywhere |->
            GetQuantity(b, a) + GetQuantity(<<b[1], Unbound>>, a)]

Overbind(a) == OverbindNormalized(Normalize(a))
=============================================================================
