------------------------ MODULE DynamicSourceRouter ------------------------
(***************************************************************************)
(* DynamicSourceRouter (tensorflow_serving/core/dynamic_source_router.h):  *)
(* a request goes to the output port its servable has in the route map,    *)
(* and to the last port if it has none there.                              *)
(***************************************************************************)
EXTENDS Integers

CONSTANT NumOutputPorts

ASSUME PortsAssumption == NumOutputPorts \in Nat \ {0}

VARIABLE routes   \* routes_: an output port for each servable name it has

DefaultPort == NumOutputPorts - 1

Route(n) == IF n \in DOMAIN routes THEN routes[n] ELSE DefaultPort

\* The last port is not for the route map.
ValidateRoutes(new_routes) ==
    \A n \in DOMAIN new_routes : new_routes[n] \in 0 .. DefaultPort - 1

UpdateRoutes(new_routes) ==
    /\ ValidateRoutes(new_routes)
    /\ routes' = new_routes
=============================================================================
