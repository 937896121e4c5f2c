------------------------- MODULE MCResourceTracker --------------------------
\* Instances of ResourceTracker for TLC.
EXTENDS ResourceTracker, TLC

\* A device with one instance and one with two.
OneAndTwo == ("main" :> 1) @@ ("gpu" :> 2)

Main == <<"main", Unbound>>
Gpu == <<"gpu", Unbound>>
Gpu0 == <<"gpu", 0>>
Gpu1 == <<"gpu", 1>>

MCTotals == {
    (<<"main", 0>> :> 2) @@ (Gpu0 :> 2) @@ (Gpu1 :> 3),
    (Main :> 3) @@ (Gpu0 :> 2) @@ (Gpu1 :> 0),
    (Gpu :> 2)}

MCEstimates == {
    (Main :> 1) @@ (Gpu :> 1),
    (<<"main", 0>> :> 1) @@ (Gpu0 :> 1),
    (Gpu :> 2) @@ (Gpu0 :> 0),
    (Gpu :> 1) @@ (Gpu1 :> 1),
    (Gpu1 :> 2),
    (<<"gpu", 2>> :> 1)}

AnyOrder == Permutations(Servables)
=============================================================================
