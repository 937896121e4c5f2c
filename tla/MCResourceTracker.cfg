\* A device with one instance and one with two, three servables with estimates
\* that are bound, unbound, both, or invalid.
SPECIFICATION TrackerSpec
CONSTANTS
    NumInstances <- OneAndTwo
    Unbound = Unbound
    Servables = {s1, s2, s3}
    Totals <- MCTotals
    Estimates <- MCEstimates
INVARIANTS
    ApprovalIsGuarantee
    ReservationsFindRoom
SYMMETRY AnyOrder
