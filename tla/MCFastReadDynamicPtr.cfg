\* Two updaters, objects that are never null.
CONSTANTS
    w1 = w1
    w2 = w2
    w3 = w3
    r1 = r1
    r2 = r2
    r3 = r3
    u1 = u1
    u2 = u2
    Wrappers = {w1, w2, w3}
    Readers = {r1, r2, r3}
    Updaters = {u1, u2}
    None = None
    NullAllowed = FALSE
SPECIFICATION PtrFairSpec
INVARIANTS
    DeletersFindTheirWrapper
PROPERTIES
    ImplementsDynamicPtr
    UpdateReturns
\* Nothing is left to do once the pointer is destroyed.
CHECK_DEADLOCK FALSE
