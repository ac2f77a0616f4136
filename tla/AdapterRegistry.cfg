\* Four calls on two keys: two registrations of one key, a removal of it and a
\* shutdown overlap in every way.
CONSTANTS
    Calls = {c1, c2, c3, c4}
    Keys = {k1, k2}
    None = none
SPECIFICATION FairSpec
INVARIANTS
    NoClientLost
    ClosedOnlyWhileReplaced
PROPERTY EveryCallReturns
\* All calls may have returned.
CHECK_DEADLOCK FALSE
