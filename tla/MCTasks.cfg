\* Three updates: two that overlap in every way, and one before, after or
\* between.
CONSTANTS
    Requests = {r1, r2, r3}
    NoRequest = none
    Assignees = {a1, a2}
    Nobody = nobody
    Bodies <- MCBodies
SPECIFICATION TaskSpec
SYMMETRY Symmetry
INVARIANTS
    TimestampsBackStatus
    VersionCountsUpdates
    AssignmentIsWhole
\* All requests may be over.
CHECK_DEADLOCK FALSE
