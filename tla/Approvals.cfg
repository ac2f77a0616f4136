\* Three decisions overlap on one approval.
CONSTANTS
    Requests = {r1, r2, r3}
    NoRequest = none
SPECIFICATION ApprovalSpec
INVARIANTS
    DecisionIsWhole
    SerialDecidedOnce
\* All requests may have been answered.
CHECK_DEADLOCK FALSE
