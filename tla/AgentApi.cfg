\* Two requests at once, five in all: an agent is created, started, and three
\* more requests overlap on it.  One fault, and an INSERT into
\* agent_transitions that may fail at any time.
CONSTANTS
    Workers = {w1, w2}
    NoWorker = none
    MaxRequests = 5
    MaxFaults = 1
SPECIFICATION FairSpec
INVARIANTS
    AuditExplainsStatus
    SerialDeletedIsIdle
    EffectsBackedByCommit
PROPERTIES
    DeletedNeverActivated
    EveryRequestEnds
\* The service may have nothing left to do.
CHECK_DEADLOCK FALSE
