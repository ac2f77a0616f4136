\* Two coroutines are the fewest that overlap.  Five transitions reach every
\* state and come back: configure, activate, mark_running, pause, resume.
CONSTANTS
    Calls = {c1, c2}
    MaxLog = 5
    MaxFaults = 1
    MaxRestarts = 1
SPECIFICATION Spec
SYMMETRY CallSymmetry
INVARIANTS
    LogExplainsStatus
    SerialLogIsPath
    SerialTimerFollowsStatus
    SerialRunningHasRun
PROPERTY SerialTerminatedIsFinal
\* An agent nobody calls is at rest.
CHECK_DEADLOCK FALSE
