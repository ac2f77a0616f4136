\* Four steps with up to five calls each: a turn can have more results than
\* compaction keeps, and compactions follow each other.
CONSTANTS
    MaxSteps = 4
    CallsPerStep = 5
SPECIFICATION ConversationSpec
INVARIANTS
    ConversationTypeOK
    WireAlternates
    NewResultsEndRequest
\* Every run ends.
CHECK_DEADLOCK FALSE
