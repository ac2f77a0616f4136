\* Five events on pages of two, with three timestamps among them: ties within a
\* page, ties across its end, and events committed late.
CONSTANTS
    Limit = 2
    MaxRows = 5
    MaxTime = 2
SPECIFICATION Spec
INVARIANTS
    NoEventTwice
    OnlyTiesSkipped
