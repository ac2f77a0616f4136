------------------------------ MODULE MCTasks ------------------------------
\* Tasks for TLC.  Requests are interchangeable, and so are assignees; only
\* safety is checked.
EXTENDS Tasks, TLC

\* Updates of the status, assignments of any pair, a type without an assignee,
\* and both at once.
MCBodies ==
    [status : Statuses, assigned_to : {"keep"}, assigned_type : {"none"}]
        \cup [status : {"keep"}, assigned_to : Assignees, assigned_type : Types]
        \cup [status : {"keep"}, assigned_to : {"keep"}, assigned_type : {"human"}]
        \cup [status : {"in_progress"}, assigned_to : Assignees, assigned_type : {"none"}]

Symmetry == Permutations(Requests) \cup Permutations(Assignees)
=============================================================================
