------------------------------- MODULE Tasks -------------------------------
(***************************************************************************)
(* One task under update_task and assign_task (api/tasks.py).              *)
(*                                                                         *)
(* The ORM leaves a column out of its UPDATE when the assigned value is    *)
(* the one it loaded.  assign_task is the update of the assignee alone.    *)
(***************************************************************************)
EXTENDS RowTransaction

CONSTANTS
    Assignees,      \* whom assigned_to may name
    Nobody,         \* NULL
    Bodies          \* the request bodies considered

VARIABLES
    body,           \* what each request asks for
    assignment,     \* history: the assignment that took effect last
    crossed         \* history: two assigning requests were in progress together

taskVars == <<txVars, body, assignment, crossed>>

-----------------------------------------------------------------------------
Statuses == {"backlog", "todo", "in_progress", "review", "done", "cancelled"}

Finished == {"done", "cancelled"}

\* "none" is NULL.
Types == {"agent", "human", "none"}

Task == [status : Statuses,
         started : BOOLEAN,      \* started_at is set
         completed : BOOLEAN,    \* completed_at is set
         assigned_to : Assignees \cup {Nobody},
         assigned_type : Types,
         version : Nat]

\* "keep" is a field that the body leaves out.  Nothing relates the type to the
\* assignee: any type goes with any name, and either may be missing.
Body == [status : Statuses \cup {"keep"},
         assigned_to : Assignees \cup {"keep"},
         assigned_type : Types]

ASSUME TaskAssumption ==
    /\ {Nobody, "keep"} \cap Assignees = {}
    /\ Bodies \subseteq Body

Pair(t) == <<t.assigned_to, t.assigned_type>>

Assigns(r) == body[r].assigned_to # "keep"

TaskTypeOK ==
    /\ TxTypeOK(Task)
    /\ body \in [Requests -> Bodies]
    /\ assignment \in (Assignees \cup {Nobody}) \X Types
    /\ crossed \in BOOLEAN

\* create_task, with whatever assignee and type its body has.
Created(name, type) ==
    [status |-> "backlog", started |-> FALSE, completed |-> FALSE,
     assigned_to |-> name, assigned_type |-> type, version |-> 1]

TaskInit ==
    /\ \E name \in Assignees \cup {Nobody}, type \in Types :
          TxInit(Created(name, type)) /\ assignment = <<name, type>>
    /\ body \in [Requests -> Bodies]
    /\ crossed = FALSE

\* A column after the UPDATE: the ORM writes it if it differs from what it
\* loaded.
Column(assigned, loaded, current) == IF assigned = loaded THEN current ELSE assigned

\* Mutant: a task that was started before has no other timestamp to set.
TransitionElse(b, old, base) ==
    [base EXCEPT
        !.status = IF b.status = "keep" THEN @ ELSE Column(b.status, old.status, @),
        !.started = @ \/ b.status = "in_progress",
        !.completed = @ \/ (b.status \in Finished /\ ~old.started)]

\* _apply_status_transition
Transition(b, old, base) ==
    [base EXCEPT
        !.status = IF b.status = "keep" THEN @ ELSE Column(b.status, old.status, @),
        !.started = @ \/ b.status = "in_progress",
        !.completed = @ \/ b.status \in Finished]

\* Mutant: like the other fields, a type is written only if the body has it.
AssignedIfTyped(b, old, base) ==
    IF b.assigned_to = "keep"
    THEN base
    ELSE [base EXCEPT
            !.assigned_to = Column(b.assigned_to, old.assigned_to, @),
            !.assigned_type = IF b.assigned_type = "none"
                              THEN @
                              ELSE Column(b.assigned_type, old.assigned_type, @)]

\* The assignee and its type, with NULL for a type that the body leaves out.
Assigned(b, old, base) ==
    IF b.assigned_to = "keep"
    THEN base
    ELSE [base EXCEPT
            !.assigned_to = Column(b.assigned_to, old.assigned_to, @),
            !.assigned_type = Column(b.assigned_type, old.assigned_type, @)]

\* Mutant: a change of the status bumps the version once more.
UpdatedTwice(r, base) ==
    LET changed == Assigned(body[r], seen[r], Transition(body[r], seen[r], base))
        bump == IF body[r].status = "keep" THEN 1 ELSE 2
    IN  [changed EXCEPT !.version = seen[r].version + bump]

\* update_task and assign_task, up to their flush.
Updated(r, base) ==
    LET changed == Assigned(body[r], seen[r], Transition(body[r], seen[r], base))
    IN  [changed EXCEPT !.version = seen[r].version + 1]

BeginUpdate(r) ==
    /\ Begin(r)
    /\ crossed' = (crossed \/ (Assigns(r) /\ \E q \in Requests : Busy(q) /\ Assigns(q)))
    /\ UNCHANGED <<body, assignment>>

Update(r) ==
    /\ Read(r, TRUE) \/ Flush(r, Updated(r, row)) \/ Fail(r)
    /\ UNCHANGED <<body, assignment, crossed>>

CommitUpdate(r) ==
    /\ Commit(r)
    /\ assignment' = IF Assigns(r) THEN Pair(body[r]) ELSE assignment
    /\ UNCHANGED <<body, crossed>>

TaskNext == \E r \in Requests : BeginUpdate(r) \/ Update(r) \/ CommitUpdate(r)

TaskSpec == TaskInit /\ [][TaskNext]_taskVars

-----------------------------------------------------------------------------
\* A task in progress has been started and a finished one completed, although
\* the status and the timestamps may come from the UPDATEs of different requests.
TimestampsBackStatus ==
    /\ row.status = "in_progress" => row.started
    /\ row.status \in Finished => row.completed

\* The version never runs ahead of the updates that took effect, whatever their
\* clients were told, and without overlap it counts them.
VersionCountsUpdates ==
    /\ row.version <= 1 + Cardinality(Landed)
    /\ ~overlapped => row.version = 1 + Cardinality(Landed)

\* Assignee and type are those that one request, the last to take effect, asked
\* for together, or those of the creation, unless two assigning requests were in
\* progress together.  Updates of other fields may overlap with an assignment and
\* with each other as they like, from reads of any age.
AssignmentIsWhole == ~crossed => Pair(row) = assignment
=============================================================================
