-------------------------- MODULE AgentLifecycle --------------------------
(***************************************************************************)
(* The life of one agent under AgentManager (engine/agent_manager.py),     *)
(* with the transition table of engine/state_machine.py and the scheduler  *)
(* job of engine/heartbeat.py.                                             *)
(*                                                                         *)
(* The manager's methods are coroutines of one asyncio service and other   *)
(* calls run at each of their awaits: the read of the agent row, the       *)
(* database transaction, the publication of the event.  The row and the    *)
(* audit log are in PostgreSQL; the scheduler's jobs and the calls in      *)
(* progress are lost when the service restarts.                            *)
(***************************************************************************)
EXTENDS Naturals, Sequences

CONSTANTS
    Calls,          \* coroutines that may be inside AgentManager at once
    MaxLog,         \* bound: committed transitions
    MaxFaults,      \* bound: calls that a failure or a cancellation cuts short
    MaxRestarts     \* bound: restarts of the service

ASSUME LifecycleBounds == {MaxLog, MaxFaults, MaxRestarts} \subseteq Nat

VARIABLES
    status,         \* agents.status, "absent" before create
    log,            \* agent_transitions: who wrote which transition
    timed,          \* does the heartbeat mode call for a scheduler job?
    job,            \* does the scheduler hold the agent's job?
    runs,           \* decision-loop runs in progress
    op,             \* what each coroutine is executing
    pc,             \* the await at which it is suspended
    seen,           \* the status it read
    overlapped,     \* history: two calls were in progress together
    skipped,        \* history: the call of the last transition ended before its side effect
    faults,         \* history: calls cut short
    restarts        \* history: restarts

callVars == <<op, pc, seen>>
histVars == <<overlapped, skipped, faults, restarts>>
vars == <<status, log, timed, job, runs, callVars, histVars>>

-----------------------------------------------------------------------------
States == {"created", "configured", "active", "running", "paused", "error", "terminated"}

\* Mutant: a terminated agent may be activated again.
TransitionsReviving ==
    {<<"created", "configured">>, <<"configured", "active">>, <<"active", "terminated">>,
     <<"active", "running">>, <<"running", "active">>, <<"terminated", "active">>}

VALID_TRANSITIONS ==
    {<<"created", "configured">>, <<"configured", "active">>,
     <<"active", "running">>, <<"active", "paused">>, <<"active", "terminated">>,
     <<"running", "active">>, <<"running", "paused">>, <<"running", "terminated">>,
     <<"running", "error">>,
     <<"paused", "active">>, <<"paused", "terminated">>,
     <<"error", "active">>, <<"error", "terminated">>,
     <<"active", "configured">>}

\* mark_error(fatal=True) is the operation "mark_fatal".
RunEndings == {"mark_complete", "mark_error", "mark_fatal"}

Ops == {"configure", "activate", "pause", "resume", "mark_running", "terminate"}
            \cup RunEndings

\* The state each operation asks for.
Target == [o \in Ops |->
    CASE o = "configure"                              -> "configured"
      [] o \in {"activate", "resume", "mark_complete"} -> "active"
      [] o = "pause"                                  -> "paused"
      [] o = "mark_running"                           -> "running"
      [] o = "mark_error"                             -> "error"
      [] o \in {"mark_fatal", "terminate"}            -> "terminated"]

LogEntry == [op : Ops, from : States, to : States]

TypeOK ==
    /\ status \in States \cup {"absent"}
    /\ log \in Seq(LogEntry)
    /\ timed \in BOOLEAN
    /\ job \in BOOLEAN
    /\ runs \in Nat
    /\ op \in [Calls -> Ops]
    /\ pc \in [Calls -> {"idle", "load", "write", "publish"}]
    /\ seen \in [Calls -> States]
    /\ overlapped \in BOOLEAN
    /\ skipped \in BOOLEAN
    /\ faults \in 0..MaxFaults
    /\ restarts \in 0..MaxRestarts

Quiescent == \A c \in Calls : pc[c] = "idle"

Goto(c, label) == pc' = [pc EXCEPT ![c] = label]

-----------------------------------------------------------------------------
\* The agent does not exist; whether its mode is timed (always_on, scheduled)
\* or not (event_triggered, manual) is fixed when it is created.
Init ==
    /\ status = "absent"
    /\ log = <<>>
    /\ timed \in BOOLEAN
    /\ job = FALSE
    /\ runs = 0
    /\ op = [c \in Calls |-> "configure"]
    /\ pc = [c \in Calls |-> "idle"]
    /\ seen = [c \in Calls |-> "created"]
    /\ overlapped = FALSE
    /\ skipped = FALSE
    /\ faults = 0
    /\ restarts = 0

\* create: one insert, in state CREATED.
Create ==
    /\ status = "absent"
    /\ status' = "created"
    /\ UNCHANGED <<log, timed, job, runs, callVars, histVars>>

\* A caller enters a method.  Only a run in progress ends a run, and it ends
\* with the call whatever comes of it.  terminate deregisters the heartbeat
\* before anything else.
Begin(c, o) ==
    /\ pc[c] = "idle"
    /\ status # "absent"
    /\ Len(log) < MaxLog
    /\ op' = [op EXCEPT ![c] = o]
    /\ Goto(c, "load")
    /\ \/ o \in RunEndings /\ runs > 0 /\ runs' = runs - 1
       \/ o \notin RunEndings /\ UNCHANGED runs
    /\ job' = (job /\ o # "terminate")
    /\ overlapped' = (overlapped \/ ~Quiescent)
    /\ UNCHANGED <<status, log, timed, seen, skipped, faults, restarts>>

\* Mutant: the transition is validated from the state the operation expects.
LoadAssumed(c) ==
    /\ pc[c] = "load"
    /\ \E s \in States :
        /\ <<s, Target[op[c]]>> \in VALID_TRANSITIONS
        /\ seen' = [seen EXCEPT ![c] = s]
    /\ Goto(c, "write")
    /\ UNCHANGED <<status, log, timed, job, runs, op, histVars>>

\* _transition reads the row and validates the transition on what it read;
\* an invalid one raises InvalidTransitionError and ends the call.
Load(c) ==
    /\ pc[c] = "load"
    /\ seen' = [seen EXCEPT ![c] = status]
    /\ Goto(c, IF <<status, Target[op[c]]>> \in VALID_TRANSITIONS THEN "write" ELSE "idle")
    /\ UNCHANGED <<status, log, timed, job, runs, op, histVars>>

\* Mutant: the two statements are not one transaction, and the second may fail.
WriteTorn(c) ==
    /\ pc[c] = "write"
    /\ status' = Target[op[c]]
    /\ \/ log' = Append(log, [op |-> op[c], from |-> seen[c], to |-> Target[op[c]]])
       \/ UNCHANGED log
    /\ Goto(c, "publish")
    /\ skipped' = FALSE
    /\ UNCHANGED <<timed, job, runs, op, seen, overlapped, faults, restarts>>

\* One transaction updates the row, whatever its status is by now, and
\* appends the transition from the status that was read.
Transact(c) ==
    /\ status' = Target[op[c]]
    /\ log' = Append(log, [op |-> op[c], from |-> seen[c], to |-> Target[op[c]]])

Write(c) ==
    /\ pc[c] = "write"
    /\ Transact(c)
    /\ Goto(c, "publish")
    /\ skipped' = FALSE
    /\ UNCHANGED <<timed, job, runs, op, seen, overlapped, faults, restarts>>

\* A call ends at the await it is suspended at: the database fails and it
\* raises, or it is cancelled; only Exceptions of the publication are caught,
\* and CancelledError is none.  Nothing after that await runs.  The
\* transaction is rolled back, unless its COMMIT took effect and only the
\* reply did not arrive.
CutShort(c) ==
    /\ pc[c] # "idle"
    /\ faults < MaxFaults
    /\ faults' = faults + 1
    /\ Goto(c, "idle")
    /\ \/ pc[c] = "write" /\ Transact(c) /\ skipped' = TRUE
       \/ UNCHANGED <<status, log>> /\ skipped' = (skipped \/ pc[c] = "publish")
    /\ UNCHANGED <<timed, job, runs, op, seen, overlapped, restarts>>

\* Mutant: pause forgets the heartbeat.
JobAfterNoPause(o) ==
    CASE o \in {"activate", "resume"}  -> job \/ timed
      [] o = "mark_error"              -> FALSE
      [] OTHER                         -> job

\* HeartbeatService.register_agent: a job for a timed mode, nothing otherwise.
\* deregister_agent removes the job and ignores its absence.
JobAfter(o) ==
    CASE o \in {"activate", "resume"}  -> job \/ timed
      [] o \in {"pause", "mark_error"} -> FALSE
      [] OTHER                         -> job

\* The event is published, or its failure logged, and the method applies its
\* side effect to the scheduler and returns; after mark_running the dispatcher
\* launches the run.
Finish(c) ==
    /\ pc[c] = "publish"
    /\ job' = JobAfter(op[c])
    /\ runs' = IF op[c] = "mark_running" THEN runs + 1 ELSE runs
    /\ Goto(c, "idle")
    /\ UNCHANGED <<status, log, timed, op, seen, histVars>>

\* The service restarts.  Nothing registers the jobs of active agents again.
Restart ==
    /\ restarts < MaxRestarts
    /\ restarts' = restarts + 1
    /\ job' = FALSE
    /\ runs' = 0
    /\ pc' = [c \in Calls |-> "idle"]
    /\ skipped' = (skipped \/ \E c \in Calls : pc[c] = "publish")
    /\ UNCHANGED <<status, log, timed, op, seen, overlapped, faults>>

Next ==
    \/ Create
    \/ \E c \in Calls : \/ \E o \in Ops : Begin(c, o)
                        \/ Load(c) \/ Write(c) \/ Finish(c) \/ CutShort(c)
    \/ Restart

Spec == Init /\ [][Next]_vars

-----------------------------------------------------------------------------
(* What holds however the calls interleave and whenever the service dies *)

\* The audit trail explains the agent's current state: the last transition in
\* agent_transitions leads to it, because both are written in one transaction.
LogExplainsStatus ==
    IF log = <<>> THEN status \in {"absent", "created"} ELSE status = log[Len(log)].to

\* No transition outside the table is ever recorded.
OnlyValidTransitionsLogged ==
    \A k \in 1..Len(log) : <<log[k].from, log[k].to>> \in VALID_TRANSITIONS

(* What holds as long as no two calls on the agent overlap.  The transaction
   does not compare the status it overwrites with the one validated, so each of
   these fails once they do. *)

\* The audit trail is a path: each transition starts where the last one ended.
SerialLogIsPath ==
    ~overlapped => \A k \in 1..(Len(log) - 1) : log[k].to = log[k + 1].from

\* terminate is permanent.
SerialTerminatedIsFinal ==
    [][status = "terminated" /\ ~overlapped' => status' = "terminated"]_vars

\* No timer wakes an agent that is paused, in error or terminated, but in two
\* cases: a fatal run error terminated it, whose job mark_error leaves in
\* place, or the call that took it to that state was cut short between its
\* transaction and its side effect.  The next call that runs to its end heals
\* the second.
SerialTimerFollowsStatus ==
    job /\ Quiescent /\ ~overlapped /\ ~skipped =>
        \/ status \in {"active", "running", "configured"}
        \/ status = "terminated" /\ log[Len(log)].op = "mark_fatal"

\* An agent that is RUNNING has a run in progress that will take it out of that
\* state, unless a restart or a call cut short took the run away or kept the
\* row as it was.
SerialRunningHasRun ==
    status = "running" /\ Quiescent /\ ~overlapped /\ restarts = 0 /\ faults = 0
        => runs > 0
=============================================================================
