------------------------------ MODULE AgentApi ------------------------------
(***************************************************************************)
(* One agent's row under concurrent HTTP requests: the handlers of         *)
(* api/agents.py, the AgentEngineService they call                         *)
(* (engine/engine_service.py) and the transaction that get_db wraps around *)
(* each request (dependencies.py).                                         *)
(*                                                                         *)
(* A request goes from one await to the next.  PostgreSQL runs it at READ  *)
(* COMMITTED: a SELECT sees the committed row or the request's own draft,  *)
(* and the first UPDATE takes the row lock, which commit or rollback gives *)
(* back.  The ORM writes the attributes the handler assigned and no other, *)
(* with the version computed from the row as the handler read it.          *)
(***************************************************************************)
EXTENDS Naturals, Sequences, FiniteSets

CONSTANTS
    Workers,        \* requests that may be in progress at once
    MaxRequests,    \* bound: requests served
    MaxFaults,      \* bound: failing statements, commits, Redis calls; restarts
    NoWorker        \* nobody holds the row lock

ASSUME ApiAssumption ==
    /\ MaxRequests \in Nat
    /\ MaxFaults \in Nat
    /\ NoWorker \notin Workers

VARIABLES
    row,            \* the committed row
    lock,           \* whose transaction has written the row
    draft,          \* the row as that transaction sees it
    op,             \* what each request does
    pc,             \* the await at which it is suspended
    seen,           \* the row as it read it
    entry,          \* has its transaction inserted into agent_transitions?
    aborted,        \* has a statement of its transaction failed?
    audit,          \* committed transitions: the status each went to
    landed,         \* history: requests that reported an effect and committed
    effects,        \* history: events published and triggers enqueued for them
    unaudited,      \* history: requests whose INSERT into agent_transitions failed
    overlapped,     \* history: two requests were in progress together
    served,         \* history: requests so far
    faults          \* history: faults so far

rowVars == <<row, lock, draft>>
requestVars == <<op, pc, seen, entry, aborted>>
counters == <<landed, effects, unaudited>>
bounds == <<overlapped, served, faults>>
vars == <<rowVars, requestVars, audit, counters, bounds>>

-----------------------------------------------------------------------------
\* "starting" lives only inside a transaction.
Row == [status : {"absent", "idle", "active", "stopping", "starting"},
        version : Nat,
        deleted : BOOLEAN]

\* stop_agent with and without drain are "drain" and "stop"; "event" is
\* trigger_by_event for an event that this agent's filter matches.
Ops == {"create", "update", "delete", "start", "drain", "stop", "trigger", "event"}

PC == {"idle", "read", "flush", "reread", "activate", "audit", "publish",
       "enqueue", "commit"}

TypeOK ==
    /\ row \in Row /\ row.status # "starting"
    /\ lock \in Workers \cup {NoWorker}
    /\ draft \in Row
    /\ op \in [Workers -> Ops]
    /\ pc \in [Workers -> PC]
    /\ seen \in [Workers -> Row]
    /\ entry \in [Workers -> BOOLEAN]
    /\ aborted \in [Workers -> BOOLEAN]
    /\ audit \in Seq({"active", "idle"})
    /\ {landed, effects, unaudited} \subseteq Nat
    /\ overlapped \in BOOLEAN
    /\ served \in 0..MaxRequests
    /\ faults \in 0..MaxFaults

Absent == [status |-> "absent", version |-> 0, deleted |-> FALSE]

Live(r) == r.status # "absent" /\ ~r.deleted

\* The row r with this status and version.
Restated(r, status, version) ==
    [status |-> status, version |-> version, deleted |-> r.deleted]

Init ==
    /\ row = Absent
    /\ lock = NoWorker
    /\ draft = Absent
    /\ op = [w \in Workers |-> "create"]
    /\ pc = [w \in Workers |-> "idle"]
    /\ seen = [w \in Workers |-> Absent]
    /\ entry = [w \in Workers |-> FALSE]
    /\ aborted = [w \in Workers |-> FALSE]
    /\ audit = <<>>
    /\ landed = 0
    /\ effects = 0
    /\ unaudited = 0
    /\ overlapped = FALSE
    /\ served = 0
    /\ faults = 0

Goto(w, label) == pc' = [pc EXCEPT ![w] = label]

Fault == faults < MaxFaults /\ faults' = faults + 1

\* The request is over and its session is closed.
Close(w) ==
    /\ Goto(w, "idle")
    /\ seen' = [seen EXCEPT ![w] = Absent]
    /\ entry' = [entry EXCEPT ![w] = FALSE]
    /\ aborted' = [aborted EXCEPT ![w] = FALSE]
    /\ lock' = IF lock = w THEN NoWorker ELSE lock
    /\ draft' = IF lock = w THEN Absent ELSE draft
    /\ UNCHANGED op

\* Mutant: a handler that raises keeps its connection, and so its row lock.
RollbackLeaking(w) ==
    /\ Goto(w, "idle")
    /\ UNCHANGED <<row, lock, draft, op, seen, entry, aborted, audit, counters,
                   overlapped, served>>

\* get_db on an exception: nothing of the transaction remains.
Rollback(w) ==
    /\ Close(w)
    /\ UNCHANGED <<row, audit, counters, overlapped, served>>

-----------------------------------------------------------------------------
\* A request arrives.
Begin(w, o) ==
    /\ pc[w] = "idle"
    /\ served < MaxRequests
    /\ served' = served + 1
    /\ op' = [op EXCEPT ![w] = o]
    /\ Goto(w, "read")
    /\ overlapped' = (overlapped \/ \E v \in Workers : pc[v] # "idle")
    /\ UNCHANGED <<rowVars, seen, entry, aborted, audit, counters, faults>>

\* Mutant: delete does not look at the status.
MayDeleteAny(o, r) ==
    CASE o = "create"               -> ~Live(r)
      [] o \in {"update", "delete"} -> Live(r)
      [] o = "start"                -> Live(r) /\ r.status # "active"
      [] o \in {"drain", "stop"}    -> Live(r) /\ r.status = "active"
      [] o \in {"trigger", "event"} -> Live(r) /\ r.status \in {"idle", "active"}

\* What a handler asks of the row it reads before it goes on.
May(o, r) ==
    CASE o = "create"               -> ~Live(r)
      [] o = "update"               -> Live(r)
      [] o = "delete"               -> Live(r) /\ r.status = "idle"
      [] o = "start"                -> Live(r) /\ r.status # "active"
      [] o \in {"drain", "stop"}    -> Live(r) /\ r.status = "active"
      [] o \in {"trigger", "event"} -> Live(r) /\ r.status \in {"idle", "active"}

\* _get_or_404 and the check of the status, create's check of the slug, the
\* query of trigger_by_event.  A refusal is a 404 or 409.
Read(w) ==
    /\ pc[w] = "read"
    /\ \/ /\ May(op[w], row)
          /\ seen' = [seen EXCEPT ![w] = row]
          /\ Goto(w, IF op[w] = "event" THEN "enqueue" ELSE "flush")
          /\ UNCHANGED <<rowVars, op, entry, aborted, audit, counters, overlapped, served>>
       \/ ~May(op[w], row) /\ Rollback(w)
    /\ UNCHANGED faults

\* Mutant: every column is written back, and not only the assigned ones.
WrittenWhole(o, old, base) ==
    CASE o = "create"  -> [status |-> "idle", version |-> 1, deleted |-> FALSE]
      [] o = "update"  -> Restated(old, old.status, old.version + 1)
      [] o = "delete"  -> [base EXCEPT !.deleted = TRUE]
      [] o = "trigger" -> base
      [] o = "start"   -> Restated(base, "starting", old.version + 1)
      [] o = "drain"   -> Restated(base, "stopping", old.version + 1)
      [] o = "stop"    -> Restated(base, "idle", old.version + 1)

\* The row base after the flush of a request that read the row old.
Written(o, old, base) ==
    CASE o = "create"  -> [status |-> "idle", version |-> 1, deleted |-> FALSE]
      [] o = "update"  -> Restated(base, base.status, old.version + 1)
      [] o = "delete"  -> [base EXCEPT !.deleted = TRUE]
      [] o = "trigger" -> base
      [] o = "start"   -> Restated(base, "starting", old.version + 1)
      [] o = "drain"   -> Restated(base, "stopping", old.version + 1)
      [] o = "stop"    -> Restated(base, "idle", old.version + 1)

AfterFlush == [o \in Ops \ {"event"} |->
    CASE o = "start"                        -> "reread"
      [] o \in {"drain", "stop"}            -> "audit"
      [] o = "trigger"                      -> "enqueue"
      [] o \in {"create", "update", "delete"} -> "commit"]

\* The flush waits for the row lock.  An insert of a slug that any row has,
\* deleted ones included, violates the unique constraint.
Flush(w) ==
    /\ pc[w] = "flush"
    /\ lock = NoWorker
    /\ \/ /\ op[w] = "create" => row = Absent
          /\ lock' = w
          /\ draft' = Written(op[w], seen[w], row)
          /\ Goto(w, AfterFlush[op[w]])
          /\ UNCHANGED <<row, op, seen, entry, aborted, audit, counters, overlapped,
                         served, faults>>
       \/ op[w] = "create" /\ row # Absent /\ Rollback(w) /\ UNCHANGED faults
       \/ Fault /\ Rollback(w)

-----------------------------------------------------------------------------
(* AgentEngineService.start_agent and stop_agent *)

\* Mutant: the engine trusts the handler that the agent exists.
RereadAny(w) ==
    /\ pc[w] = "reread"
    /\ Goto(w, "activate")
    /\ UNCHANGED <<rowVars, op, seen, entry, aborted, audit, counters, bounds>>

\* start_agent reads the row again; for an agent deleted meanwhile it raises
\* EngineError.  The handler then stages "idle", which its HTTPException rolls
\* back with the rest.
Reread(w) ==
    /\ pc[w] = "reread"
    /\ \/ /\ Live(draft)
          /\ Goto(w, "activate")
          /\ UNCHANGED <<rowVars, op, seen, entry, aborted, audit, counters, overlapped,
                         served, faults>>
       \/ ~Live(draft) /\ Rollback(w) /\ UNCHANGED faults
       \/ Fault /\ Rollback(w)

\* The handler's "starting" counts as CONFIGURED, from which ACTIVE is valid.
Activate(w) ==
    /\ pc[w] = "activate"
    /\ \/ /\ draft' = Restated(draft, "active", draft.version + 1)
          /\ Goto(w, "audit")
          /\ UNCHANGED <<row, lock, op, seen, entry, aborted, audit, counters,
                         overlapped, served, faults>>
       \/ Fault /\ Rollback(w)

\* _write_transition swallows the failure of its INSERT, but PostgreSQL has
\* then aborted the transaction.  No migration creates agent_transitions: in the
\* schema as shipped the second branch is the only one.
WriteTransition(w) ==
    /\ pc[w] = "audit"
    /\ \/ entry' = [entry EXCEPT ![w] = TRUE] /\ UNCHANGED <<aborted, unaudited>>
       \/ /\ aborted' = [aborted EXCEPT ![w] = TRUE]
          /\ unaudited' = unaudited + 1
          /\ UNCHANGED entry
    /\ Goto(w, "publish")
    /\ UNCHANGED <<rowVars, op, seen, audit, landed, effects, bounds>>

\* stop_agent's deregister_agent finds no job, because start_agent registers
\* none.  _publish_state_changed reports the new state, or logs that it could
\* not, before the request commits.
Publish(w) ==
    /\ pc[w] = "publish"
    /\ \/ effects' = effects + 1 /\ UNCHANGED faults
       \/ Fault /\ UNCHANGED effects
    /\ Goto(w, "commit")
    /\ UNCHANGED <<rowVars, op, seen, entry, aborted, audit, landed, unaudited, overlapped,
                   served>>

\* trigger_agent, before the request commits, and trigger_by_event, which has
\* nothing to commit: the trigger is appended to the stream.  When that fails
\* the one raises EngineError and the other logs.
Enqueue(w) ==
    /\ pc[w] = "enqueue"
    /\ \/ /\ op[w] = "trigger"
          /\ effects' = effects + 1
          /\ Goto(w, "commit")
          /\ UNCHANGED <<rowVars, op, seen, entry, aborted, audit, landed, unaudited,
                         overlapped, served, faults>>
       \/ op[w] = "event" /\ Rollback(w) /\ UNCHANGED faults
       \/ Fault /\ Rollback(w)

-----------------------------------------------------------------------------
\* The requests whose effect others hear of.
Reporting == {"start", "drain", "stop", "trigger"}

Landed(w) ==
    /\ row' = draft
    /\ audit' = IF entry[w]
                THEN Append(audit, IF op[w] = "start" THEN "active" ELSE "idle")
                ELSE audit
    /\ landed' = IF op[w] \in Reporting THEN landed + 1 ELSE landed

\* Mutant: a row that changed since it was read is silently left as it is.
CommitIfCurrent(w) ==
    /\ pc[w] = "commit"
    /\ \/ ~aborted[w] /\ row = seen[w] /\ Landed(w)
       \/ (aborted[w] \/ row # seen[w]) /\ UNCHANGED <<row, audit, landed>>
    /\ Close(w)
    /\ UNCHANGED <<effects, unaudited, bounds>>

\* get_db commits.  COMMIT of an aborted transaction is a rollback that
\* PostgreSQL reports as no error, so the request is answered 202 either way;
\* answers are left out, and with them a COMMIT that lands and loses its reply.
Commit(w) ==
    /\ pc[w] = "commit"
    /\ \/ /\ \/ ~aborted[w] /\ Landed(w)
             \/ aborted[w] /\ UNCHANGED <<row, audit, landed>>
          /\ Close(w)
          /\ UNCHANGED <<effects, unaudited, bounds>>
       \/ Fault /\ Rollback(w)

\* The service dies; PostgreSQL rolls back what was open.
Restart ==
    /\ Fault
    /\ lock' = NoWorker
    /\ draft' = Absent
    /\ pc' = [w \in Workers |-> "idle"]
    /\ seen' = [w \in Workers |-> Absent]
    /\ entry' = [w \in Workers |-> FALSE]
    /\ aborted' = [w \in Workers |-> FALSE]
    /\ UNCHANGED <<row, op, audit, counters, overlapped, served>>

Continue(w) ==
    \/ Read(w) \/ Flush(w) \/ Reread(w) \/ Activate(w) \/ WriteTransition(w)
    \/ Publish(w) \/ Enqueue(w) \/ Commit(w)

Next ==
    \/ \E w \in Workers : (\E o \in Ops : Begin(w, o)) \/ Continue(w)
    \/ Restart

Spec == Init /\ [][Next]_vars

\* The event loop and the database go on, and PostgreSQL queues those who wait
\* for a row lock, so none is passed over forever.
Fairness == \A w \in Workers : WF_vars(Continue(w)) /\ SF_vars(Flush(w))

FairSpec == Spec /\ Fairness

-----------------------------------------------------------------------------
(* Safety *)

\* The audit trail explains the status, whatever requests overlap and fail:
\* both are written under the row lock, in one transaction.
AuditExplainsStatus ==
    audit # <<>> =>
        row.status \in IF audit[Len(audit)] = "active" THEN {"active"} ELSE {"idle", "stopping"}

\* start never makes a deleted agent active, though it checks for deletion
\* before it has the lock: the engine looks again once it has it.
DeletedNeverActivated ==
    [][row.deleted /\ row.status # "active" => row'.status # "active"]_vars

\* Without overlapping requests only an idle agent is ever deleted.  delete_agent
\* acts on a row read before the lock was its own, so this does not survive an
\* overlap.
SerialDeletedIsIdle == row.deleted /\ ~overlapped => row.status = "idle"

\* What subscribers and the trigger stream are told before the commit, the
\* commit makes true, or something failed: a fault between the two, or the INSERT
\* into agent_transitions, of which the caller, answered 202, never hears.
EffectsBackedByCommit ==
    effects <= landed + faults + unaudited
                + Cardinality({w \in Workers : pc[w] = "commit" /\ op[w] \in Reporting})

(* Liveness *)

\* Every request is answered: the row lock is always given back.
EveryRequestEnds == \A w \in Workers : pc[w] # "idle" ~> pc[w] = "idle"
=============================================================================
