--------------------------- MODULE AgentApiProofs ---------------------------
(***************************************************************************)
(* AgentApi's audit trail and its deleted agents, for any number of        *)
(* concurrent requests, with or without the table agent_transitions (an    *)
(* INSERT into it may fail at any time).                                   *)
(***************************************************************************)
EXTENDS AgentApi, FiniteSetTheorems, TLAPS

\* Where a request has written the row and not yet committed.
HasLock(w) ==
    \/ pc[w] \in {"reread", "activate", "audit", "publish", "commit"}
    \/ pc[w] = "enqueue" /\ op[w] = "trigger"

LockInv == \A w \in Workers : HasLock(w) => lock = w

\* Which operations come to which await.
PlaceInv ==
    \A w \in Workers :
        /\ pc[w] \in {"flush", "commit"} => op[w] # "event"
        /\ pc[w] \in {"reread", "activate"} => op[w] = "start"
        /\ pc[w] \in {"audit", "publish"} => op[w] \in {"start", "drain", "stop"}
        /\ pc[w] = "enqueue" => op[w] \in {"trigger", "event"}

\* The draft of the request that holds the lock, against the committed row.
DraftInv ==
    \A w \in Workers : HasLock(w) =>
        /\ op[w] = "start" /\ pc[w] # "reread" => ~draft.deleted
        /\ op[w] = "start" /\ pc[w] \in {"audit", "publish", "commit"} => draft.status = "active"
        /\ op[w] \in {"drain", "stop"} => draft.status \in {"idle", "stopping"}
        /\ op[w] \in {"update", "delete", "trigger"} => draft.status = row.status
        /\ op[w] = "create" => row = Absent /\ draft.status = "idle"
        /\ op[w] \notin {"create", "delete"} => draft.deleted = row.deleted

\* A transaction that changes the status and has not been aborted has its row
\* in agent_transitions, and no other has.
EntryInv ==
    \A w \in Workers :
        /\ entry[w] => pc[w] \in {"publish", "commit"} /\ op[w] \in {"start", "drain", "stop"}
        /\ pc[w] \in {"publish", "commit"} /\ op[w] \in {"start", "drain", "stop"} /\ ~aborted[w]
               => entry[w]

IInv ==
    /\ TypeOK
    /\ LockInv
    /\ PlaceInv
    /\ DraftInv
    /\ EntryInv
    /\ AuditExplainsStatus

-----------------------------------------------------------------------------
\* A row with another status and version is a row, as is a deleted one.
LEMMA RestatedFacts ==
  ASSUME NEW r \in Row, NEW n \in Nat,
         NEW s \in {"absent", "idle", "active", "stopping", "starting"}
  PROVE  /\ Restated(r, s, n) \in Row
         /\ Restated(r, s, n).status = s
         /\ Restated(r, s, n).deleted = r.deleted
  BY DEF Row, Restated

LEMMA DeletedIsRow ==
  ASSUME NEW r \in Row
  PROVE  [r EXCEPT !.deleted = TRUE] \in Row /\ [r EXCEPT !.deleted = TRUE].status = r.status
  BY DEF Row

\* What a flush writes is a row, with the status its operation asks for.
LEMMA WrittenFacts ==
  ASSUME NEW o \in Ops \ {"event"}, NEW old \in Row, NEW base \in Row
  PROVE  /\ Written(o, old, base) \in Row
         /\ o \in {"drain", "stop"} => Written(o, old, base).status \in {"idle", "stopping"}
         /\ o \in {"update", "delete", "trigger"} => Written(o, old, base).status = base.status
         /\ o = "create" => Written(o, old, base).status = "idle"
         /\ o \notin {"create", "delete"} => Written(o, old, base).deleted = base.deleted
  <1>1. old.version + 1 \in Nat
    BY DEF Row
  <1>2. CASE o = "create"
    BY <1>2 DEF Written, Row
  <1>3. CASE o = "update"
    <2>1. Written(o, old, base) = Restated(base, base.status, old.version + 1)
      BY <1>3 DEF Written
    <2>2. /\ Written(o, old, base) \in Row
          /\ Written(o, old, base).status = base.status
          /\ Written(o, old, base).deleted = base.deleted
      BY <1>1, <2>1 DEF Restated, Row
    <2> QED
      BY <1>3, <2>2
  <1>4. CASE o = "delete"
    BY <1>4, DeletedIsRow DEF Written
  <1>5. CASE o = "trigger"
    BY <1>5 DEF Written
  <1>6. CASE o = "start"
    BY <1>1, <1>6, RestatedFacts DEF Written
  <1>7. CASE o = "drain"
    BY <1>1, <1>7, RestatedFacts DEF Written
  <1>8. CASE o = "stop"
    BY <1>1, <1>8, RestatedFacts DEF Written
  <1> QED
    BY <1>2, <1>3, <1>4, <1>5, <1>6, <1>7, <1>8 DEF Ops

\* The row of an agent that does not exist is a row.
LEMMA AbsentIsRow == Absent \in Row /\ Absent.status = "absent"
  BY DEF Absent, Row

\* The initial state satisfies the invariant.
LEMMA InitEstablishesIInv == Init => IInv
  <1> SUFFICES ASSUME Init PROVE IInv
    OBVIOUS
  <1>1. TypeOK
    <2>1. row \in Row /\ row.status # "starting" /\ draft \in Row
      BY AbsentIsRow DEF Init
    <2>2. /\ op \in [Workers -> Ops] /\ pc \in [Workers -> PC] /\ seen \in [Workers -> Row]
          /\ entry \in [Workers -> BOOLEAN] /\ aborted \in [Workers -> BOOLEAN]
      BY AbsentIsRow DEF Init, Ops, PC
    <2>3. audit \in Seq({"active", "idle"})
      BY DEF Init
    <2>4. served \in 0..MaxRequests /\ faults \in 0..MaxFaults
      BY ApiAssumption DEF Init
    <2>5. {landed, effects, unaudited} \subseteq Nat
      BY DEF Init
    <2>6. overlapped \in BOOLEAN /\ lock \in Workers \cup {NoWorker}
      BY DEF Init
    <2> QED
      BY <2>1, <2>2, <2>3, <2>4, <2>5, <2>6 DEF TypeOK
  <1>2. LockInv /\ PlaceInv /\ DraftInv /\ EntryInv
    BY DEF Init, LockInv, PlaceInv, DraftInv, EntryInv, HasLock
  <1>3. AuditExplainsStatus
    BY DEF Init, AuditExplainsStatus
  <1> QED
    BY <1>1, <1>2, <1>3 DEF IInv

\* A fault is counted within its bound.
LEMMA FaultIsBounded == ASSUME TypeOK, Fault PROVE faults' \in 0..MaxFaults
  BY ApiAssumption DEF TypeOK, Fault

\* Ending a request without a commit preserves the invariant.
LEMMA RollbackKeepsIInv ==
  ASSUME IInv, NEW w \in Workers, Rollback(w), faults' \in 0..MaxFaults
  PROVE  IInv'
  <1> USE DEF Rollback, Close, Goto, counters
  <1>1. TypeOK'
    <2>1. draft' \in Row /\ lock' \in Workers \cup {NoWorker}
      BY AbsentIsRow DEF IInv, TypeOK
    <2>2. /\ pc' \in [Workers -> PC] /\ seen' \in [Workers -> Row]
          /\ entry' \in [Workers -> BOOLEAN] /\ aborted' \in [Workers -> BOOLEAN]
      BY AbsentIsRow DEF IInv, TypeOK, PC
    <2> QED
      BY <2>1, <2>2 DEF IInv, TypeOK
  <1>2. \A v \in Workers : HasLock(v)' => v # w /\ HasLock(v) /\ lock # w /\ pc'[v] = pc[v]
    BY DEF IInv, TypeOK, LockInv, HasLock
  <1>3. LockInv'
    BY <1>2 DEF IInv, LockInv
  <1>4. PlaceInv' /\ EntryInv'
    BY DEF IInv, TypeOK, PlaceInv, EntryInv
  <1>5. DraftInv'
    BY <1>2 DEF IInv, DraftInv
  <1>6. AuditExplainsStatus'
    BY DEF IInv, AuditExplainsStatus
  <1> QED
    BY <1>1, <1>3, <1>4, <1>5, <1>6 DEF IInv

\* Each action preserves the invariant.
LEMMA BeginKeepsIInv ==
  ASSUME IInv, NEW w \in Workers, NEW o \in Ops, Begin(w, o)
  PROVE  IInv'
  <1> USE DEF Begin, Goto, counters, rowVars
  <1>1. TypeOK'
    <2>1. op' \in [Workers -> Ops] /\ pc' \in [Workers -> PC]
      BY DEF IInv, TypeOK, PC
    <2>2. served' \in 0..MaxRequests
      BY ApiAssumption DEF IInv, TypeOK
    <2> QED
      BY <2>1, <2>2 DEF IInv, TypeOK
  <1>2. LockInv' /\ DraftInv'
    BY DEF IInv, TypeOK, LockInv, DraftInv, HasLock
  <1>3. PlaceInv' /\ EntryInv'
    BY DEF IInv, TypeOK, PlaceInv, EntryInv
  <1>4. AuditExplainsStatus'
    BY DEF IInv, AuditExplainsStatus
  <1> QED
    BY <1>1, <1>2, <1>3, <1>4 DEF IInv

LEMMA ReadKeepsIInv ==
  ASSUME IInv, NEW w \in Workers, Read(w)
  PROVE  IInv'
  <1>1. CASE Rollback(w) /\ UNCHANGED faults
    BY <1>1, RollbackKeepsIInv DEF IInv, TypeOK
  <1>2. CASE /\ May(op[w], row) /\ pc[w] = "read"
             /\ seen' = [seen EXCEPT ![w] = row]
             /\ Goto(w, IF op[w] = "event" THEN "enqueue" ELSE "flush")
             /\ UNCHANGED <<rowVars, op, entry, aborted, audit, counters, bounds>>
    <2> USE <1>2 DEF Goto, rowVars, counters, bounds
    <2>1. TypeOK'
      BY DEF IInv, TypeOK, PC
    <2>2. LockInv' /\ DraftInv'
      BY DEF IInv, TypeOK, LockInv, DraftInv, HasLock
    <2>3. PlaceInv' /\ EntryInv'
      BY DEF IInv, TypeOK, PlaceInv, EntryInv
    <2>4. AuditExplainsStatus'
      BY DEF IInv, AuditExplainsStatus
    <2> QED
      BY <2>1, <2>2, <2>3, <2>4 DEF IInv
  <1> QED
    BY <1>1, <1>2 DEF Read, bounds

LEMMA FlushKeepsIInv ==
  ASSUME IInv, NEW w \in Workers, Flush(w)
  PROVE  IInv'
  <1>1. CASE Rollback(w) /\ (UNCHANGED faults \/ Fault)
    BY <1>1, RollbackKeepsIInv, FaultIsBounded DEF IInv, TypeOK
  <1>2. CASE /\ pc[w] = "flush" /\ lock = NoWorker
             /\ op[w] = "create" => row = Absent
             /\ lock' = w
             /\ draft' = Written(op[w], seen[w], row)
             /\ Goto(w, AfterFlush[op[w]])
             /\ UNCHANGED <<row, op, seen, entry, aborted, audit, counters, bounds>>
    <2> USE DEF Goto, counters, bounds
    <2>1. op[w] \in Ops \ {"event"} /\ seen[w] \in Row /\ row \in Row
      BY <1>2 DEF IInv, TypeOK, PlaceInv
    <2>2. /\ AfterFlush[op[w]] \in {"reread", "audit", "enqueue", "commit"}
          /\ AfterFlush[op[w]] = "reread" <=> op[w] = "start"
          /\ AfterFlush[op[w]] = "audit" => op[w] \in {"drain", "stop"}
          /\ AfterFlush[op[w]] = "enqueue" => op[w] = "trigger"
          /\ AfterFlush[op[w]] = "commit" => op[w] \in {"create", "update", "delete"}
      BY <2>1 DEF AfterFlush, Ops
    <2>3. pc' = [pc EXCEPT ![w] = AfterFlush[op[w]]] /\ pc \in [Workers -> PC]
      BY <1>2 DEF IInv, TypeOK
    <2>4. draft' \in Row
      BY <1>2, <2>1, WrittenFacts
    <2>5. TypeOK'
      BY <1>2, <2>2, <2>3, <2>4 DEF IInv, TypeOK, PC
    <2>6. \A v \in Workers : HasLock(v)' => v = w
      BY <1>2, <2>3, ApiAssumption DEF IInv, LockInv, HasLock
    <2>7. LockInv'
      BY <1>2, <2>6 DEF LockInv
    <2>8. DraftInv'
      BY <1>2, <2>1, <2>2, <2>3, <2>6, WrittenFacts DEF DraftInv
    <2>9. PlaceInv' /\ EntryInv'
      BY <1>2, <2>1, <2>2, <2>3 DEF IInv, PlaceInv, EntryInv
    <2>10. AuditExplainsStatus'
      BY <1>2 DEF IInv, AuditExplainsStatus
    <2> QED
      BY <2>5, <2>7, <2>8, <2>9, <2>10 DEF IInv
  <1> QED
    BY <1>1, <1>2 DEF Flush, bounds

LEMMA RereadKeepsIInv ==
  ASSUME IInv, NEW w \in Workers, Reread(w)
  PROVE  IInv'
  <1>1. CASE Rollback(w) /\ (UNCHANGED faults \/ Fault)
    BY <1>1, RollbackKeepsIInv, FaultIsBounded DEF IInv, TypeOK
  <1>2. CASE /\ pc[w] = "reread" /\ Live(draft)
             /\ Goto(w, "activate")
             /\ UNCHANGED <<rowVars, op, seen, entry, aborted, audit, counters, bounds>>
    <2> USE <1>2 DEF Goto, rowVars, counters, bounds
    <2>1. TypeOK'
      BY DEF IInv, TypeOK, PC
    <2>2. LockInv' /\ PlaceInv'
      BY DEF IInv, TypeOK, LockInv, PlaceInv, HasLock
    <2>3. DraftInv'
      BY DEF IInv, TypeOK, LockInv, PlaceInv, DraftInv, HasLock, Live
    <2>4. EntryInv' /\ AuditExplainsStatus'
      BY DEF IInv, TypeOK, EntryInv, AuditExplainsStatus
    <2> QED
      BY <2>1, <2>2, <2>3, <2>4 DEF IInv
  <1> QED
    BY <1>1, <1>2 DEF Reread, bounds

LEMMA ActivateKeepsIInv ==
  ASSUME IInv, NEW w \in Workers, Activate(w)
  PROVE  IInv'
  <1>1. CASE Rollback(w) /\ Fault
    BY <1>1, RollbackKeepsIInv, FaultIsBounded DEF IInv
  <1>2. CASE /\ pc[w] = "activate"
             /\ draft' = Restated(draft, "active", draft.version + 1)
             /\ Goto(w, "audit")
             /\ UNCHANGED <<row, lock, op, seen, entry, aborted, audit, counters, bounds>>
    <2> USE <1>2 DEF Goto, counters, bounds
    <2>1. draft' \in Row /\ draft'.status = "active" /\ draft'.deleted = draft.deleted
      <3>1. draft \in Row /\ draft.version + 1 \in Nat
        BY DEF IInv, TypeOK, Row
      <3> QED
        BY <3>1, RestatedFacts
    <2>2. TypeOK'
      BY <2>1 DEF IInv, TypeOK, PC
    <2>3. LockInv' /\ PlaceInv' /\ EntryInv'
      BY DEF IInv, TypeOK, LockInv, PlaceInv, EntryInv, HasLock
    <2>4. DraftInv'
      <3>1. \A v \in Workers : HasLock(v)' => v = w
        BY DEF IInv, TypeOK, LockInv, HasLock
      <3>2. op[w] = "start" /\ HasLock(w)
        BY DEF IInv, PlaceInv, HasLock
      <3> QED
        BY <2>1, <3>1, <3>2 DEF IInv, DraftInv
    <2>5. AuditExplainsStatus'
      BY DEF IInv, AuditExplainsStatus
    <2> QED
      BY <2>2, <2>3, <2>4, <2>5 DEF IInv
  <1> QED
    BY <1>1, <1>2 DEF Activate, bounds

LEMMA WriteTransitionKeepsIInv ==
  ASSUME IInv, NEW w \in Workers, WriteTransition(w)
  PROVE  IInv'
  <1> USE DEF WriteTransition, Goto, rowVars, bounds
  <1>1. TypeOK'
    <2>1. /\ pc' \in [Workers -> PC]
          /\ entry' \in [Workers -> BOOLEAN] /\ aborted' \in [Workers -> BOOLEAN]
      BY DEF IInv, TypeOK, PC
    <2>2. unaudited' \in Nat
      BY DEF IInv, TypeOK
    <2> QED
      BY <2>1, <2>2 DEF IInv, TypeOK
  <1>2. LockInv' /\ PlaceInv'
    BY DEF IInv, TypeOK, LockInv, PlaceInv, HasLock
  <1>3. DraftInv'
    BY DEF IInv, TypeOK, PlaceInv, DraftInv, HasLock
  <1>4. EntryInv'
    BY DEF IInv, TypeOK, PlaceInv, EntryInv
  <1>5. AuditExplainsStatus'
    BY DEF IInv, AuditExplainsStatus
  <1> QED
    BY <1>1, <1>2, <1>3, <1>4, <1>5 DEF IInv

LEMMA PublishKeepsIInv ==
  ASSUME IInv, NEW w \in Workers, Publish(w)
  PROVE  IInv'
  <1> USE DEF Publish, Goto, rowVars
  <1>1. TypeOK'
    <2>1. pc' \in [Workers -> PC]
      BY DEF IInv, TypeOK, PC
    <2>2. faults' \in 0..MaxFaults
      BY FaultIsBounded DEF IInv, TypeOK
    <2>3. effects' \in Nat
      BY DEF IInv, TypeOK
    <2> QED
      BY <2>1, <2>2, <2>3 DEF IInv, TypeOK
  <1>2. LockInv' /\ PlaceInv'
    BY DEF IInv, TypeOK, LockInv, PlaceInv, HasLock
  <1>3. DraftInv'
    BY DEF IInv, TypeOK, PlaceInv, DraftInv, HasLock
  <1>4. EntryInv'
    BY DEF IInv, TypeOK, EntryInv
  <1>5. AuditExplainsStatus'
    BY DEF IInv, AuditExplainsStatus
  <1> QED
    BY <1>1, <1>2, <1>3, <1>4, <1>5 DEF IInv

LEMMA EnqueueKeepsIInv ==
  ASSUME IInv, NEW w \in Workers, Enqueue(w)
  PROVE  IInv'
  <1>1. CASE Rollback(w) /\ (UNCHANGED faults \/ Fault)
    BY <1>1, RollbackKeepsIInv, FaultIsBounded DEF IInv, TypeOK
  <1>2. CASE /\ pc[w] = "enqueue" /\ op[w] = "trigger"
             /\ effects' = effects + 1
             /\ Goto(w, "commit")
             /\ UNCHANGED <<rowVars, op, seen, entry, aborted, audit, landed, unaudited, bounds>>
    <2> USE <1>2 DEF Goto, rowVars, bounds
    <2>1. effects' \in Nat
      BY DEF IInv, TypeOK
    <2>2. TypeOK'
      BY <2>1 DEF IInv, TypeOK, PC
    <2>3. LockInv' /\ PlaceInv'
      BY DEF IInv, TypeOK, LockInv, PlaceInv, HasLock
    <2>4. DraftInv'
      BY DEF IInv, TypeOK, PlaceInv, DraftInv, HasLock
    <2>5. EntryInv' /\ AuditExplainsStatus'
      BY DEF IInv, TypeOK, EntryInv, AuditExplainsStatus
    <2> QED
      BY <2>2, <2>3, <2>4, <2>5 DEF IInv
  <1> QED
    BY <1>1, <1>2 DEF Enqueue, bounds

LEMMA CommitKeepsIInv ==
  ASSUME IInv, NEW w \in Workers, Commit(w)
  PROVE  IInv'
  <1>1. CASE Rollback(w) /\ Fault
    BY <1>1, RollbackKeepsIInv, FaultIsBounded DEF IInv
  <1>2. CASE /\ pc[w] = "commit"
             /\ Close(w)
             /\ UNCHANGED <<effects, unaudited, bounds>>
             /\ \/ ~aborted[w] /\ Landed(w)
                \/ aborted[w] /\ UNCHANGED <<row, audit, landed>>
    <2> USE <1>2 DEF Close, Goto, bounds
    <2>1. HasLock(w) /\ lock = w /\ lock' = NoWorker /\ draft' = Absent
      BY DEF IInv, LockInv, HasLock
    <2>2. \A v \in Workers : ~HasLock(v)'
      BY <2>1, ApiAssumption DEF IInv, TypeOK, LockInv, HasLock
    <2>3. ~aborted[w] => draft.status # "starting" /\ draft \in Row
      BY <2>1 DEF IInv, TypeOK, PlaceInv, DraftInv, Ops
    <2>4. TypeOK'
      <3>1. row' \in Row /\ row'.status # "starting"
        BY <2>3 DEF IInv, TypeOK, Landed
      <3>2. audit' \in Seq({"active", "idle"})
        <4>1. audit \in Seq({"active", "idle"})
          BY DEF IInv, TypeOK
        <4>2. Append(audit, "active") \in Seq({"active", "idle"})
          BY <4>1
        <4>3. Append(audit, "idle") \in Seq({"active", "idle"})
          BY <4>1
        <4>4. audit' \in {audit, Append(audit, "active"), Append(audit, "idle")}
          BY DEF Landed
        <4> QED
          BY <4>1, <4>2, <4>3, <4>4
      <3>3. landed' \in Nat
        BY DEF IInv, TypeOK, Landed
      <3>4. /\ pc' \in [Workers -> PC] /\ seen' \in [Workers -> Row]
            /\ entry' \in [Workers -> BOOLEAN] /\ aborted' \in [Workers -> BOOLEAN]
        BY AbsentIsRow DEF IInv, TypeOK, PC
      <3> QED
        BY <2>1, <3>1, <3>2, <3>3, <3>4, AbsentIsRow DEF IInv, TypeOK
    <2>5. LockInv' /\ DraftInv'
      BY <2>2 DEF LockInv, DraftInv
    <2>6. PlaceInv' /\ EntryInv'
      BY DEF IInv, TypeOK, PlaceInv, EntryInv
    <2>7. AuditExplainsStatus'
      <3>1. CASE aborted[w]
        BY <3>1 DEF IInv, AuditExplainsStatus
      <3>2. CASE ~aborted[w] /\ op[w] \in {"start", "drain", "stop"}
        <4>1. entry[w] /\ row' = draft
          BY <3>2 DEF IInv, EntryInv, Landed
        <4>2. audit'[Len(audit')] = IF op[w] = "start" THEN "active" ELSE "idle"
          BY <3>2, <4>1 DEF IInv, TypeOK, Landed
        <4>3. draft.status \in IF op[w] = "start" THEN {"active"} ELSE {"idle", "stopping"}
          BY <2>1, <3>2 DEF IInv, DraftInv
        <4> QED
          BY <3>2, <4>1, <4>2, <4>3 DEF AuditExplainsStatus
      <3>3. CASE ~aborted[w] /\ op[w] \in {"create", "update", "delete", "trigger"}
        <4>1. audit' = audit /\ row' = draft
          BY <3>3 DEF IInv, EntryInv, Landed
        <4>2. CASE op[w] = "create"
          <5>1. audit = <<>>
            BY <2>1, <4>2, AbsentIsRow DEF IInv, DraftInv, AuditExplainsStatus
          <5> QED
            BY <4>1, <5>1 DEF AuditExplainsStatus
        <4>3. CASE op[w] # "create"
          <5>1. draft.status = row.status
            BY <2>1, <3>3, <4>3 DEF IInv, DraftInv
          <5> QED
            BY <4>1, <5>1 DEF IInv, AuditExplainsStatus
        <4> QED
          BY <4>2, <4>3
      <3>4. op[w] \in Ops \ {"event"}
        BY DEF IInv, TypeOK, PlaceInv
      <3> QED
        BY <3>1, <3>2, <3>3, <3>4 DEF Ops
    <2> QED
      BY <2>4, <2>5, <2>6, <2>7 DEF IInv
  <1> QED
    BY <1>1, <1>2 DEF Commit, bounds

LEMMA RestartKeepsIInv ==
  ASSUME IInv, Restart
  PROVE  IInv'
  <1> USE DEF Restart, counters
  <1>1. TypeOK'
    <2>1. /\ pc' \in [Workers -> PC] /\ seen' \in [Workers -> Row]
          /\ entry' \in [Workers -> BOOLEAN] /\ aborted' \in [Workers -> BOOLEAN]
      BY AbsentIsRow DEF PC
    <2>2. faults' \in 0..MaxFaults
      BY FaultIsBounded DEF IInv
    <2> QED
      BY <2>1, <2>2, AbsentIsRow DEF IInv, TypeOK
  <1>2. LockInv' /\ PlaceInv' /\ DraftInv' /\ EntryInv'
    BY DEF LockInv, PlaceInv, DraftInv, EntryInv, HasLock
  <1>3. AuditExplainsStatus'
    BY DEF IInv, AuditExplainsStatus
  <1> QED
    BY <1>1, <1>2, <1>3 DEF IInv

LEMMA StutterKeepsIInv ==
  ASSUME IInv, UNCHANGED vars
  PROVE  IInv'
  <1> USE DEF vars, rowVars, requestVars, counters, bounds
  <1>1. TypeOK'
    BY DEF IInv, TypeOK
  <1>2. LockInv' /\ PlaceInv' /\ DraftInv' /\ EntryInv'
    BY DEF IInv, LockInv, PlaceInv, DraftInv, EntryInv, HasLock
  <1>3. AuditExplainsStatus'
    BY DEF IInv, AuditExplainsStatus
  <1> QED
    BY <1>1, <1>2, <1>3 DEF IInv

LEMMA IInvStep == IInv /\ [Next]_vars => IInv'
  BY BeginKeepsIInv, ReadKeepsIInv, FlushKeepsIInv, RereadKeepsIInv, ActivateKeepsIInv,
     WriteTransitionKeepsIInv, PublishKeepsIInv, EnqueueKeepsIInv, CommitKeepsIInv,
     RestartKeepsIInv, StutterKeepsIInv
     DEF Next, Continue

\* IInv is inductive.
THEOREM IInvInvariant == Spec => []IInv
  BY InitEstablishesIInv, IInvStep, PTL DEF Spec

\* The variables keep their types; "starting" is never committed.
THEOREM TypeCorrect == Spec => []TypeOK
  BY IInvInvariant, PTL DEF IInv

\* The audit trail explains the agent's status, with any number of concurrent
\* requests, failures and restarts.
THEOREM AuditTrailIsCurrent == Spec => []AuditExplainsStatus
  BY IInvInvariant, PTL DEF IInv

\* No request makes a deleted agent active.
THEOREM DeletedStaysDown == Spec => DeletedNeverActivated
  <1>1. ASSUME IInv, Next, row.deleted, row.status # "active"
        PROVE  row'.status # "active"
    <2>1. ASSUME NEW w \in Workers, Commit(w), row' # row
          PROVE  row'.status # "active"
      <3>1. row' = draft /\ HasLock(w) /\ pc[w] = "commit"
        BY <2>1 DEF Commit, Landed, Rollback, HasLock
      <3>2. op[w] \in Ops \ {"event"}
        BY <1>1, <3>1 DEF IInv, TypeOK, PlaceInv
      <3> QED
        BY <1>1, <3>1, <3>2 DEF IInv, DraftInv, Ops
    <2>2. row' = row \/ \E w \in Workers : Commit(w)
      BY <1>1 DEF Next, Continue, Begin, Read, Flush, Reread, Activate, WriteTransition,
                  Publish, Enqueue, Restart, Rollback, rowVars
    <2> QED
      BY <1>1, <2>1, <2>2
  <1>2. IInv /\ [Next]_vars =>
            [row.deleted /\ row.status # "active" => row'.status # "active"]_vars
    BY <1>1 DEF vars
  <1> QED
    BY IInvInvariant, <1>2, PTL DEF Spec, DeletedNeverActivated
-----------------------------------------------------------------------------
(* One request at a time, and what is told before the commit *)

\* A statement of a transaction fails for good only at its INSERT into
\* agent_transitions: earlier failures end the request.
AbortInv == \A w \in Workers : aborted[w] => pc[w] \in {"publish", "commit"}

\* As long as no requests overlap there is one at most, and what it asked of the
\* row it read still holds.
SerialInv ==
    ~overlapped =>
        /\ \A v, w \in Workers : pc[v] # "idle" /\ pc[w] # "idle" => v = w
        /\ \A w \in Workers : pc[w] \notin {"idle", "read"} => May(op[w], row)
        /\ SerialDeletedIsIdle

\* The request reports an effect and is about to commit it.
Promising(w) == pc[w] = "commit" /\ op[w] \in Reporting /\ ~aborted[w]

\* The request is about to report an effect that its COMMIT will drop.
Wasting(w) == pc[w] = "publish" /\ aborted[w]

Promised == IF \E w \in Workers : Promising(w) THEN 1 ELSE 0

Wasted == IF \E w \in Workers : Wasting(w) THEN 1 ELSE 0

\* The INSERT that aborts a transaction pays for the effect it will report.
EffectInv == effects + Wasted <= landed + faults + unaudited + Promised

ApiInv == IInv /\ AbortInv /\ SerialInv /\ EffectInv

LEMMA InitEstablishesApiInv == Init => ApiInv
  <1> SUFFICES ASSUME Init PROVE ApiInv
    OBVIOUS
  <1>1. AbortInv /\ SerialInv
    BY AbsentIsRow DEF Init, AbortInv, SerialInv, SerialDeletedIsIdle, Absent
  <1>2. EffectInv
    BY DEF Init, EffectInv, Promised, Wasted, Wasting, Promising
  <1> QED
    BY <1>1, <1>2, InitEstablishesIInv DEF ApiInv

LEMMA AbortNext ==
  ASSUME IInv, AbortInv, [Next]_vars
  PROVE  AbortInv'
  <1>1. ASSUME NEW w \in Workers, Close(w) PROVE AbortInv'
    BY <1>1 DEF IInv, TypeOK, AbortInv, Close, Goto
  <1>2. ASSUME NEW w \in Workers, WriteTransition(w) PROVE AbortInv'
    BY <1>2 DEF IInv, TypeOK, AbortInv, WriteTransition, Goto
  <1>3. ASSUME NEW w \in Workers, NEW label, Goto(w, label), UNCHANGED aborted,
               pc[w] \in {"publish", "commit"} => label = "commit"
        PROVE  AbortInv'
    BY <1>3 DEF IInv, TypeOK, AbortInv, Goto
  <1>4. ASSUME NEW w \in Workers, (\E o \in Ops : Begin(w, o)) \/ Continue(w) PROVE AbortInv'
    BY <1>1, <1>2, <1>3, <1>4
       DEF Begin, Continue, Read, Flush, Reread, Activate, Publish, Enqueue, Commit, Rollback
  <1>5. CASE Restart
    BY <1>5 DEF Restart, AbortInv
  <1>6. CASE UNCHANGED vars
    BY <1>6 DEF vars, requestVars, AbortInv
  <1> QED
    BY <1>4, <1>5, <1>6 DEF Next

\* A step that leaves the row alone and begins no request.
LEMMA QuietKeepsSerial ==
  ASSUME SerialInv, UNCHANGED <<row, op, overlapped>>,
         \A w \in Workers : pc'[w] # "idle" => pc[w] # "idle",
         \A w \in Workers : pc'[w] \notin {"idle", "read"} =>
             pc[w] \notin {"idle", "read"} \/ May(op[w], row)
  PROVE  SerialInv'
  BY DEF SerialInv, SerialDeletedIsIdle, May, Live

LEMMA SerialNext ==
  ASSUME IInv, SerialInv, [Next]_vars
  PROVE  SerialInv'
  <1>1. ASSUME NEW w \in Workers, NEW label, Goto(w, label), pc[w] # "idle",
               \/ label = "idle"
               \/ pc[w] # "read"
               \/ May(op[w], row),
               UNCHANGED <<row, op, overlapped>>
        PROVE  SerialInv'
    <2>1. pc'[w] = label /\ \A v \in Workers : v # w => pc'[v] = pc[v]
      BY <1>1 DEF IInv, TypeOK, Goto
    <2> QED
      BY <1>1, <2>1, QuietKeepsSerial
  <1>2. ASSUME NEW w \in Workers, Rollback(w), pc[w] # "idle" PROVE SerialInv'
    BY <1>1, <1>2 DEF Rollback, Close
  <1>3. ASSUME NEW w \in Workers, NEW o \in Ops, Begin(w, o) PROVE SerialInv'
    <2> SUFFICES ASSUME ~overlapped' PROVE SerialInv'
      BY DEF SerialInv
    <2>1. ~overlapped /\ \A v \in Workers : pc[v] = "idle"
      BY <1>3 DEF Begin, IInv, TypeOK
    <2>2. \A v \in Workers : pc'[v] = IF v = w THEN "read" ELSE "idle"
      BY <1>3, <2>1 DEF Begin, Goto, IInv, TypeOK
    <2>3. row' = row
      BY <1>3 DEF Begin, rowVars
    <2> QED
      BY <2>1, <2>2, <2>3 DEF SerialInv, SerialDeletedIsIdle
  <1>4. ASSUME NEW w \in Workers,
               \/ Read(w) \/ Flush(w) \/ Reread(w) \/ Activate(w) \/ WriteTransition(w)
               \/ Publish(w) \/ Enqueue(w)
        PROVE  SerialInv'
    BY <1>1, <1>2, <1>4
       DEF Read, Flush, Reread, Activate, WriteTransition, Publish, Enqueue, rowVars, bounds
  <1>5. ASSUME NEW w \in Workers, Commit(w) PROVE SerialInv'
    <2>1. CASE Rollback(w)
      BY <1>2, <1>5, <2>1 DEF Commit
    <2>2. CASE aborted[w] /\ row' = row /\ Close(w) /\ UNCHANGED overlapped
      BY <1>1, <1>5, <2>2 DEF Commit, Close
    <2>3. CASE ~aborted[w] /\ row' = draft /\ Close(w) /\ UNCHANGED overlapped
      <3> SUFFICES ASSUME ~overlapped' PROVE SerialInv'
        BY DEF SerialInv
      <3>1. ~overlapped /\ pc[w] = "commit"
        BY <1>5, <2>3 DEF Commit
      <3>2. May(op[w], row) /\ \A v \in Workers : v # w => pc[v] = "idle"
        BY <3>1 DEF SerialInv
      <3>3. \A v \in Workers : pc'[v] = "idle"
        BY <2>3, <3>2 DEF Close, Goto, IInv, TypeOK
      <3>4. HasLock(w) /\ op[w] \in Ops \ {"event"}
        BY <3>1 DEF HasLock, IInv, TypeOK, PlaceInv
      <3>5. draft.deleted => draft.status = "idle"
        BY <3>2, <3>4 DEF IInv, DraftInv, May, Live, Ops
      <3> QED
        BY <2>3, <3>3, <3>5 DEF SerialInv, SerialDeletedIsIdle
    <2> QED
      BY <1>5, <2>1, <2>2, <2>3 DEF Commit, Landed, bounds
  <1>6. CASE Restart
    <2>1. UNCHANGED <<row, op, overlapped>> /\ \A w \in Workers : pc'[w] = "idle"
      BY <1>6 DEF Restart
    <2> QED
      BY <2>1, QuietKeepsSerial
  <1>7. CASE UNCHANGED vars
    BY <1>7, QuietKeepsSerial DEF vars, rowVars, requestVars, bounds
  <1> QED
    BY <1>3, <1>4, <1>5, <1>6, <1>7 DEF Next, Continue

\* A step of request w leaves what the others promise and waste; when w holds
\* the row lock there is nothing of that kind but its own.
LEMMA OthersReport ==
  ASSUME IInv, NEW w \in Workers, NEW label, Goto(w, label), op' = op,
         \A v \in Workers : v # w => aborted'[v] = aborted[v]
  PROVE  /\ pc'[w] = label
         /\ \A v \in Workers : v # w =>
               /\ Promising(v)' <=> Promising(v)
               /\ Wasting(v)' <=> Wasting(v)
         /\ HasLock(w) => \A v \in Workers : v # w => ~Promising(v) /\ ~Wasting(v)
  <1>1. pc'[w] = label /\ \A v \in Workers : v # w => pc'[v] = pc[v]
    BY DEF IInv, TypeOK, Goto
  <1>2. ASSUME HasLock(w), NEW v \in Workers, v # w PROVE ~Promising(v) /\ ~Wasting(v)
    BY <1>2 DEF IInv, LockInv, HasLock, Promising, Wasting
  <1> QED
    BY <1>1, <1>2 DEF Promising, Wasting

\* A request that neither promises nor wastes, before and after.
LEMMA SilentKeepsEffects ==
  ASSUME IInv, EffectInv, NEW w \in Workers, NEW label \in PC \ {"publish", "commit"},
         Goto(w, label), pc[w] \notin {"publish", "commit"}, op' = op,
         \A v \in Workers : v # w => aborted'[v] = aborted[v],
         UNCHANGED counters, faults' = faults \/ Fault
  PROVE  EffectInv'
  <1>1. \A v \in Workers : (Promising(v)' <=> Promising(v)) /\ (Wasting(v)' <=> Wasting(v))
    BY OthersReport DEF Promising, Wasting
  <1>2. Promised' = Promised /\ Wasted' = Wasted
    BY <1>1 DEF Promised, Wasted
  <1>3. /\ faults' \in Nat /\ faults \in Nat /\ faults <= faults'
        /\ landed' = landed /\ landed \in Nat /\ effects' = effects /\ effects \in Nat
        /\ unaudited' = unaudited /\ unaudited \in Nat
    BY ApiAssumption DEF IInv, TypeOK, Fault, counters
  <1>4. ASSUME NEW a \in Nat, NEW b \in Nat, NEW n \in Nat, NEW m \in Nat, NEW l \in Nat,
               NEW u \in Nat, NEW e \in Nat, n <= m, e + a <= l + n + u + b
        PROVE  e + a <= l + m + u + b
    BY ONLY <1>4
  <1>5. Promised \in Nat /\ Wasted \in Nat
    BY DEF Promised, Wasted
  <1> QED
    BY <1>2, <1>3, <1>4, <1>5 DEF EffectInv

\* A request that takes its promise back, which takes a fault.
LEMMA RollbackKeepsEffects ==
  ASSUME IInv, EffectInv, NEW w \in Workers, Rollback(w), op[w] \in Ops,
         \/ pc[w] \notin {"publish", "commit"} /\ faults' = faults
         \/ Fault
  PROVE  EffectInv'
  <1>0. /\ Goto(w, "idle") /\ op' = op /\ UNCHANGED counters
        /\ \A v \in Workers : v # w => aborted'[v] = aborted[v]
    BY DEF Rollback, Close, IInv, TypeOK
  <1>1. CASE pc[w] \notin {"publish", "commit"}
    <2>1. "idle" \in PC \ {"publish", "commit"}
      BY DEF PC
    <2> QED
      BY <1>0, <1>1, <2>1, SilentKeepsEffects
  <1>2. CASE pc[w] \in {"publish", "commit"} /\ Fault
    <2>1. HasLock(w)
      BY <1>2 DEF HasLock
    <2>2. \A v \in Workers : ~Promising(v)' /\ ~Wasting(v)'
      BY <1>0, <2>1, OthersReport DEF Promising, Wasting
    <2>3. faults' = faults + 1 /\ {faults, landed, effects, unaudited} \subseteq Nat
      BY <1>2 DEF Fault, IInv, TypeOK
    <2> QED
      BY <1>0, <2>2, <2>3 DEF EffectInv, Promised, Wasted, counters
  <1> QED
    BY <1>1, <1>2

LEMMA EffectNext ==
  ASSUME IInv, AbortInv, EffectInv, [Next]_vars
  PROVE  EffectInv'
  <1>0. /\ faults \in Nat /\ landed \in Nat /\ effects \in Nat /\ unaudited \in Nat
        /\ \A w \in Workers : op[w] \in Ops
    BY DEF IInv, TypeOK
  <1>1. ASSUME NEW w \in Workers, NEW o \in Ops, Begin(w, o) PROVE EffectInv'
    <2>1. \A v \in Workers : (Promising(v)' <=> Promising(v)) /\ (Wasting(v)' <=> Wasting(v))
      BY <1>1 DEF Begin, Goto, IInv, TypeOK, Promising, Wasting
    <2> QED
      BY <1>1, <2>1 DEF Begin, EffectInv, Promised, Wasted, counters
  <1>2. ASSUME NEW w \in Workers, Read(w) \/ Reread(w) \/ Activate(w) PROVE EffectInv'
    <2>1. pc[w] \notin {"publish", "commit"}
      BY <1>2 DEF Read, Reread, Activate
    <2>2. CASE Rollback(w)
      BY <1>0, <1>2, <2>1, <2>2, RollbackKeepsEffects DEF Read, Reread, Activate
    <2>3. CASE /\ \E label \in {"enqueue", "flush", "activate", "audit"} : Goto(w, label)
               /\ UNCHANGED <<op, aborted, counters, faults>>
      BY <2>1, <2>3, SilentKeepsEffects DEF PC
    <2> QED
      BY <1>2, <2>2, <2>3 DEF Read, Reread, Activate
  <1>3. ASSUME NEW w \in Workers, Flush(w) PROVE EffectInv'
    <2>1. pc[w] = "flush" /\ op[w] \in Ops \ {"event"}
      BY <1>3 DEF Flush, IInv, TypeOK, PlaceInv
    <2>2. CASE Rollback(w)
      BY <1>0, <1>3, <2>1, <2>2, RollbackKeepsEffects DEF Flush
    <2>3. CASE Goto(w, AfterFlush[op[w]]) /\ UNCHANGED <<op, aborted, counters, faults>>
      <3>1. CASE op[w] \in {"create", "update", "delete"}
        <4>1. AfterFlush[op[w]] = "commit" /\ op[w] \notin Reporting
          BY <2>1, <3>1 DEF AfterFlush, Reporting
        <4>2. \A v \in Workers : (Promising(v)' <=> Promising(v)) /\ (Wasting(v)' <=> Wasting(v))
          BY <2>1, <2>3, <4>1, OthersReport DEF Promising, Wasting
        <4> QED
          BY <2>3, <4>2 DEF EffectInv, Promised, Wasted, counters
      <3>2. CASE op[w] \in {"start", "drain", "stop", "trigger"}
        <4>1. AfterFlush[op[w]] \in PC \ {"publish", "commit"}
          BY <2>1, <3>2 DEF AfterFlush, PC
        <4> QED
          BY <2>1, <2>3, <4>1, SilentKeepsEffects
      <3> QED
        BY <2>1, <3>1, <3>2 DEF Ops
    <2> QED
      BY <1>3, <2>2, <2>3 DEF Flush
  <1>4. ASSUME NEW w \in Workers, WriteTransition(w) PROVE EffectInv'
    <2>1. /\ pc[w] = "audit" /\ HasLock(w) /\ Goto(w, "publish") /\ op' = op
          /\ UNCHANGED <<landed, effects, faults>>
          /\ \A v \in Workers : v # w => aborted'[v] = aborted[v]
          /\ ~Promising(w) /\ ~Wasting(w)
      BY <1>4 DEF WriteTransition, HasLock, Promising, Wasting, bounds, IInv, TypeOK
    <2>2. \A v \in Workers : ~Promising(v) /\ ~Wasting(v) /\ ~Promising(v)'
      BY <2>1, OthersReport DEF Promising
    <2>3. \A v \in Workers : v # w => ~Wasting(v)'
      BY <2>1, <2>2, OthersReport
    <2>4. effects <= landed + faults + unaudited
      BY <1>0, <2>2 DEF EffectInv, Promised, Wasted
    <2>a. ASSUME \/ unaudited' = unaudited /\ \A v \in Workers : ~Wasting(v)'
                 \/ unaudited' = unaudited + 1
          PROVE  EffectInv'
      BY <1>0, <2>1, <2>2, <2>4, <2>a DEF EffectInv, Promised, Wasted, counters
    <2>5. CASE UNCHANGED <<aborted, unaudited>>
      <3>1. ~Wasting(w)'
        BY <2>1, <2>5 DEF AbortInv, Wasting
      <3> QED
        BY <2>3, <2>5, <2>a, <3>1
    <2>6. CASE unaudited' = unaudited + 1
      BY <2>6, <2>a
    <2> QED
      BY <1>4, <2>5, <2>6 DEF WriteTransition
  <1>5. ASSUME NEW w \in Workers, Publish(w) PROVE EffectInv'
    <2>1. /\ pc[w] = "publish" /\ HasLock(w) /\ Goto(w, "commit")
          /\ UNCHANGED <<op, aborted, landed, unaudited>>
          /\ op[w] \in Reporting /\ ~Promising(w)
      BY <1>5 DEF Publish, HasLock, Promising, Reporting, IInv, PlaceInv
    <2>2. /\ \A v \in Workers : ~Promising(v) /\ ~Wasting(v)'
          /\ \A v \in Workers : v # w => ~Wasting(v)
      BY <2>1, OthersReport DEF Wasting
    <2>3. (Wasting(w) <=> aborted[w]) /\ (Promising(w)' <=> ~aborted[w])
      BY <2>1, OthersReport DEF Wasting, Promising
    <2>4. /\ Wasted = IF aborted[w] THEN 1 ELSE 0
          /\ Promised' = IF aborted[w] THEN 0 ELSE 1
          /\ Promised = 0 /\ Wasted' = 0
      BY <2>1, <2>2, <2>3, OthersReport DEF Promised, Wasted
    <2>5. effects + (IF aborted[w] THEN 1 ELSE 0) <= landed + faults + unaudited
      BY <1>0, <2>4 DEF EffectInv
    <2>6. \/ effects' = effects + 1 /\ faults' = faults
          \/ effects' = effects /\ faults' = faults + 1
      BY <1>5 DEF Publish, Fault
    <2>7. effects' <= landed + faults' + unaudited + (IF aborted[w] THEN 0 ELSE 1)
      BY <1>0, <2>5, <2>6
    <2>8. effects' \in Nat /\ faults' \in Nat /\ landed' = landed /\ unaudited' = unaudited
      BY <1>0, <2>1, <2>6
    <2> QED
      BY <2>4, <2>7, <2>8 DEF EffectInv
  <1>6. ASSUME NEW w \in Workers, Enqueue(w) PROVE EffectInv'
    <2>1. pc[w] = "enqueue"
      BY <1>6 DEF Enqueue
    <2>2. CASE Rollback(w)
      BY <1>0, <1>6, <2>1, <2>2, RollbackKeepsEffects DEF Enqueue
    <2>3. CASE /\ op[w] = "trigger" /\ effects' = effects + 1 /\ Goto(w, "commit")
               /\ UNCHANGED <<op, aborted, landed, unaudited, faults>>
      <3>1. HasLock(w) /\ ~aborted[w] /\ op[w] \in Reporting
        BY <2>1, <2>3 DEF HasLock, AbortInv, Reporting
      <3>2. /\ Promising(w)' /\ ~Wasting(w)'
            /\ \A v \in Workers : ~Promising(v) /\ ~Wasting(v)
            /\ \A v \in Workers : ~Wasting(v)'
        BY <2>1, <2>3, <3>1, OthersReport DEF Promising, Wasting
      <3> QED
        BY <1>0, <2>3, <3>2 DEF EffectInv, Promised, Wasted
    <2> QED
      BY <1>6, <2>2, <2>3 DEF Enqueue, bounds
  <1>7. ASSUME NEW w \in Workers, Commit(w) PROVE EffectInv'
    <2>1. CASE Rollback(w) /\ Fault
      BY <1>0, <2>1, RollbackKeepsEffects
    <2>2. CASE /\ Close(w) /\ UNCHANGED <<effects, unaudited, faults>>
               /\ \/ ~aborted[w] /\ Landed(w)
                  \/ aborted[w] /\ UNCHANGED landed
      <3>1. /\ pc[w] = "commit" /\ HasLock(w) /\ Goto(w, "idle") /\ op' = op
            /\ \A v \in Workers : v # w => aborted'[v] = aborted[v]
        BY <1>7, <2>2 DEF Commit, HasLock, Close, IInv, TypeOK
      <3>2. /\ \A v \in Workers : ~Promising(v)' /\ ~Wasting(v) /\ ~Wasting(v)'
            /\ \A v \in Workers : v # w => ~Promising(v)
        BY <3>1, OthersReport DEF Promising, Wasting
      <3>3. landed' = IF Promising(w) THEN landed + 1 ELSE landed
        BY <2>2, <3>1 DEF Landed, Promising
      <3> QED
        BY <1>0, <2>2, <3>2, <3>3 DEF EffectInv, Promised, Wasted
    <2> QED
      BY <1>7, <2>1, <2>2 DEF Commit, bounds
  <1>8. CASE Restart
    <2>1. \A v \in Workers : ~Promising(v)' /\ ~Wasting(v)'
      BY <1>8 DEF Restart, Promising, Wasting
    <2>2. faults' = faults + 1 /\ UNCHANGED counters
      BY <1>8 DEF Restart, Fault
    <2> QED
      BY <1>0, <2>1, <2>2 DEF EffectInv, Promised, Wasted, counters
  <1>9. CASE UNCHANGED vars
    <2>1. \A v \in Workers : (Promising(v)' <=> Promising(v)) /\ (Wasting(v)' <=> Wasting(v))
      BY <1>9 DEF vars, requestVars, Promising, Wasting
    <2> QED
      BY <1>9, <2>1 DEF vars, counters, bounds, EffectInv, Promised, Wasted
  <1> QED
    BY <1>1, <1>2, <1>3, <1>4, <1>5, <1>6, <1>7, <1>8, <1>9 DEF Next, Continue

\* ApiInv is inductive.
THEOREM ApiInvInvariant == Spec => []ApiInv
  <1>1. ApiInv /\ [Next]_vars => ApiInv'
    <2> SUFFICES ASSUME ApiInv, [Next]_vars PROVE ApiInv'
      OBVIOUS
    <2>1. IInv'
      BY IInvStep DEF ApiInv
    <2> QED
      BY <2>1, AbortNext, SerialNext, EffectNext DEF ApiInv
  <1> QED
    BY InitEstablishesApiInv, <1>1, PTL DEF Spec

\* Without overlapping requests only an idle agent is ever deleted.
THEOREM DeletedWasIdle == Spec => []SerialDeletedIsIdle
  <1>1. ApiInv => SerialDeletedIsIdle
    BY DEF ApiInv, SerialInv, SerialDeletedIsIdle
  <1> QED
    BY <1>1, ApiInvInvariant, PTL

\* What is told before the commit is made true by it, or something failed: with
\* the lock one request at most is between the two.
THEOREM EffectsAreBacked == Spec => []EffectsBackedByCommit
  <1>1. ASSUME ApiInv PROVE EffectsBackedByCommit
    <2> DEFINE C == {w \in Workers : pc[w] = "commit" /\ op[w] \in Reporting}
    <2>0. /\ faults \in Nat /\ landed \in Nat /\ effects \in Nat /\ unaudited \in Nat
          /\ \A w \in Workers : aborted[w] \in BOOLEAN
      BY <1>1 DEF ApiInv, IInv, TypeOK
    <2>1. \A w \in C : lock = w
      BY <1>1 DEF ApiInv, IInv, LockInv, HasLock
    <2>2. CASE C = {}
      <3>1. \A w \in Workers : ~Promising(w)
        BY <2>2 DEF Promising
      <3>2. Cardinality(C) = 0
        BY <2>2, FS_EmptySet
      <3> QED
        BY <1>1, <2>0, <3>1, <3>2 DEF ApiInv, EffectInv, Promised, Wasted, EffectsBackedByCommit
    <2>3. CASE C # {}
      <3>1. C = {lock}
        BY <2>1, <2>3
      <3>2. Cardinality(C) = 1
        BY <3>1, FS_Singleton
      <3> QED
        BY <1>1, <2>0, <3>2 DEF ApiInv, EffectInv, Promised, Wasted, EffectsBackedByCommit
    <2> QED
      BY <2>2, <2>3
  <1> QED
    BY <1>1, ApiInvInvariant, PTL
=============================================================================
