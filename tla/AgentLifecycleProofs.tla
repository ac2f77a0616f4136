----------------------- MODULE AgentLifecycleProofs -----------------------
(***************************************************************************)
(* AgentLifecycle's audit trail: what it says of the agent however calls   *)
(* interleave and fail, and what it says as long as they do not overlap,   *)
(* for any set of calls and any number of transitions, calls cut short and *)
(* restarts.                                                               *)
(***************************************************************************)
EXTENDS AgentLifecycle, TLAPS

\* A call that is about to write has validated its transition on what it read.
ValidatedInv ==
    \A c \in Calls : pc[c] = "write" => <<seen[c], Target[op[c]]>> \in VALID_TRANSITIONS

\* Nobody calls an agent that does not exist.
AbsentInv == status = "absent" => Quiescent

\* A call that overlaps no other is alone, and what it read is still so.
SerialInv ==
    ~overlapped =>
        /\ \A c, d \in Calls : pc[c] # "idle" /\ pc[d] # "idle" => c = d
        /\ \A c \in Calls : pc[c] = "write" => seen[c] = status

IInv ==
    /\ TypeOK
    /\ ValidatedInv
    /\ AbsentInv
    /\ SerialInv
    /\ LogExplainsStatus
    /\ OnlyValidTransitionsLogged
    /\ SerialLogIsPath

-----------------------------------------------------------------------------
\* Every operation asks for a state of the state machine.
LEMMA TargetIsState == \A o \in Ops : Target[o] \in States
  BY DEF Target, Ops, RunEndings, States

\* No transition of the table leaves TERMINATED.
LEMMA TerminatedHasNoExit == \A s \in States : <<"terminated", s>> \notin VALID_TRANSITIONS
  BY DEF VALID_TRANSITIONS, States

\* The initial state satisfies the invariant.
LEMMA InitEstablishesIInv == Init => IInv
  <1> SUFFICES ASSUME Init PROVE IInv
    OBVIOUS
  <1>1. TypeOK
    <2>1. log \in Seq(LogEntry)
      BY DEF Init
    <2>2. /\ op \in [Calls -> Ops] /\ seen \in [Calls -> States]
          /\ pc \in [Calls -> {"idle", "load", "write", "publish"}]
      BY DEF Init, Ops, States
    <2>3. faults \in 0..MaxFaults /\ restarts \in 0..MaxRestarts
      BY LifecycleBounds DEF Init
    <2> QED
      BY <2>1, <2>2, <2>3 DEF Init, TypeOK
  <1>2. ValidatedInv /\ AbsentInv /\ SerialInv
    BY DEF Init, ValidatedInv, AbsentInv, SerialInv, Quiescent
  <1>3. LogExplainsStatus /\ OnlyValidTransitionsLogged /\ SerialLogIsPath
    BY DEF Init, LogExplainsStatus, OnlyValidTransitionsLogged, SerialLogIsPath
  <1> QED
    BY <1>1, <1>2, <1>3 DEF IInv

\* Each action preserves it.
LEMMA CreateKeepsIInv ==
  ASSUME IInv, Create
  PROVE  IInv'
  <1> USE DEF Create, callVars, histVars
  <1>1. log = <<>> /\ Quiescent
    <2>1. ASSUME log # <<>> PROVE log[Len(log)].to \in States
      <3>1. Len(log) \in 1..Len(log)
        BY <2>1 DEF IInv, TypeOK
      <3>2. log[Len(log)] \in LogEntry
        BY <3>1 DEF IInv, TypeOK
      <3> QED
        BY <3>2 DEF LogEntry
    <2>2. log = <<>>
      BY <2>1 DEF IInv, LogExplainsStatus, States
    <2> QED
      BY <2>2 DEF IInv, AbsentInv
  <1>2. TypeOK'
    BY DEF IInv, TypeOK, States
  <1>3. ValidatedInv' /\ AbsentInv' /\ SerialInv'
    BY <1>1 DEF IInv, ValidatedInv, AbsentInv, SerialInv, Quiescent
  <1>4. LogExplainsStatus' /\ OnlyValidTransitionsLogged' /\ SerialLogIsPath'
    BY <1>1 DEF LogExplainsStatus, OnlyValidTransitionsLogged, SerialLogIsPath
  <1> QED
    BY <1>2, <1>3, <1>4 DEF IInv

LEMMA BeginKeepsIInv ==
  ASSUME IInv, NEW c \in Calls, NEW o \in Ops, Begin(c, o)
  PROVE  IInv'
  <1> USE DEF Begin, Goto
  <1>1. TypeOK'
    <2>1. op' \in [Calls -> Ops] /\ pc' \in [Calls -> {"idle", "load", "write", "publish"}]
      BY DEF IInv, TypeOK
    <2>2. runs' \in Nat
      BY DEF IInv, TypeOK
    <2> QED
      BY <2>1, <2>2 DEF IInv, TypeOK
  <1>2. ValidatedInv'
    BY DEF IInv, TypeOK, ValidatedInv
  <1>3. AbsentInv'
    BY DEF AbsentInv
  <1>4. SerialInv'
    BY DEF IInv, TypeOK, SerialInv, Quiescent
  <1>5. LogExplainsStatus' /\ OnlyValidTransitionsLogged' /\ SerialLogIsPath'
    BY DEF IInv, TypeOK, LogExplainsStatus, OnlyValidTransitionsLogged, SerialLogIsPath
  <1> QED
    BY <1>1, <1>2, <1>3, <1>4, <1>5 DEF IInv

LEMMA LoadKeepsIInv ==
  ASSUME IInv, NEW c \in Calls, Load(c)
  PROVE  IInv'
  <1> USE DEF Load, Goto, histVars
  <1>1. status \in States
    BY DEF IInv, TypeOK, AbsentInv, Quiescent
  <1>2. TypeOK'
    BY <1>1 DEF IInv, TypeOK
  <1>3. ValidatedInv'
    BY <1>1 DEF IInv, TypeOK, ValidatedInv
  <1>4. AbsentInv' /\ SerialInv'
    BY <1>1 DEF IInv, TypeOK, AbsentInv, SerialInv, States
  <1>5. LogExplainsStatus' /\ OnlyValidTransitionsLogged' /\ SerialLogIsPath'
    BY DEF IInv, LogExplainsStatus, OnlyValidTransitionsLogged, SerialLogIsPath
  <1> QED
    BY <1>2, <1>3, <1>4, <1>5 DEF IInv

\* What the transaction writes, and that the rest of the invariant holds of it.
LEMMA TransactKeepsLog ==
  ASSUME IInv, NEW c \in Calls, pc[c] = "write", Transact(c), UNCHANGED overlapped
  PROVE  /\ log' \in Seq(LogEntry) /\ log' # <<>> /\ log'[Len(log')].op = op[c]
         /\ status' = Target[op[c]] /\ status' \in States
         /\ LogExplainsStatus' /\ OnlyValidTransitionsLogged' /\ SerialLogIsPath'
  <1> DEFINE new == [op |-> op[c], from |-> seen[c], to |-> Target[op[c]]]
  <1>1. new \in LogEntry /\ new.to \in States /\ <<new.from, new.to>> \in VALID_TRANSITIONS
    BY TargetIsState DEF IInv, TypeOK, ValidatedInv, LogEntry
  <1>2. status' = Target[op[c]] /\ log' = Append(log, new)
    BY DEF Transact
  <1>3. log \in Seq(LogEntry) /\ Len(log) \in Nat
    BY DEF IInv, TypeOK
  <1>4. /\ Len(log') = Len(log) + 1 /\ log'[Len(log')] = new
        /\ \A k \in 1..Len(log) : log'[k] = log[k]
    BY <1>1, <1>2, <1>3
  <1>5. log' \in Seq(LogEntry) /\ log' # <<>>
    BY <1>1, <1>2, <1>3
  <1>6. LogExplainsStatus'
    BY <1>2, <1>4, <1>5 DEF LogExplainsStatus
  <1>7. OnlyValidTransitionsLogged'
    <2> SUFFICES ASSUME NEW k \in 1..(Len(log) + 1)
                 PROVE  <<log'[k].from, log'[k].to>> \in VALID_TRANSITIONS
      BY <1>4 DEF OnlyValidTransitionsLogged
    <2>1. CASE k = Len(log) + 1
      BY <1>1, <1>4, <2>1
    <2>2. CASE k # Len(log) + 1
      <3>1. k \in 1..Len(log)
        BY <1>3, <2>2
      <3> QED
        BY <1>4, <3>1 DEF IInv, OnlyValidTransitionsLogged
    <2> QED
      BY <2>1, <2>2
  <1>8. SerialLogIsPath'
    <2> SUFFICES ASSUME ~overlapped, NEW k \in 1..Len(log)
                 PROVE  log'[k].to = log'[k + 1].from
      BY <1>3, <1>4 DEF SerialLogIsPath
    <2>1. CASE k = Len(log)
      <3>1. log[k].to = status /\ seen[c] = status
        BY <1>3, <2>1 DEF IInv, LogExplainsStatus, SerialInv
      <3> QED
        BY <1>4, <2>1, <3>1
    <2>2. CASE k < Len(log)
      <3>1. k \in 1..Len(log) /\ k + 1 \in 1..Len(log) /\ k \in 1..(Len(log) - 1)
        BY <1>3, <2>2
      <3>2. log[k].to = log[k + 1].from
        BY <3>1 DEF IInv, SerialLogIsPath
      <3> QED
        BY <1>4, <3>1, <3>2
    <2> QED
      BY <1>3, <2>1, <2>2
  <1> QED
    BY <1>1, <1>2, <1>4, <1>5, <1>6, <1>7, <1>8

LEMMA WriteKeepsIInv ==
  ASSUME IInv, NEW c \in Calls, Write(c)
  PROVE  IInv'
  <1>1. /\ pc[c] = "write" /\ Transact(c) /\ Goto(c, "publish") /\ skipped' = FALSE
        /\ UNCHANGED <<timed, job, runs, op, seen, overlapped, faults, restarts>>
    BY DEF Write
  <1>2. /\ log' \in Seq(LogEntry) /\ status' \in States
        /\ LogExplainsStatus' /\ OnlyValidTransitionsLogged' /\ SerialLogIsPath'
    BY <1>1, TransactKeepsLog
  <1>3. pc' \in [Calls -> {"idle", "load", "write", "publish"}]
    BY <1>1 DEF IInv, TypeOK, Goto
  <1>4. TypeOK'
    BY <1>1, <1>2, <1>3 DEF IInv, TypeOK
  <1>5. ValidatedInv' /\ AbsentInv'
    BY <1>1, <1>2 DEF IInv, TypeOK, ValidatedInv, AbsentInv, Goto, States
  <1>6. SerialInv'
    BY <1>1 DEF IInv, TypeOK, SerialInv, Goto
  <1> QED
    BY <1>2, <1>4, <1>5, <1>6 DEF IInv

LEMMA CutShortKeepsIInv ==
  ASSUME IInv, NEW c \in Calls, CutShort(c)
  PROVE  IInv'
  <1>1. /\ pc[c] # "idle" /\ faults < MaxFaults /\ faults' = faults + 1 /\ Goto(c, "idle")
        /\ UNCHANGED <<timed, job, runs, op, seen, overlapped, restarts>>
    BY DEF CutShort
  <1>2. status \in States
    BY <1>1 DEF IInv, TypeOK, AbsentInv, Quiescent
  <1>3. /\ log' \in Seq(LogEntry) /\ status' \in States /\ skipped' \in BOOLEAN
        /\ LogExplainsStatus' /\ OnlyValidTransitionsLogged' /\ SerialLogIsPath'
    <2>1. CASE pc[c] = "write" /\ Transact(c) /\ skipped' = TRUE
      BY <1>1, <2>1, TransactKeepsLog
    <2>2. CASE UNCHANGED <<status, log>> /\ skipped' = (skipped \/ pc[c] = "publish")
      BY <1>1, <1>2, <2>2
         DEF IInv, TypeOK, LogExplainsStatus, OnlyValidTransitionsLogged, SerialLogIsPath
    <2> QED
      BY <2>1, <2>2 DEF CutShort
  <1>4. TypeOK'
    <2>1. faults' \in 0..MaxFaults
      BY <1>1, LifecycleBounds DEF IInv, TypeOK
    <2>2. pc' \in [Calls -> {"idle", "load", "write", "publish"}]
      BY <1>1 DEF IInv, TypeOK, Goto
    <2> QED
      BY <1>1, <1>3, <2>1, <2>2 DEF IInv, TypeOK
  <1>5. \A d \in Calls : pc'[d] # "idle" => d # c /\ pc'[d] = pc[d]
    BY <1>1 DEF IInv, TypeOK, Goto
  <1>6. ValidatedInv' /\ AbsentInv'
    BY <1>1, <1>3, <1>5 DEF IInv, ValidatedInv, AbsentInv, States
  <1>7. SerialInv'
    BY <1>1, <1>5 DEF IInv, SerialInv
  <1> QED
    BY <1>3, <1>4, <1>6, <1>7 DEF IInv

LEMMA FinishKeepsIInv ==
  ASSUME IInv, NEW c \in Calls, Finish(c)
  PROVE  IInv'
  <1> USE DEF Finish, Goto, histVars
  <1>1. TypeOK'
    <2>1. JobAfter(op[c]) \in BOOLEAN
      BY DEF IInv, TypeOK, JobAfter
    <2>2. runs' \in Nat
      BY DEF IInv, TypeOK
    <2> QED
      BY <2>1, <2>2 DEF IInv, TypeOK
  <1>2. ValidatedInv' /\ AbsentInv' /\ SerialInv'
    BY DEF IInv, TypeOK, ValidatedInv, AbsentInv, SerialInv, Quiescent
  <1>3. LogExplainsStatus' /\ OnlyValidTransitionsLogged' /\ SerialLogIsPath'
    BY DEF IInv, LogExplainsStatus, OnlyValidTransitionsLogged, SerialLogIsPath
  <1> QED
    BY <1>1, <1>2, <1>3 DEF IInv

LEMMA RestartKeepsIInv ==
  ASSUME IInv, Restart
  PROVE  IInv'
  <1> USE DEF Restart
  <1>1. TypeOK'
    <2>1. pc' \in [Calls -> {"idle", "load", "write", "publish"}]
      OBVIOUS
    <2>2. restarts' \in 0..MaxRestarts
      BY LifecycleBounds DEF IInv, TypeOK
    <2> QED
      BY <2>1, <2>2 DEF IInv, TypeOK
  <1>2. ValidatedInv' /\ AbsentInv' /\ SerialInv'
    BY DEF IInv, ValidatedInv, AbsentInv, SerialInv, Quiescent
  <1>3. LogExplainsStatus' /\ OnlyValidTransitionsLogged' /\ SerialLogIsPath'
    BY DEF IInv, LogExplainsStatus, OnlyValidTransitionsLogged, SerialLogIsPath
  <1> QED
    BY <1>1, <1>2, <1>3 DEF IInv

LEMMA StutterKeepsIInv ==
  ASSUME IInv, UNCHANGED vars
  PROVE  IInv'
  BY DEF IInv, TypeOK, ValidatedInv, AbsentInv, SerialInv, Quiescent, LogExplainsStatus,
         OnlyValidTransitionsLogged, SerialLogIsPath, vars, callVars, histVars

LEMMA IInvStep == IInv /\ [Next]_vars => IInv'
  BY CreateKeepsIInv, BeginKeepsIInv, LoadKeepsIInv, WriteKeepsIInv, FinishKeepsIInv,
     CutShortKeepsIInv, RestartKeepsIInv, StutterKeepsIInv
     DEF Next

\* IInv is inductive.
THEOREM IInvInvariant == Spec => []IInv
  BY InitEstablishesIInv, IInvStep, PTL DEF Spec

\* The variables of the lifecycle keep their types.
THEOREM TypeCorrect == Spec => []TypeOK
  BY IInvInvariant, PTL DEF IInv

\* The last transition in agent_transitions leads to the agent's status.
THEOREM AuditTrailIsCurrent == Spec => []LogExplainsStatus
  BY IInvInvariant, PTL DEF IInv

\* agent_transitions never records a transition outside the table.
THEOREM AuditTrailIsLegal == Spec => []OnlyValidTransitionsLogged
  BY IInvInvariant, PTL DEF IInv

\* As long as no two calls overlap the audit trail is a path.
THEOREM SerialAuditTrailIsPath == Spec => []SerialLogIsPath
  BY IInvInvariant, PTL DEF IInv

\* As long as no two calls overlap terminate is permanent.
THEOREM TerminatedIsFinal == Spec => SerialTerminatedIsFinal
  <1>1. ASSUME IInv, Next, status = "terminated", ~overlapped'
        PROVE  status' = "terminated"
    <2>1. ASSUME NEW c \in Calls, pc[c] = "write", Transact(c), UNCHANGED overlapped
          PROVE  FALSE
      <3>1. <<"terminated", Target[op[c]]>> \in VALID_TRANSITIONS
        BY <1>1, <2>1 DEF IInv, ValidatedInv, SerialInv
      <3> QED
        BY <1>1, <3>1, TargetIsState, TerminatedHasNoExit DEF IInv, TypeOK
    <2>2. ASSUME NEW c \in Calls, Write(c) \/ CutShort(c) PROVE status' = "terminated"
      BY <1>1, <2>1, <2>2 DEF Write, CutShort
    <2> QED
      BY <1>1, <2>2 DEF Next, Create, Begin, Load, Finish, Restart
  <1>2. IInv /\ [Next]_vars =>
            [status = "terminated" /\ ~overlapped' => status' = "terminated"]_vars
    BY <1>1 DEF vars
  <1> QED
    BY IInvInvariant, <1>2, PTL DEF Spec, SerialTerminatedIsFinal

-----------------------------------------------------------------------------
(* The scheduler's job and the run in progress *)

\* The states in which a timer may wake the agent.
Wakeable ==
    \/ status \in {"active", "running", "configured"}
    \/ status = "terminated" /\ log[Len(log)].op = "mark_fatal"

\* As long as no calls overlap: terminate has removed the job before anything
\* else; a call about to apply its side effect has just written the status; and
\* a job outlives the states it is for only until the call that left them has
\* applied its own, or when it never did.
TimerInv ==
    ~overlapped =>
        /\ \A c \in Calls : pc[c] # "idle" /\ op[c] = "terminate" => ~job
        /\ \A c \in Calls : pc[c] = "publish" => status = Target[op[c]]
        /\ job => \/ Wakeable \/ skipped
                  \/ \E c \in Calls : pc[c] = "publish" /\ op[c] \in {"pause", "mark_error"}

\* As long as no calls overlap and none is cut short, a RUNNING agent has its run,
\* or the call that starts or ends it is under way.
HasRunInv ==
    status = "running" /\ ~overlapped /\ restarts = 0 /\ faults = 0 =>
        \/ runs > 0
        \/ \E c \in Calls : pc[c] = "publish" /\ op[c] = "mark_running"
        \/ \E c \in Calls : pc[c] \in {"load", "write"} /\ op[c] \in RunEndings

LifeInv == IInv /\ TimerInv /\ HasRunInv

\* What each operation asks for, against the states a timer is for.
LEMMA TargetFacts ==
  ASSUME NEW o \in Ops
  PROVE  /\ Target[o] = "running" <=> o = "mark_running"
         /\ o \in {"activate", "resume"} => Target[o] = "active"
         /\ o \notin {"pause", "mark_error", "terminate", "mark_fatal"}
               => Target[o] \in {"active", "running", "configured"}
         /\ o = "mark_fatal" => Target[o] = "terminated"
  BY DEF Target, Ops, RunEndings

LEMMA TimerInit == Init => TimerInv /\ HasRunInv
  BY DEF Init, TimerInv, HasRunInv

\* A step that writes no status and applies no side effect.
LEMMA QuietKeepsTimer ==
  ASSUME TimerInv, UNCHANGED <<status, log, overlapped>>, job' => job, skipped => skipped',
         \A c \in Calls : pc'[c] # "idle" => pc[c] # "idle" /\ op'[c] = op[c],
         \A c \in Calls : pc[c] = "publish" => pc'[c] = "publish" /\ op'[c] = op[c],
         \A c \in Calls : pc'[c] = "publish" => pc[c] = "publish"
  PROVE  TimerInv'
  BY DEF TimerInv, Wakeable

\* While no calls overlap the others are idle.
LEMMA OthersIdle ==
  ASSUME IInv, ~overlapped, NEW c \in Calls, pc[c] # "idle", NEW label, Goto(c, label)
  PROVE  pc'[c] = label /\ \A d \in Calls : d # c => pc[d] = "idle" /\ pc'[d] = "idle"
  BY DEF IInv, SerialInv, TypeOK, Goto

LEMMA WriteKeepsTimer ==
  ASSUME IInv, TimerInv, NEW c \in Calls, Write(c)
  PROVE  TimerInv'
  <1> SUFFICES ASSUME ~overlapped' PROVE TimerInv'
    BY DEF TimerInv
  <1>1. /\ pc[c] = "write" /\ op[c] \in Ops /\ ~overlapped /\ Transact(c)
        /\ Goto(c, "publish") /\ UNCHANGED <<job, op, overlapped>>
    BY DEF Write, IInv, TypeOK
  <1>2. pc'[c] = "publish" /\ \A d \in Calls : d # c => pc[d] = "idle" /\ pc'[d] = "idle"
    BY <1>1, OthersIdle
  <1>3. log'[Len(log')].op = op[c] /\ status' = Target[op[c]]
    BY <1>1, TransactKeepsLog
  <1>4. op[c] = "terminate" => ~job
    BY <1>1 DEF TimerInv
  <1>5. op[c] \in {"pause", "mark_error"} \/ op[c] = "terminate" \/ Wakeable'
    BY <1>1, <1>3, TargetFacts DEF Wakeable
  <1> QED
    BY <1>1, <1>2, <1>3, <1>4, <1>5 DEF TimerInv

LEMMA CutShortKeepsTimer ==
  ASSUME IInv, TimerInv, NEW c \in Calls, CutShort(c)
  PROVE  TimerInv'
  <1> SUFFICES ASSUME ~overlapped' PROVE TimerInv'
    BY DEF TimerInv
  <1>1. pc[c] # "idle" /\ ~overlapped /\ Goto(c, "idle") /\ UNCHANGED <<job, op>>
    BY DEF CutShort
  <1>2. \A d \in Calls : pc'[d] = "idle" /\ (pc[d] = "publish" => d = c)
    BY <1>1, OthersIdle
  <1>3. CASE skipped'
    BY <1>2, <1>3 DEF TimerInv
  <1>4. CASE ~skipped'
    <2>1. UNCHANGED <<status, log>> /\ ~skipped /\ pc[c] # "publish"
      BY <1>4 DEF CutShort
    <2> QED
      BY <1>1, <1>2, <2>1 DEF TimerInv, Wakeable
  <1> QED
    BY <1>3, <1>4

LEMMA FinishKeepsTimer ==
  ASSUME IInv, TimerInv, NEW c \in Calls, Finish(c)
  PROVE  TimerInv'
  <1> SUFFICES ASSUME ~overlapped' PROVE TimerInv'
    BY DEF TimerInv
  <1>0. /\ pc[c] = "publish" /\ op[c] \in Ops /\ ~overlapped /\ Goto(c, "idle")
        /\ UNCHANGED <<status, log, op, skipped>> /\ job' = JobAfter(op[c])
    BY DEF Finish, IInv, TypeOK, histVars
  <1>1. \A d \in Calls : pc'[d] = "idle" /\ (pc[d] = "publish" => d = c)
    BY <1>0, OthersIdle
  <1>2. Wakeable' <=> Wakeable
    BY <1>0 DEF Wakeable
  <1>3. job' => Wakeable \/ skipped
    <2>1. CASE op[c] \in {"activate", "resume"}
      <3>1. status = "active"
        BY <1>0, <2>1, TargetFacts DEF TimerInv
      <3> QED
        BY <3>1 DEF Wakeable
    <2>2. CASE op[c] \in {"pause", "mark_error"}
      BY <1>0, <2>2 DEF JobAfter
    <2>3. CASE op[c] \notin {"activate", "resume", "pause", "mark_error"}
      <3>1. job' = job
        BY <1>0, <2>3 DEF JobAfter
      <3> QED
        BY <1>0, <1>1, <2>3, <3>1 DEF TimerInv
    <2> QED
      BY <2>1, <2>2, <2>3
  <1> QED
    BY <1>0, <1>1, <1>2, <1>3 DEF TimerInv

LEMMA TimerNext ==
  ASSUME IInv, TimerInv, [Next]_vars
  PROVE  TimerInv'
  <1>1. CASE Create
    <2>1. ~overlapped => (job => skipped)
      BY <1>1 DEF Create, IInv, AbsentInv, Quiescent, TimerInv, Wakeable
    <2>2. Quiescent
      BY <1>1 DEF Create, IInv, AbsentInv
    <2> QED
      BY <1>1, <2>1, <2>2 DEF Create, TimerInv, Quiescent, callVars, histVars
  <1>2. ASSUME NEW c \in Calls, NEW o \in Ops, Begin(c, o) PROVE TimerInv'
    <2> SUFFICES ASSUME ~overlapped' PROVE TimerInv'
      BY DEF TimerInv
    <2>1. ~overlapped /\ \A d \in Calls : pc[d] = "idle"
      BY <1>2 DEF Begin, Quiescent, IInv, TypeOK
    <2>2. /\ pc'[c] = "load" /\ op'[c] = o
          /\ \A d \in Calls : d # c => pc'[d] = "idle"
      BY <1>2, <2>1 DEF Begin, Goto, IInv, TypeOK
    <2>3. job' = (job /\ o # "terminate") /\ UNCHANGED <<status, log, skipped>>
      BY <1>2 DEF Begin
    <2> QED
      BY <2>1, <2>2, <2>3 DEF TimerInv, Wakeable
  <1>3. ASSUME NEW c \in Calls, Load(c) PROVE TimerInv'
    <2>1. /\ \A d \in Calls : pc'[d] # "idle" => pc[d] # "idle"
          /\ \A d \in Calls : pc[d] = "publish" <=> pc'[d] = "publish"
          /\ UNCHANGED <<status, log, overlapped, skipped, job, op>>
      BY <1>3 DEF Load, Goto, IInv, TypeOK, histVars
    <2> QED
      BY <2>1, QuietKeepsTimer
  <1>4. CASE Restart
    BY <1>4 DEF Restart, TimerInv
  <1>5. CASE UNCHANGED vars
    BY <1>5, QuietKeepsTimer DEF vars, callVars, histVars
  <1> QED
    BY <1>1, <1>2, <1>3, <1>4, <1>5, WriteKeepsTimer, CutShortKeepsTimer, FinishKeepsTimer
       DEF Next

LEMMA HasRunNext ==
  ASSUME IInv, TimerInv, HasRunInv, [Next]_vars
  PROVE  HasRunInv'
  <1>0. runs \in Nat /\ restarts \in Nat /\ faults \in Nat
    BY LifecycleBounds DEF IInv, TypeOK
  <1> SUFFICES ASSUME status' = "running", ~overlapped', restarts' = 0, faults' = 0
               PROVE  \/ runs' > 0
                      \/ \E c \in Calls : pc'[c] = "publish" /\ op'[c] = "mark_running"
                      \/ \E c \in Calls : pc'[c] \in {"load", "write"} /\ op'[c] \in RunEndings
    BY DEF HasRunInv
  <1> DEFINE Goal == \/ runs' > 0
                     \/ \E c \in Calls : pc'[c] = "publish" /\ op'[c] = "mark_running"
                     \/ \E c \in Calls : pc'[c] \in {"load", "write"} /\ op'[c] \in RunEndings
  <1>1. CASE Create
    BY <1>1 DEF Create
  <1>2. ASSUME NEW c \in Calls, NEW o \in Ops, Begin(c, o) PROVE Goal
    <2>1. /\ ~overlapped /\ \A d \in Calls : pc[d] = "idle"
          /\ status = "running" /\ restarts = 0 /\ faults = 0
      BY <1>2 DEF Begin, Quiescent, IInv, TypeOK
    <2>2. runs > 0
      BY <2>1 DEF HasRunInv
    <2>3. pc'[c] = "load" /\ op'[c] = o
      BY <1>2 DEF Begin, Goto, IInv, TypeOK
    <2> QED
      BY <1>2, <2>2, <2>3 DEF Begin
  <1>3. ASSUME NEW c \in Calls, Load(c) PROVE Goal
    <2>1. /\ pc[c] = "load" /\ UNCHANGED <<status, runs, op, overlapped, restarts, faults>>
          /\ Goto(c, IF <<status, Target[op[c]]>> \in VALID_TRANSITIONS THEN "write" ELSE "idle")
      BY <1>3 DEF Load, histVars
    <2>2. op[c] \in RunEndings => <<status, Target[op[c]]>> \in VALID_TRANSITIONS
      BY <2>1 DEF RunEndings, Ops, Target, VALID_TRANSITIONS
    <2>3. /\ op[c] \in RunEndings => pc'[c] = "write"
          /\ \A d \in Calls : d # c => pc'[d] = pc[d]
      BY <2>1, <2>2 DEF Goto, IInv, TypeOK
    <2> QED
      BY <2>1, <2>3 DEF HasRunInv
  <1>4. ASSUME NEW c \in Calls, Write(c) PROVE Goal
    <2>1. UNCHANGED <<op, runs>> /\ op[c] \in Ops
      BY <1>4 DEF Write, IInv, TypeOK
    <2>2. status' = Target[op[c]] /\ Goto(c, "publish")
      BY <1>4 DEF Write, Transact
    <2>3. op[c] = "mark_running" /\ pc'[c] = "publish"
      BY <2>1, <2>2, TargetFacts DEF Goto, IInv, TypeOK
    <2> QED
      BY <2>1, <2>3
  <1>5. ASSUME NEW c \in Calls, Finish(c) PROVE Goal
    <2>1. /\ pc[c] = "publish" /\ op[c] \in Ops /\ Goto(c, "idle")
          /\ UNCHANGED <<status, op, overlapped, restarts, faults>>
          /\ runs' = IF op[c] = "mark_running" THEN runs + 1 ELSE runs
      BY <1>5 DEF Finish, IInv, TypeOK, histVars
    <2>2. \A d \in Calls : d # c => pc[d] = "idle"
      BY <2>1, OthersIdle
    <2> QED
      BY <1>0, <2>1, <2>2 DEF HasRunInv
  <1>6. CASE Restart
    BY <1>0, <1>6 DEF Restart
  <1>7. ASSUME NEW c \in Calls, CutShort(c) PROVE Goal
    BY <1>0, <1>7 DEF CutShort
  <1>8. CASE UNCHANGED vars
    BY <1>8 DEF vars, callVars, histVars, HasRunInv
  <1> QED
    BY <1>1, <1>2, <1>3, <1>4, <1>5, <1>6, <1>7, <1>8 DEF Next

\* LifeInv is inductive.
THEOREM LifeInvInvariant == Spec => []LifeInv
  <1>1. LifeInv /\ [Next]_vars => LifeInv'
    BY IInvStep, TimerNext, HasRunNext DEF LifeInv
  <1>2. Init => LifeInv
    BY InitEstablishesIInv, TimerInit DEF LifeInv
  <1> QED
    BY <1>1, <1>2, PTL DEF Spec

\* As long as no two calls overlap no timer wakes an agent that is paused, in
\* error or terminated, except after a fatal run error or when the call that took
\* it there was cut short before its side effect.
THEOREM TimerFollowsStatus == Spec => []SerialTimerFollowsStatus
  <1>1. LifeInv => SerialTimerFollowsStatus
    BY DEF LifeInv, TimerInv, Wakeable, SerialTimerFollowsStatus, Quiescent
  <1> QED
    BY <1>1, LifeInvInvariant, PTL

\* As long as no two calls overlap, none is cut short and the service is
\* not restarted, a RUNNING agent has a run.
THEOREM RunningHasRun == Spec => []SerialRunningHasRun
  <1>1. LifeInv => SerialRunningHasRun
    BY DEF LifeInv, HasRunInv, SerialRunningHasRun, Quiescent
  <1> QED
    BY <1>1, LifeInvInvariant, PTL
=============================================================================
