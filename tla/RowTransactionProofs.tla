------------------------ MODULE RowTransactionProofs ------------------------
(***************************************************************************)
(* Requests on one row: decisions on an approval and updates of a task, for*)
(* any number of them.  The two specifications share the transactions of   *)
(* RowTransaction, and so do the two halves of this module.                *)
(***************************************************************************)
EXTENDS Approvals, Tasks, FiniteSetTheorems, TLAPS

-----------------------------------------------------------------------------
(* Transactions *)

\* What the history variable means: until requests overlap, one is alone.
AloneInv == ~overlapped => \A r, q \in Requests : Busy(r) /\ Busy(q) => r = q

\* A request is alone when it begins without an overlap and stays so until it
\* is over.
LEMMA BeginKeepsAlone ==
  ASSUME AloneInv, pc \in [Requests -> PC], overlapped \in BOOLEAN,
         NEW r \in Requests, Begin(r)
  PROVE  AloneInv' /\ (~overlapped' => ~overlapped /\ \A q \in Requests : ~Busy(q))
<1>1. ~overlapped' => ~overlapped /\ \A q \in Requests : ~Busy(q)
  BY DEF Begin, Busy
<1>2. \A q \in Requests : q # r => pc'[q] = pc[q]
  BY DEF Begin, Goto
<1> QED BY <1>1, <1>2 DEF AloneInv, Busy

LEMMA StepKeepsAlone ==
  ASSUME AloneInv, pc \in [Requests -> PC],
         NEW r \in Requests, Busy(r), NEW label, Goto(r, label), overlapped' = overlapped
  PROVE  AloneInv'
<1>1. \A q \in Requests : q # r => pc'[q] = pc[q]
  BY DEF Goto
<1> QED BY <1>1 DEF AloneInv, Busy

\* The requests that took effect: a step that is no COMMIT leaves them alone, and
\* a COMMIT adds one.
LEMMA LandedStep ==
  ASSUME pc \in [Requests -> PC], NEW r \in Requests, pc[r] # "committed",
         NEW label, Goto(r, label)
  PROVE  Landed' = IF label = "committed" THEN Landed \cup {r} ELSE Landed
  BY DEF Landed, Goto

-----------------------------------------------------------------------------
(* Approvals *)

\* The transaction of a request at its commit holds the row lock, and its draft
\* is that request's decision.
DraftInv ==
    \A r \in Requests : pc[r] = "commit" =>
        /\ lock = r
        /\ draft.decided_by = r
        /\ draft.status = verdict[r]

ApprovalIInv == ApprovalTypeOK /\ DraftInv /\ DecisionIsWhole

-----------------------------------------------------------------------------
LEMMA ApprovalInitIInv == ApprovalInit => ApprovalIInv
<1> SUFFICES ASSUME ApprovalInit PROVE ApprovalIInv
  OBVIOUS
<1>1. Pending \in Approval
  BY DEF Pending, Approval
<1>2. ApprovalTypeOK
  BY <1>1 DEF ApprovalInit, TxInit, ApprovalTypeOK, TxTypeOK, PC, Over
<1>3. DraftInv /\ DecisionIsWhole
  BY DEF ApprovalInit, TxInit, DraftInv, DecisionIsWhole
<1> QED BY <1>2, <1>3 DEF ApprovalIInv

\* A decision is a row, and it names the request it comes from.
LEMMA DecidedFacts ==
  ASSUME ApprovalTypeOK, NEW r \in Requests
  PROVE  /\ Decided(r, row) \in Approval
         /\ Decided(r, row).decided_by = r
         /\ Decided(r, row).status = verdict[r]
  BY DEF ApprovalTypeOK, TxTypeOK, Approval, Decided

\* A step that moves neither the row nor a draft keeps what has landed.
LEMMA NoWriteKeepsApproval ==
  ASSUME ApprovalIInv, NEW r \in Requests, NEW label \in PC, label # "commit", pc[r] # "committed",
         Goto(r, label), UNCHANGED <<row, draft, verdict, noted>>,
         lock' = lock \/ Release(r),
         seen' \in [Requests -> Approval], overlapped' \in BOOLEAN
  PROVE  ApprovalIInv'
<1> USE RequestAssumption DEF ApprovalIInv, Goto
<1>1. ApprovalTypeOK'
  BY DEF ApprovalTypeOK, TxTypeOK, Release
<1>2. DraftInv'
  BY DEF ApprovalTypeOK, TxTypeOK, DraftInv, Release
<1>3. DecisionIsWhole'
  BY DEF ApprovalTypeOK, TxTypeOK, DecisionIsWhole, Landed, Pending
<1> QED BY <1>1, <1>2, <1>3

LEMMA FlushKeepsApproval ==
  ASSUME ApprovalIInv, NEW r \in Requests, Flush(r, Decided(r, row)), UNCHANGED <<verdict, noted>>
  PROVE  ApprovalIInv'
<1> USE RequestAssumption DEF ApprovalIInv, Flush, Goto
<1>1. /\ draft' \in Approval
      /\ draft'.decided_by = r
      /\ draft'.status = verdict[r]
  BY DecidedFacts
<1>2. ApprovalTypeOK'
  BY <1>1 DEF ApprovalTypeOK, TxTypeOK, PC, Over
<1>3. DraftInv'
  BY <1>1 DEF ApprovalTypeOK, TxTypeOK, DraftInv
<1>4. DecisionIsWhole'
  BY DEF ApprovalTypeOK, TxTypeOK, DecisionIsWhole, Landed, Pending
<1> QED BY <1>2, <1>3, <1>4

LEMMA CommitKeepsApproval ==
  ASSUME ApprovalIInv, NEW r \in Requests, Commit(r), UNCHANGED <<verdict, noted>>
  PROVE  ApprovalIInv'
<1> USE RequestAssumption DEF ApprovalIInv, Commit, Goto
<1>1. ApprovalTypeOK'
  BY DEF ApprovalTypeOK, TxTypeOK, PC, Over, Release
<1>2. \A q \in Requests \ {r} : pc[q] # "commit"
  BY DEF DraftInv
<1>3. DraftInv'
  BY <1>2 DEF ApprovalTypeOK, TxTypeOK, DraftInv
<1>4. pc'[r] = "committed" /\ row'.decided_by = r /\ row'.status = verdict[r]
  BY DEF ApprovalTypeOK, TxTypeOK, DraftInv
<1>5. DecisionIsWhole'
  BY <1>4 DEF DecisionIsWhole, Landed
<1> QED BY <1>1, <1>3, <1>5

LEMMA NextKeepsApproval == ApprovalIInv /\ [ApprovalNext]_approvalVars => ApprovalIInv'
<1> SUFFICES ASSUME ApprovalIInv, [ApprovalNext]_approvalVars PROVE ApprovalIInv'
  OBVIOUS
<1>1. CASE UNCHANGED approvalVars
  BY <1>1 DEF approvalVars, txVars, ApprovalIInv, ApprovalTypeOK, TxTypeOK, DraftInv, DecisionIsWhole, Landed
<1>2. ASSUME NEW r \in Requests, Begin(r), UNCHANGED <<verdict, noted>>
      PROVE  ApprovalIInv'
  <2>1. "read" \in PC /\ pc[r] # "committed"
    BY <1>2 DEF PC, Over, Begin
  <2>2. seen' \in [Requests -> Approval] /\ overlapped' \in BOOLEAN
    BY <1>2 DEF ApprovalIInv, ApprovalTypeOK, TxTypeOK, Begin
  <2> QED BY <1>2, <2>1, <2>2, NoWriteKeepsApproval DEF Begin
<1>3. ASSUME NEW r \in Requests, Read(r, RequirePending(row)), UNCHANGED <<verdict, noted>>
      PROVE  ApprovalIInv'
  <2>1. {"flush", "refused"} \subseteq PC /\ pc[r] # "committed"
    BY <1>3 DEF PC, Over, Read
  <2>2. seen' \in [Requests -> Approval] /\ overlapped' \in BOOLEAN
    BY <1>3 DEF ApprovalIInv, ApprovalTypeOK, TxTypeOK, Read
  <2>3. UNCHANGED <<row, draft, verdict, noted>> /\ lock' = lock
    BY <1>3 DEF Read
  <2>4. CASE Goto(r, "flush")
    BY <2>1, <2>2, <2>3, <2>4, NoWriteKeepsApproval
  <2>5. CASE Goto(r, "refused")
    BY <2>1, <2>2, <2>3, <2>5, NoWriteKeepsApproval
  <2> QED BY <1>3, <2>4, <2>5 DEF Read
<1>4. ASSUME NEW r \in Requests, Fail(r), UNCHANGED <<verdict, noted>>
      PROVE  ApprovalIInv'
  <2>1. "undone" \in PC /\ pc[r] # "committed"
    BY <1>4 DEF PC, Over, Fail, Busy
  <2>2. seen' \in [Requests -> Approval] /\ overlapped' \in BOOLEAN
    BY <1>4 DEF ApprovalIInv, ApprovalTypeOK, TxTypeOK, Fail
  <2> QED BY <1>4, <2>1, <2>2, NoWriteKeepsApproval DEF Fail
<1>5. ASSUME NEW r \in Requests, Decide(r)
      PROVE  ApprovalIInv'
  BY <1>5, <1>3, FlushKeepsApproval, CommitKeepsApproval DEF Decide
<1> QED
  BY <1>1, <1>2, <1>4, <1>5 DEF ApprovalNext

-----------------------------------------------------------------------------
\* The inductive invariant holds in every behaviour of the approvals API.
THEOREM ApprovalIInvInvariant == ApprovalSpec => []ApprovalIInv
  BY ApprovalInitIInv, NextKeepsApproval, PTL DEF ApprovalSpec

\* Type correctness for any number of requests.
THEOREM ApprovalTypeCorrect == ApprovalSpec => []ApprovalTypeOK
<1>1. ApprovalIInv => ApprovalTypeOK
  BY DEF ApprovalIInv
<1> QED BY <1>1, ApprovalIInvInvariant, PTL

\* However approve and deny overlap and fail, the committed approval is the
\* decision of one request that took effect.
THEOREM WholeDecision == ApprovalSpec => []DecisionIsWhole
<1>1. ApprovalIInv => DecisionIsWhole
  BY DEF ApprovalIInv
<1> QED BY <1>1, ApprovalIInvInvariant, PTL


\* Until requests overlap: a pending row is as it was created and no request has
\* landed; a request past its check found it so, and its draft has a note of
\* its own or none.
OneDecision ==
    ~overlapped =>
        /\ row.status = "pending" => row = Pending /\ Landed = {}
        /\ \A r \in Requests : pc[r] \in {"flush", "commit"} => row = Pending
        /\ \A r \in Requests : pc[r] = "commit" => draft.decision_note \in {NoRequest, r}
        /\ \A r, q \in Landed : r = q
        /\ row.decision_note \in {NoRequest, row.decided_by}

ApprovalSerialInv == ApprovalIInv /\ AloneInv /\ OneDecision

LEMMA ApprovalInitSerial == ApprovalInit => AloneInv /\ OneDecision
  BY DEF ApprovalInit, TxInit, AloneInv, Busy, OneDecision, Landed, Pending

\* A step that leaves the committed row as it is and is not past the check.
LEMMA NoWriteKeepsOneDecision ==
  ASSUME ApprovalSerialInv, NEW r \in Requests, NEW label \in {"read", "refused", "undone"},
         pc[r] # "committed", Goto(r, label), UNCHANGED <<row, draft>>, ~overlapped' => ~overlapped
  PROVE  OneDecision'
<1>1. Landed' = Landed
  BY LandedStep DEF ApprovalSerialInv, ApprovalIInv, ApprovalTypeOK, TxTypeOK
<1>2. \A q \in Requests : pc'[q] \in {"flush", "commit"} => pc'[q] = pc[q]
  BY DEF Goto, ApprovalSerialInv, ApprovalIInv, ApprovalTypeOK, TxTypeOK
<1> QED BY <1>1, <1>2 DEF ApprovalSerialInv, OneDecision

LEMMA ApprovalNextSerial ==
  ASSUME ApprovalSerialInv, [ApprovalNext]_approvalVars
  PROVE  AloneInv' /\ OneDecision'
<1> USE DEF ApprovalSerialInv
<1>0. /\ pc \in [Requests -> PC] /\ overlapped \in BOOLEAN
      /\ noted \in [Requests -> BOOLEAN] /\ row \in Approval
  BY DEF ApprovalIInv, ApprovalTypeOK, TxTypeOK
<1>1. CASE UNCHANGED approvalVars
  BY <1>1 DEF approvalVars, txVars, AloneInv, Busy, OneDecision, Landed
<1>2. ASSUME NEW r \in Requests, Begin(r), UNCHANGED <<verdict, noted>>
      PROVE  AloneInv' /\ OneDecision'
  <2>1. AloneInv' /\ (~overlapped' => ~overlapped)
    BY <1>0, <1>2, BeginKeepsAlone
  <2> QED BY <1>2, <2>1, NoWriteKeepsOneDecision DEF Begin
<1>3. ASSUME NEW r \in Requests, Fail(r), UNCHANGED <<verdict, noted>>
      PROVE  AloneInv' /\ OneDecision'
  <2>1. AloneInv'
    BY <1>0, <1>3, StepKeepsAlone DEF Fail
  <2>2. pc[r] # "committed"
    BY <1>3 DEF Fail, Busy
  <2> QED BY <1>3, <2>1, <2>2, NoWriteKeepsOneDecision DEF Fail
<1>4. ASSUME NEW r \in Requests, Read(r, RequirePending(row)), UNCHANGED <<verdict, noted>>
      PROVE  AloneInv' /\ OneDecision'
  <2>1. PICK label \in {"flush", "refused"} :
            Goto(r, label) /\ (label = "flush" <=> row.status = "pending")
    BY <1>4 DEF Read, RequirePending
  <2>2. AloneInv'
    BY <1>0, <1>4, <2>1, StepKeepsAlone DEF Read, Busy
  <2>3. CASE label = "refused"
    BY <1>4, <2>1, <2>2, <2>3, NoWriteKeepsOneDecision DEF Read
  <2>4. CASE label = "flush"
    <3>1. Landed' = Landed
      BY <1>0, <1>4, <2>1, <2>4, LandedStep DEF Read
    <3>2. \A q \in Requests : q # r => pc'[q] = pc[q]
      BY <2>1 DEF Goto
    <3>3. pc'[r] = "flush"
      BY <1>0, <2>1, <2>4 DEF Goto
    <3> QED BY <1>4, <2>1, <2>2, <2>4, <3>1, <3>2, <3>3 DEF Read, OneDecision
  <2> QED BY <2>3, <2>4
<1>5. ASSUME NEW r \in Requests, Flush(r, Decided(r, row)), UNCHANGED <<verdict, noted>>
      PROVE  AloneInv' /\ OneDecision'
  <2>1. AloneInv'
    BY <1>0, <1>5, StepKeepsAlone DEF Flush, Busy
  <2>2. Landed' = Landed
    BY <1>0, <1>5, LandedStep DEF Flush
  <2>3. \A q \in Requests : q # r => pc'[q] = pc[q]
    BY <1>5 DEF Flush, Goto
  <2>4. ~overlapped => \A q \in Requests : pc'[q] = "commit" => q = r
    BY <1>5, <2>3 DEF Flush, AloneInv, Busy
  <2>5. ~overlapped => draft'.decision_note \in {NoRequest, r}
    BY <1>5 DEF Flush, Decided, OneDecision, Pending
  <2> QED BY <1>5, <2>1, <2>2, <2>3, <2>4, <2>5 DEF Flush, OneDecision
<1>6. ASSUME NEW r \in Requests, Commit(r), UNCHANGED <<verdict, noted>>
      PROVE  AloneInv' /\ OneDecision'
  <2>1. AloneInv'
    BY <1>0, <1>6, StepKeepsAlone DEF Commit, Busy
  <2>2. Landed' = Landed \cup {r}
    BY <1>0, <1>6, LandedStep DEF Commit
  <2>3. \A q \in Requests : q # r => pc'[q] = pc[q]
    BY <1>6 DEF Commit, Goto
  <2>4. pc'[r] = "committed"
    BY <1>0, <1>6 DEF Commit, Goto
  <2>5. ~overlapped => \A q \in Requests : pc'[q] \notin {"flush", "commit"}
    BY <1>6, <2>3, <2>4 DEF Commit, AloneInv, Busy
  <2>6. row' = draft /\ draft.decided_by = r /\ draft.status \in Verdicts
    BY <1>6 DEF Commit, ApprovalIInv, ApprovalTypeOK, DraftInv
  <2>7. ~overlapped => Landed = {} /\ draft.decision_note \in {NoRequest, r}
    BY <1>6 DEF Commit, OneDecision, Pending
  <2> QED BY <1>6, <2>1, <2>2, <2>5, <2>6, <2>7 DEF Commit, OneDecision, Verdicts
<1> QED
  BY <1>1, <1>2, <1>3, <1>4, <1>5, <1>6 DEF ApprovalNext, Decide

\* Until decisions overlap, the approval is decided at most once and keeps the
\* note of the reviewer that it names.
THEOREM DecidedOnce == ApprovalSpec => []SerialDecidedOnce
<1>1. ApprovalSerialInv => SerialDecidedOnce
  <2> SUFFICES ASSUME ApprovalSerialInv, ~overlapped PROVE Cardinality(Landed) <= 1
    BY DEF SerialDecidedOnce, ApprovalSerialInv, OneDecision
  <2>1. Landed = {} \/ \E r : Landed = {r}
    BY DEF ApprovalSerialInv, OneDecision
  <2>2. Cardinality(Landed) \in {0, 1}
    BY <2>1, FS_EmptySet, FS_Singleton, Zenon
  <2> QED BY <2>2
<1>2. ApprovalInit => ApprovalSerialInv
  BY ApprovalInitIInv, ApprovalInitSerial DEF ApprovalSerialInv
<1>3. ApprovalSerialInv /\ [ApprovalNext]_approvalVars => ApprovalSerialInv'
  BY NextKeepsApproval, ApprovalNextSerial DEF ApprovalSerialInv
<1> QED BY <1>1, <1>2, <1>3, PTL DEF ApprovalSpec

-----------------------------------------------------------------------------
(* Tasks *)

Backed(t) ==
    /\ t.status = "in_progress" => t.started
    /\ t.status \in Finished => t.completed

\* The timestamps that t has, u has too.
Keeps(t, u) ==
    /\ t.started => u.started
    /\ t.completed => u.completed

\* What a request read was backed, and none of its timestamps has gone since; a
\* draft goes on from the committed row.
HistoryInv ==
    /\ \A r \in Requests : Backed(seen[r]) /\ Keeps(seen[r], row)
    /\ \A r \in Requests : pc[r] = "commit" => lock = r
    /\ lock # NoRequest => Backed(draft) /\ Keeps(row, draft)

TaskIInv == TaskTypeOK /\ HistoryInv /\ Backed(row)

-----------------------------------------------------------------------------
\* An UPDATE of a backed row, made from an earlier backed row, is backed: a
\* status that it does not write is either not asked for or was read with its
\* timestamp.
LEMMA TransitionFacts ==
  ASSUME NEW b \in Body, NEW old \in Task, NEW base \in Task,
         Backed(old), Backed(base), Keeps(old, base)
  PROVE  /\ Transition(b, old, base) \in Task
         /\ Backed(Transition(b, old, base))
         /\ Keeps(base, Transition(b, old, base))
<1> DEFINE t == Transition(b, old, base)
<1>1. b.status \in Statuses \cup {"keep"}
  BY DEF Body
<1>2. t = [base EXCEPT !.status = t.status, !.started = t.started, !.completed = t.completed]
  BY DEF Transition, Task
<1>3. /\ t.status = IF b.status = "keep" THEN base.status
                    ELSE IF b.status = old.status THEN base.status ELSE b.status
      /\ t.started = (base.started \/ b.status = "in_progress")
      /\ t.completed = (base.completed \/ b.status \in Finished)
  BY DEF Transition, Column, Task
<1>4. t.status \in Statuses /\ t.started \in BOOLEAN /\ t.completed \in BOOLEAN
  BY <1>1, <1>3 DEF Task
<1>5. t \in Task
  BY <1>2, <1>4 DEF Task
<1>6. Backed(t) /\ Keeps(base, t)
  BY <1>3 DEF Backed, Keeps, Task
<1> QED BY <1>5, <1>6

LEMMA AssignedFacts ==
  ASSUME NEW b \in Body, NEW old \in Task, NEW base \in Task
  PROVE  /\ Assigned(b, old, base) \in Task
         /\ Backed(base) => Backed(Assigned(b, old, base))
         /\ Keeps(base, Assigned(b, old, base))
<1>1. /\ b.assigned_to \in Assignees \cup {"keep"}
      /\ b.assigned_type \in Types
  BY DEF Body
<1> QED BY <1>1 DEF Assigned, Column, Task, Backed, Keeps

LEMMA UpdatedFacts ==
  ASSUME TaskIInv, NEW r \in Requests
  PROVE  /\ Updated(r, row) \in Task
         /\ Backed(Updated(r, row))
         /\ Keeps(row, Updated(r, row))
<1>1. /\ body[r] \in Body /\ seen[r] \in Task /\ row \in Task
      /\ Backed(seen[r]) /\ Keeps(seen[r], row) /\ Backed(row)
  BY TaskAssumption DEF TaskIInv, TaskTypeOK, TxTypeOK, HistoryInv
<1> DEFINE t == Transition(body[r], seen[r], row)
           u == Assigned(body[r], seen[r], t)
<1>2. t \in Task /\ Backed(t) /\ Keeps(row, t)
  BY <1>1, TransitionFacts
<1>3. u \in Task /\ Backed(u) /\ Keeps(t, u)
  BY <1>1, <1>2, AssignedFacts
<1>4. Updated(r, row) = [u EXCEPT !.version = seen[r].version + 1]
  BY DEF Updated
<1>5. seen[r].version + 1 \in Nat
  BY <1>1 DEF Task
<1> HIDE DEF t, u
<1>6. Updated(r, row) \in Task /\ Backed(Updated(r, row)) /\ Keeps(u, Updated(r, row))
  BY <1>3, <1>4, <1>5 DEF Task, Backed, Keeps
<1> QED BY <1>2, <1>3, <1>6 DEF Keeps

-----------------------------------------------------------------------------
LEMMA TaskInitIInv == TaskInit => TaskIInv
<1> SUFFICES ASSUME TaskInit PROVE TaskIInv
  OBVIOUS
<1>1. PICK name \in Assignees \cup {Nobody}, type \in Types :
          TxInit(Created(name, type)) /\ assignment = <<name, type>>
  BY DEF TaskInit
<1> DEFINE task == Created(name, type)
<1>2. task \in Task /\ Backed(task) /\ Keeps(task, task)
  BY DEF Created, Task, Statuses, Finished, Backed, Keeps
<1> HIDE DEF task
<1>3. TxInit(task)
  BY <1>1 DEF task
<1>4. assignment \in (Assignees \cup {Nobody}) \X Types
  BY <1>1
<1>5. TaskTypeOK
  BY <1>2, <1>3, <1>4 DEF TaskInit, TxInit, TaskTypeOK, TxTypeOK, PC, Over
<1>6. HistoryInv /\ Backed(row)
  BY <1>2, <1>3 DEF TxInit, HistoryInv
<1> QED BY <1>5, <1>6 DEF TaskIInv

\* A step of a request that writes neither the row nor a draft.
LEMMA NoWriteKeepsTask ==
  ASSUME TaskIInv, NEW r \in Requests, NEW label \in PC, label # "commit",
         Goto(r, label), UNCHANGED <<row, draft, body, assignment>>,
         lock' = lock \/ Release(r), crossed' \in BOOLEAN,
         seen' = seen \/ seen' = [seen EXCEPT ![r] = row], overlapped' \in BOOLEAN
  PROVE  TaskIInv'
<1> USE RequestAssumption DEF TaskIInv, Goto
<1>1. TaskTypeOK'
  BY DEF TaskTypeOK, TxTypeOK, Release
<1>2. \A q \in Requests : seen'[q] = seen[q] \/ seen'[q] = row
  BY DEF TaskTypeOK, TxTypeOK
<1>3. \A q \in Requests : Backed(seen'[q]) /\ Keeps(seen'[q], row)
  BY <1>2 DEF HistoryInv, Keeps
<1>4. \A q \in Requests : pc'[q] = "commit" => lock' = q
  BY DEF TaskTypeOK, TxTypeOK, HistoryInv, Release
<1>5. lock' # NoRequest => Backed(draft) /\ Keeps(row, draft)
  BY DEF HistoryInv, Release
<1> QED BY <1>1, <1>3, <1>4, <1>5 DEF HistoryInv

LEMMA FlushKeepsTask ==
  ASSUME TaskIInv, NEW r \in Requests, Flush(r, Updated(r, row)),
         UNCHANGED <<body, assignment, crossed>>
  PROVE  TaskIInv'
<1> USE RequestAssumption DEF TaskIInv, Flush, Goto
<1>1. draft' \in Task /\ Backed(draft') /\ Keeps(row, draft')
  BY UpdatedFacts
<1>2. TaskTypeOK'
  BY <1>1 DEF TaskTypeOK, TxTypeOK, PC, Over
<1>3. HistoryInv'
  BY <1>1 DEF TaskTypeOK, TxTypeOK, HistoryInv
<1> QED BY <1>2, <1>3

LEMMA CommitKeepsTask ==
  ASSUME TaskIInv, NEW r \in Requests, CommitUpdate(r)
  PROVE  TaskIInv'
<1> USE RequestAssumption DEF TaskIInv, CommitUpdate, Commit, Goto
<1>1. lock = r /\ lock' = NoRequest /\ row' = draft
  BY DEF HistoryInv, Release
<1>2. Backed(draft) /\ Keeps(row, draft)
  BY <1>1 DEF HistoryInv
<1>3. body[r] \in Body
  BY TaskAssumption DEF TaskTypeOK
<1>4. assignment' \in (Assignees \cup {Nobody}) \X Types
  BY <1>3 DEF TaskTypeOK, Assigns, Pair, Body
<1>5. TaskTypeOK'
  BY <1>4 DEF TaskTypeOK, TxTypeOK, PC, Over, Release
<1>6. \A q \in Requests : Backed(seen'[q]) /\ Keeps(seen'[q], row')
  BY <1>1, <1>2 DEF HistoryInv, Keeps
<1>7. \A q \in Requests : pc'[q] # "commit"
  BY <1>1 DEF TaskTypeOK, TxTypeOK, HistoryInv
<1> QED BY <1>1, <1>2, <1>5, <1>6, <1>7 DEF HistoryInv

LEMMA NextKeepsTask == TaskIInv /\ [TaskNext]_taskVars => TaskIInv'
<1> SUFFICES ASSUME TaskIInv, [TaskNext]_taskVars PROVE TaskIInv'
  OBVIOUS
<1>1. CASE UNCHANGED taskVars
  BY <1>1 DEF taskVars, txVars, TaskIInv, TaskTypeOK, TxTypeOK, HistoryInv
<1>2. ASSUME NEW r \in Requests, BeginUpdate(r)
      PROVE  TaskIInv'
  <2>1. "read" \in PC /\ overlapped' \in BOOLEAN /\ crossed' \in BOOLEAN
    BY <1>2 DEF PC, TaskIInv, TaskTypeOK, TxTypeOK, BeginUpdate, Begin
  <2> QED BY <1>2, <2>1, NoWriteKeepsTask DEF BeginUpdate, Begin
<1>3. ASSUME NEW r \in Requests, Fail(r), UNCHANGED <<body, assignment, crossed>>
      PROVE  TaskIInv'
  <2>1. "undone" \in PC /\ overlapped' \in BOOLEAN /\ crossed' \in BOOLEAN
    BY <1>3 DEF PC, Over, TaskIInv, TaskTypeOK, TxTypeOK, Fail
  <2> QED BY <1>3, <2>1, NoWriteKeepsTask DEF Fail
<1>4. ASSUME NEW r \in Requests, Read(r, TRUE), UNCHANGED <<body, assignment, crossed>>
      PROVE  TaskIInv'
  <2>1. "flush" \in PC /\ overlapped' \in BOOLEAN /\ crossed' \in BOOLEAN
    BY <1>4 DEF PC, TaskIInv, TaskTypeOK, TxTypeOK, Read
  <2>2. /\ UNCHANGED <<row, draft, body, assignment>> /\ lock' = lock
        /\ Goto(r, "flush") /\ seen' = [seen EXCEPT ![r] = row]
    BY <1>4 DEF Read
  <2> QED BY <2>1, <2>2, NoWriteKeepsTask
<1>5. ASSUME NEW r \in Requests, Update(r)
      PROVE  TaskIInv'
  BY <1>5, <1>3, <1>4, FlushKeepsTask DEF Update
<1> QED
  BY <1>1, <1>2, <1>5, CommitKeepsTask DEF TaskNext

-----------------------------------------------------------------------------
\* The inductive invariant holds in every behaviour of the tasks API.
THEOREM TaskIInvInvariant == TaskSpec => []TaskIInv
  BY TaskInitIInv, NextKeepsTask, PTL DEF TaskSpec

\* Type correctness for any number of requests.
THEOREM TaskTypeCorrect == TaskSpec => []TaskTypeOK
<1>1. TaskIInv => TaskTypeOK
  BY DEF TaskIInv
<1> QED BY <1>1, TaskIInvInvariant, PTL

\* However updates of a task overlap and fail, its timestamps back its status.
THEOREM StatusIsBacked == TaskSpec => []TimestampsBackStatus
<1>1. TaskIInv => TimestampsBackStatus
  BY DEF TaskIInv, Backed, TimestampsBackStatus
<1> QED BY <1>1, TaskIInvInvariant, PTL

\* The updates that took effect are finitely many, and no version in sight runs
\* ahead of them: what was read, what is about to be committed, what is there.
CountInv ==
    /\ IsFiniteSet(Landed)
    /\ row.version <= 1 + Cardinality(Landed)
    /\ \A r \in Requests : seen[r].version <= 1 + Cardinality(Landed)
    /\ lock # NoRequest => draft.version <= 2 + Cardinality(Landed)
    /\ ~overlapped => row.version = 1 + Cardinality(Landed)

\* Until requests overlap, what a request read is still the row, and its draft is
\* the next version of it.
NextVersionInv ==
    ~overlapped =>
        /\ \A r \in Requests : pc[r] = "flush" => seen[r] = row
        /\ \A r \in Requests : pc[r] = "commit" => draft.version = row.version + 1

TaskSerialInv == TaskIInv /\ AloneInv /\ CountInv /\ NextVersionInv

LEMMA TaskInitSerial == TaskInit => AloneInv /\ CountInv /\ NextVersionInv
<1> SUFFICES ASSUME TaskInit PROVE AloneInv /\ CountInv /\ NextVersionInv
  OBVIOUS
<1>0. PICK name \in Assignees \cup {Nobody}, type \in Types : TxInit(Created(name, type))
  BY DEF TaskInit
<1>1. AloneInv /\ NextVersionInv
  BY <1>0 DEF TxInit, AloneInv, Busy, NextVersionInv
<1>2. Landed = {}
  BY <1>0 DEF TxInit, Landed
<1>3. IsFiniteSet(Landed) /\ Cardinality(Landed) = 0
  BY <1>2, FS_EmptySet
<1>4. row.version = 1 /\ \A r \in Requests : seen[r].version = 1
  BY <1>0 DEF TxInit, Created
<1>5. lock = NoRequest
  BY <1>0 DEF TxInit
<1>6. CountInv
  BY <1>3, <1>4, <1>5 DEF CountInv
<1> QED BY <1>1, <1>6

\* What an UPDATE makes of the version, and of assignee and type: those that the
\* body has replace those that were read, if these are still there, and a body
\* without an assignee leaves them as they are.
LEMMA UpdatedColumns ==
  ASSUME TaskTypeOK, NEW r \in Requests
  PROVE  /\ Updated(r, row).version = seen[r].version + 1
         /\ ~Assigns(r) => Pair(Updated(r, row)) = Pair(row)
         /\ Assigns(r) /\ Pair(seen[r]) = Pair(row) => Pair(Updated(r, row)) = Pair(body[r])
<1>1. /\ body[r] \in Body /\ seen[r] \in Task /\ row \in Task
  BY TaskAssumption DEF TaskTypeOK, TxTypeOK
<1> DEFINE t == Transition(body[r], seen[r], row)
           u == Assigned(body[r], seen[r], t)
<1>2. t.assigned_to = row.assigned_to /\ t.assigned_type = row.assigned_type
  BY <1>1 DEF Transition, Task
<1>3. DOMAIN t = DOMAIN row
  BY DEF Transition
<1> HIDE DEF t
<1>4. DOMAIN u = DOMAIN row
  BY <1>3 DEF Assigned
<1>5. ~Assigns(r) => Pair(u) = Pair(row)
  BY <1>2 DEF Assigned, Assigns, Pair
<1>6. Assigns(r) /\ Pair(seen[r]) = Pair(row) => Pair(u) = Pair(body[r])
  BY <1>1, <1>2, <1>3 DEF Assigned, Assigns, Pair, Column, Task
<1> HIDE DEF u
<1>7. Updated(r, row) = [u EXCEPT !.version = seen[r].version + 1]
  BY DEF Updated, u, t
<1>8. /\ Updated(r, row).version = seen[r].version + 1
      /\ Pair(Updated(r, row)) = Pair(u)
  BY <1>1, <1>4, <1>7 DEF Pair, Task
<1> QED BY <1>5, <1>6, <1>8

\* A step that writes no row and makes no request land.
LEMMA NoWriteKeepsCount ==
  ASSUME TaskIInv, CountInv, NEW r \in Requests, NEW label \in {"read", "flush", "refused", "undone"},
         pc[r] # "committed", Goto(r, label), UNCHANGED <<row, draft>>,
         lock' = lock \/ Release(r),
         seen' = seen \/ seen' = [seen EXCEPT ![r] = row], ~overlapped' => ~overlapped
  PROVE  CountInv'
<1>1. Landed' = Landed
  BY LandedStep DEF TaskIInv, TaskTypeOK, TxTypeOK
<1>2. \A q \in Requests : seen'[q] = seen[q] \/ seen'[q] = row
  BY DEF TaskIInv, TaskTypeOK, TxTypeOK
<1>3. lock' # NoRequest => lock # NoRequest
  BY DEF Release
<1> QED BY <1>1, <1>2, <1>3 DEF CountInv

LEMMA TaskNextSerial ==
  ASSUME TaskSerialInv, [TaskNext]_taskVars
  PROVE  AloneInv' /\ CountInv' /\ NextVersionInv'
<1> USE DEF TaskSerialInv
<1>0. /\ pc \in [Requests -> PC] /\ overlapped \in BOOLEAN
      /\ seen \in [Requests -> Task] /\ row \in Task /\ TaskTypeOK
  BY DEF TaskIInv, TaskTypeOK, TxTypeOK
<1>1. CASE UNCHANGED taskVars
  BY <1>1 DEF taskVars, txVars, AloneInv, Busy, CountInv, NextVersionInv, Landed
<1>2. ASSUME NEW r \in Requests, Begin(r)
      PROVE  AloneInv' /\ CountInv' /\ NextVersionInv'
  <2>1. AloneInv' /\ (~overlapped' => ~overlapped)
    BY <1>0, <1>2, BeginKeepsAlone
  <2>2. CountInv'
    BY <1>2, <2>1, NoWriteKeepsCount DEF Begin
  <2>3. \A q \in Requests : pc'[q] \in {"flush", "commit"} => pc'[q] = pc[q]
    BY <1>0, <1>2 DEF Begin, Goto
  <2> QED BY <1>2, <2>1, <2>2, <2>3 DEF Begin, NextVersionInv
<1>3. ASSUME NEW r \in Requests, Fail(r)
      PROVE  AloneInv' /\ CountInv' /\ NextVersionInv'
  <2>1. AloneInv'
    BY <1>0, <1>3, StepKeepsAlone DEF Fail
  <2>2. CountInv'
    BY <1>3, NoWriteKeepsCount DEF Fail, Busy
  <2>3. \A q \in Requests : pc'[q] \in {"flush", "commit"} => pc'[q] = pc[q]
    BY <1>0, <1>3 DEF Fail, Goto
  <2> QED BY <1>3, <2>1, <2>2, <2>3 DEF Fail, NextVersionInv
<1>4. ASSUME NEW r \in Requests, Read(r, TRUE)
      PROVE  AloneInv' /\ CountInv' /\ NextVersionInv'
  <2>1. Goto(r, "flush") /\ seen' = [seen EXCEPT ![r] = row] /\ pc[r] = "read"
    BY <1>4 DEF Read
  <2>2. AloneInv'
    BY <1>0, <1>4, <2>1, StepKeepsAlone DEF Read, Busy
  <2>3. CountInv'
    BY <1>4, <2>1, NoWriteKeepsCount DEF Read
  <2>4. \A q \in Requests : q # r => pc'[q] = pc[q] /\ seen'[q] = seen[q]
    BY <1>0, <2>1 DEF Goto
  <2>5. pc'[r] = "flush" /\ seen'[r] = row
    BY <1>0, <2>1 DEF Goto
  <2> QED BY <1>4, <2>2, <2>3, <2>4, <2>5 DEF Read, NextVersionInv
<1>5. ASSUME NEW r \in Requests, Flush(r, Updated(r, row))
      PROVE  AloneInv' /\ CountInv' /\ NextVersionInv'
  <2>1. AloneInv'
    BY <1>0, <1>5, StepKeepsAlone DEF Flush, Busy
  <2>2. Landed' = Landed
    BY <1>0, <1>5, LandedStep DEF Flush
  <2>3. draft'.version = seen[r].version + 1
    BY <1>0, <1>5, UpdatedColumns DEF Flush
  <2>4. seen[r].version \in Nat
    BY <1>0 DEF Task
  <2>5. Cardinality(Landed) \in Nat
    BY FS_CardinalityType DEF CountInv
  <2>6. draft'.version <= 2 + Cardinality(Landed)
    BY <2>3, <2>4, <2>5 DEF CountInv
  <2>7. CountInv'
    BY <1>5, <2>2, <2>6 DEF Flush, CountInv
  <2>8. \A q \in Requests : q # r => pc'[q] = pc[q]
    BY <1>5 DEF Flush, Goto
  <2>9. ~overlapped => \A q \in Requests : pc'[q] = "commit" => q = r
    BY <1>5, <2>8 DEF Flush, AloneInv, Busy
  <2>10. ~overlapped => draft'.version = row.version + 1
    BY <1>5, <2>3 DEF Flush, NextVersionInv
  <2>11. ~overlapped => \A q \in Requests : pc'[q] = "flush" => seen[q] = row
    BY <1>0, <1>5, <2>8 DEF Flush, Goto, NextVersionInv
  <2> QED BY <1>5, <2>1, <2>7, <2>9, <2>10, <2>11 DEF Flush, NextVersionInv
<1>6. ASSUME NEW r \in Requests, Commit(r)
      PROVE  AloneInv' /\ CountInv' /\ NextVersionInv'
  <2>1. AloneInv'
    BY <1>0, <1>6, StepKeepsAlone DEF Commit, Busy
  <2>2. Landed' = Landed \cup {r} /\ r \notin Landed
    BY <1>0, <1>6, LandedStep DEF Commit, Landed
  <2>3. IsFiniteSet(Landed') /\ Cardinality(Landed') = Cardinality(Landed) + 1
    BY <2>2, FS_AddElement DEF CountInv
  <2>4. Cardinality(Landed) \in Nat
    BY FS_CardinalityType DEF CountInv
  <2>5. lock = r /\ lock' = NoRequest /\ row' = draft
    BY <1>6 DEF Commit, Release, TaskIInv, HistoryInv
  <2>6. draft \in Task /\ lock # NoRequest
    BY <2>5, RequestAssumption DEF TaskIInv, TaskTypeOK, TxTypeOK
  <2>7. /\ row.version \in Nat /\ draft.version \in Nat
        /\ \A q \in Requests : seen[q].version \in Nat
    BY <1>0, <2>6 DEF Task
  <2>8. ~overlapped => draft.version = row.version + 1
    BY <1>6 DEF Commit, NextVersionInv
  <2>9. /\ row'.version <= 1 + Cardinality(Landed')
        /\ \A q \in Requests : seen[q].version <= 1 + Cardinality(Landed')
        /\ ~overlapped => row'.version = 1 + Cardinality(Landed')
    BY <2>3, <2>4, <2>5, <2>6, <2>7, <2>8 DEF CountInv
  <2>10. CountInv'
    BY <1>6, <2>3, <2>5, <2>9 DEF Commit, CountInv
  <2>11. \A q \in Requests : q # r => pc'[q] = pc[q]
    BY <1>6 DEF Commit, Goto
  <2>12. ~overlapped => \A q \in Requests : pc'[q] \notin {"flush", "commit"}
    BY <1>0, <1>6, <2>11 DEF Commit, Goto, AloneInv, Busy
  <2> QED BY <1>6, <2>1, <2>10, <2>12 DEF Commit, NextVersionInv
<1> QED
  BY <1>1, <1>2, <1>3, <1>4, <1>5, <1>6 DEF TaskNext, BeginUpdate, Update, CommitUpdate

LEMMA TaskSerialInvariant == TaskSpec => []TaskSerialInv
<1>1. TaskInit => TaskSerialInv
  BY TaskInitIInv, TaskInitSerial DEF TaskSerialInv
<1>2. TaskSerialInv /\ [TaskNext]_taskVars => TaskSerialInv'
  BY NextKeepsTask, TaskNextSerial DEF TaskSerialInv
<1> QED BY <1>1, <1>2, PTL DEF TaskSpec

\* The version never runs ahead of the updates that took effect, whatever their
\* clients were told, and counts them until requests overlap.
THEOREM VersionIsBounded == TaskSpec => []VersionCountsUpdates
<1>1. TaskSerialInv => VersionCountsUpdates
  BY DEF TaskSerialInv, CountInv, VersionCountsUpdates
<1> QED BY <1>1, TaskSerialInvariant, PTL

-----------------------------------------------------------------------------
\* The draft of a request that assigns nothing has the committed assignment.
\* Until two assigning requests are in progress together, one at most is; what
\* it read of the assignment is still there, and its draft has what it asks for.
AssignmentInv ==
    /\ \A r \in Requests : pc[r] = "commit" /\ ~Assigns(r) => Pair(draft) = Pair(row)
    /\ ~crossed =>
        /\ Pair(row) = assignment
        /\ \A r, q \in Requests : Assigns(r) /\ Assigns(q) /\ Busy(r) /\ Busy(q) => r = q
        /\ \A r \in Requests : pc[r] = "flush" /\ Assigns(r) => Pair(seen[r]) = Pair(row)
        /\ \A r \in Requests : pc[r] = "commit" /\ Assigns(r) => Pair(draft) = Pair(body[r])

LEMMA TaskInitAssignment == TaskInit => AssignmentInv
<1> SUFFICES ASSUME TaskInit PROVE AssignmentInv
  OBVIOUS
<1>1. PICK name \in Assignees \cup {Nobody}, type \in Types :
          TxInit(Created(name, type)) /\ assignment = <<name, type>>
  BY DEF TaskInit
<1>2. Pair(row) = assignment
  BY <1>1 DEF TxInit, Created, Pair
<1> QED BY <1>1, <1>2 DEF TxInit, AssignmentInv, Busy

\* A rollback leaves every assignment alone.
LEMMA NoWriteKeepsAssignment ==
  ASSUME AssignmentInv, pc \in [Requests -> PC], NEW r \in Requests, Busy(r),
         Goto(r, "undone"), UNCHANGED <<row, draft, seen, body, assignment, crossed>>
  PROVE  AssignmentInv'
<1>1. \A q \in Requests : pc'[q] = pc[q] \/ pc'[q] = "undone"
  BY DEF Goto
<1> QED BY <1>1 DEF AssignmentInv, Busy, Assigns

LEMMA TaskNextAssignment ==
  ASSUME TaskIInv, AssignmentInv, [TaskNext]_taskVars
  PROVE  AssignmentInv'
<1>0. TaskTypeOK /\ pc \in [Requests -> PC] /\ seen \in [Requests -> Task]
  BY DEF TaskIInv, TaskTypeOK, TxTypeOK
<1>1. CASE UNCHANGED taskVars
  BY <1>1 DEF taskVars, txVars, AssignmentInv, Busy, Assigns
<1>2. ASSUME NEW r \in Requests, BeginUpdate(r)
      PROVE  AssignmentInv'
  <2>1. pc'[r] = "read" /\ \A q \in Requests : q # r => pc'[q] = pc[q]
    BY <1>0, <1>2 DEF BeginUpdate, Begin, Goto
  <2>2. \A q \in Requests : Assigns(q)' = Assigns(q)
    BY <1>2 DEF BeginUpdate, Assigns
  <2>3. ~crossed' => ~crossed /\ (Assigns(r) => \A q \in Requests : ~(Busy(q) /\ Assigns(q)))
    BY <1>2 DEF BeginUpdate
  <2> QED BY <1>2, <2>1, <2>2, <2>3 DEF BeginUpdate, Begin, AssignmentInv, Busy
<1>3. ASSUME NEW r \in Requests, Fail(r), UNCHANGED <<body, assignment, crossed>>
      PROVE  AssignmentInv'
  BY <1>0, <1>3, NoWriteKeepsAssignment DEF Fail
<1>4. ASSUME NEW r \in Requests, Read(r, TRUE), UNCHANGED <<body, assignment, crossed>>
      PROVE  AssignmentInv'
  <2>1. /\ Goto(r, "flush") /\ seen' = [seen EXCEPT ![r] = row] /\ pc[r] = "read"
        /\ UNCHANGED <<row, draft>>
    BY <1>4 DEF Read
  <2>2. pc'[r] = "flush" /\ seen'[r] = row
    BY <1>0, <2>1 DEF Goto
  <2>3. \A q \in Requests : q # r => pc'[q] = pc[q] /\ seen'[q] = seen[q]
    BY <1>0, <2>1 DEF Goto
  <2>4. \A q \in Requests : Assigns(q)' = Assigns(q)
    BY <1>4 DEF Assigns
  <2> QED BY <1>4, <2>1, <2>2, <2>3, <2>4 DEF AssignmentInv, Busy
<1>5. ASSUME NEW r \in Requests, Flush(r, Updated(r, row)), UNCHANGED <<body, assignment, crossed>>
      PROVE  AssignmentInv'
  <2>1. /\ Goto(r, "commit") /\ pc[r] = "flush" /\ lock = NoRequest
        /\ UNCHANGED <<row, seen>> /\ draft' = Updated(r, row)
    BY <1>5 DEF Flush
  <2>2. pc'[r] = "commit" /\ \A q \in Requests : q # r => pc'[q] = pc[q]
    BY <1>0, <2>1 DEF Goto
  <2>3. \A q \in Requests : pc'[q] = "commit" => q = r
    BY <2>1, <2>2, RequestAssumption DEF TaskIInv, HistoryInv
  <2>4. /\ ~Assigns(r) => Pair(draft') = Pair(row)
        /\ Assigns(r) /\ Pair(seen[r]) = Pair(row) => Pair(draft') = Pair(body[r])
    BY <1>0, <2>1, UpdatedColumns
  <2>5. \A q \in Requests : Assigns(q)' = Assigns(q)
    BY <1>5 DEF Assigns
  <2> QED BY <1>5, <2>1, <2>2, <2>3, <2>4, <2>5 DEF AssignmentInv, Busy
<1>6. ASSUME NEW r \in Requests, CommitUpdate(r)
      PROVE  AssignmentInv'
  <2>1. /\ Goto(r, "committed") /\ pc[r] = "commit" /\ row' = draft
        /\ UNCHANGED <<draft, seen, body, crossed>>
        /\ assignment' = IF Assigns(r) THEN Pair(body[r]) ELSE assignment
    BY <1>6 DEF CommitUpdate, Commit
  <2>2. pc'[r] = "committed" /\ \A q \in Requests : q # r => pc'[q] = pc[q]
    BY <1>0, <2>1 DEF Goto
  <2>3. \A q \in Requests : pc'[q] # "commit"
    BY <2>1, <2>2 DEF TaskIInv, HistoryInv
  <2>4. \A q \in Requests : Assigns(q)' = Assigns(q)
    BY <2>1 DEF Assigns
  <2>5. CASE Assigns(r)
    <3>1. ~crossed => Pair(row') = assignment'
      BY <2>1, <2>5 DEF AssignmentInv
    <3>2. ~crossed => \A q \in Requests : Assigns(q) => ~Busy(q)'
      BY <2>1, <2>2, <2>5 DEF AssignmentInv, Busy
    <3> QED BY <2>1, <2>3, <2>4, <3>1, <3>2 DEF AssignmentInv, Busy
  <2>6. CASE ~Assigns(r)
    <3>1. Pair(row') = Pair(row) /\ assignment' = assignment
      BY <2>1, <2>6 DEF AssignmentInv
    <3>2. \A q \in Requests : Busy(q)' => Busy(q)
      BY <2>2 DEF Busy
    <3> QED BY <2>1, <2>2, <2>3, <2>4, <3>1, <3>2 DEF AssignmentInv
  <2> QED BY <2>5, <2>6
<1> QED
  BY <1>1, <1>2, <1>3, <1>4, <1>5, <1>6 DEF TaskNext, Update

\* Whatever other updates do meanwhile, assignee and type are those of one request
\* until two assignments are in progress together.
THEOREM AssignmentStaysWhole == TaskSpec => []AssignmentIsWhole
<1>1. TaskIInv /\ AssignmentInv => AssignmentIsWhole
  BY DEF AssignmentInv, AssignmentIsWhole
<1>2. TaskIInv /\ AssignmentInv /\ [TaskNext]_taskVars => AssignmentInv'
  BY TaskNextAssignment
<1> QED BY <1>1, <1>2, TaskInitAssignment, TaskIInvInvariant, PTL DEF TaskSpec
=============================================================================
