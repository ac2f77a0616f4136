----------------------------- MODULE Approvals -----------------------------
(***************************************************************************)
(* Decisions on one pending approval (api/approvals.py): approve and deny, *)
(* each with or without a note.                                            *)
(*                                                                         *)
(* The ORM leaves a column out of its UPDATE when the assigned value is    *)
(* the one it loaded.  The columns of a decision are NULL on a pending     *)
(* approval, so a decision without a note does not write decision_note.    *)
(***************************************************************************)
EXTENDS RowTransaction

VARIABLES
    verdict,        \* what each request decides
    noted           \* does it carry a note?

approvalVars == <<txVars, verdict, noted>>

Verdicts == {"approved", "denied"}

\* decided_by and decision_note are named after the request they come from.
Approval == [status : Verdicts \cup {"pending"},
             decided_by : Requests \cup {NoRequest},
             decision_note : Requests \cup {NoRequest}]

ApprovalTypeOK ==
    /\ TxTypeOK(Approval)
    /\ verdict \in [Requests -> Verdicts]
    /\ noted \in [Requests -> BOOLEAN]

Pending == [status |-> "pending", decided_by |-> NoRequest, decision_note |-> NoRequest]

ApprovalInit ==
    /\ TxInit(Pending)
    /\ verdict \in [Requests -> Verdicts]
    /\ noted \in [Requests -> BOOLEAN]

\* Mutant: the status is not looked at.
AnyStatus(r) == TRUE

\* _require_pending.
RequirePending(r) == r.status = "pending"

\* Mutant: who decided first is kept.
DecidedFirst(r, base) ==
    [status |-> verdict[r],
     decided_by |-> IF base.decided_by = NoRequest THEN r ELSE base.decided_by,
     decision_note |-> IF noted[r] THEN r ELSE base.decision_note]

\* approve and deny, up to their flush.
Decided(r, base) ==
    [status |-> verdict[r],
     decided_by |-> r,
     decision_note |-> IF noted[r] THEN r ELSE base.decision_note]

Decide(r) ==
    /\ \/ Read(r, RequirePending(row))
       \/ Flush(r, Decided(r, row))
       \/ Commit(r)
    /\ UNCHANGED <<verdict, noted>>

ApprovalNext ==
    \E r \in Requests :
        \/ Decide(r)
        \/ (Begin(r) \/ Fail(r)) /\ UNCHANGED <<verdict, noted>>

ApprovalSpec == ApprovalInit /\ [][ApprovalNext]_approvalVars

-----------------------------------------------------------------------------
\* However decisions overlap, and whatever of them fails or is never answered, the
\* approval shows one of them: its status is the verdict of the request it names,
\* which took effect.
DecisionIsWhole ==
    row # Pending =>
        /\ row.decided_by \in Landed
        /\ row.status = verdict[row.decided_by]

\* Without overlap one decision at most takes effect, and the approval keeps that
\* reviewer's note.
SerialDecidedOnce ==
    ~overlapped =>
        /\ Cardinality(Landed) <= 1
        /\ row.decision_note \in {NoRequest, row.decided_by}
=============================================================================
