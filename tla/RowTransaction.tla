--------------------------- MODULE RowTransaction ---------------------------
(***************************************************************************)
(* One row under concurrent HTTP requests, each in the transaction that    *)
(* get_db wraps around it (dependencies.py), at READ COMMITTED: a handler  *)
(* reads the committed row, decides, and flushes one UPDATE, which takes   *)
(* the row lock and applies to the row as it then is.  Which columns the   *)
(* UPDATE writes is up to the modules that extend this one.                *)
(***************************************************************************)
EXTENDS Naturals, FiniteSets

CONSTANTS
    Requests,       \* the requests; each is made at most once
    NoRequest

ASSUME RequestAssumption == NoRequest \notin Requests

VARIABLES
    row,            \* the committed row
    lock,           \* the request whose transaction has written the row
    draft,          \* the row as that transaction sees it
    pc,             \* where each request is
    seen,           \* the row as it read it
    overlapped      \* history: two requests were in progress together

txVars == <<row, lock, draft, pc, seen, overlapped>>

\* How a request ends: its COMMIT took effect, its check refused it (404, 409), or
\* its transaction was rolled back.  What the client reads is another matter: the
\* answer to a COMMIT may be lost, so that a request that took effect ends with a
\* 500 or with none, and from FastAPI 0.118 on (requirements.txt has no upper
\* bound) a 200 is sent before get_db commits.
Over == {"committed", "refused", "undone"}

PC == {"ready", "read", "flush", "commit"} \cup Over

\* In its handler, from the SELECT to the end of its transaction.
Busy(r) == pc[r] \in {"read", "flush", "commit"}

TxTypeOK(Row) ==
    /\ row \in Row
    /\ lock \in Requests \cup {NoRequest}
    /\ draft \in Row
    /\ pc \in [Requests -> PC]
    /\ seen \in [Requests -> Row]
    /\ overlapped \in BOOLEAN

TxInit(initial) ==
    /\ row = initial
    /\ lock = NoRequest
    /\ draft = initial
    /\ pc = [r \in Requests |-> "ready"]
    /\ seen = [r \in Requests |-> initial]
    /\ overlapped = FALSE

Goto(r, label) == pc' = [pc EXCEPT ![r] = label]

Begin(r) ==
    /\ pc[r] = "ready"
    /\ Goto(r, "read")
    /\ overlapped' = (overlapped \/ \E q \in Requests : Busy(q))
    /\ UNCHANGED <<row, lock, draft, seen>>

\* The SELECT of the handler, which goes on if it may with the row it reads.
Read(r, may) ==
    /\ pc[r] = "read"
    /\ IF may
       THEN Goto(r, "flush") /\ seen' = [seen EXCEPT ![r] = row]
       ELSE Goto(r, "refused") /\ UNCHANGED seen
    /\ UNCHANGED <<row, lock, draft, overlapped>>

\* The UPDATE waits for the row lock, and turns the row into what is written.
Flush(r, written) ==
    /\ pc[r] = "flush"
    /\ lock = NoRequest
    /\ lock' = r
    /\ draft' = written
    /\ Goto(r, "commit")
    /\ UNCHANGED <<row, seen, overlapped>>

Release(r) == lock' = IF lock = r THEN NoRequest ELSE lock

\* The COMMIT takes effect, whether or not get_db, or even the service, lives to
\* see it.
Commit(r) ==
    /\ pc[r] = "commit"
    /\ row' = draft
    /\ Release(r)
    /\ Goto(r, "committed")
    /\ UNCHANGED <<draft, seen, overlapped>>

\* A statement fails, the COMMIT fails before it takes effect, the request is
\* cancelled or the service dies: get_db, the session it closes, or PostgreSQL
\* rolls the transaction back.
Fail(r) ==
    /\ Busy(r)
    /\ Release(r)
    /\ Goto(r, "undone")
    /\ UNCHANGED <<row, draft, seen, overlapped>>

\* The requests that took effect.
Landed == {r \in Requests : pc[r] = "committed"}
=============================================================================
