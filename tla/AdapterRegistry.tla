-------------------------- MODULE AdapterRegistry --------------------------
(***************************************************************************)
(* The process-wide registry of tool adapters (adapters/registry.py) under *)
(* concurrent calls, with the HTTP clients of the adapters it makes.       *)
(*                                                                         *)
(* A coroutine is interrupted only at an await.  register makes exactly    *)
(* one adapter, so an adapter is named after the call that makes it.       *)
(***************************************************************************)
EXTENDS FiniteSets

CONSTANTS
    Calls,          \* the calls of registry methods; each is made at most once
    Keys,           \* pairs of a company and a tool
    None

ASSUME RegistryAssumption == None \notin Calls \cup Keys

VARIABLES
    adapters,       \* _adapters: the adapter registered under each key
    lock,           \* _lock: the call that holds it across an await
    op,             \* what each call does
    key,            \* and to which key
    pc,             \* the await at which it is suspended
    doomed,         \* adapters it still has to shut down
    client          \* the HTTP client of the adapter each call makes

vars == <<adapters, lock, op, key, pc, doomed, client>>

-----------------------------------------------------------------------------
Ops == {"register", "deregister", "shutdown_all"}

\* "failed": register raised what initialize raised.
PC == {"ready", "checking", "acquiring", "closing", "failed", "done"}

TypeOK ==
    /\ adapters \in [Keys -> Calls \cup {None}]
    /\ lock \in Calls \cup {None}
    /\ op \in [Calls -> Ops]
    /\ key \in [Calls -> Keys \cup {None}]
    /\ pc \in [Calls -> PC]
    /\ doomed \in [Calls -> SUBSET Calls]
    /\ client \in [Calls -> {"absent", "open", "closed"}]

Registered == {adapters[k] : k \in Keys} \ {None}

Init ==
    /\ adapters = [k \in Keys |-> None]
    /\ lock = None
    /\ op = [c \in Calls |-> "shutdown_all"]
    /\ key = [c \in Calls |-> None]
    /\ pc = [c \in Calls |-> "ready"]
    /\ doomed = [c \in Calls |-> {}]
    /\ client = [c \in Calls |-> "absent"]

Goto(c, label) == pc' = [pc EXCEPT ![c] = label]

\* adapter.shutdown() marks its client closed before it first waits, and
\* whatever it raises is swallowed.
Closed(as) == [c \in Calls |-> IF c \in as THEN "closed" ELSE client[c]]

-----------------------------------------------------------------------------
\* A method is called.  register makes an adapter and initialises it, which
\* opens a client and waits for the tool's health check; an unknown tool has
\* been refused before.
Begin(c, o, k) ==
    /\ pc[c] = "ready"
    /\ op' = [op EXCEPT ![c] = o]
    /\ key' = [key EXCEPT ![c] = IF o = "shutdown_all" THEN None ELSE k]
    /\ IF o = "register"
       THEN Goto(c, "checking") /\ client' = [client EXCEPT ![c] = "open"]
       ELSE Goto(c, "acquiring") /\ UNCHANGED client
    /\ UNCHANGED <<adapters, lock, doomed>>

\* The tool is healthy, or not: then initialize raises, and so does register.
HealthCheck(c) ==
    /\ pc[c] = "checking"
    /\ Goto(c, "acquiring") \/ Goto(c, "failed")
    /\ UNCHANGED <<adapters, lock, op, key, doomed, client>>

\* Mutant: nobody waits for the lock.
RegisterUnlocked(c) ==
    /\ pc[c] = "acquiring" /\ op[c] = "register"
    /\ IF adapters[key[c]] = None
       THEN /\ adapters' = [adapters EXCEPT ![key[c]] = c]
            /\ Goto(c, "done")
            /\ UNCHANGED <<lock, client>>
       ELSE /\ client' = Closed({adapters[key[c]]})
            /\ lock' = c
            /\ Goto(c, "closing")
            /\ UNCHANGED adapters
    /\ UNCHANGED <<op, key, doomed>>

\* register under the lock.  With no adapter under the key it is done at once;
\* otherwise it holds the lock while the existing adapter shuts down.
Register(c) ==
    /\ pc[c] = "acquiring" /\ op[c] = "register"
    /\ lock = None
    /\ IF adapters[key[c]] = None
       THEN /\ adapters' = [adapters EXCEPT ![key[c]] = c]
            /\ Goto(c, "done")
            /\ UNCHANGED <<lock, client>>
       ELSE /\ client' = Closed({adapters[key[c]]})
            /\ lock' = c
            /\ Goto(c, "closing")
            /\ UNCHANGED adapters
    /\ UNCHANGED <<op, key, doomed>>

\* Mutant: the lock is released on the other path only.
InstallHoldingLock(c) ==
    /\ pc[c] = "closing" /\ op[c] = "register"
    /\ adapters' = [adapters EXCEPT ![key[c]] = c]
    /\ Goto(c, "done")
    /\ UNCHANGED <<lock, op, key, doomed, client>>

\* The existing adapter has shut down, and the new one takes its place.
Install(c) ==
    /\ pc[c] = "closing" /\ op[c] = "register"
    /\ adapters' = [adapters EXCEPT ![key[c]] = c]
    /\ lock' = None
    /\ Goto(c, "done")
    /\ UNCHANGED <<op, key, doomed, client>>

\* Mutant: the adapter is popped once it has shut down.
DeregisterLate(c) ==
    /\ pc[c] = "acquiring" /\ op[c] = "deregister"
    /\ lock = None
    /\ client' = Closed({adapters[key[c]]})
    /\ Goto(c, "closing")
    /\ UNCHANGED <<adapters, lock, op, key, doomed>>

\* deregister pops the adapter under the lock and shuts it down outside.
Deregister(c) ==
    /\ pc[c] = "acquiring" /\ op[c] = "deregister"
    /\ lock = None
    /\ adapters' = [adapters EXCEPT ![key[c]] = None]
    /\ IF adapters[key[c]] = None
       THEN Goto(c, "done") /\ UNCHANGED client
       ELSE Goto(c, "closing") /\ client' = Closed({adapters[key[c]]})
    /\ UNCHANGED <<lock, op, key, doomed>>

\* shutdown_all copies the map and clears it under the lock.  The shutdowns are
\* tasks of a gather, which start one after the other later on.
ShutdownAll(c) ==
    /\ pc[c] = "acquiring" /\ op[c] = "shutdown_all"
    /\ lock = None
    /\ adapters' = [k \in Keys |-> None]
    /\ doomed' = [doomed EXCEPT ![c] = Registered]
    /\ Goto(c, IF Registered = {} THEN "done" ELSE "closing")
    /\ UNCHANGED <<lock, op, key, client>>

ShutOne(c) ==
    /\ pc[c] = "closing"
    /\ \E a \in doomed[c] :
        /\ client' = Closed({a})
        /\ doomed' = [doomed EXCEPT ![c] = @ \ {a}]
    /\ UNCHANGED <<adapters, lock, op, key, pc>>

\* deregister or shutdown_all returns.
Finish(c) ==
    /\ pc[c] = "closing" /\ op[c] # "register"
    /\ doomed[c] = {}
    /\ Goto(c, "done")
    /\ UNCHANGED <<adapters, lock, op, key, doomed, client>>

Continue(c) ==
    \/ HealthCheck(c)
    \/ Register(c) \/ Install(c)
    \/ Deregister(c)
    \/ ShutdownAll(c) \/ ShutOne(c)
    \/ Finish(c)

Next ==
    \E c \in Calls :
        \/ \E o \in Ops, k \in Keys : Begin(c, o, k)
        \/ Continue(c)

Spec == Init /\ [][Next]_vars

\* A health check has a timeout, a shutdown returns, and the finitely many
\* calls leave the lock free from some time on.
Fairness == \A c \in Calls : WF_vars(Continue(c))

FairSpec == Spec /\ Fairness

-----------------------------------------------------------------------------
(* Safety *)

\* Who answers for the client of the adapter a: the map, the register that is
\* still making it, or a call that is about to shut it down.
Owned(a) ==
    \/ a \in Registered
    \/ op[a] = "register" /\ pc[a] \in {"checking", "acquiring", "closing"}
    \/ \E c \in Calls : a \in doomed[c]

\* No interleaving of registrations, removals and shutdowns leaves an open
\* client behind that nobody would close, except where initialize failed.
NoClientLost == \A a \in Calls : client[a] = "open" /\ pc[a] # "failed" => Owned(a)

\* The map names a closed adapter only while its replacement waits for it to
\* shut down, with the lock held: nothing else leaves or puts one there.
ClosedOnlyWhileReplaced ==
    \A k \in Keys : adapters[k] # None /\ client[adapters[k]] # "open" =>
        /\ lock # None
        /\ pc[lock] = "closing" /\ op[lock] = "register" /\ key[lock] = k

(* Liveness *)

\* Every call returns: the lock is given back on each path.
EveryCallReturns == \A c \in Calls : pc[c] # "ready" ~> pc[c] \in {"failed", "done"}

=============================================================================
