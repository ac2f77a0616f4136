----------------------- MODULE AdapterRegistryProofs -----------------------
(***************************************************************************)
(* The registry loses no client and registers no closed one, for any       *)
(* number of calls and keys.                                               *)
(***************************************************************************)
EXTENDS AdapterRegistry, TLAPS

\* The register that made the adapter a has returned.
HandedOver(a) == op[a] = "register" /\ pc[a] = "done"

Making(c) == op[c] = "register" /\ pc[c] \in {"checking", "acquiring", "closing"}

\* The lock is held across an await exactly by a register that waits for the
\* existing adapter of its key, which is closed and still registered.
LockInv ==
    \A c \in Calls :
        /\ lock = c <=> pc[c] = "closing" /\ op[c] = "register"
        /\ lock = c => adapters[key[c]] # None /\ client[adapters[key[c]]] = "closed"

\* A call has its key, and an adapter that is being made has its client.
CallInv ==
    \A c \in Calls :
        /\ pc[c] # "ready" /\ op[c] # "shutdown_all" => key[c] \in Keys
        /\ Making(c) => client[c] = "open"
        /\ pc[c] = "ready" => client[c] = "absent"

\* What is registered was handed over, is under its own key only, and is not to
\* be shut down.
MapInv ==
    \A k \in Keys : adapters[k] # None =>
        /\ HandedOver(adapters[k])
        /\ key[adapters[k]] = k
        /\ \A c \in Calls : adapters[k] \notin doomed[c]

\* A call shuts down adapters handed over to the registry, and only while closing.
DoomedInv ==
    \A c \in Calls :
        /\ \A a \in doomed[c] : HandedOver(a)
        /\ pc[c] # "closing" \/ op[c] = "register" => doomed[c] = {}

IInv ==
    /\ TypeOK
    /\ LockInv
    /\ CallInv
    /\ MapInv
    /\ DoomedInv
    /\ NoClientLost
    /\ ClosedOnlyWhileReplaced

-----------------------------------------------------------------------------
LEMMA InitIInv == Init => IInv
<1> SUFFICES ASSUME Init PROVE IInv
  OBVIOUS
<1> USE RegistryAssumption DEF Init
<1>1. TypeOK
  BY DEF TypeOK, Ops, PC
<1>2. LockInv /\ CallInv
  BY DEF LockInv, CallInv, Making
<1>3. MapInv /\ DoomedInv
  BY DEF MapInv, DoomedInv
<1>4. NoClientLost /\ ClosedOnlyWhileReplaced
  BY DEF NoClientLost, ClosedOnlyWhileReplaced
<1> QED BY <1>1, <1>2, <1>3, <1>4 DEF IInv

LEMMA BeginKeepsIInv ==
  ASSUME IInv, NEW c \in Calls, NEW o \in Ops, NEW k \in Keys, Begin(c, o, k)
  PROVE  IInv'
<1> USE RegistryAssumption DEF IInv, Begin, Goto
<1>1. TypeOK'
  BY DEF TypeOK, PC
<1>2. lock # c /\ ~HandedOver(c)
  BY DEF LockInv, HandedOver
<1>3. LockInv'
  <2>1. \A d \in Calls : lock = d => d # c /\ adapters[key[d]] \in Calls \ {c}
    <3>1. \A d \in Calls : lock = d => d # c /\ key[d] \in Keys /\ adapters[key[d]] # None
      BY <1>2 DEF LockInv, CallInv
    <3> QED BY <1>2, <3>1 DEF MapInv, TypeOK
  <2>2. \A d \in Calls : lock = d => client'[adapters[key[d]]] = client[adapters[key[d]]]
    BY <2>1 DEF TypeOK
  <2>3. \A d \in Calls : pc'[d] = "closing" /\ op'[d] = "register"
                            <=> pc[d] = "closing" /\ op[d] = "register"
    BY DEF TypeOK
  <2>4. \A d \in Calls : lock = d => key'[d] = key[d]
    BY <2>1 DEF TypeOK
  <2> QED BY <2>1, <2>2, <2>3, <2>4 DEF LockInv
<1>4. CallInv'
  BY DEF CallInv, Making, TypeOK
<1>5. MapInv' /\ DoomedInv'
  BY <1>2 DEF MapInv, DoomedInv, HandedOver, TypeOK
<1>6. NoClientLost'
  BY DEF NoClientLost, Owned, Registered, CallInv, TypeOK
<1>7. ClosedOnlyWhileReplaced'
  BY <1>2 DEF ClosedOnlyWhileReplaced, MapInv, HandedOver, TypeOK
<1> QED BY <1>1, <1>3, <1>4, <1>5, <1>6, <1>7

LEMMA HealthCheckKeepsIInv ==
  ASSUME IInv, NEW c \in Calls, HealthCheck(c)
  PROVE  IInv'
<1> USE RegistryAssumption DEF IInv, HealthCheck, Goto
<1>1. TypeOK'
  BY DEF TypeOK, PC
<1>2. LockInv' /\ CallInv'
  BY DEF LockInv, CallInv, Making, TypeOK
<1>3. MapInv' /\ DoomedInv'
  BY DEF MapInv, DoomedInv, HandedOver, TypeOK
<1>4. NoClientLost' /\ ClosedOnlyWhileReplaced'
  BY DEF NoClientLost, Owned, Registered, ClosedOnlyWhileReplaced, LockInv, TypeOK
<1> QED BY <1>1, <1>2, <1>3, <1>4

LEMMA RegisterKeepsIInv ==
  ASSUME IInv, NEW c \in Calls, Register(c)
  PROVE  IInv'
<1> USE RegistryAssumption DEF IInv, Register, Goto
<1> DEFINE old == adapters[key[c]]
<1>1. key[c] \in Keys /\ Making(c) /\ client[c] = "open"
  BY DEF CallInv, Making
<1>2. \A k \in Keys : adapters[k] # c
  BY DEF MapInv, HandedOver
<1>3. \A d \in Calls : c \notin doomed[d]
  BY DEF DoomedInv, HandedOver
<1>4. \A k \in Keys : adapters[k] # None => client[adapters[k]] = "open"
  BY DEF ClosedOnlyWhileReplaced
<1>5. TypeOK'
  BY <1>1 DEF TypeOK, PC, Closed
<1>6. CASE old = None
  <2> USE <1>6
  <2>1. LockInv' /\ CallInv'
    BY DEF LockInv, CallInv, Making, TypeOK
  <2>2. MapInv' /\ DoomedInv'
    BY <1>1, <1>2, <1>3 DEF MapInv, DoomedInv, HandedOver, TypeOK
  <2>3. NoClientLost'
    <3>1. Registered' = Registered \cup {c}
      BY <1>1 DEF Registered, TypeOK
    <3> QED BY <3>1 DEF NoClientLost, Owned, TypeOK
  <2>4. ClosedOnlyWhileReplaced'
    BY <1>1, <1>4 DEF ClosedOnlyWhileReplaced, TypeOK
  <2> QED BY <1>5, <2>1, <2>2, <2>3, <2>4
<1>7. CASE old # None
  <2> USE <1>7
  <2>1. /\ old \in Calls /\ old # c /\ HandedOver(old) /\ key[old] = key[c]
        /\ old \in Registered
    BY <1>1, <1>2 DEF MapInv, TypeOK, Registered
  <2>2. /\ client' = [a \in Calls |-> IF a = old THEN "closed" ELSE client[a]]
        /\ UNCHANGED adapters /\ lock' = c /\ pc' = [pc EXCEPT ![c] = "closing"]
    BY DEF Closed
  <2>3. LockInv'
    BY <1>1, <2>1, <2>2 DEF LockInv, TypeOK
  <2>4. CallInv'
    BY <1>1, <2>1, <2>2 DEF CallInv, Making, HandedOver, TypeOK
  <2>5. MapInv' /\ DoomedInv'
    BY <2>2 DEF MapInv, DoomedInv, HandedOver, TypeOK
  <2>6. NoClientLost'
    BY <2>2 DEF NoClientLost, Owned, Registered, TypeOK
  <2>7. ClosedOnlyWhileReplaced'
    <3>1. \A k \in Keys : adapters[k] # None /\ k # key[c] => adapters[k] # old
      BY <1>1, <2>1 DEF MapInv
    <3> QED BY <1>1, <1>4, <2>2, <3>1 DEF ClosedOnlyWhileReplaced, TypeOK
  <2> QED BY <1>5, <2>3, <2>4, <2>5, <2>6, <2>7
<1> QED BY <1>6, <1>7

LEMMA InstallKeepsIInv ==
  ASSUME IInv, NEW c \in Calls, Install(c)
  PROVE  IInv'
<1> USE RegistryAssumption DEF IInv, Install, Goto
<1>1. key[c] \in Keys /\ Making(c) /\ client[c] = "open" /\ lock = c
  BY DEF CallInv, LockInv, Making
<1>2. \A k \in Keys : adapters[k] # c
  BY DEF MapInv, HandedOver
<1>3. \A d \in Calls : c \notin doomed[d]
  BY DEF DoomedInv, HandedOver
<1>4. client[adapters[key[c]]] = "closed"
  BY <1>1 DEF LockInv
<1>5. TypeOK'
  BY <1>1 DEF TypeOK, PC
<1>6. LockInv' /\ CallInv'
  BY <1>1 DEF LockInv, CallInv, Making, TypeOK
<1>7. MapInv' /\ DoomedInv'
  BY <1>1, <1>2, <1>3 DEF MapInv, DoomedInv, HandedOver, TypeOK
<1>8. NoClientLost'
  <2>1. \A a \in Registered : client[a] = "open" => a \in Registered'
    BY <1>1, <1>4 DEF Registered, TypeOK
  <2>2. c \in Registered'
    BY <1>1 DEF Registered, TypeOK
  <2> QED BY <2>1, <2>2 DEF NoClientLost, Owned, TypeOK
<1>9. ClosedOnlyWhileReplaced'
  BY <1>1 DEF ClosedOnlyWhileReplaced, TypeOK
<1> QED BY <1>5, <1>6, <1>7, <1>8, <1>9

LEMMA DeregisterKeepsIInv ==
  ASSUME IInv, NEW c \in Calls, Deregister(c)
  PROVE  IInv'
<1> USE RegistryAssumption DEF IInv, Deregister, Goto
<1> DEFINE old == adapters[key[c]]
<1>1. key[c] \in Keys
  BY DEF CallInv
<1>2. \A k \in Keys : adapters[k] # None => client[adapters[k]] = "open"
  BY DEF ClosedOnlyWhileReplaced
<1>3. TypeOK'
  BY <1>1 DEF TypeOK, PC, Closed
<1>4. client' = [a \in Calls |-> IF a = old THEN "closed" ELSE client[a]]
  <2>1. CASE old = None
    BY <2>1 DEF TypeOK
  <2>2. CASE old # None
    BY <2>2 DEF Closed
  <2> QED BY <2>1, <2>2
<1>5. old # None => HandedOver(old)
  BY <1>1 DEF MapInv
<1>6. LockInv'
  BY DEF LockInv, TypeOK
<1>7. CallInv'
  BY <1>4, <1>5 DEF CallInv, Making, HandedOver, TypeOK
<1>8. MapInv' /\ DoomedInv'
  BY DEF MapInv, DoomedInv, HandedOver, TypeOK
<1>9. NoClientLost'
  <2>1. \A a \in Registered : a # old => a \in Registered'
    BY <1>1 DEF Registered, TypeOK
  <2> QED BY <1>4, <2>1 DEF NoClientLost, Owned, TypeOK
<1>10. ClosedOnlyWhileReplaced'
  <2>1. \A k \in Keys : adapters[k] # None /\ k # key[c] => adapters[k] # old
    BY <1>1 DEF MapInv
  <2> QED BY <1>1, <1>2, <1>4, <2>1 DEF ClosedOnlyWhileReplaced, TypeOK
<1> QED BY <1>3, <1>6, <1>7, <1>8, <1>9, <1>10

LEMMA ShutdownAllKeepsIInv ==
  ASSUME IInv, NEW c \in Calls, ShutdownAll(c)
  PROVE  IInv'
<1> USE RegistryAssumption DEF IInv, ShutdownAll, Goto
<1>1. Registered \subseteq Calls /\ \A a \in Registered : HandedOver(a)
  BY DEF Registered, MapInv, TypeOK
<1>2. TypeOK'
  BY <1>1 DEF TypeOK, PC
<1>3. LockInv' /\ CallInv'
  BY DEF LockInv, CallInv, Making, TypeOK
<1>4. MapInv' /\ ClosedOnlyWhileReplaced'
  BY DEF MapInv, ClosedOnlyWhileReplaced
<1>5. doomed[c] = {}
  BY DEF DoomedInv
<1>6. DoomedInv'
  BY <1>1 DEF DoomedInv, HandedOver, TypeOK
<1>7. NoClientLost'
  BY <1>5 DEF NoClientLost, Owned, TypeOK
<1> QED BY <1>2, <1>3, <1>4, <1>6, <1>7

LEMMA ShutOneKeepsIInv ==
  ASSUME IInv, NEW c \in Calls, ShutOne(c)
  PROVE  IInv'
<1> USE RegistryAssumption DEF IInv
<1> PICK a \in doomed[c] :
        /\ client' = Closed({a})
        /\ doomed' = [doomed EXCEPT ![c] = @ \ {a}]
  BY DEF ShutOne
<1>1. UNCHANGED <<adapters, lock, op, key, pc>>
  BY DEF ShutOne
<1>2. a \in Calls /\ HandedOver(a) /\ \A k \in Keys : adapters[k] # a
  BY DEF DoomedInv, MapInv, TypeOK
<1>3. client' = [b \in Calls |-> IF b = a THEN "closed" ELSE client[b]]
  BY DEF Closed
<1>4. TypeOK'
  BY <1>1, <1>3 DEF TypeOK
<1>5. LockInv'
  <2>1. \A d \in Calls : lock = d => key[d] \in Keys /\ adapters[key[d]] \in Calls
    BY DEF LockInv, CallInv, TypeOK
  <2> QED BY <1>1, <1>3, <2>1 DEF LockInv
<1>6. CallInv'
  BY <1>1, <1>2, <1>3 DEF CallInv, Making, HandedOver
<1>7. MapInv' /\ DoomedInv'
  BY <1>1 DEF MapInv, DoomedInv, HandedOver, TypeOK
<1>8. NoClientLost'
  <2>1. \A b \in Calls : client'[b] = "open" => b # a /\ client[b] = "open"
    BY <1>3
  <2>2. \A b \in Calls : b # a /\ Owned(b) => Owned(b)'
    BY <1>1 DEF Owned, Registered, TypeOK
  <2> QED BY <1>1, <2>1, <2>2 DEF NoClientLost
<1>9. ClosedOnlyWhileReplaced'
  <2>1. \A k \in Keys : adapters[k] # None => client'[adapters[k]] = client[adapters[k]]
    BY <1>2, <1>3 DEF TypeOK
  <2> QED BY <1>1, <2>1 DEF ClosedOnlyWhileReplaced
<1> QED BY <1>4, <1>5, <1>6, <1>7, <1>8, <1>9

LEMMA FinishKeepsIInv ==
  ASSUME IInv, NEW c \in Calls, Finish(c)
  PROVE  IInv'
<1> USE RegistryAssumption DEF IInv, Finish, Goto
<1>1. TypeOK'
  BY DEF TypeOK, PC
<1>2. LockInv' /\ CallInv'
  BY DEF LockInv, CallInv, Making, TypeOK
<1>3. MapInv' /\ DoomedInv'
  BY DEF MapInv, DoomedInv, HandedOver, TypeOK
<1>4. NoClientLost'
  BY DEF NoClientLost, Owned, Registered, TypeOK
<1>5. ClosedOnlyWhileReplaced'
  BY DEF ClosedOnlyWhileReplaced, TypeOK
<1> QED BY <1>1, <1>2, <1>3, <1>4, <1>5

LEMMA NextKeepsIInv == IInv /\ [Next]_vars => IInv'
<1> SUFFICES ASSUME IInv, [Next]_vars PROVE IInv'
  OBVIOUS
<1>1. CASE UNCHANGED vars
  BY <1>1 DEF vars, IInv, TypeOK, LockInv, CallInv, Making, MapInv, DoomedInv, HandedOver,
              NoClientLost, Owned, Registered, ClosedOnlyWhileReplaced
<1>2. ASSUME NEW c \in Calls, Continue(c) PROVE IInv'
  BY <1>2, HealthCheckKeepsIInv, RegisterKeepsIInv, InstallKeepsIInv, DeregisterKeepsIInv,
     ShutdownAllKeepsIInv, ShutOneKeepsIInv, FinishKeepsIInv DEF Continue
<1> QED
  BY <1>1, <1>2, BeginKeepsIInv DEF Next

-----------------------------------------------------------------------------
\* The inductive invariant holds in every behaviour of the registry.
THEOREM IInvInvariant == Spec => []IInv
  BY InitIInv, NextKeepsIInv, PTL DEF Spec

\* Type correctness for any number of calls and keys.
THEOREM TypeCorrect == Spec => []TypeOK
<1>1. IInv => TypeOK
  BY DEF IInv
<1> QED BY <1>1, IInvInvariant, PTL

\* Whatever registrations, removals and shutdowns interleave, every open client
\* is in the map or in the hands of a call, unless its initialize failed.
THEOREM ClientsAccountedFor == Spec => []NoClientLost
<1>1. IInv => NoClientLost
  BY DEF IInv
<1> QED BY <1>1, IInvInvariant, PTL

\* The map names a closed adapter only while a register under the lock waits to
\* replace it.
THEOREM ClosedOnlyUnderLock == Spec => []ClosedOnlyWhileReplaced
<1>1. IInv => ClosedOnlyWhileReplaced
  BY DEF IInv
<1> QED BY <1>1, IInvInvariant, PTL
=============================================================================
