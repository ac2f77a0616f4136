------------------------ MODULE TriggerStreamProofs ------------------------
(***************************************************************************)
(* TriggerStream's type invariant, at-most-once dispatch and the order of  *)
(* dispatch and acknowledgement, for any number of consumers, any batch    *)
(* size and any number of entries, faults and evictions.                   *)
(***************************************************************************)
EXTENDS TriggerStream, FiniteSetTheorems, TLAPS

\* The group's cursor, against what is in the stream and what has left it.
CursorInv ==
    /\ lastDelivered <= Len(stream)
    /\ floor <= Len(stream)
    /\ group => floor <= lastDelivered
    /\ ~group => lastDelivered <= floor

\* A batch in a consumer's hands lies below the cursor and was delivered, no
\* two overlap, and what is unfinished of it has not been touched.
BatchInv ==
    \A c \in Consumers : Holding(c) =>
        /\ 1 <= first[c] /\ first[c] <= last[c] /\ last[c] <= lastDelivered
        /\ first[c]..last[c] \subseteq delivered
        /\ pc[c] = "ack" => first[c] \in settled
        /\ Unfinished(c) \cap settled = {}

DisjointInv ==
    \A c, d \in Consumers :
        c # d /\ Holding(c) /\ Holding(d) => last[c] < first[d] \/ last[d] < first[c]

\* What the histories say of each other.
HistoryInv ==
    /\ settled \subseteq delivered
    /\ \A i \in delivered : i <= lastDelivered
    /\ \A i \in Entries : /\ dispatches[i] <= 1
                          /\ dispatches[i] = 1 => i \in settled /\ stream[i] # "malformed"

IInv ==
    /\ TypeOK
    /\ CursorInv
    /\ BatchInv
    /\ DisjointInv
    /\ HistoryInv
    /\ LeftPendingOnlySettled

-----------------------------------------------------------------------------
\* The initial state satisfies the invariant.
LEMMA InitEstablishesIInv == Init => IInv
  <1> SUFFICES ASSUME Init PROVE IInv
    OBVIOUS
  <1>1. TypeOK
    <2>1. stream \in Seq(Kinds) /\ Len(stream) \in 0..MaxEntries
      BY BoundsAssumption DEF Init
    <2>2. pc \in [Consumers -> PC] /\ first \in [Consumers -> Nat] /\ last \in [Consumers -> Nat]
      BY DEF Init, PC
    <2>3. dispatches \in [Entries -> Nat]
      BY DEF Init
    <2>4. /\ floor \in 0..MaxEntries /\ lastDelivered \in 0..MaxEntries
          /\ faults \in 0..MaxFaults /\ evictions \in 0..MaxEvictions
      BY BoundsAssumption DEF Init
    <2>5. /\ pending \subseteq Entries /\ delivered \subseteq Entries /\ settled \subseteq Entries
          /\ group \in BOOLEAN
      BY DEF Init
    <2> QED
      BY <2>1, <2>2, <2>3, <2>4, <2>5 DEF TypeOK
  <1>2. CursorInv /\ BatchInv /\ DisjointInv
    BY DEF Init, CursorInv, BatchInv, DisjointInv, Holding
  <1>3. HistoryInv /\ LeftPendingOnlySettled
    BY DEF Init, HistoryInv, LeftPendingOnlySettled
  <1> QED
    BY <1>1, <1>2, <1>3 DEF IInv

\* Each action of TriggerStream preserves the invariant.
LEMMA EnqueueKeepsIInv ==
  ASSUME IInv, NEW kind \in Kinds, Enqueue(kind)
  PROVE  IInv'
  <1>1. TypeOK'
    BY BoundsAssumption
       DEF IInv, TypeOK, CursorInv, BatchInv, Holding, PC, Entries, Enqueue, batchVars,
           historyVars
  <1>2. CursorInv'
    BY BoundsAssumption DEF IInv, TypeOK, CursorInv, Entries, Enqueue, batchVars, historyVars
  <1>3. BatchInv'
    BY BoundsAssumption
       DEF IInv, TypeOK, CursorInv, BatchInv, DisjointInv, HistoryInv, Holding, Unfinished, PC,
           Entries, Enqueue, batchVars, historyVars
  <1>4. DisjointInv'
    BY BoundsAssumption
       DEF IInv, TypeOK, CursorInv, BatchInv, DisjointInv, Holding, PC, Enqueue, batchVars,
           historyVars
  <1>5. HistoryInv'
    BY BoundsAssumption
       DEF IInv, TypeOK, CursorInv, BatchInv, HistoryInv, Holding, Unfinished, Entries,
           Enqueue, batchVars, historyVars
  <1>6. LeftPendingOnlySettled'
    BY BoundsAssumption
       DEF IInv, TypeOK, CursorInv, BatchInv, HistoryInv, Holding, Entries,
           LeftPendingOnlySettled, Enqueue, batchVars, historyVars
  <1> QED
    BY <1>1, <1>2, <1>3, <1>4, <1>5, <1>6 DEF IInv

LEMMA StartKeepsIInv ==
  ASSUME IInv, NEW c \in Consumers, Start(c)
  PROVE  IInv'
  <1>1. TypeOK'
    <2>1. pc' \in [Consumers -> PC]
      BY DEF IInv, TypeOK, PC, Start, Goto
    <2>2. group' \in BOOLEAN /\ lastDelivered' \in 0..MaxEntries
      BY DEF IInv, TypeOK, Start, GroupCreate
    <2>3. faults' \in 0..MaxFaults
      BY BoundsAssumption DEF IInv, TypeOK, Start, Fault
    <2> QED
      BY <2>1, <2>2, <2>3 DEF IInv, TypeOK, Start, batchVars, historyVars
  <1>2. CursorInv'
    BY BoundsAssumption
       DEF IInv, TypeOK, CursorInv, Entries, Start, GroupCreate, Goto, Fault, batchVars,
           historyVars
  <1>3. BatchInv'
    BY BoundsAssumption
       DEF IInv, TypeOK, CursorInv, BatchInv, DisjointInv, HistoryInv, Holding, Unfinished, PC,
           Entries, Start, GroupCreate, Goto, Fault, batchVars, historyVars
  <1>4. DisjointInv'
    BY BoundsAssumption
       DEF IInv, TypeOK, CursorInv, BatchInv, DisjointInv, Holding, PC, Start, GroupCreate,
           Goto, Fault, batchVars, historyVars
  <1>5. HistoryInv'
    BY BoundsAssumption
       DEF IInv, TypeOK, CursorInv, BatchInv, HistoryInv, Holding, Unfinished, Entries, Start,
           GroupCreate, Goto, Fault, batchVars, historyVars
  <1>6. LeftPendingOnlySettled'
    BY BoundsAssumption
       DEF IInv, TypeOK, CursorInv, BatchInv, HistoryInv, Holding, Entries,
           LeftPendingOnlySettled, Start, GroupCreate, Goto, Fault, batchVars, historyVars
  <1> QED
    BY <1>1, <1>2, <1>3, <1>4, <1>5, <1>6 DEF IInv

LEMMA HaltKeepsIInv ==
  ASSUME IInv, NEW c \in Consumers, Halt(c)
  PROVE  IInv'
  BY BoundsAssumption
     DEF IInv, TypeOK, CursorInv, BatchInv, DisjointInv, HistoryInv, Holding, Unfinished, PC,
         LeftPendingOnlySettled, Entries, Halt, DropBatch, Goto, Fault, redisVars, historyVars

LEMMA DeliverKeepsIInv ==
  ASSUME IInv, NEW c \in Consumers, Deliver(c)
  PROVE  IInv'
  <1>1. TypeOK'
    <2>1. pc' \in [Consumers -> PC]
      BY DEF IInv, TypeOK, PC, Deliver, Goto
    <2>2. lastDelivered' \in 0..MaxEntries /\ (lastDelivered + 1)..lastDelivered' \subseteq Entries
      BY BoundsAssumption DEF IInv, TypeOK, Entries, Deliver, SmallerOf
    <2>3. pending' \subseteq Entries /\ delivered' \subseteq Entries
      BY <2>2 DEF IInv, TypeOK, Deliver
    <2>4. first' \in [Consumers -> Nat] /\ last' \in [Consumers -> Nat]
      BY <2>2, BoundsAssumption DEF IInv, TypeOK, Deliver
    <2> QED
      BY <2>1, <2>2, <2>3, <2>4 DEF IInv, TypeOK, Deliver
  <1>2. CursorInv'
    BY BoundsAssumption DEF IInv, TypeOK, CursorInv, Entries, Deliver, SmallerOf, Goto
  <1>3. BatchInv'
    <2>1. /\ lastDelivered \in Nat /\ lastDelivered' \in Nat /\ lastDelivered < lastDelivered'
          /\ delivered' = delivered \cup (lastDelivered + 1)..lastDelivered'
          /\ settled' = settled
      BY BoundsAssumption DEF IInv, TypeOK, Deliver, SmallerOf
    <2>2. pc'[c] = "reply" /\ first'[c] = lastDelivered + 1 /\ last'[c] = lastDelivered'
      BY DEF IInv, TypeOK, Deliver, Goto
    <2>3. \A k \in settled : k <= lastDelivered
      BY DEF IInv, HistoryInv
    <2> SUFFICES ASSUME NEW d \in Consumers, Holding(d)'
                 PROVE  /\ 1 <= first'[d] /\ first'[d] <= last'[d] /\ last'[d] <= lastDelivered'
                        /\ first'[d]..last'[d] \subseteq delivered'
                        /\ pc'[d] = "ack" => first'[d] \in settled'
                        /\ Unfinished(d)' \cap settled' = {}
      BY DEF BatchInv
    <2>4. CASE d = c
      <3>1. Unfinished(d)' \subseteq (lastDelivered + 1)..lastDelivered'
        BY <2>2, <2>4 DEF Unfinished
      <3>2. settled \subseteq Nat
        BY DEF IInv, TypeOK, Entries
      <3>3. Unfinished(d)' \cap settled' = {}
        BY <2>1, <2>3, <3>1, <3>2
      <3> QED
        BY <2>1, <2>2, <2>4, <3>3
    <2>5. CASE d # c
      <3>1. pc'[d] = pc[d] /\ first'[d] = first[d] /\ last'[d] = last[d]
        BY <2>5 DEF IInv, TypeOK, Deliver, Goto
      <3>2. Holding(d) /\ Unfinished(d)' = Unfinished(d)
        BY <3>1 DEF Holding, Unfinished
      <3>3. last[d] \in Nat
        BY DEF IInv, TypeOK
      <3> QED
        BY <2>1, <3>1, <3>2, <3>3 DEF IInv, BatchInv
    <2> QED
      BY <2>4, <2>5
  <1>4. DisjointInv'
    BY BoundsAssumption
       DEF IInv, TypeOK, CursorInv, BatchInv, DisjointInv, Holding, PC, Deliver, SmallerOf,
           Goto
  <1>5. HistoryInv'
    BY BoundsAssumption
       DEF IInv, TypeOK, CursorInv, BatchInv, HistoryInv, Holding, Unfinished, Entries,
           Deliver, SmallerOf, Goto
  <1>6. LeftPendingOnlySettled'
    BY BoundsAssumption
       DEF IInv, TypeOK, CursorInv, BatchInv, HistoryInv, Holding, Entries,
           LeftPendingOnlySettled, Deliver, SmallerOf, Goto
  <1> QED
    BY <1>1, <1>2, <1>3, <1>4, <1>5, <1>6 DEF IInv

LEMMA ReceiveKeepsIInv ==
  ASSUME IInv, NEW c \in Consumers, Receive(c)
  PROVE  IInv'
  BY DEF IInv, TypeOK, CursorInv, BatchInv, DisjointInv, HistoryInv, Holding, Unfinished, PC,
         LeftPendingOnlySettled, Entries, Receive, Goto, redisVars, batchVars, historyVars

LEMMA ReadFailsKeepsIInv ==
  ASSUME IInv, NEW c \in Consumers, ReadFails(c)
  PROVE  IInv'
  <1>1. TypeOK'
    <2>1. pc' \in [Consumers -> PC]
      BY DEF IInv, TypeOK, PC, ReadFails, Goto
    <2>2. first' \in [Consumers -> Nat] /\ last' \in [Consumers -> Nat]
      BY DEF IInv, TypeOK, ReadFails, DropBatch
    <2>3. faults' \in 0..MaxFaults
      BY BoundsAssumption DEF IInv, TypeOK, ReadFails, Fault
    <2> QED
      BY <2>1, <2>2, <2>3 DEF IInv, TypeOK, ReadFails, redisVars, historyVars
  <1>2. CursorInv'
    BY BoundsAssumption
       DEF IInv, TypeOK, CursorInv, Entries, ReadFails, DropBatch, Goto, Fault, redisVars,
           historyVars
  <1>3. BatchInv'
    BY BoundsAssumption
       DEF IInv, TypeOK, CursorInv, BatchInv, DisjointInv, HistoryInv, Holding, Unfinished, PC,
           Entries, ReadFails, DropBatch, Goto, Fault, redisVars, historyVars
  <1>4. DisjointInv'
    BY BoundsAssumption
       DEF IInv, TypeOK, CursorInv, BatchInv, DisjointInv, Holding, PC, ReadFails, DropBatch,
           Goto, Fault, redisVars, historyVars
  <1>5. HistoryInv'
    BY BoundsAssumption
       DEF IInv, TypeOK, CursorInv, BatchInv, HistoryInv, Holding, Unfinished, Entries,
           ReadFails, DropBatch, Goto, Fault, redisVars, historyVars
  <1>6. LeftPendingOnlySettled'
    BY BoundsAssumption
       DEF IInv, TypeOK, CursorInv, BatchInv, HistoryInv, Holding, Entries,
           LeftPendingOnlySettled, ReadFails, DropBatch, Goto, Fault, redisVars, historyVars
  <1> QED
    BY <1>1, <1>2, <1>3, <1>4, <1>5, <1>6 DEF IInv

LEMMA RetryKeepsIInv ==
  ASSUME IInv, NEW c \in Consumers, Retry(c)
  PROVE  IInv'
  BY DEF IInv, TypeOK, CursorInv, BatchInv, DisjointInv, HistoryInv, Holding, Unfinished, PC,
         LeftPendingOnlySettled, Entries, Retry, Goto, redisVars, batchVars, historyVars

LEMMA HandleKeepsIInv ==
  ASSUME IInv, NEW c \in Consumers, Handle(c)
  PROVE  IInv'
  <1> DEFINE i == first[c]
  <1>1. i \in Entries /\ i \in delivered /\ i \notin settled /\ dispatches[i] = 0
    <2>1. i \in first[c]..last[c] /\ i \in Unfinished(c)
      BY DEF IInv, TypeOK, BatchInv, Holding, Unfinished, Handle
    <2> QED
      BY <2>1 DEF IInv, TypeOK, BatchInv, HistoryInv, Holding, Handle
  <1>2. TypeOK'
    <2>1. pc' \in [Consumers -> PC]
      BY DEF IInv, TypeOK, PC, Handle, Goto
    <2>2. dispatches' \in [Entries -> Nat] /\ settled' \subseteq Entries
      BY <1>1 DEF IInv, TypeOK, Handle, Dispatch
    <2> QED
      BY <2>1, <2>2 DEF IInv, TypeOK, Handle, redisVars, batchVars
  <1>3. CursorInv'
    BY DEF IInv, CursorInv, Handle, redisVars
  <1>4. BatchInv'
    <2> SUFFICES ASSUME NEW d \in Consumers, Holding(d)'
                 PROVE  /\ 1 <= first[d] /\ first[d] <= last[d] /\ last[d] <= lastDelivered
                        /\ first[d]..last[d] \subseteq delivered
                        /\ pc'[d] = "ack" => first[d] \in settled'
                        /\ Unfinished(d)' \cap settled' = {}
      BY DEF BatchInv, Handle, redisVars, batchVars
    <2>1. Holding(d) /\ pc[c] = "handle" /\ Holding(c) /\ settled' = settled \cup {i}
      BY DEF IInv, TypeOK, Holding, Handle, Goto
    <2>2. CASE d = c
      BY <1>1, <2>1, <2>2
         DEF IInv, TypeOK, BatchInv, Holding, Unfinished, Handle, Goto, batchVars
    <2>3. CASE d # c
      <3>1. pc'[d] = pc[d] /\ Unfinished(d)' = Unfinished(d)
        BY <2>3 DEF IInv, TypeOK, Holding, Unfinished, Handle, Goto, batchVars
      <3>2. i \notin Unfinished(d)
        BY <2>1, <2>3 DEF IInv, TypeOK, BatchInv, DisjointInv, Unfinished
      <3> QED
        BY <2>1, <3>1, <3>2 DEF IInv, BatchInv
    <2> QED
      BY <2>2, <2>3
  <1>5. DisjointInv'
    BY DEF IInv, TypeOK, DisjointInv, Holding, Handle, Goto, batchVars
  <1>6. HistoryInv'
    <2>1. settled' \subseteq delivered' /\ \A k \in delivered' : k <= lastDelivered'
      BY <1>1 DEF IInv, HistoryInv, Handle, redisVars
    <2>2. ASSUME NEW k \in Entries
          PROVE  /\ dispatches'[k] <= 1
                 /\ dispatches'[k] = 1 => k \in settled' /\ stream'[k] # "malformed"
      BY <1>1 DEF IInv, TypeOK, HistoryInv, Handle, Dispatch, redisVars
    <2> QED
      BY <2>1, <2>2 DEF HistoryInv
  <1>7. LeftPendingOnlySettled'
    BY DEF IInv, LeftPendingOnlySettled, Handle, redisVars
  <1> QED
    BY <1>2, <1>3, <1>4, <1>5, <1>6, <1>7 DEF IInv

LEMMA AckKeepsIInv ==
  ASSUME IInv, NEW c \in Consumers, Ack(c)
  PROVE  IInv'
  <1>1. TypeOK'
    <2>1. pc' \in [Consumers -> PC]
      BY DEF IInv, TypeOK, PC, Ack, Goto
    <2>2. pending' \subseteq Entries
      BY DEF IInv, TypeOK, Ack
    <2>3. first' \in [Consumers -> Nat]
      BY DEF IInv, TypeOK, Ack
    <2>4. faults' \in 0..MaxFaults
      BY BoundsAssumption DEF IInv, TypeOK, Ack, Fault
    <2> QED
      BY <2>1, <2>2, <2>3, <2>4 DEF IInv, TypeOK, Ack, historyVars
  <1>2. CursorInv'
    BY BoundsAssumption DEF IInv, TypeOK, CursorInv, Entries, Ack, Goto, Fault, historyVars
  <1>3. BatchInv'
    <2>1. /\ last' = last /\ settled' = settled
          /\ delivered' = delivered /\ lastDelivered' = lastDelivered
      BY DEF Ack, historyVars
    <2> SUFFICES ASSUME NEW d \in Consumers, Holding(d)'
                 PROVE  /\ 1 <= first'[d] /\ first'[d] <= last[d] /\ last[d] <= lastDelivered
                        /\ first'[d]..last[d] \subseteq delivered
                        /\ pc'[d] = "ack" => first'[d] \in settled
                        /\ Unfinished(d)' \cap settled = {}
      BY <2>1 DEF BatchInv
    <2>2. CASE d = c
      <3>1. /\ pc[c] = "ack" /\ pc'[c] = "handle" /\ first[c] < last[c]
            /\ first'[c] = first[c] + 1
        BY <2>2 DEF IInv, TypeOK, Holding, Ack, Goto
      <3>2. first[c] \in Nat /\ last[c] \in Nat
        BY DEF IInv, TypeOK
      <3>3. /\ 1 <= first[c] /\ last[c] <= lastDelivered
            /\ first[c]..last[c] \subseteq delivered
            /\ Unfinished(c) \cap settled = {}
        BY <3>1 DEF IInv, BatchInv, Holding
      <3>4. Unfinished(c)' \subseteq Unfinished(c)
        BY <2>1, <3>1, <3>2 DEF Unfinished, Holding
      <3> QED
        BY <2>2, <3>1, <3>2, <3>3, <3>4
    <2>3. CASE d # c
      <3>1. pc'[d] = pc[d] /\ first'[d] = first[d]
        BY <2>3 DEF IInv, TypeOK, Ack, Goto
      <3>2. Holding(d) /\ Unfinished(d)' = Unfinished(d)
        BY <2>1, <3>1 DEF Holding, Unfinished
      <3> QED
        BY <3>1, <3>2 DEF IInv, BatchInv
    <2> QED
      BY <2>2, <2>3
  <1>4. DisjointInv'
    BY BoundsAssumption
       DEF IInv, TypeOK, CursorInv, BatchInv, DisjointInv, Holding, PC, Ack, Goto, Fault,
           historyVars
  <1>5. HistoryInv'
    BY BoundsAssumption
       DEF IInv, TypeOK, CursorInv, BatchInv, HistoryInv, Holding, Unfinished, Entries, Ack,
           Goto, Fault, historyVars
  <1>6. LeftPendingOnlySettled'
    BY BoundsAssumption
       DEF IInv, TypeOK, CursorInv, BatchInv, HistoryInv, Holding, Entries,
           LeftPendingOnlySettled, Ack, Goto, Fault, historyVars
  <1> QED
    BY <1>1, <1>2, <1>3, <1>4, <1>5, <1>6 DEF IInv

LEMMA EvictKeepsIInv ==
  ASSUME IInv, Evict
  PROVE  IInv'
  <1>1. TypeOK'
    <2>1. floor' \in 0..MaxEntries /\ pending' \subseteq Entries /\ group' \in BOOLEAN
      BY DEF IInv, TypeOK, Evict
    <2>2. evictions' \in 0..MaxEvictions
      BY BoundsAssumption DEF IInv, TypeOK, Evict
    <2> QED
      BY <2>1, <2>2 DEF IInv, TypeOK, Evict, batchVars, historyVars
  <1>2. CursorInv'
    BY BoundsAssumption DEF IInv, TypeOK, CursorInv, Entries, Evict, batchVars, historyVars
  <1>3. BatchInv'
    BY BoundsAssumption
       DEF IInv, TypeOK, CursorInv, BatchInv, DisjointInv, HistoryInv, Holding, Unfinished, PC,
           Entries, Evict, batchVars, historyVars
  <1>4. DisjointInv'
    BY BoundsAssumption
       DEF IInv, TypeOK, CursorInv, BatchInv, DisjointInv, Holding, PC, Evict, batchVars,
           historyVars
  <1>5. HistoryInv'
    BY BoundsAssumption
       DEF IInv, TypeOK, CursorInv, BatchInv, HistoryInv, Holding, Unfinished, Entries, Evict,
           batchVars, historyVars
  <1>6. LeftPendingOnlySettled'
    BY BoundsAssumption
       DEF IInv, TypeOK, CursorInv, BatchInv, HistoryInv, Holding, Entries,
           LeftPendingOnlySettled, Evict, batchVars, historyVars
  <1> QED
    BY <1>1, <1>2, <1>3, <1>4, <1>5, <1>6 DEF IInv

LEMMA StutterKeepsIInv ==
  ASSUME IInv, UNCHANGED vars
  PROVE  IInv'
  BY DEF IInv, TypeOK, CursorInv, BatchInv, DisjointInv, HistoryInv, Holding, Unfinished, PC,
         LeftPendingOnlySettled, Entries, vars, redisVars, batchVars, historyVars

\* IInv is inductive.
THEOREM IInvInvariant == Spec => []IInv
  <1>1. Init => IInv
    BY InitEstablishesIInv
  <1>2. IInv /\ [Next]_vars => IInv'
    BY EnqueueKeepsIInv, StartKeepsIInv, HaltKeepsIInv, DeliverKeepsIInv, ReceiveKeepsIInv,
       ReadFailsKeepsIInv, RetryKeepsIInv, HandleKeepsIInv, AckKeepsIInv, EvictKeepsIInv,
       StutterKeepsIInv
       DEF Next, Consume, Stop, Crash, Poll
  <1> QED
    BY <1>1, <1>2, PTL DEF Spec

\* The variables of the pipeline keep their types.
THEOREM TypeCorrect == Spec => []TypeOK
  BY IInvInvariant, PTL DEF IInv

\* Over all consumers, crashes and restarts the engine is asked to run an entry
\* at most once, and never one that cannot be parsed.
THEOREM AtMostOnce == Spec => []DispatchedAtMostOnce
  <1>1. IInv => DispatchedAtMostOnce
    BY DEF IInv, TypeOK, CursorInv, HistoryInv, DispatchedAtMostOnce, Entries
  <1> QED
    BY <1>1, IInvInvariant, PTL

\* Nothing leaves the pending-entries list unsettled, short of an eviction.
THEOREM AckAfterDispatch == Spec => []LeftPendingOnlySettled
  BY IInvInvariant, PTL DEF IInv
-----------------------------------------------------------------------------
(***************************************************************************)
(* What is lost.  An entry is lost when the batch it is in is dropped, so  *)
(* LossBoundedByFaults is inductive together with the size of a batch.     *)
(***************************************************************************)

\* What a consumer holds is no longer than one read.
SizeInv == \A c \in Consumers : Holding(c) => last[c] < first[c] + BatchMax

LossInv == IInv /\ SizeInv /\ LossBoundedByFaults

\* Nobody holds a settled entry, and no two consumers hold the same one.
LEMMA HoldingIsExclusive ==
  ASSUME IInv
  PROVE  /\ InHand \subseteq delivered
         /\ InHand \cap settled = {}
         /\ \A c, d \in Consumers : c # d => Unfinished(c) \cap Unfinished(d) = {}
  <1>1. ASSUME NEW c \in Consumers
        PROVE  Unfinished(c) \subseteq delivered /\ Unfinished(c) \cap settled = {}
    BY DEF IInv, BatchInv, Unfinished
  <1>2. ASSUME NEW c \in Consumers, NEW d \in Consumers, c # d
        PROVE  Unfinished(c) \cap Unfinished(d) = {}
    <2>1. CASE Holding(c) /\ Holding(d)
      <3>1. /\ first[c] \in Nat /\ last[c] \in Nat /\ first[d] \in Nat /\ last[d] \in Nat
            /\ last[c] < first[d] \/ last[d] < first[c]
        BY <1>2, <2>1, BoundsAssumption DEF IInv, TypeOK, DisjointInv
      <3>2. (first[c]..last[c]) \cap (first[d]..last[d]) = {}
        BY <3>1
      <3> QED BY <3>2 DEF Unfinished
    <2>2. CASE ~Holding(c) \/ ~Holding(d)
      BY <2>2 DEF Unfinished
    <2> QED BY <2>1, <2>2
  <1> QED
    BY <1>1, <1>2 DEF InHand

\* When one consumer steps, only its part of what is in hand changes.
LEMMA InHandMoves ==
  ASSUME IInv, NEW c \in Consumers,
         \A d \in Consumers : d # c => Unfinished(d)' = Unfinished(d)
  PROVE  InHand' = (InHand \ Unfinished(c)) \cup Unfinished(c)'
  <1>1. \A d \in Consumers : d # c => Unfinished(d) \cap Unfinished(c) = {}
    BY HoldingIsExclusive
  <1>2. ASSUME NEW i PROVE (\E d \in Consumers : i \in Unfinished(d)') <=>
                           (\E d \in Consumers : i \in Unfinished(d) /\ i \notin Unfinished(c))
                             \/ i \in Unfinished(c)'
    BY <1>1
  <1>3. \A i : /\ i \in InHand <=> \E d \in Consumers : i \in Unfinished(d)
               /\ i \in InHand' <=> \E d \in Consumers : i \in Unfinished(d)'
    BY DEF InHand
  <1> QED
    BY <1>2, <1>3

\* The actions of one consumer, by what they do to the entries it holds.
LEMMA OthersKeepTheirs ==
  ASSUME IInv, NEW c \in Consumers,
         Start(c) \/ Halt(c) \/ Consume(c) \/ ReadFails(c) \/ Retry(c)
  PROVE  \A d \in Consumers \ {c} : Unfinished(d)' = Unfinished(d) /\ (Holding(d)' <=> Holding(d))
                                    /\ first'[d] = first[d] /\ last'[d] = last[d]
  <1> SUFFICES ASSUME NEW d \in Consumers \ {c}
               PROVE  pc'[d] = pc[d] /\ first'[d] = first[d] /\ last'[d] = last[d]
    BY DEF Unfinished, Holding
  <1>1. pc'[d] = pc[d]
    BY DEF IInv, TypeOK, Start, Halt, Consume, Deliver, Receive, Handle, Ack, ReadFails, Retry,
           Goto
  <1>2. first'[d] = first[d] /\ last'[d] = last[d]
    BY DEF IInv, TypeOK, Start, Halt, Consume, Deliver, Receive, Handle, Ack, ReadFails, Retry,
           DropBatch, batchVars
  <1> QED
    BY <1>1, <1>2

\* Starting, receiving the reply, going back to read and acknowledging leave
\* everything in the hands it is in.
LEMMA QuietSteps ==
  ASSUME IInv, NEW c \in Consumers, Start(c) \/ Receive(c) \/ Retry(c) \/ Ack(c)
  PROVE  /\ InHand' = InHand
         /\ UNCHANGED <<stream, floor, delivered, settled, dispatches>>
  <1>1. Unfinished(c)' = Unfinished(c)
    <2>1. CASE Start(c) \/ Receive(c) \/ Retry(c)
      BY <2>1 DEF IInv, TypeOK, Start, Receive, Retry, Goto, Unfinished, Holding, batchVars
    <2>2. CASE Ack(c)
      <3>1. /\ pc[c] = "ack" /\ pc'[c] = IF first[c] < last[c] THEN "handle" ELSE "read"
            /\ first'[c] = first[c] + 1 /\ last'[c] = last[c]
            /\ first[c] \in Nat /\ last[c] \in Nat
        BY <2>2 DEF IInv, TypeOK, Ack, Goto
      <3>2. Unfinished(c) = (first[c] + 1)..last[c]
        BY <3>1 DEF Unfinished, Holding
      <3>3. CASE first[c] < last[c]
        BY <3>1, <3>2, <3>3 DEF Unfinished, Holding
      <3>4. CASE ~(first[c] < last[c])
        <4>1. (first[c] + 1)..last[c] = {}
          BY <3>1, <3>4
        <4>2. Unfinished(c)' = {}
          BY <3>1, <3>4 DEF Unfinished, Holding
        <4> QED
          BY <3>2, <4>1, <4>2
      <3> QED
        BY <3>3, <3>4
    <2> QED
      BY <2>1, <2>2
  <1>2. InHand' = (InHand \ Unfinished(c)) \cup Unfinished(c)'
    BY InHandMoves, OthersKeepTheirs DEF Consume
  <1>3. Unfinished(c) \subseteq InHand
    BY DEF InHand
  <1>4. UNCHANGED <<stream, floor, delivered, settled, dispatches>>
    BY DEF Start, Receive, Retry, Ack, redisVars, historyVars
  <1> QED
    BY <1>1, <1>2, <1>3, <1>4

\* A read hands its batch, new to everyone, to one consumer.
LEMMA DeliverStep ==
  ASSUME IInv, NEW c \in Consumers, Deliver(c)
  PROVE  LET batch == (lastDelivered + 1)..lastDelivered'
         IN  /\ InHand' = InHand \cup batch
             /\ delivered' = delivered \cup batch
             /\ \A i \in batch : i \in Entries \ delivered /\ floor < i /\ i <= Len(stream)
             /\ first'[c] = lastDelivered + 1 /\ last'[c] = lastDelivered'
             /\ lastDelivered \in Nat /\ lastDelivered' \in Nat
             /\ lastDelivered' <= lastDelivered + BatchMax
             /\ UNCHANGED <<stream, floor, settled, dispatches, faults>>
  <1>1. /\ pc[c] = "read" /\ pc'[c] = "reply"
        /\ first'[c] = lastDelivered + 1 /\ last'[c] = lastDelivered'
    BY DEF IInv, TypeOK, Deliver, Goto
  <1>2. Unfinished(c) = {} /\ Unfinished(c)' = (lastDelivered + 1)..lastDelivered'
    BY <1>1 DEF Unfinished, Holding
  <1>3. InHand' = (InHand \ Unfinished(c)) \cup Unfinished(c)'
    BY InHandMoves, OthersKeepTheirs DEF Consume
  <1>4. /\ lastDelivered \in Nat /\ lastDelivered' \in Nat /\ lastDelivered' <= Len(stream)
        /\ lastDelivered' <= lastDelivered + BatchMax /\ Len(stream) \in 0..MaxEntries
    BY BoundsAssumption DEF IInv, TypeOK, Deliver, SmallerOf
  <1>5. floor <= lastDelivered /\ floor \in Nat
    BY DEF IInv, TypeOK, CursorInv, Deliver
  <1>6. \A i \in (lastDelivered + 1)..lastDelivered' :
            i \in Entries \ delivered /\ floor < i /\ i <= Len(stream)
    BY <1>4, <1>5, BoundsAssumption DEF IInv, HistoryInv, Entries
  <1>7. /\ delivered' = delivered \cup (lastDelivered + 1)..lastDelivered'
        /\ UNCHANGED <<stream, floor, settled, dispatches, faults>>
    BY DEF Deliver
  <1> QED
    BY <1>1, <1>2, <1>3, <1>4, <1>6, <1>7

\* Handling an entry takes it out of its consumer's hands and settles it.
LEMMA HandleStep ==
  ASSUME IInv, NEW c \in Consumers, Handle(c)
  PROVE  /\ first[c] \in InHand /\ first[c] \in Entries
         /\ InHand' = InHand \ {first[c]}
         /\ settled' = settled \cup {first[c]}
         /\ UNCHANGED <<stream, floor, delivered>>
  <1>1. /\ pc[c] = "handle" /\ pc'[c] = "ack"
        /\ first'[c] = first[c] /\ last'[c] = last[c]
        /\ first[c] \in Nat /\ last[c] \in Nat
    BY DEF IInv, TypeOK, Handle, Goto, batchVars
  <1>2. first[c] <= last[c]
    BY <1>1 DEF IInv, BatchInv, Holding
  <1>3. Unfinished(c) = first[c]..last[c] /\ Unfinished(c)' = Unfinished(c) \ {first[c]}
    BY <1>1 DEF Unfinished, Holding
  <1>4. InHand' = (InHand \ Unfinished(c)) \cup Unfinished(c)'
    BY InHandMoves, OthersKeepTheirs DEF Consume
  <1>5. first[c] \in Unfinished(c) /\ Unfinished(c) \subseteq InHand
    BY <1>1, <1>2, <1>3 DEF InHand
  <1>6. first[c] \in Entries
    BY <1>5, HoldingIsExclusive DEF IInv, TypeOK
  <1>7. settled' = settled \cup {first[c]} /\ UNCHANGED <<stream, floor, delivered>>
    BY DEF Handle, redisVars
  <1> QED
    BY <1>3, <1>4, <1>5, <1>6, <1>7

\* An interrupted consumer drops all it holds.
LEMMA DropStep ==
  ASSUME IInv, NEW c \in Consumers, Halt(c) \/ ReadFails(c)
  PROVE  /\ InHand' = InHand \ Unfinished(c)
         /\ UNCHANGED <<stream, floor, delivered, settled, dispatches>>
         /\ ~Holding(c)'
         /\ (Unfinished(c) = {} /\ faults' = faults) \/ faults' = faults + 1
  <1>1. ~Holding(c)'
    BY DEF IInv, TypeOK, Halt, ReadFails, Goto, Holding
  <1>2. InHand' = (InHand \ Unfinished(c)) \cup Unfinished(c)'
    BY InHandMoves, OthersKeepTheirs
  <1>3. Unfinished(c)' = {}
    BY <1>1 DEF Unfinished
  <1>4. UNCHANGED <<stream, floor, delivered, settled, dispatches>>
    BY DEF Halt, ReadFails, redisVars, historyVars
  <1>5. (Unfinished(c) = {} /\ faults' = faults) \/ faults' = faults + 1
    BY DEF Halt, ReadFails, Fault, Unfinished, Holding
  <1> QED
    BY <1>1, <1>2, <1>3, <1>4, <1>5

-----------------------------------------------------------------------------
\* A set of entries is finite.
LEMMA EntrySets ==
  ASSUME NEW S \in SUBSET Entries
  PROVE  IsFiniteSet(S) /\ Cardinality(S) \in Nat
  <1>1. IsFiniteSet(Entries)
    BY FS_Interval, BoundsAssumption DEF Entries
  <1>2. IsFiniteSet(S)
    BY <1>1, FS_Subset
  <1> QED
    BY <1>2, FS_CardinalityType

\* A consumer holds at most one batch.
LEMMA HoldsOneBatch ==
  ASSUME IInv, SizeInv, NEW c \in Consumers
  PROVE  Cardinality(Unfinished(c)) <= BatchMax
  <1>1. CASE Holding(c)
    <2>1. Unfinished(c) \in SUBSET (first[c]..last[c])
      BY <1>1 DEF Unfinished
    <2>2. /\ first[c] \in Int /\ last[c] \in Int
          /\ first[c] <= last[c] /\ last[c] < first[c] + BatchMax
      BY <1>1 DEF IInv, TypeOK, BatchInv, SizeInv
    <2>3. IsFiniteSet(first[c]..last[c]) /\ Cardinality(first[c]..last[c]) = last[c] - first[c] + 1
      BY <2>2, FS_Interval
    <2>4. Cardinality(Unfinished(c)) <= Cardinality(first[c]..last[c])
      BY <2>1, <2>3, FS_Subset
    <2>5. IsFiniteSet(Unfinished(c))
      BY <2>1, <2>3, FS_Subset
    <2>6. Cardinality(Unfinished(c)) \in Nat
      BY <2>5, FS_CardinalityType
    <2> QED
      BY <2>2, <2>3, <2>4, <2>6, BoundsAssumption
  <1>2. CASE ~Holding(c)
    BY <1>2, FS_EmptySet, BoundsAssumption DEF Unfinished
  <1> QED
    BY <1>1, <1>2

\* Steps that lose nothing: what was not lost before is not lost after.
LEMMA NothingLost ==
  ASSUME IInv, Lost' \subseteq Lost, faults' \in {faults, faults + 1}, LossBoundedByFaults
  PROVE  LossBoundedByFaults'
  <1>1. Lost \in SUBSET Entries /\ faults \in Nat
    BY DEF IInv, TypeOK, Lost
  <1>2. IsFiniteSet(Lost) /\ Cardinality(Lost) \in Nat
    BY <1>1, EntrySets
  <1>3. Cardinality(Lost') <= Cardinality(Lost) /\ Cardinality(Lost') \in Nat
    BY <1>1, <1>2, FS_Subset, EntrySets
  <1>4. BatchMax * (faults + 1) = BatchMax * faults + BatchMax /\ BatchMax * faults \in Nat
    BY <1>1, BoundsAssumption
  <1>5. BatchMax * faults' \in Nat /\ BatchMax * faults <= BatchMax * faults'
    <2>1. CASE faults' = faults
      BY <1>4, <2>1
    <2>2. CASE faults' = faults + 1
      <3>1. BatchMax * faults' = BatchMax * faults + BatchMax
        BY <1>4, <2>2
      <3> QED
        BY <1>4, <3>1, BoundsAssumption
    <2> QED
      BY <2>1, <2>2
  <1>6. Cardinality(Lost) <= BatchMax * faults
    BY DEF LossBoundedByFaults
  <1> QED
    BY <1>2, <1>3, <1>4, <1>5, <1>6 DEF LossBoundedByFaults

\* An interruption loses what its consumer held.
LEMMA OneBatchLost ==
  ASSUME LossInv, NEW c \in Consumers, Halt(c) \/ ReadFails(c)
  PROVE  LossBoundedByFaults'
  <1> USE DEF LossInv
  <1>1. Unfinished(c) \subseteq delivered /\ Lost \subseteq delivered /\ faults \in Nat
        /\ delivered \subseteq Entries
    BY HoldingIsExclusive DEF IInv, TypeOK, Lost, InHand
  <1>2. Lost' \subseteq Lost \cup Unfinished(c)
    BY DropStep DEF Lost
  <1>3. CASE Unfinished(c) = {} /\ faults' = faults
    BY <1>1, <1>2, <1>3, NothingLost
  <1>4. CASE faults' = faults + 1
    <2> DEFINE n == Cardinality(Lost)
               m == Cardinality(Unfinished(c))
               u == Cardinality(Lost \cup Unfinished(c))
    <2>1. /\ IsFiniteSet(Lost) /\ n \in Nat /\ IsFiniteSet(Unfinished(c)) /\ m \in Nat
          /\ IsFiniteSet(Lost \cup Unfinished(c)) /\ u \in Nat
          /\ IsFiniteSet(Lost \cap Unfinished(c)) /\ Cardinality(Lost \cap Unfinished(c)) \in Nat
      BY <1>1, EntrySets
    <2>2. u = n + m - Cardinality(Lost \cap Unfinished(c))
      BY <2>1, FS_Union
    <2>3. Cardinality(Lost') <= u /\ Cardinality(Lost') \in Nat
      BY <1>1, <1>2, <2>1, FS_Subset, EntrySets
    <2>4. m <= BatchMax /\ n <= BatchMax * faults
      BY HoldsOneBatch DEF LossBoundedByFaults
    <2>5. BatchMax * faults' = BatchMax * faults + BatchMax /\ BatchMax * faults \in Nat
      BY <1>1, <1>4, BoundsAssumption
    <2> HIDE DEF n, m, u
    <2>6. Cardinality(Lost') <= BatchMax * faults'
      BY <2>1, <2>2, <2>3, <2>4, <2>5, BoundsAssumption
    <2> QED
      BY <2>6 DEF LossBoundedByFaults
  <1> QED
    BY <1>3, <1>4, DropStep

\* What consumers hold never grows longer than one read.
LEMMA SizeKept ==
  ASSUME IInv, SizeInv, NEW c \in Consumers,
         Start(c) \/ Halt(c) \/ Consume(c) \/ ReadFails(c) \/ Retry(c)
  PROVE  SizeInv'
  <1>1. ASSUME Holding(c)' PROVE last'[c] < first'[c] + BatchMax
    <2>1. CASE Start(c) \/ Halt(c) \/ ReadFails(c) \/ Retry(c)
      BY <1>1, <2>1, DropStep DEF IInv, TypeOK, Start, Retry, Goto, Holding
    <2>2. CASE Deliver(c)
      BY <2>2, DeliverStep, BoundsAssumption
    <2>3. CASE Receive(c) \/ Handle(c)
      BY <2>3 DEF IInv, TypeOK, SizeInv, Receive, Handle, Holding, batchVars
    <2>4. CASE Ack(c)
      BY <2>4, BoundsAssumption DEF IInv, TypeOK, SizeInv, Ack, Goto, Holding
    <2> QED
      BY <2>1, <2>2, <2>3, <2>4 DEF Consume
  <1>2. ASSUME NEW d \in Consumers, d # c, Holding(d)' PROVE last'[d] < first'[d] + BatchMax
    BY <1>2, OthersKeepTheirs DEF SizeInv
  <1> QED
    BY <1>1, <1>2 DEF SizeInv

\* Every step keeps the bound on what is lost.
LEMMA LossInvStep == LossInv /\ IInv' /\ [Next]_vars => LossInv'
  <1> SUFFICES ASSUME LossInv, IInv', [Next]_vars PROVE SizeInv' /\ LossBoundedByFaults'
    BY DEF LossInv
  <1>1. faults \in Nat /\ faults' \in Nat
    BY DEF LossInv, IInv, TypeOK
  <1>2. CASE (\E kind \in Kinds : Enqueue(kind)) \/ Evict \/ UNCHANGED vars
             \/ \E c \in Consumers : Poll(c)
    <2>1. UNCHANGED <<pc, first, last, delivered, settled, faults>>
      BY <1>2 DEF Enqueue, Evict, Poll, vars, redisVars, batchVars, historyVars
    <2>2. SizeInv'
      BY <2>1 DEF LossInv, SizeInv, Holding
    <2>3. \A c \in Consumers : Unfinished(c)' = Unfinished(c)
      BY <2>1 DEF Unfinished, Holding
    <2>4. Lost' = Lost
      BY <2>1, <2>3 DEF Lost, InHand
    <2> QED
      BY <1>1, <2>1, <2>2, <2>4, NothingLost DEF LossInv
  <1>3. ASSUME NEW c \in Consumers, Start(c) \/ Receive(c) \/ Retry(c) \/ Ack(c)
        PROVE  SizeInv' /\ LossBoundedByFaults'
    <2>1. Lost' = Lost
      BY <1>3, QuietSteps DEF LossInv, Lost
    <2>2. faults' \in {faults, faults + 1}
      BY <1>1, <1>3 DEF Start, Receive, Retry, Ack, Fault
    <2> QED
      BY <1>1, <1>3, <2>1, <2>2, NothingLost, SizeKept DEF LossInv, Consume
  <1>4. ASSUME NEW c \in Consumers, Deliver(c)
        PROVE  SizeInv' /\ LossBoundedByFaults'
    <2>1. Lost' \subseteq Lost
      BY <1>4, DeliverStep DEF LossInv, Lost
    <2> QED
      BY <1>1, <1>4, <2>1, DeliverStep, NothingLost, SizeKept DEF LossInv, Consume
  <1>5. ASSUME NEW c \in Consumers, Handle(c)
        PROVE  SizeInv' /\ LossBoundedByFaults'
    <2>1. Lost' \subseteq Lost
      BY <1>5, HandleStep DEF LossInv, Lost
    <2>2. faults' = faults
      BY <1>5 DEF Handle
    <2> QED
      BY <1>1, <1>5, <2>1, <2>2, NothingLost, SizeKept DEF LossInv, Consume
  <1>6. ASSUME NEW c \in Consumers, Halt(c) \/ ReadFails(c)
        PROVE  SizeInv' /\ LossBoundedByFaults'
    BY <1>6, OneBatchLost, SizeKept DEF LossInv
  <1> QED
    BY <1>2, <1>3, <1>4, <1>5, <1>6 DEF Next, Consume, Stop, Crash

\* Each crash, stop or failed call loses at most one batch of triggers, and
\* without one none is lost.
THEOREM OneBatchPerFault == Spec => []LossBoundedByFaults
  <1>1. Init => LossInv
    <2> SUFFICES ASSUME Init PROVE SizeInv /\ LossBoundedByFaults
      BY InitEstablishesIInv DEF LossInv
    <2>1. SizeInv
      BY DEF Init, SizeInv, Holding
    <2>2. Lost = {} /\ faults = 0
      BY DEF Init, Lost
    <2> QED
      BY <2>1, <2>2, FS_EmptySet, BoundsAssumption DEF LossBoundedByFaults
  <1>2. LossInv => LossBoundedByFaults
    BY DEF LossInv
  <1> QED
    BY <1>1, <1>2, LossInvStep, IInvInvariant, PTL DEF Spec

-----------------------------------------------------------------------------
(***************************************************************************)
(* The refinement.  The fate of an entry is read off five sets of entries; *)
(* by the invariant every entry has exactly one fate, before and after.    *)
(***************************************************************************)

\* The fate of an entry, by the sets it is in.
FateTable ==
    \A i \in Entries :
        /\ i \in settled => FateOf(i) = "settled"
        /\ i \in InHand => FateOf(i) = "claimed"
        /\ i \in Lost \cup Evicted => FateOf(i) = "lost"
        /\ i \notin delivered /\ floor < i /\ i <= Len(stream) => FateOf(i) = "waiting"
        /\ i > Len(stream) => FateOf(i) = "unsent"

LEMMA Fates == IInv => FateTable
  <1> SUFFICES ASSUME IInv, NEW i \in Entries
               PROVE  /\ i \in settled => FateOf(i) = "settled"
                      /\ i \in InHand => FateOf(i) = "claimed"
                      /\ i \in Lost \cup Evicted => FateOf(i) = "lost"
                      /\ i \notin delivered /\ floor < i /\ i <= Len(stream)
                            => FateOf(i) = "waiting"
                      /\ i > Len(stream) => FateOf(i) = "unsent"
    BY DEF FateTable
  <1>1. /\ InHand \subseteq delivered /\ InHand \cap settled = {} /\ settled \subseteq delivered
        /\ \A k \in delivered : k <= Len(stream)
        /\ \A k \in Evicted : k <= Len(stream) /\ k <= floor /\ k \notin delivered
        /\ Lost \subseteq delivered \ settled /\ Lost \cap InHand = {}
    BY HoldingIsExclusive, BoundsAssumption
       DEF IInv, TypeOK, CursorInv, HistoryInv, Entries, Evicted, Lost
  <1>2. i \in Nat /\ floor \in Nat /\ Len(stream) \in Nat
    BY BoundsAssumption DEF Entries, IInv, TypeOK
  <1> QED
    BY <1>1, <1>2 DEF FateOf

LEMMA FatesNext == IInv' => FateTable'
  BY Fates, PTL

\* Every entry is in one of those sets.
LEMMA EveryFate ==
  ASSUME IInv, NEW i \in Entries
  PROVE  \/ i \in settled
         \/ i \in InHand
         \/ i \in Lost \cup Evicted
         \/ i \notin delivered /\ floor < i /\ i <= Len(stream)
         \/ i > Len(stream)
  <1>1. i \in Nat /\ floor \in Nat /\ Len(stream) \in Nat
    BY BoundsAssumption DEF Entries, IInv, TypeOK
  <1> QED
    BY <1>1 DEF Lost, Evicted

\* A step that leaves every fate and every count is a stutter of TriggerDelivery.
LEMMA Stutters ==
  ASSUME \A i \in Entries : FateOf(i)' = FateOf(i), dispatches' = dispatches
  PROVE  UNCHANGED Delivery!absVars
  BY DEF Delivery!absVars

\* One that moves exactly the entries of S is a Move of TriggerDelivery.
LEMMA Moves ==
  ASSUME NEW S \in SUBSET Entries, NEW from, NEW to,
         \A i \in S : FateOf(i) = from /\ FateOf(i)' = to,
         \A i \in Entries \ S : FateOf(i)' = FateOf(i)
  PROVE  Delivery!Move(S, from, to)
  BY DEF Delivery!Move

\* Appending an entry is Accept.
LEMMA EnqueueRefines ==
  ASSUME IInv, IInv', NEW kind \in Kinds, Enqueue(kind)
  PROVE  Delivery!AbsNext
  <1>0. PICK new \in Entries : new = Len(stream) + 1
    BY BoundsAssumption DEF IInv, TypeOK, Enqueue, Entries
  <1>1. /\ Len(stream) \in Nat /\ new = Len(stream) + 1 /\ Len(stream') = new
        /\ floor \in Nat /\ floor <= Len(stream)
    BY <1>0, BoundsAssumption DEF IInv, TypeOK, CursorInv, Enqueue
  <1>2. InHand' = InHand /\ UNCHANGED <<floor, delivered, settled, dispatches>>
    BY DEF Enqueue, batchVars, historyVars, InHand, Unfinished, Holding
  <1>3. Lost' = Lost /\ Evicted' = Evicted
    BY <1>2 DEF Lost, Evicted
  <1>4. FateTable /\ FateTable'
    BY Fates, FatesNext
  <1>5. FateOf(new) = "unsent"
    BY <1>1, <1>4 DEF FateTable
  <1>6. FateOf(new)' = "waiting"
    <2>1. new \notin delivered' /\ floor' < new
      BY <1>1, <1>2, <1>4 DEF IInv, CursorInv, HistoryInv, TypeOK
    <2> QED
      BY <1>1, <1>4, <2>1 DEF FateTable
  <1>7. ASSUME NEW i \in Entries \ {new} PROVE FateOf(i)' = FateOf(i)
    <2>1. /\ i <= Len(stream) <=> i <= Len(stream')
          /\ i > Len(stream) <=> i > Len(stream')
      BY <1>1, BoundsAssumption DEF Entries
    <2> QED
      BY <1>2, <1>3, <1>4, <2>1, EveryFate DEF FateTable
  <1>8. Delivery!Move({new}, "unsent", "waiting")
    BY <1>1, <1>5, <1>6, <1>7, Moves
  <1>9. Delivery!Accept(new)
    BY <1>2, <1>8 DEF Delivery!Accept
  <1> QED
    BY <1>1, <1>9 DEF Delivery!AbsNext

\* A read is Claim.
LEMMA DeliverRefines ==
  ASSUME IInv, IInv', NEW c \in Consumers, Deliver(c)
  PROVE  Delivery!AbsNext
  <1> DEFINE batch == (lastDelivered + 1)..lastDelivered'
  <1>1. /\ InHand' = InHand \cup batch
        /\ delivered' = delivered \cup batch
        /\ \A i \in batch : i \in Entries \ delivered /\ floor < i /\ i <= Len(stream)
        /\ UNCHANGED <<stream, floor, settled, dispatches>>
    BY DeliverStep
  <1> HIDE DEF batch
  <1>2. FateTable /\ FateTable'
    BY Fates, FatesNext
  <1>3. \A i \in batch : FateOf(i) = "waiting" /\ FateOf(i)' = "claimed"
    BY <1>1, <1>2 DEF FateTable
  <1>4. ASSUME NEW i \in Entries \ batch PROVE FateOf(i)' = FateOf(i)
    <2>1. /\ i \in Lost' <=> i \in Lost
          /\ i \in Evicted' <=> i \in Evicted
          /\ i \in InHand' <=> i \in InHand
          /\ i \in delivered' <=> i \in delivered
      BY <1>1 DEF Lost, Evicted
    <2> QED
      BY <1>1, <1>2, <2>1, EveryFate DEF FateTable
  <1>5. batch \in SUBSET Entries
    BY <1>1
  <1>6. Delivery!Move(batch, "waiting", "claimed")
    BY <1>3, <1>4, <1>5, Moves
  <1>7. Delivery!Claim(batch)
    BY <1>1, <1>6 DEF Delivery!Claim
  <1> QED
    BY <1>5, <1>7 DEF Delivery!AbsNext

\* Handling an entry is Settle.
LEMMA HandleRefines ==
  ASSUME IInv, IInv', NEW c \in Consumers, Handle(c)
  PROVE  Delivery!AbsNext
  <1>0. PICK i \in Entries : i = first[c]
    BY HandleStep
  <1>1. /\ i \in InHand
        /\ InHand' = InHand \ {i} /\ settled' = settled \cup {i}
        /\ UNCHANGED <<stream, floor, delivered>>
    BY <1>0, HandleStep
  <1>2. dispatches' \in {dispatches, [dispatches EXCEPT ![i] = @ + 1]}
    BY <1>0 DEF Handle, Dispatch
  <1>3. FateTable /\ FateTable'
    BY Fates, FatesNext
  <1>4. FateOf(i) = "claimed" /\ FateOf(i)' = "settled"
    BY <1>1, <1>3 DEF FateTable
  <1>5. ASSUME NEW k \in Entries \ {i} PROVE FateOf(k)' = FateOf(k)
    <2>1. /\ k \in Lost' <=> k \in Lost
          /\ k \in Evicted' <=> k \in Evicted
          /\ k \in InHand' <=> k \in InHand
          /\ k \in settled' <=> k \in settled
      BY <1>1 DEF Lost, Evicted
    <2> QED
      BY <1>1, <1>3, <2>1, EveryFate DEF FateTable
  <1>6. Delivery!Move({i}, "claimed", "settled")
    BY <1>1, <1>4, <1>5, Moves
  <1>7. Delivery!Settle(i)
    BY <1>2, <1>6 DEF Delivery!Settle
  <1> QED
    BY <1>1, <1>7 DEF Delivery!AbsNext

\* An interruption is Lose of what its consumer holds.
LEMMA DropRefines ==
  ASSUME IInv, IInv', NEW c \in Consumers, Halt(c) \/ ReadFails(c)
  PROVE  Delivery!AbsNext
  <1> DEFINE S == Unfinished(c)
  <1>1. /\ InHand' = InHand \ S
        /\ UNCHANGED <<stream, floor, delivered, settled, dispatches>>
    BY DropStep
  <1>2. S \subseteq InHand /\ S \in SUBSET Entries /\ InHand \subseteq delivered
        /\ InHand \cap settled = {}
    BY HoldingIsExclusive DEF InHand, IInv, TypeOK
  <1> HIDE DEF S
  <1>3. FateTable /\ FateTable'
    BY Fates, FatesNext
  <1>4. ASSUME NEW i \in S PROVE FateOf(i) = "claimed" /\ FateOf(i)' = "lost"
    <2>1. i \in Lost' /\ i \in InHand /\ i \in Entries
      BY <1>1, <1>2 DEF Lost
    <2> QED
      BY <1>3, <2>1 DEF FateTable
  <1>5. ASSUME NEW i \in Entries \ S PROVE FateOf(i)' = FateOf(i)
    <2>1. /\ i \in Lost' <=> i \in Lost
          /\ i \in Evicted' <=> i \in Evicted
          /\ i \in InHand' <=> i \in InHand
      BY <1>1 DEF Lost, Evicted
    <2> QED
      BY <1>1, <1>3, <2>1, EveryFate DEF FateTable
  <1>6. Delivery!Move(S, "claimed", "lost")
    BY <1>2, <1>4, <1>5, Moves
  <1>7. Delivery!Lose(S, "claimed")
    BY <1>1, <1>6 DEF Delivery!Lose
  <1> QED
    BY <1>2, <1>7 DEF Delivery!AbsNext, Delivery!Fates

\* An eviction is Lose of the entries that wait.
LEMMA EvictRefines ==
  ASSUME IInv, IInv', Evict
  PROVE  Delivery!AbsNext
  <1> DEFINE S == {i \in Entries : i \notin delivered /\ floor < i /\ i <= Len(stream)}
  <1>1. /\ InHand' = InHand /\ floor' = Len(stream)
        /\ UNCHANGED <<stream, delivered, settled, dispatches>>
    BY DEF Evict, batchVars, historyVars, InHand, Unfinished, Holding
  <1>2. floor \in Nat /\ Len(stream) \in Nat /\ floor <= Len(stream) /\ \A i \in Entries : i \in Nat
    BY BoundsAssumption DEF IInv, TypeOK, CursorInv, Entries
  <1>3. FateTable /\ FateTable'
    BY Fates, FatesNext
  <1>4. ASSUME NEW i \in S PROVE FateOf(i) = "waiting" /\ FateOf(i)' = "lost"
    <2>1. i \in Evicted' /\ i \in Entries
      BY <1>1, <1>4 DEF Evicted
    <2> QED
      BY <1>3, <1>4, <2>1 DEF FateTable
  <1>5. ASSUME NEW i \in Entries \ S PROVE FateOf(i)' = FateOf(i)
    <2>1. /\ i \in Lost' <=> i \in Lost
          /\ i \in InHand' <=> i \in InHand
      BY <1>1 DEF Lost
    <2>2. i \in Evicted' <=> i \in Evicted
      BY <1>1, <1>2, <1>5 DEF Evicted
    <2>3. ~(i \notin delivered /\ floor < i /\ i <= Len(stream))
      BY <1>5
    <2> QED
      BY <1>1, <1>3, <2>1, <2>2, <2>3, EveryFate DEF FateTable
  <1> S \in SUBSET Entries
    OBVIOUS
  <1> HIDE DEF S
  <1>6. Delivery!Move(S, "waiting", "lost")
    BY <1>4, <1>5, Moves
  <1>7. Delivery!Lose(S, "waiting")
    BY <1>1, <1>6 DEF Delivery!Lose
  <1> QED
    BY <1>7 DEF Delivery!AbsNext, Delivery!Fates

\* The other steps of a consumer change the fate of no entry.
LEMMA QuietRefines ==
  ASSUME IInv, IInv', NEW c \in Consumers, Start(c) \/ Receive(c) \/ Retry(c) \/ Ack(c)
  PROVE  UNCHANGED Delivery!absVars
  <1>1. InHand' = InHand /\ UNCHANGED <<stream, floor, delivered, settled, dispatches>>
    BY QuietSteps
  <1>2. Lost' = Lost /\ Evicted' = Evicted
    BY <1>1 DEF Lost, Evicted
  <1>3. ASSUME NEW i \in Entries PROVE FateOf(i)' = FateOf(i)
    BY <1>1, <1>2 DEF FateOf
  <1> QED
    BY <1>1, <1>3, Stutters

\* The Redis pipeline implements at-most-once delivery: every behaviour of it
\* is, read through FateOf, one of TriggerDelivery.
THEOREM PipelineDelivers == Spec => ImplementsTriggerDelivery
  <1>1. Init => Delivery!AbsInit
    <2> SUFFICES ASSUME Init PROVE Delivery!AbsInit
      OBVIOUS
    <2>1. FateTable
      BY InitEstablishesIInv, Fates
    <2>2. \A i \in Entries : i > Len(stream)
      BY BoundsAssumption DEF Init, Entries
    <2>3. \A i \in Entries : FateOf(i) = "unsent"
      BY <2>1, <2>2 DEF FateTable
    <2>4. dispatches = [i \in Entries |-> 0]
      BY DEF Init
    <2> QED
      BY <2>3, <2>4 DEF Delivery!AbsInit
  <1>2. IInv /\ IInv' /\ [Next]_vars => [Delivery!AbsNext]_Delivery!absVars
    <2> SUFFICES ASSUME IInv, IInv', [Next]_vars PROVE [Delivery!AbsNext]_Delivery!absVars
      OBVIOUS
    <2>1. ASSUME UNCHANGED vars PROVE UNCHANGED Delivery!absVars
      <3>1. \A i \in Entries : FateOf(i)' = FateOf(i)
        BY <2>1 DEF vars, redisVars, batchVars, historyVars, FateOf, InHand, Unfinished, Holding,
                    Lost, Evicted
      <3> QED
        BY <2>1, <3>1, Stutters DEF vars, historyVars
    <2> QED
      BY <2>1, EnqueueRefines, DeliverRefines, HandleRefines, DropRefines, EvictRefines,
         QuietRefines DEF Next, Consume, Stop, Crash, Poll
  <1> QED
    BY <1>1, <1>2, IInvInvariant, PTL DEF Spec, ImplementsTriggerDelivery, Delivery!AbsSpec
=============================================================================
