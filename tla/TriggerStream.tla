--------------------------- MODULE TriggerStream ---------------------------
(***************************************************************************)
(* The trigger pipeline of the agent runtime: HeartbeatService appends     *)
(* triggers to the Redis stream "triggers:all" (engine/heartbeat.py), and  *)
(* TriggerConsumer processes read it through the consumer group            *)
(* "agent_triggers", dispatch each entry to the engine and acknowledge it  *)
(* (engine/trigger_consumer.py).                                           *)
(*                                                                         *)
(* An entry is identified by its position in the stream, so a batch read   *)
(* by a consumer is the interval first[c] .. last[c] of entries that it    *)
(* has not finished.  The stream, the group's last-delivered id and its    *)
(* pending-entries list live in Redis and survive a consumer; everything   *)
(* else is a consumer's memory.                                            *)
(***************************************************************************)
EXTENDS Naturals, Sequences, FiniteSets

CONSTANTS
    Consumers,      \* TriggerConsumer processes (service instances)
    BatchMax,       \* xreadgroup's count (10 in the code)
    MaxEntries,     \* bound: entries ever appended
    MaxFaults,      \* bound: crashes, stops and failed Redis calls
    MaxEvictions    \* bound: times Redis evicts the stream key (allkeys-lru)

ASSUME BoundsAssumption ==
    /\ BatchMax \in Nat \ {0}
    /\ MaxEntries \in Nat
    /\ MaxFaults \in Nat
    /\ MaxEvictions \in Nat

VARIABLES
    stream,         \* what each entry ever appended holds, see Kinds
    floor,          \* entries up to here are no longer in Redis
    group,          \* does the consumer group exist?
    lastDelivered,  \* the group's last-delivered id
    pending,        \* the group's pending-entries list
    pc,             \* where each consumer's task is suspended
    first, last,    \* the batch each consumer still has to work through
    delivered,      \* history: entries handed to some consumer
    settled,        \* history: entries dispatched, or skipped as malformed
    dispatches,     \* history: calls of dispatch_trigger per entry
    faults,         \* history: crashes, stops and failed calls so far
    evictions       \* history: evictions so far

redisVars == <<stream, floor, group, lastDelivered, pending>>
batchVars == <<first, last>>
historyVars == <<delivered, settled, dispatches>>
vars == <<redisVars, pc, batchVars, historyVars, faults, evictions>>

-----------------------------------------------------------------------------
Entries == 1..MaxEntries

\* An entry the engine runs, one dispatch_trigger raises on, and one that
\* TriggerMessage.from_redis_dict cannot parse.
Kinds == {"good", "rejected", "malformed"}

PC == {"down", "read", "reply", "handle", "ack", "backoff"}

Holding(c) == pc[c] \in {"reply", "handle", "ack"}

\* Entries a live consumer has been given and has still to settle.
Unfinished(c) ==
    IF Holding(c) THEN {i \in first[c]..last[c] : ~(pc[c] = "ack" /\ i = first[c])}
                  ELSE {}

InHand == UNION {Unfinished(c) : c \in Consumers}

\* Entries Redis has handed out and nobody will ever handle.
Lost == delivered \ (settled \cup InHand)

\* Entries that vanished from Redis before they were handed out.
Evicted == {i \in Entries : i <= floor} \ delivered

SmallerOf(a, b) == IF a < b THEN a ELSE b

TypeOK ==
    /\ stream \in Seq(Kinds)
    /\ Len(stream) \in 0..MaxEntries
    /\ floor \in 0..MaxEntries
    /\ group \in BOOLEAN
    /\ lastDelivered \in 0..MaxEntries
    /\ pending \subseteq Entries
    /\ pc \in [Consumers -> PC]
    /\ first \in [Consumers -> Nat]
    /\ last \in [Consumers -> Nat]
    /\ delivered \subseteq Entries
    /\ settled \subseteq Entries
    /\ dispatches \in [Entries -> Nat]
    /\ faults \in 0..MaxFaults
    /\ evictions \in 0..MaxEvictions

Init ==
    /\ stream = <<>>
    /\ floor = 0
    /\ group = FALSE
    /\ lastDelivered = 0
    /\ pending = {}
    /\ pc = [c \in Consumers |-> "down"]
    /\ first = [c \in Consumers |-> 0]
    /\ last = [c \in Consumers |-> 0]
    /\ delivered = {}
    /\ settled = {}
    /\ dispatches = [i \in Entries |-> 0]
    /\ faults = 0
    /\ evictions = 0

Goto(c, label) == pc' = [pc EXCEPT ![c] = label]

\* The step is one the environment makes only MaxFaults times.
Fault == faults < MaxFaults /\ faults' = faults + 1

-----------------------------------------------------------------------------
(* HeartbeatService *)

\* _enqueue_trigger: a timer tick, a manual trigger or a routed event is
\* appended; xadd creates the stream when it is absent.  A failing xadd
\* raises to the caller and leaves nothing.
Enqueue(kind) ==
    /\ Len(stream) < MaxEntries
    /\ stream' = Append(stream, kind)
    /\ UNCHANGED <<floor, group, lastDelivered, pending, pc, batchVars,
                   historyVars, faults, evictions>>

(* TriggerConsumer.start and stop *)

\* Mutants: a group created at "$", and one whose cursor every start resets.
GroupCreateAtEnd ==
    /\ group' = TRUE
    /\ lastDelivered' = IF group THEN lastDelivered ELSE Len(stream)

GroupReset ==
    /\ group' = TRUE
    /\ lastDelivered' = floor

\* xgroup_create(id="0", mkstream=True): a new group starts before the
\* oldest entry still in the stream; an existing one is left as it is.
GroupCreate ==
    /\ group' = TRUE
    /\ lastDelivered' = IF group THEN lastDelivered ELSE floor

\* start swallows whatever xgroup_create raises, BUSYGROUP or a connection
\* error, and launches the loop either way.
Start(c) ==
    /\ pc[c] = "down"
    /\ Goto(c, "read")
    /\ \/ GroupCreate /\ UNCHANGED faults
       \/ Fault /\ UNCHANGED <<group, lastDelivered>>
    /\ UNCHANGED <<stream, floor, pending, batchVars, historyVars, evictions>>

\* The batch in memory is gone.
DropBatch(c) ==
    /\ first' = [first EXCEPT ![c] = 0]
    /\ last' = [last EXCEPT ![c] = 0]

Halt(c) ==
    /\ pc[c] # "down"
    /\ Goto(c, "down")
    /\ DropBatch(c)
    /\ Fault
    /\ UNCHANGED <<redisVars, historyVars, evictions>>

\* stop: cancels the task at whatever await it is suspended in.
Stop(c) == Halt(c)

\* The process dies; the container is restarted (Start).
Crash(c) == Halt(c)

-----------------------------------------------------------------------------
(* TriggerConsumer._consume_loop *)

\* Mutant: a read with NOACK.
DeliverNoAck(c) ==
    /\ pc[c] = "read" /\ group /\ lastDelivered < Len(stream)
    /\ LET upto == SmallerOf(lastDelivered + BatchMax, Len(stream))
       IN  /\ first' = [first EXCEPT ![c] = lastDelivered + 1]
           /\ last' = [last EXCEPT ![c] = upto]
           /\ lastDelivered' = upto
           /\ delivered' = delivered \cup (lastDelivered + 1)..upto
    /\ Goto(c, "reply")
    /\ UNCHANGED <<stream, floor, group, pending, settled, dispatches, faults, evictions>>

\* XREADGROUP ">" in Redis: the next entries after the last delivered one,
\* at most BatchMax, become pending and are sent to the caller.
Deliver(c) ==
    /\ pc[c] = "read" /\ group /\ lastDelivered < Len(stream)
    /\ LET upto == SmallerOf(lastDelivered + BatchMax, Len(stream))
           batch == (lastDelivered + 1)..upto
       IN  /\ first' = [first EXCEPT ![c] = lastDelivered + 1]
           /\ last' = [last EXCEPT ![c] = upto]
           /\ lastDelivered' = upto
           /\ pending' = pending \cup batch
           /\ delivered' = delivered \cup batch
    /\ Goto(c, "reply")
    /\ UNCHANGED <<stream, floor, group, settled, dispatches, faults, evictions>>

\* Nothing new for 5 s: the call returns no messages and the loop asks again.
Poll(c) ==
    /\ pc[c] = "read" /\ group /\ lastDelivered = Len(stream)
    /\ UNCHANGED vars

\* The reply arrives, and the loop turns to its first entry.
Receive(c) ==
    /\ pc[c] = "reply"
    /\ Goto(c, "handle")
    /\ UNCHANGED <<redisVars, batchVars, historyVars, faults, evictions>>

\* xreadgroup raises: no such group, or the connection broke before or after
\* Redis served the call.  The loop logs it and sleeps for a second.
ReadFails(c) ==
    /\ \/ pc[c] = "read" /\ ~group /\ UNCHANGED faults
       \/ pc[c] \in {"read", "reply"} /\ Fault
    /\ Goto(c, "backoff")
    /\ DropBatch(c)
    /\ UNCHANGED <<redisVars, historyVars, evictions>>

Retry(c) ==
    /\ pc[c] = "backoff"
    /\ Goto(c, "read")
    /\ UNCHANGED <<redisVars, batchVars, historyVars, faults, evictions>>

(* TriggerConsumer._handle_message *)

\* The call of dispatch_trigger is made, whether it returns or raises.
Dispatch(i) == dispatches' = [dispatches EXCEPT ![i] = @ + 1]

\* Mutant: a malformed entry is tried again instead of skipped.
HandleNoSkip(c) ==
    /\ pc[c] = "handle"
    /\ stream[first[c]] # "malformed"
    /\ Dispatch(first[c])
    /\ settled' = settled \cup {first[c]}
    /\ Goto(c, "ack")
    /\ UNCHANGED <<redisVars, batchVars, delivered, faults, evictions>>

\* Decode the entry and dispatch it; a malformed one is skipped.  Either way
\* the next await is the acknowledgement.
Handle(c) ==
    /\ pc[c] = "handle"
    /\ LET i == first[c]
       IN  /\ \/ stream[i] = "malformed" /\ UNCHANGED dispatches
              \/ stream[i] # "malformed" /\ Dispatch(i)
           /\ settled' = settled \cup {i}
    /\ Goto(c, "ack")
    /\ UNCHANGED <<redisVars, batchVars, delivered, faults, evictions>>

\* Mutants: only the first entry of a batch is handled; an entry whose xack
\* fails is handled again.
AckThenRead(c) ==
    /\ pc[c] = "ack"
    /\ \/ pending' = pending \ {first[c]} /\ UNCHANGED faults
       \/ Fault /\ UNCHANGED pending
    /\ first' = [first EXCEPT ![c] = @ + 1]
    /\ Goto(c, "read")
    /\ UNCHANGED <<stream, floor, group, lastDelivered, last, historyVars, evictions>>

AckOrRedo(c) ==
    /\ pc[c] = "ack"
    /\ \/ /\ pending' = pending \ {first[c]}
          /\ first' = [first EXCEPT ![c] = @ + 1]
          /\ Goto(c, IF first[c] < last[c] THEN "handle" ELSE "read")
          /\ UNCHANGED faults
       \/ Fault /\ Goto(c, "handle") /\ UNCHANGED <<pending, first>>
    /\ UNCHANGED <<stream, floor, group, lastDelivered, last, historyVars, evictions>>

\* _ack, then the next entry of the batch or the next read.  A failing xack
\* is logged and nothing more.
Ack(c) ==
    /\ pc[c] = "ack"
    /\ \/ pending' = pending \ {first[c]} /\ UNCHANGED faults
       \/ Fault /\ UNCHANGED pending
    /\ first' = [first EXCEPT ![c] = @ + 1]
    /\ Goto(c, IF first[c] < last[c] THEN "handle" ELSE "read")
    /\ UNCHANGED <<stream, floor, group, lastDelivered, last, historyVars, evictions>>

-----------------------------------------------------------------------------
\* Redis runs with maxmemory-policy allkeys-lru (docker-compose.yml): under
\* memory pressure it may drop the stream key, and the group with it.
Evict ==
    /\ evictions < MaxEvictions
    /\ Len(stream) > floor
    /\ evictions' = evictions + 1
    /\ floor' = Len(stream)
    /\ group' = FALSE
    /\ pending' = {}
    /\ UNCHANGED <<stream, lastDelivered, pc, batchVars, historyVars, faults>>

Consume(c) == Deliver(c) \/ Receive(c) \/ Handle(c) \/ Ack(c)

Next ==
    \/ \E kind \in Kinds : Enqueue(kind)
    \/ \E c \in Consumers : \/ Start(c) \/ Stop(c) \/ Crash(c)
                            \/ Consume(c) \/ Poll(c) \/ ReadFails(c) \/ Retry(c)
    \/ Evict

Spec == Init /\ [][Next]_vars

\* The event loop and Redis keep running, and the container of a consumer
\* that went down is started again (restart: unless-stopped).
Fairness ==
    \A c \in Consumers : WF_vars(Start(c)) /\ WF_vars(Consume(c)) /\ WF_vars(Retry(c))

FairSpec == Spec /\ Fairness

-----------------------------------------------------------------------------
(* Safety *)

\* The engine is asked to run an entry at most once, over all consumers and
\* their restarts, and never one that cannot be parsed ("each message is
\* processed exactly once", at its safe half).
DispatchedAtMostOnce ==
    \A i \in Entries :
        /\ dispatches[i] <= 1
        /\ dispatches[i] = 1 => i <= Len(stream) /\ stream[i] # "malformed"

\* An entry that was handed out and has left the pending-entries list was
\* settled first: acknowledgement follows dispatch, so whatever is lost is
\* still in the list for an operator to claim, unless Redis evicted the key.
LeftPendingOnlySettled ==
    \A i \in delivered \ settled : i \in pending \/ i <= floor

\* Each crash, stop or failed call loses at most one batch of triggers, and
\* without one none is lost.
LossBoundedByFaults == Cardinality(Lost) <= BatchMax * faults

(* Liveness *)

\* While the group exists, no entry of the stream waits forever, whatever the
\* entries before it hold: a bad entry does not stall the stream.
EveryWaitingEntryDelivered ==
    \A i \in Entries :
        [](floor < i /\ i <= Len(stream) /\ []group => <>(i \in delivered))

\* An entry handed out is settled, or lost with the batch of a consumer that
\* was interrupted; no consumer sits on it.
EveryDeliveredEntrySettledOrLost ==
    \A i \in Entries : i \in delivered ~> i \in settled \cup Lost

\* What the docstrings say of a consumer that has begun to work on a batch: a
\* crash before the acknowledgement results in redelivery rather than silent
\* loss (_handle_message), and stop waits for the current batch (stop).  So
\* every entry of the batch is settled in the end.
CrashLeadsToRedelivery ==
    \A i \in Entries :
        (\E c \in Consumers : pc[c] = "handle" /\ i \in Unfinished(c)) ~> i \in settled

(* Refinement *)

\* What has become of entry i, in the terms of TriggerDelivery.
FateOf(i) ==
    CASE i \in settled                       -> "settled"
      [] i \in InHand                        -> "claimed"
      [] i \in Lost \cup Evicted             -> "lost"
      [] i \notin delivered /\ floor < i /\ i <= Len(stream) -> "waiting"
      [] i > Len(stream)                     -> "unsent"

Delivery == INSTANCE TriggerDelivery WITH
                fate <- [i \in Entries |-> FateOf(i)]

\* The Redis pipeline implements at-most-once delivery.
ImplementsTriggerDelivery == Delivery!AbsSpec
=============================================================================
