-------------------------- MODULE TriggerDelivery --------------------------
(***************************************************************************)
(* What the trigger pipeline promises about every trigger, whoever carries *)
(* it: it is dispatched to the agent engine at most once, and it may be    *)
(* lost.  TriggerStream.tla is the Redis-stream pipeline of the agent      *)
(* runtime and is shown to implement this specification.                   *)
(***************************************************************************)
EXTENDS Naturals

CONSTANT Entries     \* the identities triggers can have

VARIABLES
    fate,            \* what has become of each trigger
    dispatches       \* how often the engine was asked to run each trigger

absVars == <<fate, dispatches>>

Fates == {"unsent", "waiting", "claimed", "settled", "lost"}

AbsTypeOK ==
    /\ fate \in [Entries -> Fates]
    /\ dispatches \in [Entries -> 0..1]

AbsInit ==
    /\ fate = [i \in Entries |-> "unsent"]
    /\ dispatches = [i \in Entries |-> 0]

\* All the triggers of S, each of which has the fate `from`, get the fate `to`.
Move(S, from, to) ==
    /\ \A i \in S : fate[i] = from
    /\ fate' = [i \in Entries |-> IF i \in S THEN to ELSE fate[i]]

\* A producer appends a trigger.
Accept(i) ==
    /\ Move({i}, "unsent", "waiting")
    /\ UNCHANGED dispatches

\* A batch of waiting triggers goes to one consumer.
Claim(S) ==
    /\ Move(S, "waiting", "claimed")
    /\ UNCHANGED dispatches

\* A claimed trigger is dispatched, or skipped because it cannot be read.
Settle(i) ==
    /\ Move({i}, "claimed", "settled")
    /\ dispatches' \in {dispatches, [dispatches EXCEPT ![i] = @ + 1]}

\* Triggers that wait, or that a consumer holds, disappear.
Lose(S, from) ==
    /\ from \in {"waiting", "claimed"}
    /\ Move(S, from, "lost")
    /\ UNCHANGED dispatches

AbsNext ==
    \/ \E i \in Entries : Accept(i) \/ Settle(i)
    \/ \E S \in SUBSET Entries : \/ Claim(S)
                                 \/ \E from \in Fates : Lose(S, from)

AbsSpec == AbsInit /\ [][AbsNext]_absVars
=============================================================================
