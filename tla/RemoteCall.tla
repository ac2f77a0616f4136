----------------------------- MODULE RemoteCall -----------------------------
(***************************************************************************)
(* What an agent may conclude from the result of a tool call: the effect   *)
(* of a call happens at most once; a call reported as done has had it, a   *)
(* call reported as refused never gets it, and nothing is known of a call  *)
(* whose outcome is unclear, or that was abandoned.                        *)
(***************************************************************************)
CONSTANT Calls

VARIABLES
    status,     \* what is known of each call
    effect      \* whether its effect has happened

vars == <<status, effect>>

-----------------------------------------------------------------------------
Init ==
    /\ status = [c \in Calls |-> "none"]
    /\ effect = [c \in Calls |-> FALSE]

Become(c, s) == status' = [status EXCEPT ![c] = s] /\ UNCHANGED effect

Invoke(c) == status[c] = "none" /\ Become(c, "pending")

\* A call may be turned down without being tried.
TurnDown(c) == status[c] = "none" /\ Become(c, "refused")

\* The effect can come after the caller has stopped waiting for it.
Apply(c) ==
    /\ status[c] \in {"pending", "unclear", "abandoned"}
    /\ ~effect[c]
    /\ effect' = [effect EXCEPT ![c] = TRUE]
    /\ UNCHANGED status

Succeed(c) == status[c] = "pending" /\ effect[c] /\ Become(c, "ok")

Refuse(c) == status[c] = "pending" /\ ~effect[c] /\ Become(c, "refused")

LoseTrack(c) == status[c] = "pending" /\ Become(c, "unclear")

Abandon(c) == status[c] = "pending" /\ Become(c, "abandoned")

Step(c) ==
    \/ Invoke(c) \/ TurnDown(c) \/ Apply(c)
    \/ Succeed(c) \/ Refuse(c) \/ LoseTrack(c) \/ Abandon(c)

Next == \E c \in Calls : Step(c)

Spec == Init /\ [][Next]_vars
=============================================================================
