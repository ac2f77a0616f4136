--------------------------- MODULE DecisionLoop ---------------------------
(***************************************************************************)
(* Runs of one agent's decision loop (engine/agent_loop.py), each on an    *)
(* AgentStateMachine that it may share with other runs, with the context   *)
(* compaction of engine/context_manager.py, the tool executor of           *)
(* engine/tool_registry.py and the shared budget of CostTracker.           *)
(*                                                                         *)
(* A step goes from one await to the next.  A message is its role, and how *)
(* many tokens a context holds is left to the adapter's count: whether it  *)
(* exceeds the compaction threshold is chosen at each step.                *)
(***************************************************************************)
EXTENDS CostTracker, Sequences, FiniteSets, Functions

CONSTANTS
    Runs,           \* agent runs, each started by one trigger
    Machines,       \* AgentStateMachine objects of the agent
    MaxSteps,       \* max_steps
    Estimate,       \* estimated_tokens of a budget check (500 in the code)
    ResponseTokens, \* what one LLM response can cost
    ToolCounts,     \* how many tool calls a response can ask for
    MaxFaults       \* bound: cancelled runs and failing LLM, Redis or DB calls

ASSUME LoopAssumption ==
    /\ MaxSteps \in Nat \ {0}
    /\ Estimate \in Nat
    /\ MaxFaults \in Nat
    /\ ResponseTokens \subseteq Nat
    /\ \E t \in ResponseTokens : \A u \in ResponseTokens : u <= t   \* max_tokens
    /\ IsFiniteSet(Runs) /\ IsFiniteSet(Machines)
    /\ ToolCounts \subseteq Nat

VARIABLES
    machineOf,      \* the state machine each run was constructed with
    state,          \* the state of each machine
    pc,             \* the await at which each run is suspended
    step,           \* context.step_count
    usedToday,      \* what the budget check read of the day's counter
    response,       \* tokens of the last response, until they are counted
    unwritten,      \* tokens of the usage record on its way to the ledger
    tools,          \* tool calls of the last response still to execute
    messages,       \* context.messages
    outcome,        \* LoopResult.outcome, "none" while the run goes on
    spent,          \* history: tokens of all responses
    summaries,      \* history: tokens of the responses to _summarize
    unrecorded,     \* history: tokens whose INSERT into the ledger failed
    faults          \* history: cancellations and failing calls so far

runVars == <<machineOf, state, pc, step, usedToday, response, unwritten, tools, messages,
             outcome>>
histVars == <<spent, summaries, unrecorded, faults>>
vars == <<costVars, runVars, histVars>>

-----------------------------------------------------------------------------
Roles == {"user", "assistant", "tool", "summary"}

PC == {"idle", "observe", "check", "checkMonth", "compact", "summarize",
       "think", "record", "persist", "act", "reflect", "ended"}

Outcomes == {"none", "completed", "max_steps", "budget_exceeded", "error",
             "rejected", "cancelled"}

\* The part of VALID_TRANSITIONS between the states a loop moves through.
LoopTransitions == {<<"active", "running">>, <<"running", "active">>,
                    <<"running", "paused">>, <<"paused", "active">>}

MIN_MESSAGES_TO_KEEP == 4

\* Inside run()'s call of _loop.
InLoop(r) == pc[r] \notin {"idle", "observe", "ended"}

TypeOK ==
    /\ CostTypeOK
    /\ machineOf \in [Runs -> Machines]
    /\ state \in [Machines -> {"active", "running", "paused"}]
    /\ pc \in [Runs -> PC]
    /\ step \in [Runs -> 0..MaxSteps]
    /\ usedToday \in [Runs -> Nat]
    /\ response \in [Runs -> Nat]
    /\ unwritten \in [Runs -> Nat]
    /\ tools \in [Runs -> Nat]
    /\ messages \in [Runs -> Seq(Roles)]
    /\ outcome \in [Runs -> Outcomes]
    /\ spent \in Nat
    /\ summaries \in Nat
    /\ unrecorded \in Nat
    /\ faults \in 0..MaxFaults

Init ==
    /\ CostInit
    /\ machineOf \in [Runs -> Machines]
    /\ state = [m \in Machines |-> "active"]
    /\ pc = [r \in Runs |-> "idle"]
    /\ step = [r \in Runs |-> 0]
    /\ usedToday = [r \in Runs |-> 0]
    /\ response = [r \in Runs |-> 0]
    /\ unwritten = [r \in Runs |-> 0]
    /\ tools = [r \in Runs |-> 0]
    /\ messages = [r \in Runs |-> <<>>]
    /\ outcome = [r \in Runs |-> "none"]
    /\ spent = 0
    /\ summaries = 0
    /\ unrecorded = 0
    /\ faults = 0

Goto(r, label) == pc' = [pc EXCEPT ![r] = label]

Fault == faults < MaxFaults /\ faults' = faults + 1

\* AgentStateMachine.transition on the run's machine; every caller in the loop
\* catches the InvalidTransitionError and goes on.
TryTransition(r, to) ==
    LET m == machineOf[r]
    IN  state' = IF <<state[m], to>> \in LoopTransitions THEN [state EXCEPT ![m] = to]
                                                         ELSE state

\* run returns with this outcome; what the run held is garbage.
End(r, result) ==
    /\ Goto(r, "ended")
    /\ outcome' = [outcome EXCEPT ![r] = result]
    /\ response' = [response EXCEPT ![r] = 0]
    /\ unwritten' = [unwritten EXCEPT ![r] = 0]
    /\ tools' = [tools EXCEPT ![r] = 0]
    /\ messages' = [messages EXCEPT ![r] = <<>>]
    /\ usedToday' = [usedToday EXCEPT ![r] = 0]
    /\ UNCHANGED <<machineOf, step>>

-----------------------------------------------------------------------------
(* AgentDecisionLoop.run *)

\* A trigger arrives: the agent's memory is searched.
Trigger(r) ==
    /\ pc[r] = "idle"
    /\ Goto(r, "observe")
    /\ UNCHANGED <<costVars, machineOf, state, step, usedToday, response, unwritten, tools,
                   messages, outcome, histVars>>

\* Mutant: the run goes on although its machine refuses RUNNING.
StartAnyway(r) ==
    /\ pc[r] = "observe"
    /\ TryTransition(r, "running")
    /\ Goto(r, "check")
    /\ messages' = [messages EXCEPT ![r] = <<"user">>]
    /\ UNCHANGED <<machineOf, step, usedToday, response, unwritten, tools, outcome>>
    /\ UNCHANGED <<costVars, spent, summaries, unrecorded, faults>>

\* The search returns or fails.  The run starts if its machine may go to
\* RUNNING, which excludes a machine another run is on, and is refused if not.
Start(r) ==
    /\ pc[r] = "observe"
    /\ LET m == machineOf[r]
       IN  \/ /\ <<state[m], "running">> \in LoopTransitions
              /\ state' = [state EXCEPT ![m] = "running"]
              /\ Goto(r, "check")
              /\ messages' = [messages EXCEPT ![r] = <<"user">>]
              /\ UNCHANGED <<machineOf, step, usedToday, response, unwritten, tools, outcome>>
           \/ /\ <<state[m], "running">> \notin LoopTransitions
              /\ End(r, "rejected")
              /\ UNCHANGED state
    /\ UNCHANGED <<costVars, spent, summaries, unrecorded, faults>>

\* Mutant: the error path forgets the state machine.
RaiseOnly(r) ==
    /\ pc[r] \in {"check", "checkMonth", "summarize", "think"}
    /\ pc[r] = "check" => step[r] < MaxSteps
    /\ Fault
    /\ End(r, "error")
    /\ UNCHANGED <<costVars, state, spent, summaries, unrecorded>>

\* A call inside _loop raises: Redis during the check, or the LLM.  run
\* catches it and makes the agent ACTIVE again.
Raise(r) ==
    /\ pc[r] \in {"check", "checkMonth", "summarize", "think"}
    /\ pc[r] = "check" => step[r] < MaxSteps
    /\ Fault
    /\ TryTransition(r, "active")
    /\ End(r, "error")
    /\ UNCHANGED <<costVars, spent, summaries, unrecorded>>

\* The task running the loop is cancelled.  CancelledError is not an
\* Exception: nothing catches it.
Cancel(r) ==
    /\ InLoop(r) \/ pc[r] = "observe"
    /\ Fault
    /\ End(r, "cancelled")
    /\ UNCHANGED <<costVars, state, spent, summaries, unrecorded>>

-----------------------------------------------------------------------------
(* AgentDecisionLoop._loop *)

\* Mutants: one step too many; no way out when the steps are used up.
LoopHeadOneMore(r) ==
    /\ pc[r] = "check"
    /\ \/ /\ step[r] > MaxSteps
          /\ outcome' = [outcome EXCEPT ![r] = "max_steps"]
          /\ Goto(r, "reflect")
          /\ UNCHANGED <<step, usedToday>>
       \/ /\ step[r] <= MaxSteps
          /\ step' = [step EXCEPT ![r] = @ + 1]
          /\ usedToday' = [usedToday EXCEPT ![r] = daily[today]]
          /\ Goto(r, "checkMonth")
          /\ UNCHANGED outcome
    /\ UNCHANGED <<costVars, machineOf, state, response, unwritten, tools, messages, histVars>>

LoopHeadNoExit(r) ==
    /\ pc[r] = "check"
    /\ step[r] < MaxSteps
    /\ step' = [step EXCEPT ![r] = @ + 1]
    /\ usedToday' = [usedToday EXCEPT ![r] = daily[today]]
    /\ Goto(r, "checkMonth")
    /\ UNCHANGED <<costVars, machineOf, state, response, unwritten, tools, messages, outcome,
                   histVars>>

\* The head of the while loop: out of steps, or the next step's budget check
\* reads the day's counter.
LoopHead(r) ==
    /\ pc[r] = "check"
    /\ \/ /\ step[r] = MaxSteps
          /\ outcome' = [outcome EXCEPT ![r] = "max_steps"]
          /\ Goto(r, "reflect")
          /\ UNCHANGED <<step, usedToday>>
       \/ /\ step[r] < MaxSteps
          /\ step' = [step EXCEPT ![r] = @ + 1]
          /\ usedToday' = [usedToday EXCEPT ![r] = daily[today]]
          /\ Goto(r, "checkMonth")
          /\ UNCHANGED outcome
    /\ UNCHANGED <<costVars, machineOf, state, response, unwritten, tools, messages, histVars>>

\* The check reads the month's counter and decides; a refusal pauses the agent.
CheckMonth(r) ==
    /\ pc[r] = "checkMonth"
    /\ IF Allowed(usedToday[r], monthly[MonthOf(today)], Estimate)
       THEN /\ Goto(r, "compact")
            /\ usedToday' = [usedToday EXCEPT ![r] = 0]
            /\ UNCHANGED <<machineOf, state, step, response, unwritten, tools, messages,
                           outcome>>
       ELSE TryTransition(r, "paused") /\ End(r, "budget_exceeded")
    /\ UNCHANGED <<costVars, spent, summaries, unrecorded, faults>>

\* maybe_compact: below the threshold nothing happens; above it the older
\* messages are archived, which may fail, and are then to be summarized.
MaybeCompact(r) ==
    /\ pc[r] = "compact"
    /\ \E over \in BOOLEAN : Goto(r, IF over THEN "summarize" ELSE "think")
    /\ UNCHANGED <<costVars, machineOf, state, step, usedToday, response, unwritten, tools,
                   messages, outcome, histVars>>

\* Mutant: the older half is summarized, however short the conversation.
CompactedHalf(msgs) ==
    <<"summary">> \o SubSeq(msgs, (Len(msgs) \div 2) + 1, Len(msgs))

\* _compact's result: a summary in place of all but the last four messages,
\* and of at least the first.
Compacted(msgs) ==
    LET split == IF Len(msgs) > MIN_MESSAGES_TO_KEEP
                 THEN Len(msgs) - MIN_MESSAGES_TO_KEEP ELSE 1
    IN  <<"summary">> \o SubSeq(msgs, split + 1, Len(msgs))

\* _summarize calls the same adapter; nobody records what that costs.
Summarize(r) ==
    /\ pc[r] = "summarize"
    /\ \E tokens \in ResponseTokens :
        /\ spent' = spent + tokens
        /\ summaries' = summaries + tokens
    /\ messages' = [messages EXCEPT ![r] = Compacted(@)]
    /\ Goto(r, "think")
    /\ UNCHANGED <<costVars, machineOf, state, step, usedToday, response, unwritten, tools,
                   outcome, unrecorded, faults>>

\* The LLM responds, with or without tool calls.
Think(r) ==
    /\ pc[r] = "think"
    /\ \E tokens \in ResponseTokens, n \in ToolCounts :
        /\ spent' = spent + tokens
        /\ response' = [response EXCEPT ![r] = tokens]
        /\ tools' = [tools EXCEPT ![r] = n]
    /\ Goto(r, "record")
    /\ UNCHANGED <<costVars, machineOf, state, step, usedToday, unwritten, messages,
                   outcome, summaries, unrecorded, faults>>

\* record_usage's pipeline, which raises when it fails, applied or not.
Record(r) ==
    /\ pc[r] = "record"
    /\ \/ /\ AddToCounters(response[r])
          /\ unwritten' = [unwritten EXCEPT ![r] = response[r]]
          /\ response' = [response EXCEPT ![r] = 0]
          /\ Goto(r, "persist")
          /\ UNCHANGED <<machineOf, state, step, usedToday, tools, messages, outcome, faults>>
       \/ /\ Fault
          /\ AddToCounters(response[r]) \/ UNCHANGED <<daily, monthly, charged>>
          /\ TryTransition(r, "active")
          /\ End(r, "error")
    /\ UNCHANGED <<today, ledger, evictions, spent, summaries, unrecorded>>

\* Its INSERT into the ledger, whose failure is swallowed.  Then the response
\* joins the conversation; without tool calls it is the final answer.  In the
\* schema as shipped the INSERT names a column that the table does not have, and
\* always fails.
Persist(r) ==
    /\ pc[r] = "persist"
    /\ \/ ledger' = ledger + unwritten[r] /\ UNCHANGED unrecorded
       \/ unrecorded' = unrecorded + unwritten[r] /\ UNCHANGED ledger
    /\ unwritten' = [unwritten EXCEPT ![r] = 0]
    /\ messages' = [messages EXCEPT ![r] = Append(@, "assistant")]
    /\ \/ tools[r] > 0 /\ Goto(r, "act") /\ UNCHANGED outcome
       \/ /\ tools[r] = 0
          /\ Goto(r, "reflect")
          /\ outcome' = [outcome EXCEPT ![r] = "completed"]
    /\ UNCHANGED <<today, daily, monthly, charged, evictions, machineOf, state, step,
                   usedToday, response, tools, spent, summaries, faults>>

\* One tool call; a failing or unknown tool is a result like any other.
Act(r) ==
    /\ pc[r] = "act"
    /\ messages' = [messages EXCEPT ![r] = Append(@, "tool")]
    /\ tools' = [tools EXCEPT ![r] = @ - 1]
    /\ Goto(r, IF tools[r] > 1 THEN "act" ELSE "check")
    /\ UNCHANGED <<costVars, machineOf, state, step, usedToday, response, unwritten, outcome,
                   histVars>>

\* The run's summary is stored, or that fails; the agent is ACTIVE again.
Reflect(r) ==
    /\ pc[r] = "reflect"
    /\ TryTransition(r, "active")
    /\ End(r, outcome[r])
    /\ UNCHANGED <<costVars, spent, summaries, unrecorded, faults>>

-----------------------------------------------------------------------------
\* The budget is refilled or an operator resumes the agent.
Resume(m) ==
    /\ state[m] = "paused"
    /\ state' = [state EXCEPT ![m] = "active"]
    /\ UNCHANGED <<costVars, machineOf, pc, step, usedToday, response, unwritten, tools,
                   messages, outcome, histVars>>

Midnight == NextDay /\ UNCHANGED <<runVars, histVars>>

Evict == EvictCounter /\ UNCHANGED <<runVars, histVars>>

Continue(r) ==
    \/ Start(r) \/ LoopHead(r) \/ CheckMonth(r) \/ MaybeCompact(r) \/ Summarize(r)
    \/ Think(r) \/ Record(r) \/ Persist(r) \/ Act(r) \/ Reflect(r)

Next ==
    \/ \E r \in Runs : Trigger(r) \/ Continue(r) \/ Raise(r) \/ Cancel(r)
    \/ \E m \in Machines : Resume(m)
    \/ Midnight \/ Evict

Spec == Init /\ [][Next]_vars

\* The event loop runs every coroutine that can go on; providers answer.
Fairness == \A r \in Runs : WF_vars(Continue(r))

FairSpec == Spec /\ Fairness

-----------------------------------------------------------------------------
(* Safety *)

\* The in-memory state machine is the run lock: of the runs that share it, at
\* most one is inside its loop.
OneRunPerMachine ==
    \A r, q \in Runs : InLoop(r) /\ InLoop(q) /\ machineOf[r] = machineOf[q] => r = q

\* "The agent's state machine is updated on start and on every terminal exit":
\* a machine says RUNNING exactly while a run is in its loop, with the one
\* exception that a cancelled run leaves it there.
RunningMeansInLoop ==
    \A m \in Machines :
        /\ (\E r \in Runs : InLoop(r) /\ machineOf[r] = m) => state[m] = "running"
        /\ state[m] = "running" =>
              \E r \in Runs : machineOf[r] = m /\ (InLoop(r) \/ outcome[r] = "cancelled")

MaxResponse == CHOOSE t \in ResponseTokens : \A u \in ResponseTokens : u <= t

\* What counters can reach: the budget less the estimate of a check, and one
\* response of every machine that was past its check.
Ceiling(budget) ==
    (IF budget > Estimate THEN budget - Estimate ELSE 0) + Cardinality(Machines) * MaxResponse

Total(f) == FoldFunction(LAMBDA x, y : x + y, 0, f)

ChargedIn(month) == Total([d \in {d \in Days : MonthOf(d) = month} |-> charged[d]])

\* The budget is checked on a read and charged after the response, so it can be
\* overrun; but never by more than one response per machine, on any day or in
\* any month, across midnight and whatever fails.  Each counter that Redis
\* evicts lets the budget be used once more.
OverrunBounded ==
    /\ \A d \in Days : charged[d] <= (1 + evictions) * Ceiling(DailyTokenBudget)
    /\ \A m \in Months : ChargedIn(m) <= (1 + evictions) * Ceiling(MonthlyTokenBudget)

\* Where the tokens went: the day and month counters agree with each other unless
\* one was evicted; the ledger has, of what was charged, all but what is on its way
\* there and what the INSERT failed for, unless a run was cut short between the
\* two; all that was spent is charged or in a response about to be, except the
\* tokens of compaction summaries.
SpendingAccountedFor ==
    /\ evictions = 0 => \A m \in Months : monthly[m] = ChargedIn(m)
    /\ evictions = 0 => daily = charged
    /\ ledger + unrecorded <= Total(charged) /\ Total(charged) <= spent
    /\ faults = 0 => /\ ledger + unrecorded + Total(unwritten) = Total(charged)
                     /\ spent = Total(charged) + summaries + Total(response)

\* Compaction keeps the last four messages of a conversation that has more.
CompactionKeepsLastFour ==
    [][\A r \in Runs :
          pc[r] = "summarize" /\ pc'[r] = "think" /\ Len(messages[r]) > MIN_MESSAGES_TO_KEEP =>
              LET old == messages[r]
                  new == messages'[r]
              IN  /\ Len(new) = MIN_MESSAGES_TO_KEEP + 1
                  /\ \A k \in 0..(MIN_MESSAGES_TO_KEEP - 1) :
                        new[Len(new) - k] = old[Len(old) - k]]_vars

(* Liveness *)

\* Every triggered run ends, however the LLM keeps asking for tools.
EveryRunEnds == \A r \in Runs : pc[r] = "observe" ~> pc[r] = "ended"

=============================================================================
