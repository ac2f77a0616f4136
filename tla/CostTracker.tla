---------------------------- MODULE CostTracker ----------------------------
(***************************************************************************)
(* Token budgets of one agent (engine/cost_tracker.py): Redis counters per *)
(* day and per month, and the durable ledger metrics.token_usage.  Every   *)
(* CostTracker built for the agent, in whatever run or process, works on   *)
(* these same counters.  USD counters are kept beside them by the code and *)
(* decide nothing, so they are left out.                                   *)
(***************************************************************************)
EXTENDS Naturals

CONSTANTS
    DailyTokenBudget, MonthlyTokenBudget,
    DaysPerMonth,
    LastDay,        \* bound: the clock stops on this day
    MaxEvictions    \* bound: evicted counters

ASSUME BudgetAssumption ==
    /\ {DailyTokenBudget, MonthlyTokenBudget, LastDay, MaxEvictions} \subseteq Nat
    /\ DaysPerMonth \in Nat \ {0}

VARIABLES
    today,          \* the UTC date, as a day number
    daily,          \* budget:agent:{id}:daily_tokens:{day}
    monthly,        \* budget:agent:{id}:monthly_tokens:{month}
    ledger,         \* tokens in metrics.token_usage
    charged,        \* history: tokens counted on each day
    evictions       \* history: counters evicted so far

costVars == <<today, daily, monthly, ledger, charged, evictions>>

Days == 0..LastDay
Months == 0..(LastDay \div DaysPerMonth)
MonthOf(day) == day \div DaysPerMonth

CostTypeOK ==
    /\ today \in Days
    /\ daily \in [Days -> Nat]
    /\ monthly \in [Months -> Nat]
    /\ ledger \in Nat
    /\ charged \in [Days -> Nat]
    /\ evictions \in 0..MaxEvictions

CostInit ==
    /\ today = 0
    /\ daily = [d \in Days |-> 0]
    /\ monthly = [m \in Months |-> 0]
    /\ ledger = 0
    /\ charged = [d \in Days |-> 0]
    /\ evictions = 0

\* Mutant: the estimate is left out of the check.
AllowedIfAnyLeft(usedToday, usedMonth, estimate) ==
    /\ usedToday <= DailyTokenBudget
    /\ usedMonth <= MonthlyTokenBudget

\* check's decision on what it read.
Allowed(usedToday, usedMonth, estimate) ==
    /\ usedToday + estimate <= DailyTokenBudget
    /\ usedMonth + estimate <= MonthlyTokenBudget

\* Mutant: a second increment of the month's counter is lost.
AddToCountersDaily(tokens) ==
    /\ daily' = [daily EXCEPT ![today] = @ + tokens]
    /\ charged' = [charged EXCEPT ![today] = @ + tokens]
    /\ UNCHANGED monthly

\* record_usage's pipeline: one MULTI/EXEC on the keys of the current date.
AddToCounters(tokens) ==
    /\ daily' = [daily EXCEPT ![today] = @ + tokens]
    /\ monthly' = [monthly EXCEPT ![MonthOf(today)] = @ + tokens]
    /\ charged' = [charged EXCEPT ![today] = @ + tokens]

\* UTC midnight.
NextDay ==
    /\ today < LastDay
    /\ today' = today + 1
    /\ UNCHANGED <<daily, monthly, ledger, charged, evictions>>

\* Redis may evict any key when its memory is full; an absent counter is 0.
\* Counters of earlier dates are never read again.
EvictCounter ==
    /\ evictions < MaxEvictions
    /\ evictions' = evictions + 1
    /\ \/ /\ daily[today] > 0
          /\ daily' = [daily EXCEPT ![today] = 0]
          /\ UNCHANGED monthly
       \/ /\ monthly[MonthOf(today)] > 0
          /\ monthly' = [monthly EXCEPT ![MonthOf(today)] = 0]
          /\ UNCHANGED daily
    /\ UNCHANGED <<today, ledger, charged>>
=============================================================================
