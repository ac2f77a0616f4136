\* Two runs, on one machine or on two; a daily budget that admits a second
\* response, a month of two days, so that both limits bite; two steps, the first
\* of which can fill the context beyond four messages with three tool results.
CONSTANTS
    Runs = {r1, r2}
    Machines = {m1, m2}
    MaxSteps = 2
    Estimate = 1
    ResponseTokens = {2}
    ToolCounts = {0, 3}
    MaxFaults = 1
    DailyTokenBudget = 3
    MonthlyTokenBudget = 4
    DaysPerMonth = 2
    LastDay = 1
    MaxEvictions = 1
SPECIFICATION FairSpec
INVARIANTS
    TypeOK
    OneRunPerMachine
    RunningMeansInLoop
    OverrunBounded
    SpendingAccountedFor
PROPERTIES
    CompactionKeepsLastFour
    EveryRunEnds
\* Every run has ended.
CHECK_DEADLOCK FALSE
