SPECIFICATION FairSpec
CONSTANTS
    Devices = {d1}
    Scripts = {s1, s2}
    CanRun <- FirstScript
    Ticks = {t1, t2}
    Grid <- Times
    MaxTime = 3
    MaxRuns = 2
    MaxCalls = 1
    MaxEvents = 1
INVARIANTS
    ScriptInvariant
PROPERTIES
    SettledRunsStaySettled
    PendingRunsAreAnswered
CHECK_DEADLOCK FALSE
