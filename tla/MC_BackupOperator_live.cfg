\* Every runner of a deleted incarnation ends, under fairness of the worker,
\* the informer, the rate limiter and the runners (no resync).
CONSTANTS
    u1 = u1
    u2 = u2
    UIDs <- MC_OneUID
    Intervals <- MC_OneInterval
    NoObj = NoObj
    NoEntry = NoEntry
    MaxRetries = 1
    MaxRunners = 2
    MaxTicks = 2
    MaxEdits = 1
    MaxCrashes = 1
SPECIFICATION LiveSpec
PROPERTY RunnersStop
\* The bounds on ticks, edits, runners and crashes end every behaviour.
CHECK_DEADLOCK FALSE
