\* Does a one-shot status reach the API server, even when the unchanged object
\* is delivered again (a resync, which gets no fairness)?
CONSTANTS
    u1 = u1
    u2 = u2
    UIDs <- MC_OneUID
    Intervals <- MC_OneInterval
    NoObj = NoObj
    NoEntry = NoEntry
    MaxRetries = 1
    MaxRunners = 2
    MaxTicks = 2
    MaxEdits = 1
    MaxCrashes = 1
SPECIFICATION LiveSpec
PROPERTY OneShotReported
\* The bounds on ticks, edits, runners and crashes end every behaviour.
CHECK_DEADLOCK FALSE
