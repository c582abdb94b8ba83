\* Does the runner ever take the operator process down?
CONSTANTS
    u1 = u1
    u2 = u2
    UIDs <- MC_UIDs
    Intervals <- MC_Intervals
    NoObj = NoObj
    NoEntry = NoEntry
    MaxRetries = 1
    MaxRunners = 2
    MaxTicks = 2
    MaxEdits = 1
    MaxCrashes = 0
SPECIFICATION Spec
SYMMETRY Symm
INVARIANT NoPanic
CHECK_DEADLOCK FALSE
