\* Safety of the runner registry and of deletion, with crashes and panics.
CONSTANTS
    u1 = u1
    u2 = u2
    UIDs <- MC_UIDs
    Intervals <- MC_Intervals
    NoObj = NoObj
    NoEntry = NoEntry
    MaxRetries = 1
    MaxRunners = 2
    MaxTicks = 1
    MaxEdits = 1
    MaxCrashes = 1
SPECIFICATION Spec
SYMMETRY Symm
INVARIANTS
    TypeOK
    RegistryTracksRunners
    DeletionSafety
    DeletionInv
\* The bounds on ticks, edits, runners and crashes end every behaviour.
CHECK_DEADLOCK FALSE
