\* Initial-fire alignment of a resource that never ran.
CONSTANTS
    Intervals = {2, 3}
    Q = 2
    MaxTime = 6
    MaxEdits = 0
    MaxCrashes = 0
    MaxGetFailures = 0
SPECIFICATION Spec
PROPERTY FirstFireOnBoundary
\* The clock is bounded: every behaviour stops at MaxTime.
CHECK_DEADLOCK FALSE
