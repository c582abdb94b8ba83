\* Timing of one periodic resource: restarts, edits, lost status writes,
\* failed re-fetches and a stale informer copy.
CONSTANTS
    Intervals = {3, 4}
    Q = 2
    MaxTime = 12
    MaxEdits = 2
    MaxCrashes = 1
    MaxGetFailures = 2
SPECIFICATION Spec
INVARIANT ScheduleTypeOK
PROPERTY BackupSpacing
\* The clock is bounded: every behaviour stops at MaxTime.
CHECK_DEADLOCK FALSE
