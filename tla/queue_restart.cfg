\* One job, one worker, and a restart within the stale threshold.
CONSTANTS
    j1 = j1
    w1 = w1
    NoJob = NoJob
    Jobs = {j1}
    Workers = {w1}
    Oversized = {}
    IngestCanFail = FALSE
    QuickRestart = TRUE
    MaxCrashes = 1
    MaxFaults = 0
SPECIFICATION Spec
INVARIANT UnfinishedIsReenqueued
CHECK_DEADLOCK FALSE
