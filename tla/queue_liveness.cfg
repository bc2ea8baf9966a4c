\* Two jobs for one worker and a channel of one, a third too large to accept, a
\* crash, and a restart only after the stale threshold; no file system errors.
CONSTANTS
    j1 = j1
    j2 = j2
    big = big
    w1 = w1
    NoJob = NoJob
    Jobs = {j1, j2, big}
    Workers = {w1}
    Oversized = {big}
    IngestCanFail = TRUE
    QuickRestart = FALSE
    MaxCrashes = 1
    MaxFaults = 0
SPECIFICATION FairSpec
INVARIANT TypeOK
PROPERTIES
    AcceptedIsSettled
    StartReturns
    StopDrains
    SubmitReturns
\* A server whose clients submit nothing more is at rest.
CHECK_DEADLOCK FALSE
