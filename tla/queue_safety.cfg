\* Two workers over a channel of capacity two; two crashes at any point, a
\* restart at once or after the stale threshold, one failing file system call.
CONSTANTS
    j1 = j1
    j2 = j2
    w1 = w1
    w2 = w2
    NoJob = NoJob
    Jobs = {j1, j2}
    Workers = {w1, w2}
    Oversized = {}
    IngestCanFail = TRUE
    QuickRestart = TRUE
    MaxCrashes = 2
    MaxFaults = 1
SPECIFICATION Spec
SYMMETRY SymmetryJobsWorkers
INVARIANTS
    OneFilePerJob
    OneRunPerProcess
    NoUnownedWork
    IInv
PROPERTIES
    OnlyFinishedVanish
    FinishedIsFinal
    ImplementsLedger
\* A server whose clients submit nothing more is at rest.
CHECK_DEADLOCK FALSE
