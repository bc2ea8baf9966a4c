\* Files of up to four lines, or up to five documents' worth of requests; vectors
\* of two lengths, one directory, two places for the index.
CONSTANTS
    None = None
    Pinned = Pinned
    Corrupt = Corrupt
    NoUid = NoUid
    Deployments <- MCDeployments
    Workloads <- MCWorkloads
    Lengths = {256, 768}
SPECIFICATION Spec
INVARIANTS
    LibraryInv
    OwnVectors
    FailsForAReason
    FusedRanking
    ChunksCover
    ParentsLead
    PruneIsExact
    DoctorIsRight
CHECK_DEADLOCK FALSE
