\* As library, for the one property that the code does not keep.
CONSTANTS
    None = None
    Pinned = Pinned
    Corrupt = Corrupt
    NoUid = NoUid
    Deployments <- MCDeployments
    Workloads <- MCWorkloads
    Lengths = {256, 768}
SPECIFICATION Spec
INVARIANT OneModel
CHECK_DEADLOCK FALSE
