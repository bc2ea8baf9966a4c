\* One document in three versions, the last too short to be chunked, two
\* requests at a time, one failing call and one crash.
CONSTANTS
    d1 = d1
    v1 = v1
    v2 = v2
    tiny = tiny
    c1 = c1
    c2 = c2
    c3 = c3
    o1 = o1
    o2 = o2
    NoVersion = NoVersion
    NoDoc = NoDoc
    NoOp = NoOp
    Docs = {d1}
    Chunks = {c1, c2, c3}
    Versions = {v1, v2, tiny}
    Content <- MCContent
    Ops = {o1, o2}
    QueryLimit = 3
    MaxCrashes = 1
    MaxFaults = 1
SPECIFICATION Spec
SYMMETRY SymmetryOps
INVARIANTS
    IInv
    QuietDocsAgree
PROPERTIES
    IngestIsExact
    ClearIsExact
\* Once a metadata update holds db.mu, every slot may be waiting for it.
CHECK_DEADLOCK FALSE
