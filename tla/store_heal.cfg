\* One request at a time, a document of one chunk and one failing call.
CONSTANTS
    d1 = d1
    v1 = v1
    v2 = v2
    tiny = tiny
    c1 = c1
    c2 = c2
    c3 = c3
    o1 = o1
    o2 = o2
    NoVersion = NoVersion
    NoDoc = NoDoc
    NoOp = NoOp
    Docs = {d1}
    Chunks = {c1}
    Versions = {v1}
    Content <- MCContent
    Ops = {o1}
    QueryLimit = 1
    MaxCrashes = 0
    MaxFaults = 1
SPECIFICATION Spec
PROPERTY SelfHeals
CHECK_DEADLOCK FALSE
