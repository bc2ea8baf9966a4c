\* Two versions of one document, two requests, one failing call.
CONSTANTS
    d1 = d1
    v1 = v1
    v2 = v2
    tiny = tiny
    c1 = c1
    c2 = c2
    c3 = c3
    o1 = o1
    o2 = o2
    NoVersion = NoVersion
    NoDoc = NoDoc
    NoOp = NoOp
    Docs = {d1}
    Chunks = {c1, c2}
    Versions = {v1, tiny}
    Content <- MCContent
    Ops = {o1, o2}
    QueryLimit = 2
    MaxCrashes = 0
    MaxFaults = 1
SPECIFICATION FairSpec
PROPERTY OpsReturn
CHECK_DEADLOCK FALSE
