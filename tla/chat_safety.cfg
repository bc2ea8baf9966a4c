\* Two tabs, three messages, two exchanges kept, one restart, one clear; a prompt
\* takes four messages of history, three characters of each, six in all.
CONSTANTS
    doc = doc
    issue = issue
    docUrl = docUrl
    issueUrl = issueUrl
    quoted = quoted
    foreign = foreign
    m1 = m1
    m2 = m2
    m3 = m3
    t1 = t1
    t2 = t2
    NoUrl = NoUrl
    NoId = NoId
    NoSession = NoSession
    Results = {doc, issue}
    Result <- MCResult
    Ids = {1, 2}
    Tabs = {t1, t2}
    Messages = {m1, m2, m3}
    Kinds <- MCKinds
    Found <- MCFound
    ModelReplies <- MCReplies
    MaxTurns = 2
    MaxHistoryMsgs = 4
    MaxMsgChars = 3
    MaxTotalChars = 6
    MaxRestarts = 1
    MaxClears = 1
SPECIFICATION Spec
SYMMETRY Interchangeable
INVARIANTS
    ChatInv
    PrivateMode
    ShortTalkIsCarried
    OnlyTheAnswerIsShown
    LinksComeFromSources
PROPERTIES
    KindsStick
CHECK_DEADLOCK FALSE
