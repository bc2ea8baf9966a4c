\* Four deployments, two requests at a time, two sessions, one login flow, one
\* ingest slot, buckets of two tokens, one restart.
CONSTANTS
    alice = alice
    aliceMail = aliceMail
    bob = bob
    bobMail = bobMail
    github = github
    oidc = oidc
    home = home
    away = away
    r1 = r1
    r2 = r2
    None = None
    Deployments <- MCDeployments
    Sids = {1, 2}
    States = {1}
    Providers = {github, oidc}
    Type <- MCType
    Profiles <- MCProfiles
    LocalPart <- MCLocalPart
    AllowedUsers <- MCAllowedUsers
    Reqs = {r1, r2}
    Ips = {home, away}
    SessionTTL = 1
    FlowTTL = 0
    Slots = 1
    Burst = 2
    Rate = 1
    PruneAfter = 2
    MaxDebt = 2
    MaxRestarts = 1
SPECIFICATION Spec
SYMMETRY Interchangeable
INVARIANTS
    OnlyAllowedUsersAct
    LogoutHolds
    SlotsBalance
    PruneIsInvisible
    RefusalIsFree
CHECK_DEADLOCK FALSE
