CONSTANTS
    Jobs = {j1}
    Users = {u1}
    Apps = {a1, a2}
    Keys = {k1, k2}
    RevokeOnly = {a2}
    MaxRetries = 2
    AuditSuccess = TRUE
    Crashes = TRUE
    NoUser = NoUser
    NoApp = NoApp
    NoKey = NoKey
SPECIFICATION FairSpec
CHECK_DEADLOCK FALSE
INVARIANTS
    PostsAreDue
    DeadLettersComplete
PROPERTIES
    EveryLogoutEnds
