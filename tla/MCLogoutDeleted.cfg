CONSTANTS
    Jobs = {j1}
    Users = {u1}
    Apps = {a1}
    Keys = {k1}
    RevokeOnly = {}
    MaxRetries = 1
    AuditSuccess = FALSE
    Crashes = FALSE
    NoUser = NoUser
    NoApp = NoApp
    NoKey = NoKey
SPECIFICATION FairSpec
CHECK_DEADLOCK FALSE
PROPERTY DeletedUserLoggedOut
