CONSTANTS
    Jobs = {j1, j2}
    Users = {u1}
    Apps = {a1}
    Keys = {k1, k2}
    RevokeOnly = {}
    MaxRetries = 1
    AuditSuccess = FALSE
    Crashes = TRUE
    NoUser = NoUser
    NoApp = NoApp
    NoKey = NoKey
SYMMETRY Symmetric
SPECIFICATION Spec
CHECK_DEADLOCK FALSE
INVARIANTS
    TypeOK
    OneTerminalSignal
    AttemptsReported
    RetriesIdentical
    DeadLettersComplete
PROPERTIES
    DeliverySpec
    AttemptsRunOut
