CONSTANTS
    Flows = {f1, f2}
    Requests <- MixedRequests
    Caps = {1, 2}
    MaxClock = 2
    NoCap = NoCap
    NoLogin = NoLogin
SPECIFICATION FairSpec
INVARIANTS
    TypeOK
    FreshLogin
    ConsentGiven
PROPERTIES
    MaxAgeHonoured
    PromiseSpec
    RejectionKeepsSession
    Answered
