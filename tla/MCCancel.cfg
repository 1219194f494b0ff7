CONSTANTS
    Flows = {f1}
    Requests <- Consent
    Caps = {1}
    MaxClock = 1
    NoCap = NoCap
    NoLogin = NoLogin
SPECIFICATION Spec
INVARIANT CancelDenies
