CONSTANTS
    Processes = {p1, p2}
    Receivers = {r1, r2}
    Ttl = 1
    Wait = 2
    MaxTokens = 1
    MaxKeys = 3
    MaxVersion = 2
    MaxClock = 3
SPECIFICATION Spec
INVARIANTS TypeOK Verifiable DroppedKeysDead RowOutlivesJwt IssuanceAudited ClaimsCurrent
SYMMETRY Symmetry
