CONSTANTS
    Codes = {c1}
    Requests = {r1}
    Pairs = {p1, p2}
    NoRefresh = {}
    CodeTTL = 1
    AtTTL = 1
    RtTTL = 2
    MaxTime = 3
    MaxReuse = 1
    NoPair = NoPair
    NoCode = NoCode
    NoSweep = NoSweep
    r1 = r1
    r2 = r2
    p1 = p1
    p2 = p2
    p3 = p3
SYMMETRY Symmetric
SPECIFICATION Spec
INVARIANT RecalledCodeIsDead
