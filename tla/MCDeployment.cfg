CONSTANTS
    Processes = {p1, p2}
    Apps = {rp}
    Settings <- MCSettings
    Rows <- MCRows
    NoSettings = NoSettings
    NoRow = NoRow
SPECIFICATION Spec
INVARIANTS TypeOK FailureForetold GateForetold ExposureForetold
SYMMETRY ProcessSymmetry
