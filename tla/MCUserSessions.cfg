CONSTANTS
    Apps = {rp}
    g1 = g1
    member = member
    guest = guest
    Groups = {g1}
    States = {member, guest}
    Gates <- MCGates
    PermGroups = {g1}
    Savers = {s1, s2}
    MaxBusy = 2
    NoApp = NoApp
SPECIFICATION Spec
INVARIANTS TypeOK LossTold RevokedTold
PROPERTIES DeletionTold
SYMMETRY SaverSymmetry
CHECK_DEADLOCK FALSE
