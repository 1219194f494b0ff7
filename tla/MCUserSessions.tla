--------------------------- MODULE MCUserSessions ---------------------------
(* One application, one group that carries the permission, two states, two  *)
(* processes that save the user.                                            *)
EXTENDS UserSessions, TLC

CONSTANTS g1, member, guest

MCGates == {[states |-> {member}, groups |-> {}], [states |-> {}, groups |-> {g1}]}

SaverSymmetry == Permutations(Savers)
=============================================================================
