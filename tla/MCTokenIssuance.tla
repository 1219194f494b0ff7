-------------------------- MODULE MCTokenIssuance --------------------------
(* Two processes, two receivers, one token request, two rotations.         *)
EXTENDS TokenIssuance, TLC

Symmetry == Permutations(Processes) \cup Permutations(Receivers)
=============================================================================
