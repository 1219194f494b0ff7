--------------------------- MODULE MCCodeExchange ---------------------------
(* Instances of CodeExchange for TLC.                                       *)
EXTENDS CodeExchange, TLC

CONSTANTS r1, r2, p1, p2, p3

Symmetric == Permutations(Requests) \cup Permutations(Pairs)
=============================================================================
