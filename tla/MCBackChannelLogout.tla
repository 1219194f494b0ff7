------------------------ MODULE MCBackChannelLogout ------------------------
(* Instances of BackChannelLogout for TLC.                                  *)
EXTENDS BackChannelLogout, TLC

Symmetric == Permutations(Jobs) \cup Permutations(Keys)
=============================================================================
