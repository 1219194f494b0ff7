-------------------------- MODULE MCAuthorizeFlow --------------------------
(* Instances of AuthorizeFlow for TLC.                                      *)
EXTENDS AuthorizeFlow

Ask(prompts, cap) == [prompt |-> prompts, cap |-> cap, jar |-> FALSE]

\* The pairs of features that interact.
MixedRequests ==
    {Ask({"login", "consent"}, NoCap), Ask({"consent"}, 1), Ask({"none"}, 1),
     [prompt |-> {"login"}, cap |-> 2, jar |-> TRUE]}

Consent == {Ask({"consent"}, NoCap)}
=============================================================================
