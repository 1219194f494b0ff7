---------------------------- MODULE MCDeployment ----------------------------
(* One application; settings as recommended, for development, with every    *)
(* recommendation missed, with the cases the checks cannot judge, and with  *)
(* names that do not import.                                                *)
EXTENDS Deployment, TLC

Recommended == [
    debug |-> FALSE, issuer |-> TRUE, openid |-> TRUE, cimd |-> FALSE,
    model |-> "aa", validator |-> "aa", generator |-> "dispatcher",
    pkce |-> "adapter", format |-> "jwt", rp |-> "absent",
    private |-> FALSE, acked |-> FALSE, masked |-> FALSE, valid |-> TRUE]

Development == [Recommended EXCEPT
    !.debug = TRUE, !.private = TRUE, !.masked = TRUE, !.format = "opaque"]

Missed == [Recommended EXCEPT
    !.issuer = FALSE, !.openid = FALSE, !.cimd = TRUE, !.validator = "stock",
    !.generator = "stock", !.pkce = "off", !.rp = "off", !.masked = TRUE]

Exposed == [Recommended EXCEPT !.private = TRUE, !.generator = "stock", !.pkce = "on"]

Unjudged == [Recommended EXCEPT
    !.valid = FALSE, !.pkce = "callable", !.rp = "falsy", !.format = "typo",
    !.private = TRUE, !.acked = TRUE]

Bogus == [Recommended EXCEPT !.validator = "bogus", !.generator = "bogus", !.model = "stock"]

MCSettings == {Recommended, Development, Missed, Exposed, Unjudged, Bogus}

Created == [uri |-> "none", active |-> TRUE, pkce |-> TRUE,
            format |-> "", hs256 |-> FALSE, hashed |-> TRUE]
WithUri == [Created EXCEPT !.uri = "https"]
Hmac == [WithUri EXCEPT !.hs256 = TRUE]

MCRows == {Created, [Created EXCEPT !.pkce = FALSE], WithUri,
           [WithUri EXCEPT !.active = FALSE], [WithUri EXCEPT !.format = "jwt"],
           [WithUri EXCEPT !.uri = "http"], [WithUri EXCEPT !.uri = "http", !.active = FALSE],
           Hmac, [Hmac EXCEPT !.active = FALSE], [Hmac EXCEPT !.hashed = FALSE]}

ProcessSymmetry == Permutations(Processes)
=============================================================================
