---------------------------- MODULE AccessPolicy ----------------------------
(***************************************************************************)
(* AccessPolicy (security.py): who may hold tokens of which application.   *)
(*                                                                         *)
(* A user is a record [superuser, perm, state, groups], perm being the     *)
(* answer of has_perm("access_oidc"); an application is a record           *)
(* [states, groups], or NoApp when the request names none.                 *)
(***************************************************************************)
CONSTANT NoApp

Superuser(user) == user.superuser

CheckGlobal(user) == Superuser(user) \/ user.perm

\* Either list lets the user in; no list at all lets everybody in.
CheckApp(user, app) ==
    \/ Superuser(user)
    \/ app.states = {} /\ app.groups = {}
    \/ user.state \in app.states
    \/ user.groups \cap app.groups # {}

\* The decision names the application unless the global gate refused it.
Decide(user, app) ==
    IF ~CheckGlobal(user) THEN [allowed |-> FALSE, reason |-> "global", app |-> NoApp]
    ELSE IF app = NoApp \/ CheckApp(user, app) THEN [allowed |-> TRUE, reason |-> "", app |-> app]
    ELSE [allowed |-> FALSE, reason |-> "app", app |-> app]

IsAllowed(user, app) == Decide(user, app).allowed
=============================================================================
