-------------------------- MODULE AuthorizePromise --------------------------
(***************************************************************************)
(* What a relying party may rely on about its authorize requests: each is  *)
(* answered at most once, and with a code only when the user has done what *)
(* the request demanded since it was made (OpenID Connect Core, 3.1.2.1)    *)
(* and the policy allows it at that moment.  AuthorizeFlow implements it.   *)
(***************************************************************************)
CONSTANTS Flows, Replies

Demands == {"login", "consent"}

VARIABLES
    reply,     \* "none" before the request, "open", or one of Replies
    owed,      \* what the user has not done yet of what the request demands
    allowed    \* the policy's verdict

vars == <<reply, owed, allowed>>

Init ==
    /\ reply = [f \in Flows |-> "none"]
    /\ owed = [f \in Flows |-> {}]
    /\ allowed \in BOOLEAN

Ask(f) ==
    /\ reply[f] = "none"
    /\ reply' = [reply EXCEPT ![f] = "open"]
    /\ \E D \in SUBSET Demands : owed' = [owed EXCEPT ![f] = D]
    /\ UNCHANGED allowed

\* One session: a login serves every request made so far.
LogIn ==
    /\ owed' = [f \in Flows |-> owed[f] \ {"login"}]
    /\ UNCHANGED <<reply, allowed>>

\* The user decides on the consent form.
Press(f) == owed' = [owed EXCEPT ![f] = @ \ {"consent"}]

Answer(f, what) ==
    /\ what = "code" => owed'[f] = {} /\ allowed
    /\ reply' = [reply EXCEPT ![f] = what]

Turn(f) ==
    /\ reply[f] = "open"
    /\ UNCHANGED owed \/ Press(f)
    /\ UNCHANGED reply \/ \E what \in Replies : Answer(f, what)
    /\ UNCHANGED allowed

Reconsider ==
    /\ allowed' = ~allowed
    /\ UNCHANGED <<reply, owed>>

Next == LogIn \/ Reconsider \/ \E f \in Flows : Ask(f) \/ Turn(f)

Spec == Init /\ [][Next]_vars
=============================================================================
