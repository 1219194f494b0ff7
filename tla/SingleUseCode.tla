--------------------------- MODULE SingleUseCode ---------------------------
(***************************************************************************)
(* What a client may rely on about an authorization code (RFC 6749, 4.1.2): *)
(* it is issued once, tokens are returned for it at most once, and not      *)
(* after it was closed.  CodeExchange implements it.                        *)
(***************************************************************************)
CONSTANTS Codes, Answers

VARIABLES
    phase,   \* "unissued", "open" or "closed", per code
    taken    \* the answers returned with HTTP 200, per code

vars == <<phase, taken>>

Init ==
    /\ phase = [c \in Codes |-> "unissued"]
    /\ taken = [c \in Codes |-> {}]

Issue(c) ==
    /\ phase[c] = "unissued"
    /\ phase' = [phase EXCEPT ![c] = "open"]
    /\ UNCHANGED taken

\* One answer, which closes the code.
Redeem(c) == \E a \in Answers :
    /\ phase[c] = "open"
    /\ taken[c] = {}
    /\ phase' = [phase EXCEPT ![c] = "closed"]
    /\ taken' = [taken EXCEPT ![c] = {a}]

\* Codes end unanswered: a cleanup closes any number of them at once.
Withdraw == \E S \in SUBSET {c \in Codes : phase[c] = "open"} :
    /\ phase' = [c \in Codes |-> IF c \in S THEN "closed" ELSE phase[c]]
    /\ UNCHANGED taken

Next == Withdraw \/ \E c \in Codes : Issue(c) \/ Redeem(c)

Spec == Init /\ [][Next]_vars
=============================================================================
