--------------------------- MODULE LogoutDelivery ---------------------------
(***************************************************************************)
(* What the listeners of oidc_logout_dispatched and the relying parties may *)
(* rely on about a back-channel logout: it is tried only once its           *)
(* transaction has ended well, at most MaxTries times, and is reported at   *)
(* most once, as delivered only in answer to a try.  BackChannelLogout      *)
(* implements it.                                                           *)
(***************************************************************************)
EXTENDS Naturals

CONSTANTS Jobs, MaxTries

VARIABLES
    stage,     \* "none", "pending", "due", "trying" or "over"
    tries,     \* POSTs made
    reports,   \* signals sent
    verdict    \* "", "delivered" or "failed"

vars == <<stage, tries, reports, verdict>>

Init ==
    /\ stage = [j \in Jobs |-> "none"]
    /\ tries = [j \in Jobs |-> 0]
    /\ reports = [j \in Jobs |-> 0]
    /\ verdict = [j \in Jobs |-> ""]

Quiet == UNCHANGED <<reports, verdict>>

Go(j, to) == stage' = [stage EXCEPT ![j] = to]

Report(j, what) ==
    /\ Go(j, "over")
    /\ reports' = [reports EXCEPT ![j] = @ + 1]
    /\ verdict' = [verdict EXCEPT ![j] = what]

\* A logout that is not even pending has failed.
Ask(j) ==
    /\ stage[j] = "none"
    /\ (Go(j, "pending") /\ Quiet) \/ Report(j, "failed")
    /\ UNCHANGED tries

\* The logouts of a transaction leave it together: some become due, some have
\* failed, and nothing is heard of the others, all of them if it rolled back.
EndTransaction ==
    \E S \in SUBSET {j \in Jobs : stage[j] = "pending"} :
    \E due \in SUBSET S : \E failed \in SUBSET (S \ due) :
        /\ stage' = [j \in Jobs |-> IF j \in due THEN "due"
                                    ELSE IF j \in S THEN "over" ELSE stage[j]]
        /\ reports' = [j \in Jobs |-> IF j \in failed THEN reports[j] + 1 ELSE reports[j]]
        /\ verdict' = [j \in Jobs |-> IF j \in failed THEN "failed" ELSE verdict[j]]
        /\ UNCHANGED tries

\* A failed try leaves the logout due while tries are left.
FailedTry(j) ==
    \/ (tries'[j] < MaxTries /\ Go(j, "due") /\ Quiet)
    \/ Report(j, "failed")

Try(j) ==
    /\ stage[j] = "due"
    /\ tries[j] < MaxTries
    /\ tries' = [tries EXCEPT ![j] = @ + 1]
    /\ (Go(j, "trying") /\ Quiet) \/ FailedTry(j)

Answer(j) ==
    /\ stage[j] = "trying"
    /\ UNCHANGED tries
    /\ Report(j, "delivered") \/ FailedTry(j)

\* Given up between two tries, with or without a word, or lost during one.
GiveUp(j) ==
    /\ \/ /\ stage[j] \in {"due", "trying"}
          /\ Go(j, "over") /\ Quiet
       \/ /\ stage[j] = "due"
          /\ Report(j, "failed")
    /\ UNCHANGED tries

Next ==
    \/ EndTransaction
    \/ \E j \in Jobs : Ask(j) \/ Try(j) \/ Answer(j) \/ GiveUp(j)

Spec == Init /\ [][Next]_vars
=============================================================================
