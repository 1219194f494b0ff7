------------------------- MODULE BackChannelLogout -------------------------
(***************************************************************************)
(* Delivery of OIDC back-channel logouts: the dispatcher that runs inside  *)
(* the transaction of the trigger (logout.py), the enqueue on commit, the  *)
(* Celery task that POSTs and retries (tasks.send_logout_token), signing   *)
(* key rotation, and the dead-letter rows (receivers.py).                  *)
(*                                                                         *)
(* A job is one (user, application) logout with its own jti.  Which users  *)
(* and applications a trigger names is left open here.  The broker, the    *)
(* relying party and the network are environment choices.                  *)
(***************************************************************************)
EXTENDS Naturals

CONSTANTS
    Jobs, Users, Apps, Keys,
    RevokeOnly,     \* applications with backchannel_logout_on_revoke_only
    MaxRetries,     \* max_retries of send_logout_token
    AuditSuccess,   \* ALLIANCEAUTH_OIDC_BCL_AUDIT_SUCCESS
    Crashes,        \* whether processes may die with a job in hand
    NoUser, NoApp, NoKey

ASSUME BoundsAssumption ==
    /\ MaxRetries \in Nat
    /\ AuditSuccess \in BOOLEAN /\ Crashes \in BOOLEAN
    /\ RevokeOnly \subseteq Apps
    /\ NoKey \notin Keys /\ NoUser \notin Users /\ NoApp \notin Apps

Reasons == {"user_revoked", "lifecycle", "user_deleted"}

\* "refused" stands for redirect_blocked and rp_client_error, "blocked" for
\* dns_resolve_failed and unsafe_target_ip, "exhausted" for retries_exhausted
\* and retries_exhausted_network.
HttpOutcomes == {"success", "refused", "exhausted"}
WorkerOutcomes == HttpOutcomes \cup {"blocked", "kid_retired"}
Outcomes == WorkerOutcomes \cup {"kid_unresolved", "broker_unavailable"}

Phases == {"free", "staged", "queued", "posting", "settled", "dropped",
           "raised", "withdrawn", "lost"}

VARIABLES
    phase,      \* where each job is
    user, app, reason, kid,   \* its pinned arguments
    open,       \* jobs dispatched by a transaction still open
    committed,  \* jobs whose transaction committed
    retries,    \* self.request.retries
    posts,      \* calls of requests.post
    signed,     \* keys its logout_token was signed with
    emitted,    \* oidc_logout_dispatched signals sent
    outcome, attempt,         \* of the last signal
    rows,       \* BackChannelLogoutAttempt rows
    users, doomed,            \* user rows, and those the open transactions delete
    apps, active, hasUri,     \* application rows, is_usable, URI not blank
    signing, inactive         \* OIDC_RSA_PRIVATE_KEY, ..._KEYS_INACTIVE

jobVars == <<phase, retries, posts, signed, emitted, outcome, attempt, rows>>
argVars == <<user, app, reason, kid>>
txnVars == <<open, committed, doomed>>
worldVars == <<users, apps, active, hasUri>>
keyVars == <<signing, inactive>>
vars == <<jobVars, argVars, txnVars, worldVars, keyVars>>

\* Types: in particular no task is retried more than max_retries times.
TypeOK ==
    /\ phase \in [Jobs -> Phases]
    /\ user \in [Jobs -> Users \cup {NoUser}]
    /\ app \in [Jobs -> Apps \cup {NoApp}]
    /\ reason \in [Jobs -> Reasons \cup {""}]
    /\ kid \in [Jobs -> Keys \cup {NoKey}]
    /\ open \subseteq Jobs
    /\ committed \subseteq Jobs
    /\ retries \in [Jobs -> 0..MaxRetries]
    /\ posts \in [Jobs -> Nat]
    /\ signed \in [Jobs -> SUBSET Keys]
    /\ emitted \in [Jobs -> Nat]
    /\ outcome \in [Jobs -> Outcomes \cup {""}]
    /\ attempt \in [Jobs -> Nat]
    /\ rows \in [Jobs -> Nat]
    /\ users \subseteq Users /\ doomed \subseteq Users
    /\ apps \subseteq Apps /\ active \subseteq Apps /\ hasUri \subseteq Apps
    /\ signing \in Keys \cup {NoKey}
    /\ inactive \subseteq Keys

Init ==
    /\ phase = [j \in Jobs |-> "free"]
    /\ user = [j \in Jobs |-> NoUser]
    /\ app = [j \in Jobs |-> NoApp]
    /\ reason = [j \in Jobs |-> ""]
    /\ kid = [j \in Jobs |-> NoKey]
    /\ open = {} /\ committed = {} /\ doomed = {}
    /\ retries = [j \in Jobs |-> 0]
    /\ posts = [j \in Jobs |-> 0]
    /\ signed = [j \in Jobs |-> {}]
    /\ emitted = [j \in Jobs |-> 0]
    /\ outcome = [j \in Jobs |-> ""]
    /\ attempt = [j \in Jobs |-> 0]
    /\ rows = [j \in Jobs |-> 0]
    /\ users = Users
    /\ apps = Apps /\ active = Apps /\ hasUri = Apps
    /\ signing \in Keys
    /\ inactive = {}

-----------------------------------------------------------------------------
\* Mutants: successes are never recorded; the row hangs on the user's.
RecordedFailure(j, what) == what # "success" /\ app[j] \in apps
RecordedForUser(j, what) ==
    /\ what # "success" \/ AuditSuccess
    /\ app[j] \in apps /\ user[j] \in users

\* record_backchannel_logout_attempt: failures, and successes when asked to;
\* the insert fails, and is only logged, when the application row is gone.
Recorded(j, what) ==
    /\ what # "success" \/ AuditSuccess
    /\ app[j] \in apps

\* emit_bcl_failure and emit_bcl_success for every job of S, with their
\* default receiver.
Emit(S, what, n) ==
    /\ emitted' = [j \in Jobs |-> IF j \in S THEN emitted[j] + 1 ELSE emitted[j]]
    /\ outcome' = [j \in Jobs |-> IF j \in S THEN what ELSE outcome[j]]
    /\ attempt' = [j \in Jobs |-> IF j \in S THEN n ELSE attempt[j]]
    /\ rows' = [j \in Jobs |->
                  IF j \in S /\ Recorded(j, what) THEN rows[j] + 1 ELSE rows[j]]

Silent == UNCHANGED <<emitted, outcome, attempt, rows>>

Settle(j, what, n) ==
    /\ phase' = [phase EXCEPT ![j] = "settled"]
    /\ Emit({j}, what, n)

-----------------------------------------------------------------------------
\* Mutant: the flag of the application is not read.
SkippedUnlessUri(a, why) == a \notin hasUri \/ a \notin active

\* dispatch_backchannel_logout returns without a trace.
Skipped(a, why) ==
    \/ a \notin hasUri
    \/ a \notin active
    \/ a \in RevokeOnly /\ why # "user_revoked"

\* A user deletion runs inside a transaction; its logouts are dispatched by
\* post_delete, those of other triggers while the row is there.
DeleteUser(u) ==
    /\ u \in users \ doomed
    /\ doomed' = doomed \cup {u}
    /\ UNCHANGED <<jobVars, argVars, open, committed, worldVars, keyVars>>

\* Mutant: enqueued without waiting for the commit.
StageNow(j) ==
    /\ phase' = [phase EXCEPT ![j] = "queued"]
    /\ kid' = [kid EXCEPT ![j] = signing]
    /\ signing # NoKey
    /\ Silent

\* A trigger reaches the dispatcher: jti, iat and kid are pinned and the
\* enqueue is left to the commit.
Stage(j) ==
    /\ phase' = [phase EXCEPT ![j] = "staged"]
    /\ kid' = [kid EXCEPT ![j] = signing]
    /\ signing # NoKey
    /\ Silent

\* The active key cannot be read: reported at once, with no job to run.
StageFails(j) ==
    /\ signing = NoKey
    /\ phase' = [phase EXCEPT ![j] = "settled"]
    /\ emitted' = [emitted EXCEPT ![j] = @ + 1]
    /\ outcome' = [outcome EXCEPT ![j] = "kid_unresolved"]
    /\ attempt' = [attempt EXCEPT ![j] = 0]
    /\ rows' = [rows EXCEPT ![j] = @ + 1]
    /\ UNCHANGED kid

Dispatch(j, u, a, why) ==
    /\ phase[j] = "free"
    /\ u \in users /\ a \in apps
    /\ (u \in doomed) <=> (why = "user_deleted")
    /\ ~Skipped(a, why)
    /\ user' = [user EXCEPT ![j] = u]
    /\ app' = [app EXCEPT ![j] = a]
    /\ reason' = [reason EXCEPT ![j] = why]
    /\ Stage(j) \/ StageFails(j)
    /\ open' = open \cup {j}
    /\ UNCHANGED <<committed, doomed, retries, posts, signed, worldVars, keyVars>>

\* The transaction of u's trigger commits and its callbacks enqueue one task
\* per staged job.  A publication the broker refuses is reported and given
\* up; a process that dies here has committed without enqueueing.
Commit(u) ==
    LET mine == {j \in open : user[j] = u}
        staged == {j \in mine : phase[j] = "staged"}
    IN /\ mine # {} \/ u \in doomed
       /\ \E refused \in SUBSET staged, dead \in SUBSET staged :
            /\ refused \cap dead = {}
            /\ dead # {} => Crashes
            /\ phase' = [j \in Jobs |->
                 CASE j \in refused -> "settled"
                   [] j \in dead -> "lost"
                   [] j \in staged \ (refused \cup dead) -> "queued"
                   [] OTHER -> phase[j]]
            /\ Emit(refused, "broker_unavailable", 0)
       /\ open' = open \ mine
       /\ committed' = committed \cup mine
       /\ users' = users \ (doomed \cap {u})
       /\ doomed' = doomed \ {u}
       /\ UNCHANGED <<retries, posts, signed, argVars, apps, active, hasUri,
                      keyVars>>

\* The transaction rolls back: its callbacks never run, and the rows it wrote
\* go with it.
Rollback(u) ==
    LET mine == {j \in open : user[j] = u}
    IN /\ mine # {} \/ u \in doomed
       /\ phase' = [j \in Jobs |->
            IF j \in mine /\ phase[j] = "staged" THEN "withdrawn" ELSE phase[j]]
       /\ rows' = [j \in Jobs |-> IF j \in mine THEN 0 ELSE rows[j]]
       /\ open' = open \ mine
       /\ doomed' = doomed \ {u}
       /\ UNCHANGED <<retries, posts, signed, emitted, outcome, attempt,
                      committed, argVars, worldVars, keyVars>>

-----------------------------------------------------------------------------
\* Mutants: one attempt too many; the last failure raised and not reported;
\* every failed attempt reported.
FailOnceMore(j) ==
    \/ /\ retries[j] <= MaxRetries
       /\ retries' = [retries EXCEPT ![j] = @ + 1]
       /\ phase' = [phase EXCEPT ![j] = "queued"]
       /\ Silent
    \/ /\ retries[j] > MaxRetries
       /\ Settle(j, "exhausted", retries[j] + 1)
       /\ UNCHANGED retries
FailUnreported(j) ==
    /\ retries' = [retries EXCEPT ![j] = IF @ < MaxRetries THEN @ + 1 ELSE @]
    /\ phase' = [phase EXCEPT ![j] = IF retries[j] < MaxRetries THEN "queued" ELSE "raised"]
    /\ Silent
FailLoudly(j) ==
    /\ retries' = [retries EXCEPT ![j] = IF @ < MaxRetries THEN @ + 1 ELSE @]
    /\ phase' = [phase EXCEPT ![j] = IF retries[j] < MaxRetries THEN "queued" ELSE "settled"]
    /\ Emit({j}, "exhausted", retries[j] + 1)

\* A RequestException or a 5xx: Celery queues the next attempt, the last one
\* is reported.
FailTransiently(j) ==
    \/ /\ retries[j] < MaxRetries
       /\ retries' = [retries EXCEPT ![j] = @ + 1]
       /\ phase' = [phase EXCEPT ![j] = "queued"]
       /\ Silent
    \/ /\ retries[j] >= MaxRetries
       /\ Settle(j, "exhausted", retries[j] + 1)
       /\ UNCHANGED retries

\* _resolve_signing_key reads the active key first, then looks for the pinned
\* one.
KeyKnown(j) == signing # NoKey /\ kid[j] \in {signing} \cup inactive
KeyRetired(j) == signing # NoKey /\ kid[j] \notin {signing} \cup inactive

\* The worker takes the task and finds its user and application.
Taken(j) ==
    /\ phase[j] = "queued"
    /\ user[j] \in users /\ app[j] \in apps
    /\ UNCHANGED <<argVars, txnVars, worldVars, keyVars>>

\* The user or the application is gone: the task returns and reports nothing.
DropGone(j) ==
    /\ phase[j] = "queued"
    /\ user[j] \notin users \/ app[j] \notin apps
    /\ phase' = [phase EXCEPT ![j] = "dropped"]
    /\ Silent
    /\ UNCHANGED <<retries, posts, signed, argVars, txnVars, worldVars, keyVars>>

\* Mutant: the number of retries instead of the number of the attempt.
AbortRetiredUncounted(j) ==
    /\ Taken(j) /\ KeyRetired(j)
    /\ Settle(j, "kid_retired", retries[j])
    /\ UNCHANGED <<retries, posts, signed>>

\* SigningKeyRetiredError: no POST.
AbortRetired(j) ==
    /\ Taken(j) /\ KeyRetired(j)
    /\ Settle(j, "kid_retired", retries[j] + 1)
    /\ UNCHANGED <<retries, posts, signed>>

\* The active key cannot be read: build_logout_token raises something else,
\* which is neither caught nor retried, and the task is over.
RaiseUnreadable(j) ==
    /\ Taken(j) /\ signing = NoKey
    /\ phase' = [phase EXCEPT ![j] = "raised"]
    /\ Silent
    /\ UNCHANGED <<retries, posts, signed>>

\* _request_time_ssrf_gate_passes returns False; a blank host passes it.
AbortBlocked(j) ==
    /\ Taken(j) /\ KeyKnown(j)
    /\ app[j] \in hasUri
    /\ Settle(j, "blocked", retries[j] + 1)
    /\ UNCHANGED <<retries, posts, signed>>

\* Mutant: signed with the key active at the attempt.
PostWithActiveKey(j) ==
    /\ Taken(j) /\ signing # NoKey
    /\ posts' = [posts EXCEPT ![j] = @ + 1]
    /\ signed' = [signed EXCEPT ![j] = @ \cup {signing}]
    /\ phase' = [phase EXCEPT ![j] = "posting"]
    /\ Silent
    /\ UNCHANGED retries

\* The token is rebuilt and posted; a URI blanked since the dispatch makes
\* requests.post raise.
Post(j) ==
    /\ Taken(j) /\ KeyKnown(j)
    /\ posts' = [posts EXCEPT ![j] = @ + 1]
    /\ signed' = [signed EXCEPT ![j] = @ \cup {kid[j]}]
    /\ \/ /\ app[j] \in hasUri
          /\ phase' = [phase EXCEPT ![j] = "posting"]
          /\ Silent
          /\ UNCHANGED retries
       \/ /\ app[j] \notin hasUri
          /\ FailTransiently(j)

\* The response, or the error, of the POST in flight.
Answered(j) ==
    /\ phase[j] = "posting"
    /\ UNCHANGED <<posts, signed, argVars, txnVars, worldVars, keyVars>>

Succeed(j) ==
    /\ Answered(j)
    /\ Settle(j, "success", retries[j] + 1)
    /\ UNCHANGED retries

\* Mutant: a 4xx is reported, and raises for another attempt.
RefuseAndRetry(j) ==
    /\ Answered(j)
    /\ Emit({j}, "refused", retries[j] + 1)
    /\ phase' = [phase EXCEPT ![j] = "queued"]
    /\ UNCHANGED retries

Refuse(j) ==
    /\ Answered(j)
    /\ Settle(j, "refused", retries[j] + 1)
    /\ UNCHANGED retries

Fail(j) ==
    /\ Answered(j)
    /\ FailTransiently(j)

\* The task is acknowledged before it runs: a worker that dies loses it.
Crash(j) ==
    /\ Crashes
    /\ phase[j] \in {"queued", "posting"}
    /\ phase' = [phase EXCEPT ![j] = "lost"]
    /\ Silent
    /\ UNCHANGED <<retries, posts, signed, argVars, txnVars, worldVars, keyVars>>

-----------------------------------------------------------------------------
\* Operators: key rotation keeps the old key until it is retired.
RotateKey(k) ==
    /\ k # signing
    /\ signing' = k
    /\ inactive' = IF signing = NoKey THEN inactive \ {k}
                   ELSE (inactive \cup {signing}) \ {k}
    /\ UNCHANGED <<jobVars, argVars, txnVars, worldVars>>

RetireKey(k) ==
    /\ k \in inactive
    /\ inactive' = inactive \ {k}
    /\ UNCHANGED <<jobVars, argVars, txnVars, worldVars, signing>>

\* The setting no longer yields a key.
BreakKey ==
    /\ signing # NoKey
    /\ signing' = NoKey
    /\ UNCHANGED <<jobVars, argVars, txnVars, worldVars, inactive>>

Deactivate(a) ==
    /\ a \in active
    /\ active' = active \ {a}
    /\ UNCHANGED <<jobVars, argVars, txnVars, users, apps, hasUri, keyVars>>

BlankUri(a) ==
    /\ a \in hasUri
    /\ hasUri' = hasUri \ {a}
    /\ UNCHANGED <<jobVars, argVars, txnVars, users, apps, active, keyVars>>

DeleteApp(a) ==
    /\ a \in apps
    /\ apps' = apps \ {a}
    /\ UNCHANGED <<jobVars, argVars, txnVars, users, active, hasUri, keyVars>>

-----------------------------------------------------------------------------
WorkerStep(j) ==
    \/ DropGone(j) \/ AbortRetired(j) \/ RaiseUnreadable(j) \/ AbortBlocked(j)
    \/ Post(j)
    \/ Succeed(j) \/ Refuse(j) \/ Fail(j)

OperatorStep ==
    \/ \E k \in Keys : RotateKey(k) \/ RetireKey(k)
    \/ BreakKey
    \/ \E a \in Apps : Deactivate(a) \/ BlankUri(a) \/ DeleteApp(a)

Next ==
    \/ \E u \in Users : DeleteUser(u) \/ Commit(u) \/ Rollback(u)
    \/ \E j \in Jobs, u \in Users, a \in Apps, why \in Reasons : Dispatch(j, u, a, why)
    \/ \E j \in Jobs : WorkerStep(j) \/ Crash(j)
    \/ OperatorStep

Spec == Init /\ [][Next]_vars

\* Transactions end, the broker hands every queued task to a worker, and
\* requests.post returns or times out.  Nothing is asked of triggers,
\* operators or relying parties.
FairSpec ==
    /\ Spec
    /\ \A u \in Users : WF_vars(Commit(u) \/ Rollback(u))
    /\ \A j \in Jobs : WF_vars(WorkerStep(j))

-----------------------------------------------------------------------------
\* Each logout_token has one terminal signal when its job is over and none
\* before: retries are invisible to receivers.
OneTerminalSignal ==
    \A j \in Jobs : emitted[j] = IF phase[j] = "settled" THEN 1 ELSE 0

\* attempt_count tells how often the relying party was tried: the POST that
\* decided counts, an attempt stopped before its POST counts too, and a
\* dispatcher-side failure is 0.  It never exceeds the first try and the
\* retries.
AttemptsReported ==
    \A j \in Jobs : phase[j] = "settled" =>
        /\ attempt[j] = CASE outcome[j] \in HttpOutcomes -> posts[j]
                          [] outcome[j] \in {"blocked", "kid_retired"} -> posts[j] + 1
                          [] OTHER -> 0
        /\ attempt[j] <= MaxRetries + 1
        /\ attempt[j] = 0 => posts[j] = 0

\* Every attempt sends the same token: the key is the one pinned when the
\* trigger fired, through any rotation between the attempts.
RetriesIdentical == \A j \in Jobs : signed[j] \subseteq {kid[j]}

\* A logout is posted only for a trigger whose transaction committed, and to
\* an on_revoke_only application only for a revocation.
PostsAreDue ==
    \A j \in Jobs : posts[j] > 0 =>
        /\ j \in committed
        /\ app[j] \in RevokeOnly => reason[j] = "user_revoked"

\* While its application exists a committed logout that failed has its one
\* dead-letter row, also when the user was deleted meanwhile; a success has
\* one only on request.
DeadLettersComplete ==
    \A j \in committed : phase[j] = "settled" /\ app[j] \in apps =>
        rows[j] = IF outcome[j] = "success" /\ ~AuditSuccess THEN 0 ELSE 1

\* After the terminal signal nothing more is posted and the verdict stays.
VerdictFinal ==
    [][\A j \in Jobs : emitted[j] > 0 =>
         posts'[j] = posts[j] /\ outcome'[j] = outcome[j] /\ emitted'[j] = emitted[j]]_vars

\* The logout of a deleted user is never posted: what can be reported of it is
\* that no key could be read at the dispatch, or that the broker refused it.
DeletionNeverPosted ==
    \A j \in Jobs : reason[j] = "user_deleted" =>
        /\ posts[j] = 0
        /\ emitted[j] > 0 => outcome[j] \in {"kid_unresolved", "broker_unavailable"}

\* Seen through the signal and the relying party, the dispatcher, the broker
\* and the workers are LogoutDelivery: a worker's phases are its stages, and
\* every way to end is "over".
StageOf(ph) ==
    CASE ph = "free" -> "none"
      [] ph = "staged" -> "pending"
      [] ph = "queued" -> "due"
      [] ph = "posting" -> "trying"
      [] OTHER -> "over"

VerdictOf(what) ==
    CASE what = "" -> ""
      [] what = "success" -> "delivered"
      [] OTHER -> "failed"

stageOf == [j \in Jobs |-> StageOf(phase[j])]
verdictOf == [j \in Jobs |-> VerdictOf(outcome[j])]

Delivery == INSTANCE LogoutDelivery
    WITH MaxTries <- MaxRetries + 1, stage <- stageOf, tries <- posts,
         reports <- emitted, verdict <- verdictOf

\* Whatever rotations, rollbacks, refusals of the broker and deaths come in
\* between, a logout is tried, retried and reported as LogoutDelivery allows.
DeliverySpec == Delivery!Spec

\* What is left of a logout that its workers may still handle: two steps, a
\* POST and its answer, per attempt.
StepsLeft(j) ==
    CASE phase[j] = "queued" -> 2 * (MaxRetries - retries[j]) + 2
      [] phase[j] = "posting" -> 2 * (MaxRetries - retries[j]) + 1
      [] OTHER -> 0

\* Retries run out: each step of a worker, and its death, leaves less to do
\* for its job, and once the transaction has committed nothing, no rotation,
\* rollback or later trigger, leaves more.
AttemptsRunOut ==
    [][\A j \in Jobs :
         /\ j \in committed => StepsLeft(j)' <= StepsLeft(j)
         /\ WorkerStep(j) => StepsLeft(j)' < StepsLeft(j)]_vars

\* Every staged logout comes to an end: withdrawn with its transaction,
\* reported, dropped because its user or application is gone, given up because
\* the active key cannot be read, or lost with a process.
EveryLogoutEnds ==
    \A j \in Jobs : phase[j] = "staged" ~>
        \/ phase[j] \in {"withdrawn", "settled"}
        \/ phase[j] = "dropped" /\ (user[j] \notin users \/ app[j] \notin apps)
        \/ phase[j] = "raised" /\ signing = NoKey
        \/ phase[j] = "lost" /\ Crashes

-----------------------------------------------------------------------------
(* What the documentation says, and the code does not do.                   *)

\* "When the AS terminates a user's session (revoke, deactivate, group/state
\* change, or account delete), it POSTs a signed logout_token": the logout of
\* a deleted user is posted, or at least reported.  Refuted: the task looks
\* the user up and returns.
DeletedUserLoggedOut ==
    \A j \in Jobs :
        j \in committed /\ reason[j] = "user_deleted" ~> posts[j] > 0 \/ emitted[j] > 0
=============================================================================
