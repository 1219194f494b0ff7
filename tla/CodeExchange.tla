---------------------------- MODULE CodeExchange ----------------------------
(***************************************************************************)
(* The token endpoint of allianceauth_oidc: exchange of an authorization   *)
(* code, rotation of refresh tokens, detection of a reused code, and the   *)
(* periodic cleanup, as concurrent requests over one database.             *)
(*                                                                         *)
(* A request is a process whose steps are the database transactions it     *)
(* commits: validate_code, save_bearer_token (tokens and audit row in one  *)
(* transaction), and the library's deletion of the grant.  What the        *)
(* library (django-oauth-toolkit, oauthlib) does is modelled from the way  *)
(* auth_provider.py overrides and calls it.                                *)
(***************************************************************************)
EXTENDS Naturals

CONSTANTS
    Codes,      \* authorization codes; each belongs to one user and one app
    Requests,   \* concurrent token-endpoint requests (worker threads)
    Pairs,      \* identities of access/refresh token rows saved together
    NoRefresh,  \* codes of clients whose responses carry no refresh token
    CodeTTL,    \* lifetime of a grant
    AtTTL,      \* ACCESS_TOKEN_EXPIRE_SECONDS
    RtTTL,      \* REFRESH_TOKEN_EXPIRE_SECONDS
    MaxTime,    \* bound on the clock
    MaxReuse,   \* bound on IssuedCodeAudit.reuse_count
    NoPair, NoCode, NoSweep

\* The cleanup deletes an audit row when the refresh tokens of its exchange
\* are past RtTTL, so an access token must not outlive a refresh token.
ASSUME LifetimesAssumption ==
    /\ CodeTTL \in Nat /\ AtTTL \in Nat /\ RtTTL \in Nat
    /\ MaxTime \in Nat /\ MaxReuse \in Nat
    /\ AtTTL <= RtTTL

ASSUME SentinelAssumption ==
    /\ NoPair \notin Pairs
    /\ NoCode \notin Codes
    /\ NoSweep \notin Nat
    /\ NoRefresh \subseteq Codes

VARIABLES
    clock,
    grant,      \* the Grant row of each code
    grantBorn,
    at, rt,     \* the AccessToken and RefreshToken row of each pair
    born,       \* when the pair was saved
    source,     \* the code a pair descends from
    root,       \* the pair at the head of its rotation chain (token_family)
    link,       \* IssuedCodeAudit.{access,refresh}_token_pk, NoPair: no row
    auditBorn,  \* IssuedCodeAudit.created_at
    reuse,      \* IssuedCodeAudit.reuse_count
    pc, code, held,  \* what each request is doing, with which code and pair
    access,     \* what the AccessPolicy says of each code's user and app
    usable,     \* codes whose app is active
    sweep,      \* `now` of a cleanup between its two statements, or NoSweep
    answered,   \* pairs some request returned with HTTP 200
    recalled,   \* codes reported reused with revoke_succeeded = TRUE
    missed      \* codes counted by code_reuse_audit_misses

dbVars == <<grant, grantBorn, at, rt, born, source, root, link, auditBorn, reuse>>
reqVars == <<pc, code, held>>
envVars == <<clock, access, usable>>
obsVars == <<answered, recalled, missed>>
vars == <<dbVars, reqVars, envVars, sweep, obsVars>>

-----------------------------------------------------------------------------
AtStates == {"unborn", "stored", "deleted"}
RtStates == {"unborn", "none", "stored", "revoked", "deleted"}

\* "stale": the user lost what request.user keeps once it was read (is_active,
\* is_superuser, the permissions, the profile's state), so a request that
\* decided before goes on as if nothing was lost.  "denied": the loss is in
\* what every decision queries again, the groups or the application's lists.
AccessStates == {"granted", "stale", "denied"}

\* Types: rows keep to the states the database and the revocations can leave.
TypeOK ==
    /\ clock \in Nat
    /\ grant \in [Codes -> {"none", "stored", "deleted"}]
    /\ grantBorn \in [Codes -> Nat]
    /\ at \in [Pairs -> AtStates]
    /\ rt \in [Pairs -> RtStates]
    /\ born \in [Pairs -> Nat]
    /\ source \in [Pairs -> Codes \cup {NoCode}]
    /\ root \in [Pairs -> Pairs \cup {NoPair}]
    /\ link \in [Codes -> Pairs \cup {NoPair}]
    /\ auditBorn \in [Codes -> Nat]
    /\ reuse \in [Codes -> Nat]
    /\ pc \in [Requests -> {"idle", "validated", "saving", "saved", "reused",
                            "refreshing", "rotating"}]
    /\ code \in [Requests -> Codes \cup {NoCode}]
    /\ held \in [Requests -> Pairs \cup {NoPair}]
    /\ access \in [Codes -> AccessStates]
    /\ usable \subseteq Codes
    /\ sweep \in Nat \cup {NoSweep}
    /\ answered \subseteq Pairs
    /\ recalled \subseteq Codes
    /\ missed \subseteq Codes

Init ==
    /\ clock = 0
    /\ grant = [c \in Codes |-> "none"]
    /\ grantBorn = [c \in Codes |-> 0]
    /\ at = [p \in Pairs |-> "unborn"]
    /\ rt = [p \in Pairs |-> "unborn"]
    /\ born = [p \in Pairs |-> 0]
    /\ source = [p \in Pairs |-> NoCode]
    /\ root = [p \in Pairs |-> NoPair]
    /\ link = [c \in Codes |-> NoPair]
    /\ auditBorn = [c \in Codes |-> 0]
    /\ reuse = [c \in Codes |-> 0]
    /\ pc = [r \in Requests |-> "idle"]
    /\ code = [r \in Requests |-> NoCode]
    /\ held = [r \in Requests |-> NoPair]
    /\ access = [c \in Codes |-> "granted"]
    /\ usable = Codes
    /\ sweep = NoSweep
    /\ answered = {}
    /\ recalled = {}
    /\ missed = {}

-----------------------------------------------------------------------------
\* The Grant row exists and has not expired: what the library's own
\* validate_code asks before the provider adds its checks.
Redeemable(c) == grant[c] = "stored" /\ clock < grantBorn[c] + CodeTTL

AtLive(p) == at[p] = "stored" /\ clock < born[p] + AtTTL
RtLive(p) == rt[p] = "stored" /\ clock < born[p] + RtTTL
Usable(p) == AtLive(p) \/ RtLive(p)

\* A pair saved by a code exchange, as opposed to a rotation.
Direct(p) == root[p] = p
DirectPairs(c) == {p \in Pairs : Direct(p) /\ source[p] = c}

Goto(r, label) == pc' = [pc EXCEPT ![r] = label]

Release(r) ==
    /\ Goto(r, "idle")
    /\ code' = [code EXCEPT ![r] = NoCode]
    /\ held' = [held EXCEPT ![r] = NoPair]

-----------------------------------------------------------------------------
\* A code nobody was given can be presented (a probe); a code is fresh random
\* text, so a presented one is not issued afterwards.
Probed(c) == c \in missed \/ \E r \in Requests : code[r] = c

\* The authorize endpoint approved the user: the library stores a Grant.
StoreGrant(c) ==
    /\ access[c] = "granted" /\ c \in usable
    /\ grant[c] = "none" /\ ~Probed(c)
    /\ grant' = [grant EXCEPT ![c] = "stored"]
    /\ grantBorn' = [grantBorn EXCEPT ![c] = clock]
    /\ UNCHANGED <<at, rt, born, source, root, link, auditBorn, reuse, reqVars,
                   envVars, sweep, obsVars>>

\* validate_code.  Client authentication has refused an inactive app.  A
\* redeemable code of a denied user, or a malformed verifier, is answered
\* invalid_grant and changes nothing, so only the two outcomes that go on
\* are steps: to save_bearer_token, or to _handle_potential_code_reuse.
ValidateCode(r, c) ==
    /\ pc[r] = "idle"
    /\ c \in usable
    /\ \/ Redeemable(c) /\ access[c] = "granted" /\ Goto(r, "validated")
       \/ ~Redeemable(c) /\ Goto(r, "reused")
    /\ code' = [code EXCEPT ![r] = c]
    /\ UNCHANGED <<held, dbVars, envVars, sweep, obsVars>>

\* Mutants: the access token survives its refresh token, or is given the
\* revoked mark its row does not have.
RevokeRefreshOnly(p) ==
    /\ rt' = [rt EXCEPT ![p] = IF @ = "stored" THEN "revoked" ELSE @]
    /\ at' = [at EXCEPT ![p] = IF rt[p] \in {"none", "deleted"} THEN "deleted" ELSE @]
RevokeByMark(p) ==
    /\ rt' = [rt EXCEPT ![p] = "revoked"]
    /\ at' = [at EXCEPT ![p] = "revoked"]

\* RefreshToken.revoke of the linked row when that row exists (it deletes the
\* linked AccessToken and does nothing to a row already revoked), otherwise
\* AccessToken.revoke.
RevokePair(p) ==
    /\ rt' = [rt EXCEPT ![p] = IF @ = "stored" THEN "revoked" ELSE @]
    /\ at' = [at EXCEPT ![p] = IF rt[p] # "revoked" THEN "deleted" ELSE @]

\* The audit lookup found no row: only the miss counter moves.
ReuseMiss(r) ==
    /\ pc[r] = "reused"
    /\ link[code[r]] = NoPair
    /\ missed' = missed \cup {code[r]}
    /\ Release(r)
    /\ UNCHANGED <<dbVars, envVars, sweep, answered, recalled>>

\* The row is locked, the linked tokens are revoked, the replay is counted
\* and oidc_code_reuse_detected is sent.  A database error while revoking is
\* caught, leaves the tokens as they were and is reported in the signal.
ReuseHit(r) ==
    /\ pc[r] = "reused"
    /\ link[code[r]] # NoPair
    /\ reuse[code[r]] < MaxReuse
    /\ \/ RevokePair(link[code[r]]) /\ recalled' = recalled \cup {code[r]}
       \/ UNCHANGED <<at, rt, recalled>>
    /\ reuse' = [reuse EXCEPT ![code[r]] = @ + 1]
    /\ Release(r)
    /\ UNCHANGED <<grant, grantBorn, born, source, root, link, auditBorn,
                   envVars, sweep, answered, missed>>

-----------------------------------------------------------------------------
\* The library writes one AccessToken row and, unless the client gets none,
\* one RefreshToken row.
Mint(p, c, head) ==
    /\ at[p] = "unborn"
    /\ born' = [born EXCEPT ![p] = clock]
    /\ source' = [source EXCEPT ![p] = c]
    /\ root' = [root EXCEPT ![p] = head]

FirstRefresh(c) == IF c \in NoRefresh THEN "none" ELSE "stored"

\* _record_code_issuance: update_or_create on (code_hash, application).  An
\* existing row keeps created_at and reuse_count and is linked to the new pair.
RecordIssuance(c, p) ==
    /\ link' = [link EXCEPT ![c] = p]
    /\ auditBorn' = [auditBorn EXCEPT ![c] = IF link[c] = NoPair THEN clock ELSE @]

\* save_bearer_token decides the policy again, before its transaction opens
\* and on the user object the validation decided on: a stale loss passes.
DecideSave(r) ==
    /\ pc[r] \in {"validated", "refreshing"}
    /\ access[code[r]] # "denied"
    /\ Goto(r, IF pc[r] = "validated" THEN "saving" ELSE "rotating")
    /\ UNCHANGED <<code, held, dbVars, envVars, sweep, obsVars>>

\* save_bearer_token of an authorization_code request: tokens and audit row
\* commit in one transaction.
SaveBearerToken(r, p) ==
    /\ pc[r] = "saving"
    /\ Mint(p, code[r], p)
    /\ at' = [at EXCEPT ![p] = "stored"]
    /\ rt' = [rt EXCEPT ![p] = FirstRefresh(code[r])]
    /\ RecordIssuance(code[r], p)
    /\ held' = [held EXCEPT ![r] = p]
    /\ Goto(r, "saved")
    /\ UNCHANGED <<grant, grantBorn, reuse, code, envVars, sweep, obsVars>>

\* Mutant: the answer does not depend on the number of rows deleted.
AnswerAlways(r) ==
    /\ pc[r] = "saved"
    /\ answered' = answered \cup {held[r]}
    /\ grant' = [grant EXCEPT ![code[r]] = "deleted"]
    /\ Release(r)
    /\ UNCHANGED <<grantBorn, at, rt, born, source, root, link, auditBorn, reuse,
                   envVars, sweep, recalled, missed>>

\* The library deletes the Grant after the tokens are saved; deleting no row
\* turns the answer into invalid_grant, and the saved tokens stay.
InvalidateAuthorizationCode(r) ==
    /\ pc[r] = "saved"
    /\ IF grant[code[r]] = "stored"
       THEN answered' = answered \cup {held[r]}
       ELSE UNCHANGED answered
    /\ grant' = [grant EXCEPT ![code[r]] = "deleted"]
    /\ Release(r)
    /\ UNCHANGED <<grantBorn, at, rt, born, source, root, link, auditBorn, reuse,
                   envVars, sweep, recalled, missed>>

\* The library's validate_refresh_token, on a row it looks up.
StartRefresh(r, p) ==
    /\ pc[r] = "idle"
    /\ p \in answered /\ RtLive(p)
    /\ source[p] \in usable
    /\ Goto(r, "refreshing")
    /\ code' = [code EXCEPT ![r] = source[p]]
    /\ held' = [held EXCEPT ![r] = p]
    /\ UNCHANGED <<dbVars, envVars, sweep, obsVars>>

\* Mutant: the policy is asked about a user object kept from an earlier request.
RefreshKeepsUser(r, p) == StartRefresh(r, p) /\ access[source[p]] # "denied"

\* validate_refresh_token: the library's own checks, then the policy.
ValidateRefreshToken(r, p) == StartRefresh(r, p) /\ access[source[p]] = "granted"

\* The library's rotation: a new pair in the chain, the old one retired.
Rotate(r, q) ==
    /\ pc[r] = "rotating"
    /\ rt[held[r]] \in {"stored", "revoked"}
    /\ Mint(q, code[r], root[held[r]])
    /\ at' = [at EXCEPT ![q] = "stored", ![held[r]] = "deleted"]
    /\ rt' = [rt EXCEPT ![q] = "stored", ![held[r]] = "revoked"]
    /\ answered' = answered \cup {q}
    /\ Release(r)
    /\ UNCHANGED <<grant, grantBorn, reuse, envVars, sweep, recalled, missed>>

\* Mutant: the audit row is written for every grant type.
RotateAndRecord(r, q) == Rotate(r, q) /\ RecordIssuance(code[r], q)

\* Mutant: no new pair, the old one starts again.
RotateInPlace(r, q) ==
    /\ pc[r] = "rotating" /\ q = held[r]
    /\ rt[q] \in {"stored", "revoked"}
    /\ born' = [born EXCEPT ![q] = clock]
    /\ at' = [at EXCEPT ![q] = "stored"]
    /\ rt' = [rt EXCEPT ![q] = "stored"]
    /\ answered' = answered \cup {q}
    /\ Release(r)
    /\ UNCHANGED <<grant, grantBorn, source, root, link, auditBorn, reuse, envVars,
                   sweep, recalled, missed>>

\* save_bearer_token of a refresh_token request: no audit row.  The library
\* may or may not rotate a row revoked since it was validated: RefuseSave is
\* then enabled too.
SaveRotation(r, q) == Rotate(r, q) /\ UNCHANGED <<link, auditBorn>>

\* save_bearer_token raises InvalidGrantError when its decision denies; the
\* library does when the refresh token is no longer good.
RefuseSave(r) ==
    /\ \/ pc[r] \in {"validated", "refreshing"} /\ access[code[r]] = "denied"
       \/ pc[r] = "rotating" /\ rt[held[r]] # "stored"
    /\ Release(r)
    /\ UNCHANGED <<dbVars, envVars, sweep, obsVars>>

\* A worker dies, or the open transaction raises and rolls back: what the
\* request had committed stays.
Abort(r) ==
    /\ pc[r] # "idle"
    /\ Release(r)
    /\ UNCHANGED <<dbVars, envVars, sweep, obsVars>>

\* REFRESH_TOKEN_REUSE_PROTECTION: a rotated refresh token presented again
\* revokes the whole family.
ReplayRefreshToken(p) ==
    /\ rt[p] = "revoked" /\ source[p] \in usable
    /\ at' = [q \in Pairs |->
                IF root[q] = root[p] /\ at[q] = "stored" THEN "deleted" ELSE at[q]]
    /\ rt' = [q \in Pairs |->
                IF root[q] = root[p] /\ rt[q] = "stored" THEN "revoked" ELSE rt[q]]
    /\ UNCHANGED <<grant, grantBorn, born, source, root, link, auditBorn, reuse,
                   reqVars, envVars, sweep, obsVars>>

-----------------------------------------------------------------------------
\* clear_expired_tokens, first statement: the library drops expired grants
\* and tokens, with `now` read before.
ClearExpired ==
    /\ sweep = NoSweep
    /\ sweep' = clock
    /\ grant' = [c \in Codes |->
         IF grant[c] = "stored" /\ ~Redeemable(c) THEN "deleted" ELSE grant[c]]
    /\ at' = [p \in Pairs |->
         IF at[p] = "stored" /\ ~AtLive(p) THEN "deleted" ELSE at[p]]
    /\ rt' = [p \in Pairs |->
         IF rt[p] \in {"stored", "revoked"} /\ born[p] + RtTTL < clock
         THEN "deleted" ELSE rt[p]]
    /\ UNCHANGED <<grantBorn, born, source, root, link, auditBorn, reuse, reqVars,
                   envVars, obsVars>>

Recorded(c) == link[c] # NoPair

\* Mutants: reused rows, or recent ones, are purged too.
PurgedReused(c) == Recorded(c) /\ auditBorn[c] + RtTTL < sweep
PurgedYoung(c) == Recorded(c) /\ reuse[c] = 0

\* Rows the second statement deletes: never reused and created before the
\* cutoff now - REFRESH_TOKEN_EXPIRE_SECONDS.
Purged(c) == Recorded(c) /\ reuse[c] = 0 /\ auditBorn[c] + RtTTL < sweep

\* clear_expired_tokens, second statement.
PurgeAudits ==
    /\ sweep # NoSweep
    /\ link' = [c \in Codes |-> IF Purged(c) THEN NoPair ELSE link[c]]
    /\ sweep' = NoSweep
    /\ UNCHANGED <<grant, grantBorn, at, rt, born, source, root, auditBorn, reuse,
                   reqVars, envVars, obsVars>>

-----------------------------------------------------------------------------
Tick ==
    /\ clock < MaxTime
    /\ clock' = clock + 1
    /\ UNCHANGED <<access, usable, dbVars, reqVars, sweep, obsVars>>

\* An operator, or Alliance Auth, changes what the policy reads.
ChangeAccess(c) ==
    /\ \E verdict \in AccessStates \ {access[c]} : access' = [access EXCEPT ![c] = verdict]
    /\ UNCHANGED <<clock, usable, dbVars, reqVars, sweep, obsVars>>

ToggleActive(c) ==
    /\ usable' = IF c \in usable THEN usable \ {c} ELSE usable \cup {c}
    /\ UNCHANGED <<clock, access, dbVars, reqVars, sweep, obsVars>>

-----------------------------------------------------------------------------
RequestStep(r) ==
    \/ \E c \in Codes : ValidateCode(r, c)
    \/ ReuseMiss(r)
    \/ ReuseHit(r)
    \/ DecideSave(r)
    \/ \E p \in Pairs : SaveBearerToken(r, p)
    \/ InvalidateAuthorizationCode(r)
    \/ \E p \in Pairs : ValidateRefreshToken(r, p)
    \/ \E q \in Pairs : SaveRotation(r, q)
    \/ RefuseSave(r)
    \/ Abort(r)

Next ==
    \/ \E r \in Requests : RequestStep(r)
    \/ \E c \in Codes : StoreGrant(c) \/ ChangeAccess(c) \/ ToggleActive(c)
    \/ \E p \in Pairs : ReplayRefreshToken(p)
    \/ ClearExpired
    \/ PurgeAudits
    \/ Tick

Spec == Init /\ [][Next]_vars

-----------------------------------------------------------------------------
\* What the endpoint promises of a code, whatever overlaps: however many
\* requests validated it while its grant was there, one is answered with its
\* tokens, and none after the grant was removed.  The number of grants deleted
\* after the tokens are saved is the arbiter, not validate_code.
PhaseOf(g) == IF g = "none" THEN "unissued" ELSE IF g = "stored" THEN "open" ELSE "closed"
phaseOfCode == [c \in Codes |-> PhaseOf(grant[c])]
takenForCode == [c \in Codes |-> DirectPairs(c) \cap answered]

SingleUse == INSTANCE SingleUseCode
    WITH Answers <- Pairs, phase <- phaseOfCode, taken <- takenForCode
SingleUseSpec == SingleUse!Spec

\* While a pair saved by the first exchange of a code can still be used, the
\* code has its audit row, so a replay finds it: the row commits with the
\* tokens and the cleanup keeps it for the refresh token's lifetime.
FirstExchangeAudited ==
    \A p \in Pairs :
        /\ Direct(p) /\ Usable(p)
        /\ \A q \in DirectPairs(source[p]) : born[p] <= born[q]
        => link[source[p]] # NoPair

\* The audit row of a code links a pair some exchange of that code saved,
\* never a pair of another code or of a rotation.
AuditLinksItsExchange ==
    \A c \in Codes : link[c] # NoPair => link[c] \in DirectPairs(c)

\* When a code was exchanged once and its reuse was reported with
\* revoke_succeeded = TRUE, neither token of that exchange is usable, also
\* if it was rotated, expired or answered after the report.
ReuseRecallsSoleExchange ==
    \A c \in recalled : \A p \in DirectPairs(c) :
        DirectPairs(c) = {p} => ~Usable(p)

Underway(c) ==
    {r \in Requests :
        code[r] = c /\ pc[r] \in {"validated", "saving", "refreshing", "rotating"}}
UsablePairs(c) == {p \in Pairs : source[p] = c /\ Usable(p)}

OnlyShrinks(c) ==
    \/ Underway(c)' \subseteq Underway(c) /\ UsablePairs(c)' \subseteq UsablePairs(c)
    \/ \E r \in Underway(c), p \in Pairs :
           /\ Underway(c)' = Underway(c) \ {r}
           /\ UsablePairs(c)' \subseteq UsablePairs(c) \cup {p}

\* From the moment a user is denied, whatever was lost, what the code still
\* gives only shrinks: no request for it gets past validation, and a pair that
\* becomes usable spends one of the requests that were past it.
DeniedAccessShrinks ==
    [][\A c \in Codes : access[c] # "granted" => OnlyShrinks(c)]_vars

\* A pair that expired, or was deleted, revoked, recalled or rotated away, is
\* never usable again: not by a rotation or an exchange that was under way,
\* not by a replay, and not because a cleanup took half of it.
TokensNotRevived ==
    [][\A p \in Pairs :
         at[p] # "unborn" /\ ~Usable(p) => ~Usable(p)']_vars

\* Replay evidence is never lost: once a code was seen reused its row stays
\* and its count does not go down, whatever the cleanup does.
ReuseEvidenceKept ==
    [][\A c \in Codes :
         reuse[c] > 0 => reuse'[c] >= reuse[c] /\ link'[c] # NoPair]_vars

-----------------------------------------------------------------------------
(* What the source says of a reported reuse.                                *)

\* "revoke_succeeded ... True ... means they were [recalled]" (signals.py):
\* no pair descending from a recalled code is usable.  Refuted by a rotation
\* before the report, and by two overlapping exchanges of one code.
RecalledCodeIsDead ==
    \A c \in recalled : \A p \in answered : source[p] = c => ~Usable(p)

=============================================================================
