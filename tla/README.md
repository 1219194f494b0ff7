# Verification of allianceauth-oidc-provider

TLA+ models of the OpenID Connect provider of Alliance Auth
(`src/allianceauth_oidc`), TLC runs that check them on small instances, and
TLAPS proofs that hold for every instance. The code is a Django application on
top of django-oauth-toolkit ("the library") and Celery. Most of its logic is
what it does *around* the library: a policy decision at every stage, a side
table that lets a reused authorization code be detected, the delivery of
back-channel logouts, two kinds of access tokens, and system checks that are
to find in advance what would fail at a request.

## Inventory

| Component | State | Operations | What makes it correct |
|---|---|---|---|
| Token endpoint, code reuse (`auth_provider.py`, `IssuedCodeAudit`) | grants, access and refresh tokens, audit rows | `validate_code`, `validate_refresh_token`, `save_bearer_token`, `_record_code_issuance`, `_handle_potential_code_reuse` | a code is answered once; issued tokens have their audit row; a reuse recalls them; after a denial only what was past validation is served |
| Cleanup (`tasks.clear_expired_tokens`) | the same tables | delete expired rows, purge unreused audit rows | no row is purged while it is needed; evidence of reuse stays |
| Back-channel logout (`logout.py`, `tasks.send_logout_token`, `signals.py`) | Celery tasks, signing keys | dispatch in the trigger's transaction, enqueue on commit, POST, retry, report | one verdict per logout token, the same token at every attempt, nothing posted for a rolled-back trigger, an end to every logout |
| Dead-letter recorder (`receivers.record_backchannel_logout_attempt`) | `BackChannelLogoutAttempt` rows | insert per terminal signal | every failure has one row |
| Session-lifecycle triggers (`receivers.py`) | `_PENDING_LOGOUTS`, `_allianceauth_oidc_was_active` | user save, group and state change, deletion | each application that loses the user is told |
| Revoke command (`oidc_revoke_user_tokens`) | tokens | collect applications, revoke, signal | each application whose tokens went is told |
| Access policy (`security.py`) | none; reads permissions, state, groups, application | `decide`, `is_allowed`, `enforce` | stages agree; a global denial tells nothing about the application |
| Authorize view (`views_authorize.py`) | session, grants | reauthentication, policy gate, consent | no grant for a denied user, `prompt` and `max_age` honoured |
| Bearer and introspection views (`validate_bearer_token`, `views_introspect.py`) | none; read tokens and policy | serve a bearer, describe a token | a token serves only while its user may use the application |
| Token view and issuance audit (`views_token.py`, `signals.dispatch_audit_signal`) | none; reads the saved token | build the response, classify the format, call the receivers | every receiver hears of a token before the client has it |
| Token formats and claims (`tokens.py`, `claims.py`), keys (`views_discovery.py`, `oidc_jwks_rotate`) | signing keys of each process | JWT or opaque, id_token, publish, rotate | a JWT can be verified while it lives; claims are not older than the request |
| Settings and system checks (`app_settings.py`, `apps.py`, `pkce.py`, `checks.py`) | settings of each process, a cached snapshot | `ready()`, E001 to W008 | what fails silently at run time was reported |
| Applications (`models.py`, admin, `oidc_create_app`, migration 0011) | `AllianceAuthApplication` rows | `clean()`, the `pre_save` gate | no row the form refuses is stored unnoticed |
| Other commands, admin lists, discovery contents, address arithmetic | none of their own | | not modelled, see the end |

They interact through the database (tokens, audit rows), through Django signals
sent inside transactions, through `transaction.on_commit`, and through the
Celery broker. Hard behaviour: overlapping token requests, requests that
outlive a change of policy, a cleanup that runs between the statements of a
request, transactions that roll back after a signal was sent, retries across a
key rotation, rows deleted while a task is queued, workers that die, triggers
that compare two reads of a user while another process saves it, processes
restarted one by one with other keys or settings than their neighbours, and
checks that looked before a row was changed.

## Modules

| Module | Models | Uses |
|---|---|---|
| `CodeExchange` | the token endpoint, code reuse and the cleanup | `SingleUseCode` |
| `SingleUseCode` | the abstract promise about a code: issued once, answered at most once, never after it is closed | |
| `CodeExchangeProofs` | theorems about `CodeExchange` | `CodeExchange`, TLAPS |
| `BackChannelLogout` | dispatcher, worker, recorder, signing keys | `LogoutDelivery` |
| `LogoutDelivery` | the abstract promise about a logout: tried only after a good commit, a bounded number of times, reported at most once, as delivered only in answer to a try | |
| `BackChannelLogoutProofs` | theorems about `BackChannelLogout` | `BackChannelLogout`, TLAPS |
| `AuthorizeFlow` | the authorize view: login, reauthentication, policy gate, consent | `AuthorizePromise` |
| `AuthorizePromise` | the abstract promise about a request: answered at most once, with a code only when nothing it demanded is owed and the policy allows it | |
| `AuthorizeFlowProofs` | theorems about `AuthorizeFlow` | `AuthorizeFlow`, TLAPS |
| `AccessPolicy` | `decide`: the global and the per-application gate, as operators | |
| `UserSessions` | one user's account, the triggers, the revoke command, token requests, bearer and introspection verdicts | `AccessPolicy` |
| `UserSessionsProofs` | theorems about `UserSessions` and the policy | `UserSessions`, TLAPS |
| `TokenIssuance` | token requests in several processes: formats, claims, audit signal, key rotation | |
| `TokenIssuanceProofs` | theorems about `TokenIssuance` | `TokenIssuance`, TLAPS |
| `Deployment` | settings, application rows, system checks, and what goes wrong at run time | |
| `DeploymentProofs` | theorems about `Deployment` | `Deployment`, TLAPS |
| `MCCodeExchange`, `MCBackChannelLogout`, `MCAuthorizeFlow`, `MCUserSessions`, `MCTokenIssuance`, `MCDeployment` | instances for TLC (symmetry sets, requests, restrictions, settings, rows) | |

The modules meet where one abstracts another. The verdict that `UserSessions`
computes with `AccessPolicy` is the value that changes at any time in
`CodeExchange` (`access`) and `AuthorizeFlow` (`gate`). A `told` of `UserSessions` is a `Dispatch`
of `BackChannelLogout`, whose promise (one verdict per dispatched
logout) holds for every such send. A pair of `CodeExchange` is a token of
`TokenIssuance`, seen from its audit row there and from its contents here.

### CodeExchange

A request (`pc`, `code`, `held`) is a worker thread whose steps are the
transactions it commits:

    idle --ValidateCode--> validated --DecideSave--> saving
         --SaveBearerToken--> saved --InvalidateAuthorizationCode--> idle
    idle --ValidateCode--> reused --ReuseMiss / ReuseHit--> idle
    idle --ValidateRefreshToken--> refreshing --DecideSave--> rotating
         --SaveRotation--> idle

`RefuseSave` is the denial of `save_bearer_token`, `Abort` a dead worker or a
rolled-back transaction at any point. The library deletes the grant after the
tokens are saved and answers `invalid_grant` when it deleted none; that is why
two requests can both save tokens and only one is answered. A pair of token
rows (`at`, `rt`, `born`, `source`, `root`) is written by an exchange or by a
rotation; `link`, `auditBorn` and `reuse` are the columns of the audit row.
`ClearExpired` and `PurgeAudits` are the two statements of the cleanup and
share the `now` read before them (`sweep`). `access` and `usable` stand for
the verdict of the policy and for `application.active`; they change at any
time. A loss of access is of two kinds, because `save_bearer_token` decides on
the user object on which the validation decided: what that object keeps once it
was read (`is_active`, `is_superuser`, the permissions, the state of the
profile) is noticed by the next request only ("stale"), what is queried each
time (the groups, the lists of the application) by `DecideSave` too
("denied"). `answered`, `recalled` and `missed` observe what clients and receivers
were told.

Abstractions: the library's `clear_expired` is one step; the read of the grant
and the policy decision in `validate_code` are one step; the user object of a
request is as old as that step, so a state read for the first time by the
second decision counts among what is queried again; a handled replay is one step, since it locks the audit
row; storing a grant happens together with the decision of the authorize view;
`client` is always resolved, as it is for the two grant types modelled.
`AtTTL <= RtTTL` (`LifetimesAssumption`) is a requirement on the settings that
the code does not check: with longer access tokens the purge would come too
early.

### BackChannelLogout

A job is one (user, application) logout with its own `jti`:

    free --Dispatch--> staged --Commit--> queued --Post--> posting
         --Succeed / Refuse / Fail--> settled, or queued again

`Dispatch` runs in the trigger's transaction and pins the key; `Commit` runs
the `on_commit` callbacks, each of which may meet an unavailable broker
(reported) or a dying process (lost); `Rollback` withdraws the jobs and the
rows written in the transaction. A worker that takes a queued job drops it
(`DropGone`), reports a retired key (`AbortRetired`), raises because the active
key cannot be read (`RaiseUnreadable`), reports a blocked address
(`AbortBlocked`) or posts. `Emit` is `emit_bcl_failure`/`emit_bcl_success`
together with its default receiver, the recorder. A user's open transactions
are merged into one; user deletion is a transaction of its own kind because the
post-delete trigger stages jobs for a user who is gone at commit.

Several reasons and outcomes that the code treats alike share a name
(`Reasons`, `Outcomes`). Not modelled: an enqueue whose outcome the web process
does not learn, and web and worker processes with different key settings.

### AuthorizeFlow

A flow is one authorize request in a tab of one browser. The tabs share the
session (`session`, `loginAt`); each has its URL (`params`) and the request it
stands for (`asked`):

    closed --Open--> sending --Get--> login --Login / Revisit--> sending
                             --Get--> consent --Allow / Cancel--> ...
                             --Get--> code | denied | refused

`Get`, `Allow` and `Cancel` are the three ways into `_dispatch_inner`
(`Dispatch`), whose four branches in order are `HandleNoPermission`,
`RejectRequestObject`, `EnforceReauth` and `Decide`; every branch checks that
the earlier ones did not answer. `Allow` is the form posted with `allow`.
`Cancel` is the form posted by the other button, which has no name: it is
promoted to a GET with the form's hidden fields, among which there is neither
`prompt` nor `max_age` (`Blank`). `Revisit` is a tab that follows its `next`
URL after another tab logged in. `Tick` is time, after which the session may
be over; `ChangeGate` and `ToggleCovered` are changes of the policy's verdict,
of `application.active` and of the user's tokens. `fresh`, `approved` and
`cancelled` only observe the user.

Abstractions: some time always passes between a login and the next request, so
`elapsed > max_age` on a real clock is `>=` on whole seconds; malformed
`max_age` is no `max_age`; requests have a valid `redirect_uri` and no
combination of `none` with other prompts, which the library refuses; the library's
view (`skip_authorization`, `approval_prompt=auto`, the form) is modelled from
the override that surrounds it. For an unusable application and
`prompt=none` without a session, both an error and a login redirect are
allowed. The folding of `acr_values`, headers and counters are left out.

### AccessPolicy and UserSessions

`AccessPolicy` is `decide`: a superuser passes both gates, the global gate asks
for the permission, the application's lists let in by state or by group, and a
global denial does not name the application. In `UserSessions` the user's
record (`exists`, `active`, `superuser`, `direct`, `state`, `groups`) and the
restrictions of each application (`gate`, `usable`) change, and `HasPerm` gives
an inactive user nothing, as Django does. `access` and `refresh` are the
applications that hold an unexpired access token and an unrevoked refresh
token: `Live` is what `apps_with_active_tokens` finds, less the applications
switched off.

Procedures of several steps: a save (`PreSave`, `Save`, `PostSave`: the read of
`pre_save`, the UPDATE, the comparison of `post_save`), `assign_state` and its
signal (`AssignState`, `StateChanged`), `user.delete()` (`PreDelete`,
`PostDelete`, or `AbortDelete`, after which the snapshot stays in
`_PENDING_LOGOUTS`), the revoke command (`Collect`, `RevokeAll`,
`SendRevoked`), and a token request (`EnforcePolicy`, then `SaveTokens` or
`Refuse`). Each may stop halfway. `RemoveGroups` is one step because Django
sends `post_remove` inside the transaction of the removal; its parameter is
whether the permissions of the instance had been cached before.

`told` and `gap` observe: the applications told since they lost the user, and
those lost in a way the code tells nobody of. Each way is named by the action
that adds to `gap`: a process that died between a change and its trigger, two
overlapping saves, cached permissions, tokens saved after the policy was asked,
a change no receiver listens to (`RemoveFromGroup`, `SetPermission`, `Demote`,
`EditGate`), an application that was switched off. `late` are tokens saved
between the collection of the revoke command and its revocation.

Abstractions: one user; tokens of an application are one access and one refresh
token at most; what is sent is delivered elsewhere. A `save(update_fields=...)`
that leaves `is_active` out is a save with `will` as it was. A save of a user
being deleted, which would insert the row again, is left out. A state or a
group that is itself deleted acts as `AssignState` or `RemoveFromGroup`.

### TokenIssuance

A process (`pc`, `cur`, `todo`) serves one request at a time:

    idle --Validate--> validated --CreateToken--> built --CreateIdToken--> signed
         --SaveToken--> saved --FindToken / SkipAudit--> announcing
         --Call ... Respond--> idle

`Refuse` is every error or denial before the save, `LookupFails` an error of
the database in `_find_token` after it. `Call` is one receiver of
`send_robust`, which returns or raises. `keys` are the two settings as written,
`conf` as each process has read them, and `unused` is when the last process
stopped signing with a key. `Rotate`, `Restart` and `Drop` are the four steps
of the recipe printed by `oidc_jwks_rotate`; the operator starts another
rotation when every process has read the last one. The printed recipe waits
twice the lifetime of a token before the drop (`Wait`); the model asks only that
the wait be a lifetime or more. `version` counts changes of
the user's groups, state and characters; a claim is modelled by the version it
was read at. Groups are queried each time, while state and main character are
read from the user object of the request, where they stay as first read: by the
policy, if the application names states, or by the first token built.

Abstractions: every request asks for `openid`; an access token that cannot
resolve its application is opaque; all claims of one kind are read at once;
claim values, the JWT encoding and the test for a client secret hashed at rest
are left out (the latter is in `Deployment`). The exact moments of `Tick` allow
any delay between the two expiry times.

### Deployment

A process runs with the settings it was started with (`conf`), rows change
(`row`), and `report` is what the last `manage.py check` looked at: a set of
settings, the rows of that moment, and whether the tables answered. Settings
are records of the keys some check or handler reads (`SettingsType`), with the
values the code tells apart: `pkce` "on" stands for a missing key, `True` or a
string, all of which the library takes for true. `E001` to `W008` are the
conditions of the checks. `AdminSave` passes `clean()`, `OrmSave` only the
`pre_save` gate, `CreateApp` and `BackfillPkce` are the command and the
migration. `DispatchLogout` puts a logout of an active application into the
queue (`queued`), and the worker's `Logout` takes it from there, whatever the
row has become. A request or logout (`Authorize`, `TokenRequest`, `Logout`,
`EndUserLogout`, `SelfRegister`) records in `last` what went wrong without an
error at start-up, and every other step clears it. Settings that cannot be
parsed (`valid`) fail at their first use (`ReadsSnapshot`), not at start-up.

Abstractions: an application is one row with the fields that matter; a dotted
path is the right one, the stock one or one that does not import; the resolver
may answer anything at every save and at every POST, so that the `pre_save`
gate keeps no row out for good and its absence would not be noticed; a check is
run as a whole, although a deferred query silences only its own check; the
muting of checks is left out.

## Runs

| Run | Instance | Checks |
|---|---|---|
| `code_exchange` | 1 code, 2 requests, 3 pairs, clock 0..3 | types; `FirstExchangeAudited`, `ReuseRecallsSoleExchange`, `DeniedAccessShrinks`, `TokensNotRevived`, `ReuseEvidenceKept`, refinement of `SingleUseCode` |
| `two_codes` | 2 codes, one without refresh tokens, 1 request, 2 pairs, clock 0..2 | `AuditLinksItsExchange` and `ReuseRecallsSoleExchange` across codes, and lone access tokens |
| `logout_delivery` | 2 jobs, 1 user, 1 application, 2 keys, 1 retry, crashes | types; `OneTerminalSignal`, `AttemptsReported`, `RetriesIdentical`, `DeadLettersComplete`, `AttemptsRunOut`, refinement of `LogoutDelivery` |
| `logout_revoke_only` | 1 job, 2 applications, one `on_revoke_only`, 2 retries, successes recorded, crashes, fairness | `PostsAreDue`, `DeadLettersComplete`, `EveryLogoutEnds` |
| `authorize_flow` | 2 tabs, 4 requests that mix `prompt`, `max_age` and a request object, clock 0..2, fairness | types; `FreshLogin`, `ConsentGiven`, `MaxAgeHonoured`, `RejectionKeepsSession`, `Answered`, refinement of `AuthorizePromise` |
| `user_sessions` | 1 application with either kind of restriction, 1 group that carries the permission, 2 states, 2 savers, 2 procedures at once | types; `LossTold`, `RevokedTold`, `DeletionTold` |
| `token_issuance` | 1 request, 2 processes, 2 receivers, 3 keys, 2 versions, clock 0..3, lifetime 1, wait 2 | types; `Verifiable`, `DroppedKeysDead`, `RowOutlivesJwt`, `IssuanceAudited`, `ClaimsCurrent` |
| `deployment` | 1 application with 10 rows, 2 processes, 6 configurations | types; `FailureForetold`, `GateForetold`, `ExposureForetold` |
| `rotated_away` | 1 code, 1 request, 2 pairs | finds `RecalledCodeIsDead` violated |
| `cancelled_consent` | 1 tab, `prompt=consent` | finds `CancelDenies` violated |
| `logout_deleted_user` | 1 job, fairness | finds `DeletedUserLoggedOut` violated |
| `introspection` | the instance of `user_sessions` | finds `IntrospectionGated` violated |

Bounds. Two requests are enough for every race the code has over one code:
each race is between two threads, or one thread and the cleanup. Three pairs
allow an exchange, its rotation and a second exchange. The clock reaches one
past the longest lifetime, so that everything can expire and be cleaned up;
`MaxReuse = 1` lets a row be counted (later replays change nothing but the
count). One code suffices for properties of a code, and `two_codes` shows that
codes do not mix. Two jobs of one user share a transaction and a key rotation;
one or two retries separate a first, a middle and a last attempt. Symmetry is
over requests, pairs, jobs and keys, which the modules only compare, and is off
where liveness is checked. In `AuthorizeFlow` two tabs are all that a tab and
"the others" need, since tabs only meet in the session; each request of the
instance pairs two features that interact, and the clock passes each `max_age`
once before and once after a login. In `UserSessions` applications meet only in
the account, which one application sees through both kinds of restriction;
`MaxBusy = 2` lets any two procedures overlap, the two saves among them, next
to the token request, which is not counted. In `TokenIssuance` requests meet
only in the keys, so one token is followed through two processes that restart
in either order; three keys are two rotations, which is what it takes to sign
with a key that is dropped by a later recipe; the clock reaches one past twice
the lifetime. The configurations of `MCDeployment` are the recommended one, a
development one, one with every recommendation missed, and three that the
checks judge only in part (an unacknowledged exposure, values they cannot see
through, names that do not import); its rows vary each field of the one that
`oidc_create_app` makes. The proofs need none of these bounds.

Fairness (`FairSpec`). Weak fairness of `Commit(u) \/ Rollback(u)`: a
transaction ends. Weak fairness of each job's worker step: the broker hands a
queued task to a worker, and `requests.post` has a timeout. For the authorize view, weak
fairness of each tab's `Get`, `Login` and `Allow`: the browser follows
redirects, and a user who is shown a login page or a form completes it. The
user is not part of the code; `Answered` promises an answer to such a user
only, for every `max_age` above zero. Nothing is assumed of triggers,
operators, relying parties, time or crashes. Safety needs no fairness.
The logout runs and those of `UserSessions` switch deadlock checking off: when
every job is over, or the user is gone, and everything is deleted the system
really stops.

## What the checks show

* A code is answered at most once, whatever overlaps, although more than one
  request may save tokens for it.
* Tokens of the first exchange of a code are covered by an audit row as long
  as they are usable. A second exchange relinks the row, so the tokens of an
  overlapping, refused exchange can be the ones a replay recalls. This is why
  `ReuseRecallsSoleExchange` speaks of codes exchanged once.
* Once counted, a replay stays on record.
* A pair of tokens that is no longer usable stays so: no rotation or exchange
  under way, and no cleanup between its two statements, brings it back.
* When a user is denied, whatever was lost, no further request gets past
  validation, and each pair of tokens that becomes usable spends a request that
  was past it (`DeniedAccessShrinks`). Those requests are not always stopped:
  see the first of the differences without a run.
* A code answers a request for a login (`prompt=login`, `max_age`) or for
  consent only after it, although `prompt=login` leaves the URL at once, tabs
  share the session and the form may be open while the login ages or the
  policy changes. `Cancel` is the exception, because it drops the parameters.
* A request object is refused without touching the session, and a request is
  answered after finitely many logins.
* A logout token gets one verdict, `attempt_count` is the number of tries, all
  attempts carry the same token, and a failure has its row while its
  application exists. Each step of a worker leaves it fewer steps to make.
* Through any overlap of saves, removals, state changes, deletion and token
  requests an application that loses a user is told, but for the ways named by
  `gap`. A deleted user's applications come from the snapshot; those the revoke
  command told include every one it took tokens from, apart from an application
  whose first token was saved between collection and revocation.
* A JWT is published until it expires, although processes restart one by one:
  a process that has not been restarted does not yet know the newer key, which
  is why `Verifiable` speaks of processes that have read the token's key.
  When a key is dropped, nobody signs with it and all it signed has expired.
* Every receiver hears of a token, with the format it was issued in, before
  the client has it, or its failure is counted; the exceptions are bodies too
  large to parse and rows revoked in between.
* The `groups` of the id_token are never older than those of the JWT, and both
  never older than the state and character beside them.
* What the checks promise they keep, for rows activated or deactivated later
  too, since E001, E006 and W007 look at inactive rows. The gaps are a database
  that did not answer, a callable in `PKCE_REQUIRED`, and `None` or `0` for
  RP-initiated logout.

Where documentation and code differ, and TLC refutes the documented claim:

* `rotated_away`: a replay recalls only the pair of the exchange. If the
  refresh token was rotated before, `revoke_succeeded` is `True` and the
  rotated tokens live on.
* `cancelled_consent`: Cancel does not deny. A trusted application, which sees
  the form only under `prompt=consent`, is granted a code by it; for other
  applications the form is shown again.
* `logout_deleted_user`: the logouts of a deleted user are enqueued and then
  always dropped by the task.
* `introspection`: `README.md:415` of the repository has per-application gating
  on introspection; the answer is the library's, so a token is active for a
  user who lost access and for an application switched off.

Differences met while modelling that no run states:

* `auth_provider.py:535-537` calls the decision of `save_bearer_token` a final
  guard against tokens "issued then denied". It is taken on the user object
  the validation has read (`auth_provider.py:541`), so a permission, an
  activation or a state lost since is not noticed; a group or a changed list of
  the application is, up to the opening of the transaction.
* `docs/METRICS.md:362` and `auth_provider.py:646-648` read an audit miss as a
  code this server never issued. The row may have been purged while rotation
  kept the tokens alive (`tasks.py:95`).
* `views_authorize.py:137-141` says that the next check passes after a login;
  `max_age=0` is expired again after every login.
* `tests/test_authorize_prompt.py:25-26`: `prompt=none` never shows a page;
  with an expired `max_age` it ends the session and shows the login page
  (`views_authorize.py:611`).
* `models.py:391-393` has every failed delivery recorded; a task that cannot
  read the active key ends without retry or signal (`tasks.py:273`).
* W002 (`checks.py:583`) says that per-application formats still work. One
  without the dispatcher is never read (`tokens.py:43`, `security.py:319`).
* `TokenAudit.emit` "never raises" (`views_token.py:109`), but `_find_token`
  catches only `DoesNotExist` (`LookupFails`).
* The claim sets of access token and id_token are said to be the same
  (`tokens.py:124-126`); they are read at different moments.
* The text of E002 says that a stock model bypasses the policy. With this
  application's validator the stock model is denied (`security.py:377`).
* `logout.py:123-126` relies on E001 for the issuer; an application registered
  after the check is not looked at again.
* `app_settings.py:120-125` has bad settings fail at start-up; they are built at
  their first use (harm `snapshot`).
* `validate_bearer_token` says that an inactive user is refused; a superuser is
  not (`security.py:367`).
* W003 is silent for an explicit `None` or `0`, which switches the route off as
  `False` does.
* `clean()` refuses HS256 with an explicit `jwt` format, not with a `jwt`
  default.
* `docs/JWT_ACCESS_TOKENS.md:121-123` and the printed recipe differ in how long
  an old key is kept, and neither counts id_tokens, which live 36000 s by
  default.
* W004 advises to deactivate the application (`README.md:755`). The dispatcher
  then stages no more logouts for it (`logout.py:211`, `logout.py:259`), but the
  worker does not look at `active`: those already queued are still posted.
* `README.md:788-790` calls W005 in staging informational; with a registered URI the
  same setting is E006 unless acknowledged. `README.md:740` counts six
  warnings; `checks.py` has eight.
* The `pre_save` gate runs on every save, so `oidc_rotate_secret` is refused
  while the logout host resolves to a private address (`apps.py:113`).

## What is proved

All theorems hold for every set of codes, requests, pairs, jobs, users,
applications, settings, rows, processes and keys, for every lifetime and number
of retries, under the named assumptions on the constants
(`LifetimesAssumption`, `SentinelAssumption`, `BoundsAssumption`,
`RequestsAssumption`, `SettingsAssumption`, and the `ParametersAssumption` of
`UserSessions` and of `TokenIssuance`), which TLC evaluates in the runs.

`CodeExchangeProofs`. The checked invariants are not inductive by themselves.
`IInv` adds: pairs are rooted in an existing exchange of the same code, unborn
pairs are blank, a request holds what its last step left it with, an answered
code has lost its grant, a revoked refresh token has lost its access token, an
audit row is no older than some exchange it could link, the cleanup's clock is
not ahead, and a recalled code has an exchange that is gone for good. The last
one carries `ReuseRecallsSoleExchange` across later steps: rows never become
stored again (`PairStep`). `FirstExchangeAudited` rests on `AuditDated` and
`SweepPast` with `AtTTL <= RtTTL`. The refinement maps `grant` to the phase of
the code and the answered direct pairs to its answers; the step that needs
work is `InvalidateAuthorizationCode`, where `AnsweredClosed` shows that a
stored grant means no earlier answer. `RetiredForGood`
follows from `PairStep` as well (`UnusableKept`): a row once stored is never
stored again and the pair keeps its date, whichever request, replay or cleanup
makes the step. `DenialsShrink` combines three facts: a pair that becomes
usable has just been saved for its code (`UsableBorn`), the request that saves
it is spent and brings no other pair to life (`SaveSpends`), and while the user
is denied nobody joins the requests past validation (`NoneJoins`).

`BackChannelLogoutProofs`. The invariant is one formula per job (`Told`): what
its phase, its verdict and its rows say of attempts, transaction and signal.
A frame lemma (`Frame`) keeps it for jobs a step does not touch, so each action
is proved for its own job. `Refinement` maps the phases of a worker to the
stages of `LogoutDelivery` and every kind of failure to "failed"; the invariant
supplies that a queued job has made as many tries as retries. `RetriesRunOut`
is the safety half of `EveryLogoutEnds`: after the commit a worker has at most
2 * (`MaxRetries` + 1) steps for a job, each leaves fewer (`StepsLeft`), and
nothing else adds one, so that what TLC adds is only that the steps are taken.
`VerdictsFinal` says that nothing is posted or reported after the signal.
`DeletionsNotPosted` bounds the refuted `DeletedUserLoggedOut`: the user of such
a job is doomed while the transaction is open and gone once it has committed
(`DeletedTells`), so its worker can only drop it, and what is ever reported of
it comes from the dispatcher or the broker.

`AuthorizeFlowProofs`. The properties look at the request, the view at the
URL, so `IInv` relates the two: the URL asks for nothing the request did not
(`UrlTells`); once `prompt=login` has left the URL the session is gone or newer
than the request (`LoginTells`); until Cancel the URL keeps `max_age` and
`prompt=consent` (`UncancelledTells`). Three lemmas say what a pass through the
view can do (`DispatchFrame`, `DispatchToLogin`, `DispatchAnswer`); `Bystander`
carries the other tabs. `Refinement` maps all pages of a flow to one open
request, and what the user still owes to the demands of the request that no
login, Authorize or Cancel since has met. `UnapprovedGrants` bounds the refuted
`CancelDenies`: without a press of Authorize a code needs a trusted application
or a token that covers the scopes.

`UserSessionsProofs`. `LossTold` is inductive with the types and one fact about
saves: one that nothing came between knows what is in the database
(`ReadsCurrent`). Two lemmas carry each action: a step that takes nothing from
the user takes no access away (`NothingTaken`), and `Tell` keeps whoever was
told, lost or is named now, unless allowed again (`TellKeeps`). The command
needs that what it would revoke is collected or late (`CollectedOrLate`), the
deletion that its snapshot covers what it will remove (`SnapshotWhole`).
`GroupsGrant` is about the policy alone: more groups never take access away, so
the trigger is right to ignore `post_add`. `QuietLossesTold` shows that the
exceptions of `LossTold` are all there are: in the behaviours of `QuietSpec`,
which leaves out the ways to lose access that no trigger sees, nothing is ever
added to `gap` (`NoGap`), and `LossToldAlways` holds without exception.

`TokenIssuanceProofs`. The invariant has two halves. `RequestInv` says what a
process knows of the token it works on (`Work`), that two processes never work
on the same one (`Exclusive`), and what is true of every token (`Sound`);
requests only change their own token, so the rest is framed. `KeyInv` says that
a process publishes every key an earlier process still signs with, and that a
key is in the settings while a token it signed is alive: either a process still
has it active, or the last one stopped at `unused` and the token expires within
one lifetime after that. `Verifiable` follows step by step from these, and so
does `DroppedKeysDead`. The proofs use `Wait >= Ttl` and no more: the recipe's
doubled wait is a margin, and one lifetime after the last process stopped
signing is enough.

`DeploymentProofs`. The invariant (`Evidence`) ties each harm in `last` to the
settings and the row that caused it; the properties then follow from the
conditions of the checks, without looking at steps. `CleanBillOfHealth` turns
the three around: when the last report, with a database that answered, listed
nothing for the settings and the row a request meets, the request can suffer
only the harms of `Unjudged`. Those are a settings object that cannot be built,
a format pinned on the row, a callable in `PKCE_REQUIRED`, `None` or `0` for
RP-initiated logout, and an inactive row's address in clear text.

Some definitions are only proved, since no run is about them:
`VerdictFinal` and `DeletionNeverPosted` (`BackChannelLogout`),
`GrantedWhileAllowed` (part of `PromiseSpec`) and `UnapprovedGrantsAutomatic`
(`AuthorizeFlow`), `LossToldAlways` (`UserSessions`), `CleanBill`
(`DeploymentProofs`).

Only model-checked: `EveryLogoutEnds` and `Answered` (liveness) and the
refutations. TLAPS cannot prove liveness under fairness here, nor anything by
induction over recursively defined data; no module uses `RECURSIVE`.

## Left open

The modules were written in the order `CodeExchange`, `BackChannelLogout`,
`AuthorizeFlow`, `AccessPolicy` and `UserSessions`, `Deployment`,
`TokenIssuance`. What a further step would add:

1. A composition of `UserSessions` with the promise of `BackChannelLogout`, to
   state the path from a change of the account to a verdict in one property.
   Today it is two: `LossTold` up to the send, `DeliverySpec` and
   `EveryLogoutEnds` from there.
2. Several users, to state that a trigger of one never logs out another. The
   code keys everything by user, and no step reads two.

Known and not checked: `save_bearer_token` does not read `application.active`
again, so a request past client authentication outlives the kill switch. No
document promises otherwise.

## Not modelled

* `oidc_fix_uuid_columns` and W006: column types of one database engine.
* `oidc_show_effective_policy`, `oidc_audit_tokens`, the lists of the admin:
  read-only. `oidc_rotate_secret`: one assignment, saved through the gate that
  `OrmSave` has.
* The values of claims (`claims.py`), their encoding, `acr` in
  `views_authorize.py:257-315`, and the contents of the discovery document:
  pure functions of settings and user.
* `_dns_safety.py`: a gate with three answers; the arithmetic of address ranges
  is not a matter of states.
* Metrics, logging and redaction (`_metrics.py`, `utils.py`): written and never
  read by the program, but for the counting of failed receivers.
* `noxfile.py` and `_nox/`: the build.
