----------------------------- MODULE Deployment -----------------------------
(***************************************************************************)
(* Settings, application rows and the system checks.  A process works with *)
(* the settings it was started with; `manage.py check' looks once, at one  *)
(* set of settings and at the rows of that moment; rows change later, by   *)
(* the admin form, which validates them, or by code, which mostly does     *)
(* not.  What then goes wrong at a request or at a logout, with no error   *)
(* at start-up, is recorded in `last'.                                     *)
(***************************************************************************)
EXTENDS FiniteSets

CONSTANTS
    Processes,   \* web and worker processes
    Apps,
    Settings,    \* the configurations an operator may start a process with
    Rows,        \* the rows an application may have
    NoSettings, NoRow

\* OAUTH2_PROVIDER and the ALLIANCEAUTH_OIDC_* settings as they are written.
\* "bogus" is a dotted path that cannot be imported; `pkce' "on" stands for a
\* missing key, True or a string, `rp' "falsy" for an explicit None or 0;
\* `valid' is whether OIDCSettings can be built.
SettingsType == [
    debug : BOOLEAN, issuer : BOOLEAN, openid : BOOLEAN, cimd : BOOLEAN,
    model : {"aa", "stock"},
    validator : {"aa", "stock", "bogus"},
    generator : {"dispatcher", "stock", "bogus"},
    pkce : {"adapter", "callable", "on", "off"},
    format : {"opaque", "jwt", "typo"},
    rp : {"absent", "on", "off", "falsy"},
    private : BOOLEAN, acked : BOOLEAN, masked : BOOLEAN, valid : BOOLEAN]

RowType == [
    uri : {"none", "http", "https"}, active : BOOLEAN, pkce : BOOLEAN,
    format : {"", "opaque", "jwt"}, hs256 : BOOLEAN, hashed : BOOLEAN]

ASSUME SettingsAssumption ==
    /\ Settings \subseteq SettingsType /\ NoSettings \notin SettingsType
    /\ Rows \subseteq RowType /\ NoRow \notin RowType

VARIABLES
    conf,    \* settings each process runs with
    row,     \* AllianceAuthApplication rows
    queued,  \* applications with a logout on its way to a worker
    report,  \* what the last `manage.py check' looked at, db: the tables answered
    last     \* what the last request or logout did wrong without an error at start

vars == <<conf, row, queued, report, last>>

Harms == {"noIssuer", "unsigned", "noIdToken", "noRoute", "ungated", "bare",
          "selfRegistered", "cleartext", "private", "masked", "opaque", "snapshot"}

TypeOK ==
    /\ conf \in [Processes -> Settings \cup {NoSettings}]
    /\ row \in [Apps -> Rows \cup {NoRow}]
    /\ queued \subseteq Apps
    /\ report \in [conf : Settings \cup {NoSettings},
                   row : [Apps -> Rows \cup {NoRow}], db : BOOLEAN]
    /\ last \in [by : Processes, app : Apps, seen : SUBSET Harms]

Nothing == [last EXCEPT !.seen = {}]

Init ==
    /\ conf = [p \in Processes |-> NoSettings]
    /\ row = [a \in Apps |-> NoRow]
    /\ queued = {}
    /\ report = [conf |-> NoSettings, row |-> row, db |-> FALSE]
    /\ last \in [by : Processes, app : Apps, seen : {{}}]

----------------------------------------------------------------------------
(* The system checks.  s: the settings, t: the rows, db: whether the       *)
(* tables answer; a check whose query or import fails is deferred and says *)
(* nothing.                                                                *)

Exists(t, a) == t[a] # NoRow
HasUri(t, a) == Exists(t, a) /\ t[a].uri # "none"
\* Mutants: inactive rows are skipped here, and by the escalation to E006.
BclAppsActive(t) == {a \in Apps : HasUri(t, a) /\ t[a].active}
ActiveBclUriRegistered(t, db) == db /\ BclAppsActive(t) # {}
BclApps(t) == {a \in Apps : HasUri(t, a)}
HttpApps(t) == {a \in Apps : HasUri(t, a) /\ t[a].active /\ t[a].uri = "http"}
HmacApps(t) == {a \in Apps : Exists(t, a) /\ t[a].hs256 /\ t[a].hashed}
AnyBclUriRegistered(t, db) == db /\ BclApps(t) # {}

E001(s, t, db) == db /\ BclApps(t) # {} /\ ~s.issuer
E002(s) == s.model = "stock"
E003(s) == s.validator = "stock"
E004(s) == ~s.openid
\* Mutant: an explicit False is taken for a choice.
E005Absent(s) == s.pkce = "on"
E005(s) == s.pkce \in {"on", "off"}
E006(s, t, db) == s.private /\ ~s.debug /\ ~s.acked /\ AnyBclUriRegistered(t, db)
W001(s) == s.masked /\ ~s.debug
W002(s) ==
    /\ s.generator # "bogus"
    /\ (s.format = "jwt") # (s.generator = "dispatcher")
W003(s, t, db) == s.rp = "off" /\ db /\ BclApps(t) # {}
W004(s, t, db) == ~s.debug /\ db /\ HttpApps(t) # {}
W005(s, t, db) == s.private /\ ~s.debug /\ ~E006(s, t, db)
W007(t, db) == db /\ HmacApps(t) # {}
W008(s) == s.cimd

\* Mutant: a deferred check forgets the rows.
RunCheckForgets(s, db) ==
    /\ report' = [conf |-> s, row |-> IF db THEN row ELSE NoRow, db |-> db]
    /\ last' = Nothing
    /\ UNCHANGED <<conf, row, queued>>
RunCheck(s, db) ==
    /\ report' = [conf |-> s, row |-> row, db |-> db]
    /\ last' = Nothing
    /\ UNCHANGED <<conf, row, queued>>

----------------------------------------------------------------------------
(* Processes and rows.                                                     *)

\* ready(): the receivers are connected; no check is an obstacle to a worker
\* or a WSGI process.
Start(p, s) ==
    /\ conf[p] = NoSettings
    /\ conf' = [conf EXCEPT ![p] = s]
    /\ last' = Nothing
    /\ UNCHANGED <<row, queued, report>>

Stop(p) ==
    /\ conf[p] # NoSettings
    /\ conf' = [conf EXCEPT ![p] = NoSettings]
    /\ last' = Nothing
    /\ UNCHANGED <<row, queued, report>>

Store(a, r) ==
    /\ row' = [row EXCEPT ![a] = r]
    /\ last' = Nothing
    /\ UNCHANGED <<conf, report>>

Write(a, r) == Store(a, r) /\ UNCHANGED queued

Answers == {"public", "private", "failing"}

\* A failing resolver does not stop a save, a private address does.
TargetSafety(s, r, answer) ==
    r.uri # "none" => answer # "private" \/ s.private

SchemeSafety(s, r) == r.uri = "http" => s.debug

\* clean(), the oauth toolkit's own clean() first.
Clean(s, r, answer) ==
    /\ ~(r.hs256 /\ r.hashed)
    /\ ~(r.format = "jwt" /\ r.hs256)
    /\ SchemeSafety(s, r)
    /\ TargetSafety(s, r, answer)

AdminSave(p, a, r) ==
    /\ conf[p] # NoSettings
    /\ \E answer \in Answers : Clean(conf[p], r, answer)
    /\ Write(a, r)

\* save() and create() from commands, migrations and shells: only the
\* pre_save gate.
OrmSave(p, a, r) ==
    /\ conf[p] # NoSettings
    /\ \E answer \in Answers : TargetSafety(conf[p], r, answer)
    /\ Write(a, r)

\* oidc_create_app has no option for a logout URI, a format or the algorithm.
CreateApp(p, a, pkce) ==
    LET r == [uri |-> "none", active |-> TRUE, pkce |-> pkce,
              format |-> "", hs256 |-> FALSE, hashed |-> TRUE]
    IN /\ row[a] = NoRow /\ r \in Rows
       /\ OrmSave(p, a, r)

\* Migration 0011, with the setting of the process that migrates: a bool is
\* carried over, whatever else it is means TRUE.  Bound: Rows has the result.
BackfillPkce(s) ==
    LET filled == [a \in Apps |->
            IF row[a] = NoRow THEN NoRow ELSE [row[a] EXCEPT !.pkce = s.pkce # "off"]]
    IN /\ row' = filled
       /\ row' \in [Apps -> Rows \cup {NoRow}]
       /\ last' = Nothing
       /\ UNCHANGED <<conf, queued, report>>

\* A queued logout finds no application and is dropped.
DeleteApp(a) ==
    /\ row[a] # NoRow
    /\ Store(a, NoRow)
    /\ queued' = queued \ {a}

----------------------------------------------------------------------------
(* Requests and logouts, with what silently went wrong.                    *)

Observe(p, a, seen) ==
    /\ last' = [by |-> p, app |-> a, seen |-> seen]
    /\ UNCHANGED <<conf, row, report>>

\* A request, which puts no logout on its way.
Serve(p, a, seen) == Observe(p, a, seen) /\ UNCHANGED queued

When(harm, cond) == IF cond THEN {harm} ELSE {}

\* per_app_pkce_required, or what the operator put in its place.
PkceRequired(s, r) ==
    CASE s.pkce = "adapter"  -> {IF r = NoRow THEN TRUE ELSE r.pkce}
      [] s.pkce = "callable" -> BOOLEAN
      [] OTHER               -> {s.pkce = "on"}

\* A client comes without a code_challenge.
Authorize(p, a) ==
    /\ conf[p] # NoSettings /\ conf[p].validator # "bogus"
    /\ row[a] # NoRow /\ row[a].active
    /\ \E required \in PkceRequired(conf[p], row[a]) :
           Serve(p, a, When("bare", row[a].pkce /\ ~required))

\* An unknown https:// client_id is resolved and becomes a row that every
\* holder of access_oidc may use.
SelfRegister(p, a) ==
    /\ conf[p] # NoSettings /\ conf[p].cimd /\ row[a] = NoRow
    /\ \E r \in Rows :
           /\ r.uri = "none" /\ r.active
           /\ row' = [row EXCEPT ![a] = r]
    /\ last' = [by |-> p, app |-> a, seen |-> {"selfRegistered"}]
    /\ UNCHANGED <<conf, queued, report>>

AccessTokenFormat(s, r) ==
    CASE r.format # ""    -> r.format
      [] s.format = "jwt" -> "jwt"
      [] OTHER            -> "opaque"

\* The snapshot is built on its first use: by the claims of an id_token, and
\* by the dispatcher for the default format and for the size warning.
ReadsSnapshot(s, r) ==
    \/ s.validator = "aa" /\ s.openid
    \/ s.generator = "dispatcher" /\ r.format # "opaque"

TokenRequest(p, a) ==
    LET s == conf[p]
        r == row[a]
    IN /\ s # NoSettings /\ r # NoRow
       /\ s.validator # "bogus" /\ s.generator # "bogus" /\ s.model = "aa"
       /\ r.active
       /\ Serve(p, a,
              IF ~s.valid /\ ReadsSnapshot(s, r) THEN {"snapshot"}
              ELSE When("ungated", s.validator = "stock")
                   \cup When("noIdToken", ~s.openid)
                   \cup When("unsigned", s.openid /\ r.hs256 /\ r.hashed)
                   \cup When("masked", s.masked /\ s.valid /\ ~s.debug)
                   \cup When("opaque", AccessTokenFormat(s, r) = "jwt"
                                       /\ s.generator # "dispatcher"))

\* A trigger fires for a user with tokens of the application: only an active
\* application with a URI gets a logout.
DispatchLogout(p, a) ==
    /\ conf[p] # NoSettings /\ conf[p].model = "aa"
    /\ HasUri(row, a) /\ row[a].active
    /\ queued' = queued \cup {a}
    /\ last' = Nothing
    /\ UNCHANGED <<conf, row, report>>

\* The worker's attempt for one application: the gate looks the host up
\* again, the scheme and `active' are not looked at.  The logout is done with,
\* or put back for a retry.  One whose URI was blanked on the way goes nowhere.
Logout(p, a) ==
    LET s == conf[p]
    IN /\ s # NoSettings /\ s.model = "aa"
       /\ a \in queued /\ Exists(row, a)
       /\ queued' \in {queued, queued \ {a}}
       /\ \E answer \in Answers :
              Observe(p, a,
                  IF ~HasUri(row, a) THEN {}
                  ELSE IF ~s.issuer THEN {"noIssuer"}
                  ELSE IF ~s.private /\ answer # "public" THEN {}
                  ELSE When("cleartext", row[a].uri = "http" /\ ~s.debug)
                       \cup When("private", answer = "private" /\ ~s.debug))

\* A user of the application signs out at /o/logout/; ready() has set the key
\* where it was absent.
EndUserLogout(p, a) ==
    /\ conf[p] # NoSettings /\ HasUri(row, a)
    /\ Serve(p, a, When("noRoute", conf[p].rp \in {"off", "falsy"}))

Next ==
    \/ \E s \in Settings :
        \/ \E db \in BOOLEAN : RunCheck(s, db)
        \/ BackfillPkce(s)
        \/ \E p \in Processes : Start(p, s)
    \/ \E a \in Apps : DeleteApp(a)
    \/ \E p \in Processes :
        \/ Stop(p)
        \/ \E a \in Apps :
            \/ \E r \in Rows : AdminSave(p, a, r) \/ OrmSave(p, a, r)
            \/ \E pkce \in BOOLEAN : CreateApp(p, a, pkce)
            \/ Authorize(p, a) \/ SelfRegister(p, a) \/ TokenRequest(p, a)
            \/ DispatchLogout(p, a) \/ Logout(p, a) \/ EndUserLogout(p, a)

Spec == Init /\ [][Next]_vars

----------------------------------------------------------------------------
(* What the checks promise.  A harm is foretold when the check that names  *)
(* it spoke, for the same settings, the last time it ran.                  *)

Checked(p) == conf[p] = report.conf

\* The row is the one the check saw, but for the active flag.
SameButActive(a) ==
    /\ Exists(row, a) /\ Exists(report.row, a)
    /\ [row[a] EXCEPT !.active = TRUE] = [report.row[a] EXCEPT !.active = TRUE]

\* A logout that dies in the worker for want of an issuer, an id_token that
\* cannot be signed, a sign-out without a route and a token response without
\* an id_token were all reported by the last check that saw the settings and
\* the application, whether the application was active then or has been made
\* active since.  An explicit None or 0 for RP-initiated logout is the case
\* W003 leaves out (checks.py:652).
FailureForetold ==
    LET s == report.conf
        t == report.row
    IN Checked(last.by) /\ report.db /\ SameButActive(last.app) =>
           /\ "noIssuer" \in last.seen => E001(s, t, report.db)
           /\ "unsigned" \in last.seen => W007(t, report.db)
           /\ "noRoute" \in last.seen => W003(s, t, report.db) \/ s.rp = "falsy"
           /\ "noIdToken" \in last.seen => E004(s)

\* A token served without the policy, a code given without PKCE to an
\* application that asks for it, an application nobody registered, masked
\* secrets in a production log and opaque tokens where JWT is the default:
\* each was reported, whatever rows the check saw and though the database
\* may have been down.  A callable in PKCE_REQUIRED is taken on trust.
GateForetold ==
    LET s == report.conf
    IN Checked(last.by) =>
           /\ "ungated" \in last.seen => E003(s)
           /\ "bare" \in last.seen => E005(s) \/ s.pkce = "callable"
           /\ "selfRegistered" \in last.seen => W008(s)
           /\ "masked" \in last.seen => W001(s)
           /\ "opaque" \in last.seen /\ row[last.app].format = "" => W002(s)

\* In production a logout token goes out in clear text only for a row W004
\* named, unless the row was changed or inactive then, and to a private
\* address only under W005 or E006; under an unacknowledged setting it is
\* the error if the application already had its URI.
ExposureForetold ==
    LET s == report.conf
        t == report.row
        a == last.app
    IN Checked(last.by) =>
           /\ "cleartext" \in last.seen /\ report.db /\ row[a] = t[a] /\ row[a].active
                  => W004(s, t, report.db)
           /\ "private" \in last.seen => W005(s, t, report.db) \/ E006(s, t, report.db)
           /\ "private" \in last.seen /\ report.db /\ HasUri(t, a)
                  => s.acked \/ E006(s, t, report.db)

=============================================================================
