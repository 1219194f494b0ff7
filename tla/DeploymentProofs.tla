-------------------------- MODULE DeploymentProofs --------------------------
(***************************************************************************)
(* Theorems about Deployment for every set of processes and applications,  *)
(* every settings an operator may write and every row.                     *)
(***************************************************************************)
EXTENDS Deployment, TLAPS

\* What each harm says of the process and the row it happened with.
Evidence(seen, s, r) ==
    /\ "noIssuer" \in seen => ~s.issuer /\ r # NoRow /\ r.uri # "none"
    /\ "unsigned" \in seen => r # NoRow /\ r.hs256 /\ r.hashed
    /\ "noRoute" \in seen => s.rp \in {"off", "falsy"} /\ r # NoRow /\ r.uri # "none"
    /\ "noIdToken" \in seen => ~s.openid
    /\ "ungated" \in seen => s.validator = "stock"
    /\ "bare" \in seen => s.pkce \in {"off", "callable"}
    /\ "selfRegistered" \in seen => s.cimd
    /\ "masked" \in seen => s.masked /\ ~s.debug
    /\ "opaque" \in seen =>
          /\ s.generator \notin {"bogus", "dispatcher"}
          /\ r.format = "" => s.format = "jwt"
    /\ "cleartext" \in seen => ~s.debug /\ r # NoRow /\ r.uri = "http"
    /\ "private" \in seen => s.private /\ ~s.debug

IInv == TypeOK /\ Evidence(last.seen, conf[last.by], row[last.app])

LEMMA InitInv == Init => IInv
<1> SUFFICES ASSUME Init PROVE IInv
  OBVIOUS
<1>1. last \in [by : Processes, app : Apps, seen : {{}}]
  BY DEF Init
<1>2. last.seen = {} /\ last \in [by : Processes, app : Apps, seen : SUBSET Harms]
  BY <1>1
<1>3. conf \in [Processes -> Settings \cup {NoSettings}] /\ row \in [Apps -> Rows \cup {NoRow}]
  BY DEF Init
<1>4. report \in [conf : Settings \cup {NoSettings},
                  row : [Apps -> Rows \cup {NoRow}], db : BOOLEAN]
  BY <1>3 DEF Init
<1>5. Evidence(last.seen, conf[last.by], row[last.app])
  BY <1>2 DEF Evidence
<1>6. queued \subseteq Apps
  BY DEF Init
<1> QED
  BY <1>2, <1>3, <1>4, <1>5, <1>6 DEF IInv, TypeOK

\* A step that observes nothing leaves no evidence to explain.
LEMMA NothingSeen ==
    ASSUME TypeOK, last' = Nothing
    PROVE  /\ last' \in [by : Processes, app : Apps, seen : SUBSET Harms]
           /\ Evidence(last.seen, conf[last.by], row[last.app])'
<1>1. last'.seen = {} /\ last'.by = last.by /\ last'.app = last.app
  BY DEF Nothing, TypeOK
<1>2. last' \in [by : Processes, app : Apps, seen : SUBSET Harms]
  BY DEF Nothing, TypeOK
<1> QED
  BY <1>1, <1>2 DEF Evidence

LEMMA StoreKeeps ==
    ASSUME TypeOK, NEW a \in Apps, NEW r \in Rows \cup {NoRow}, Store(a, r),
           queued' \subseteq Apps
    PROVE  IInv'
<1>1. row' \in [Apps -> Rows \cup {NoRow}]
  BY DEF Store, TypeOK
<1> QED
  BY <1>1, NothingSeen DEF Store, IInv, TypeOK

\* An observation is right if its evidence holds of the process and the row.
LEMMA ObserveKeeps ==
    ASSUME TypeOK, NEW p \in Processes, NEW a \in Apps, NEW seen \in SUBSET Harms,
           Observe(p, a, seen), queued' \subseteq Apps,
           Evidence(last.seen, conf[last.by], row[last.app])'
    PROVE  IInv'
<1>1. last' \in [by : Processes, app : Apps, seen : SUBSET Harms]
  BY DEF Observe
<1> QED
  BY <1>1 DEF Observe, IInv, TypeOK

LEMMA Observed ==
    ASSUME NEW p \in Processes, NEW a \in Apps, NEW seen, Observe(p, a, seen)
    PROVE  /\ last'.by = p /\ last'.app = a /\ last'.seen = seen
           /\ conf' = conf /\ row' = row
BY DEF Observe

LEMMA TokenKeeps ==
    ASSUME TypeOK, NEW p \in Processes, NEW a \in Apps, TokenRequest(p, a)
    PROVE  IInv'
<1> DEFINE s == conf[p]
           r == row[a]
           normal == When("ungated", s.validator = "stock")
                     \cup When("noIdToken", ~s.openid)
                     \cup When("unsigned", s.openid /\ r.hs256 /\ r.hashed)
                     \cup When("masked", s.masked /\ s.valid /\ ~s.debug)
                     \cup When("opaque", AccessTokenFormat(s, r) = "jwt"
                                         /\ s.generator # "dispatcher")
           seen == IF ~s.valid /\ ReadsSnapshot(s, r) THEN {"snapshot"} ELSE normal
<1>1. /\ Observe(p, a, seen) /\ queued' \subseteq Apps
      /\ r # NoRow /\ s.generator # "bogus"
  BY DEF TokenRequest, Serve, TypeOK
<1>2. normal \in SUBSET Harms
  BY DEF When, Harms
<1>3. seen \in SUBSET Harms
  BY <1>2 DEF Harms
<1>4. last'.by = p /\ last'.app = a /\ last'.seen = seen /\ conf' = conf /\ row' = row
  <2> HIDE DEF seen
  <2> QED BY <1>1, Observed
<1>5. r.format = "" /\ AccessTokenFormat(s, r) = "jwt" => s.format = "jwt"
  BY DEF AccessTokenFormat
<1>6. /\ normal \subseteq {"ungated", "noIdToken", "unsigned", "masked", "opaque"}
      /\ "ungated" \in normal => s.validator = "stock"
      /\ "noIdToken" \in normal => ~s.openid
      /\ "unsigned" \in normal => r.hs256 /\ r.hashed
      /\ "masked" \in normal => s.masked /\ ~s.debug
      /\ "opaque" \in normal =>
            AccessTokenFormat(s, r) = "jwt" /\ s.generator # "dispatcher"
  BY DEF When
<1>7. seen \in {{"snapshot"}, normal}
  OBVIOUS
<1> HIDE DEF seen, normal
<1>8. Evidence(last.seen, conf[last.by], row[last.app])'
  <2> HIDE DEF s, r
  <2>1. Evidence({"snapshot"}, s, r)
    BY DEF Evidence
  <2>2. Evidence(normal, s, r)
    BY <1>1, <1>5, <1>6 DEF Evidence
  <2>3. Evidence(seen, s, r)
    BY <2>1, <2>2, <1>7
  <2> QED
    BY <2>3, <1>4 DEF s, r
<1> QED
  BY <1>1, <1>3, <1>8, ObserveKeeps

LEMMA LogoutKeeps ==
    ASSUME TypeOK, NEW p \in Processes, NEW a \in Apps, Logout(p, a)
    PROVE  IInv'
<1> DEFINE s == conf[p]
<1>1. PICK answer \in Answers :
          Observe(p, a,
              IF ~HasUri(row, a) THEN {}
              ELSE IF ~s.issuer THEN {"noIssuer"}
              ELSE IF ~s.private /\ answer # "public" THEN {}
              ELSE When("cleartext", row[a].uri = "http" /\ ~s.debug)
                   \cup When("private", answer = "private" /\ ~s.debug))
  BY DEF Logout
<1> DEFINE sent == When("cleartext", row[a].uri = "http" /\ ~s.debug)
                   \cup When("private", answer = "private" /\ ~s.debug)
           seen == IF ~HasUri(row, a) THEN {}
                   ELSE IF ~s.issuer THEN {"noIssuer"}
                   ELSE IF ~s.private /\ answer # "public" THEN {} ELSE sent
<1>2. HasUri(row, a) => row[a] # NoRow /\ row[a].uri # "none"
  BY DEF HasUri, Exists
<1>3. seen \in SUBSET Harms
  BY DEF When, Harms
<1>4. Observe(p, a, seen) /\ queued' \subseteq Apps
  BY <1>1 DEF Logout, TypeOK
<1>5. last'.by = p /\ last'.app = a /\ last'.seen = seen /\ conf' = conf /\ row' = row
  <2> HIDE DEF seen
  <2> QED BY <1>4, Observed
<1>6. Evidence(last.seen, conf[last.by], row[last.app])'
  <2>1. CASE ~HasUri(row, a)
    BY <2>1, <1>5 DEF Evidence
  <2>2. CASE HasUri(row, a) /\ ~s.issuer
    BY <2>2, <1>2, <1>5 DEF Evidence
  <2>3. CASE HasUri(row, a) /\ s.issuer /\ ~s.private /\ answer # "public"
    BY <2>3, <1>5 DEF Evidence
  <2>4. CASE HasUri(row, a) /\ s.issuer /\ ~(~s.private /\ answer # "public")
    BY <2>4, <1>2, <1>5 DEF Evidence, When
  <2> QED
    BY <2>1, <2>2, <2>3, <2>4
<1> HIDE DEF seen
<1> QED
  BY <1>3, <1>4, <1>6, ObserveKeeps

LEMMA SignOutKeeps ==
    ASSUME TypeOK, NEW p \in Processes, NEW a \in Apps, EndUserLogout(p, a)
    PROVE  IInv'
<1> DEFINE seen == When("noRoute", conf[p].rp \in {"off", "falsy"})
<1>1. /\ Observe(p, a, seen) /\ queued' \subseteq Apps
      /\ row[a] # NoRow /\ row[a].uri # "none"
  BY DEF EndUserLogout, HasUri, Exists, Serve, TypeOK
<1>2. seen \in SUBSET Harms
  BY DEF When, Harms
<1>3. last'.by = p /\ last'.app = a /\ last'.seen = seen /\ conf' = conf /\ row' = row
  <2> HIDE DEF seen
  <2> QED BY <1>1, Observed
<1>4. Evidence(last.seen, conf[last.by], row[last.app])'
  BY <1>1, <1>3 DEF Evidence, When
<1> HIDE DEF seen
<1> QED
  BY <1>1, <1>2, <1>4, ObserveKeeps

LEMMA AuthorizeKeeps ==
    ASSUME TypeOK, SettingsAssumption, NEW p \in Processes, NEW a \in Apps, Authorize(p, a)
    PROVE  IInv'
<1>1. PICK required \in PkceRequired(conf[p], row[a]) :
          Serve(p, a, When("bare", row[a].pkce /\ ~required))
  BY DEF Authorize
<1> DEFINE seen == When("bare", row[a].pkce /\ ~required)
<1>2. seen \in SUBSET Harms
  BY DEF When, Harms
<1>3. last'.by = p /\ last'.app = a /\ last'.seen = seen /\ conf' = conf /\ row' = row
  <2>1. Observe(p, a, seen)
    BY <1>1 DEF Serve
  <2> HIDE DEF seen
  <2> QED BY <2>1, Observed
<1>4. conf[p] \in SettingsType /\ row[a] # NoRow
  BY DEF Authorize, TypeOK, SettingsAssumption
<1>5. "bare" \in seen => conf[p].pkce \in {"off", "callable"}
  <2>1. CASE conf[p].pkce = "adapter"
    BY <2>1, <1>4 DEF PkceRequired, When
  <2>2. CASE conf[p].pkce = "on"
    BY <2>2 DEF PkceRequired, When
  <2>3. conf[p].pkce \in {"adapter", "callable", "on", "off"}
    BY <1>4 DEF SettingsType
  <2> QED
    BY <2>1, <2>2, <2>3
<1>6. seen \subseteq {"bare"}
  BY DEF When
<1>7. Evidence(last.seen, conf[last.by], row[last.app])'
  <2> HIDE DEF seen
  <2> QED BY <1>3, <1>5, <1>6 DEF Evidence
<1>8. Observe(p, a, seen) /\ queued' \subseteq Apps
  BY <1>1 DEF Serve, TypeOK
<1> HIDE DEF seen
<1> QED
  BY <1>2, <1>7, <1>8, ObserveKeeps

LEMMA RegisterKeeps ==
    ASSUME TypeOK, NEW p \in Processes, NEW a \in Apps, SelfRegister(p, a)
    PROVE  IInv'
<1>1. /\ row' \in [Apps -> Rows \cup {NoRow}] /\ conf[p].cimd
      /\ last' = [by |-> p, app |-> a, seen |-> {"selfRegistered"}]
      /\ conf' = conf /\ queued' = queued /\ report' = report
  BY DEF SelfRegister, TypeOK
<1>2. last'.seen = {"selfRegistered"} /\ last'.by = p
  BY <1>1
<1>3. last' \in [by : Processes, app : Apps, seen : SUBSET Harms]
  BY <1>1 DEF Harms
<1>4. Evidence(last.seen, conf[last.by], row[last.app])'
  BY <1>1, <1>2 DEF Evidence
<1> QED
  BY <1>1, <1>3, <1>4 DEF IInv, TypeOK

LEMMA StepInv == SettingsAssumption /\ IInv /\ [Next]_vars => IInv'
<1> SUFFICES ASSUME SettingsAssumption, IInv, [Next]_vars PROVE IInv'
  OBVIOUS
<1> USE DEF IInv
<1>1. ASSUME NEW s \in Settings, NEW db \in BOOLEAN, RunCheck(s, db) PROVE IInv'
  BY <1>1, NothingSeen DEF RunCheck, TypeOK
<1>2. ASSUME NEW s \in Settings, BackfillPkce(s) PROVE IInv'
  BY <1>2, NothingSeen DEF BackfillPkce, TypeOK
<1>3. ASSUME NEW s \in Settings, NEW p \in Processes, Start(p, s) PROVE IInv'
  <2>1. conf' \in [Processes -> Settings \cup {NoSettings}]
    BY <1>3 DEF Start, TypeOK
  <2> QED BY <1>3, <2>1, NothingSeen DEF Start, TypeOK
<1>4. ASSUME NEW p \in Processes, Stop(p) PROVE IInv'
  <2>1. conf' \in [Processes -> Settings \cup {NoSettings}]
    BY <1>4 DEF Stop, TypeOK
  <2> QED BY <1>4, <2>1, NothingSeen DEF Stop, TypeOK
<1>5. ASSUME NEW a \in Apps, DeleteApp(a) PROVE IInv'
  BY <1>5, StoreKeeps DEF DeleteApp, TypeOK
<1>6. ASSUME NEW p \in Processes, NEW a \in Apps, NEW r \in Rows,
             AdminSave(p, a, r) \/ OrmSave(p, a, r)
      PROVE  IInv'
  BY <1>6, StoreKeeps DEF AdminSave, OrmSave, Write, TypeOK
<1>7. ASSUME NEW p \in Processes, NEW a \in Apps, NEW pkce \in BOOLEAN, CreateApp(p, a, pkce)
      PROVE  IInv'
  BY <1>7, StoreKeeps DEF CreateApp, OrmSave, Write, TypeOK
<1>8. ASSUME NEW p \in Processes, NEW a \in Apps,
             Authorize(p, a) \/ SelfRegister(p, a) \/ TokenRequest(p, a)
             \/ Logout(p, a) \/ EndUserLogout(p, a)
      PROVE  IInv'
  BY <1>8, AuthorizeKeeps, RegisterKeeps, TokenKeeps, LogoutKeeps, SignOutKeeps
<1>9. CASE UNCHANGED vars
  <2>1. /\ conf' = conf /\ row' = row /\ queued' = queued
        /\ report' = report /\ last' = last
    BY <1>9 DEF vars
  <2>2. TypeOK'
    BY <2>1 DEF TypeOK
  <2>3. Evidence(last.seen, conf[last.by], row[last.app])'
    BY <2>1
  <2> QED
    BY <2>2, <2>3
<1>10. ASSUME NEW p \in Processes, NEW a \in Apps, DispatchLogout(p, a) PROVE IInv'
  BY <1>10, NothingSeen DEF DispatchLogout, TypeOK
<1> QED
  BY <1>1, <1>2, <1>3, <1>4, <1>5, <1>6, <1>7, <1>8, <1>9, <1>10 DEF Next

\* What the processes can do keeps the evidence straight.
THEOREM Invariance == Spec => []IInv
<1>1. SettingsAssumption
  BY SettingsAssumption
<1> QED
  BY <1>1, InitInv, StepInv, PTL DEF Spec

\* Processes run, rows hold and the report saw only what an operator may write.
THEOREM TypeCorrect == Spec => []TypeOK
<1>1. IInv => TypeOK
  BY DEF IInv
<1> QED
  BY <1>1, Invariance, PTL

\* Failures of logouts, id_tokens and sign-outs are foretold by the checks,
\* through deactivation and reactivation of the application.
THEOREM FailuresForetold == Spec => []FailureForetold
<1>1. IInv => FailureForetold
  <2> SUFFICES ASSUME IInv, Checked(last.by), report.db, SameButActive(last.app)
               PROVE  /\ "noIssuer" \in last.seen => E001(report.conf, report.row, report.db)
                      /\ "unsigned" \in last.seen => W007(report.row, report.db)
                      /\ "noRoute" \in last.seen =>
                            W003(report.conf, report.row, report.db) \/ report.conf.rp = "falsy"
                      /\ "noIdToken" \in last.seen => E004(report.conf)
    BY DEF FailureForetold
  <2> DEFINE a == last.app
             r == row[a]
             t == report.row[a]
  <2>1. a \in Apps /\ r \in RowType /\ t \in RowType /\ r # NoRow /\ t # NoRow
    BY SettingsAssumption DEF IInv, TypeOK, SameButActive, Exists
  <2>2. [r EXCEPT !.active = TRUE] = [t EXCEPT !.active = TRUE]
    BY DEF SameButActive
  <2>3. r.uri = t.uri /\ r.hs256 = t.hs256 /\ r.hashed = t.hashed
    <3>1. /\ [r EXCEPT !.active = TRUE].uri = r.uri /\ [t EXCEPT !.active = TRUE].uri = t.uri
          /\ [r EXCEPT !.active = TRUE].hs256 = r.hs256
          /\ [t EXCEPT !.active = TRUE].hs256 = t.hs256
          /\ [r EXCEPT !.active = TRUE].hashed = r.hashed
          /\ [t EXCEPT !.active = TRUE].hashed = t.hashed
      BY <2>1 DEF RowType
    <3> QED BY <2>2, <3>1
  <2>4. conf[last.by] = report.conf
    BY DEF Checked
  <2>5. Evidence(last.seen, report.conf, r)
    BY <2>4 DEF IInv
  <2>6. r.uri # "none" => BclApps(report.row) # {}
    BY <2>1, <2>3 DEF BclApps, HasUri, Exists
  <2>7. r.hs256 /\ r.hashed => HmacApps(report.row) # {}
    BY <2>1, <2>3 DEF HmacApps, Exists
  <2>8. "noRoute" \in last.seen =>
            W003(report.conf, report.row, report.db) \/ report.conf.rp = "falsy"
    BY <2>5, <2>6 DEF Evidence, W003
  <2> QED
    BY <2>5, <2>6, <2>7, <2>8 DEF Evidence, E001, W007, E004
<1> QED
  BY <1>1, Invariance, PTL

\* What opens the provider was reported whatever the state of the database.
THEOREM GatesForetold == Spec => []GateForetold
<1>1. IInv => GateForetold
  <2> SUFFICES ASSUME IInv, Checked(last.by)
               PROVE  /\ "ungated" \in last.seen => E003(report.conf)
                      /\ "bare" \in last.seen => E005(report.conf) \/ report.conf.pkce = "callable"
                      /\ "selfRegistered" \in last.seen => W008(report.conf)
                      /\ "masked" \in last.seen => W001(report.conf)
                      /\ "opaque" \in last.seen /\ row[last.app].format = "" => W002(report.conf)
    BY DEF GateForetold
  <2>1. Evidence(last.seen, report.conf, row[last.app])
    BY DEF IInv, Checked
  <2> QED
    BY <2>1 DEF Evidence, E003, E005, W008, W001, W002
<1> QED
  BY <1>1, Invariance, PTL

\* Clear text and private targets in production were reported, and an
\* unacknowledged private target as an error.
THEOREM ExposuresForetold == Spec => []ExposureForetold
<1>1. IInv => ExposureForetold
  <2> DEFINE s == report.conf
             t == report.row
             a == last.app
  <2> SUFFICES ASSUME IInv, Checked(last.by)
               PROVE  /\ "cleartext" \in last.seen /\ report.db /\ row[a] = t[a] /\ row[a].active
                            => W004(s, t, report.db)
                      /\ "private" \in last.seen => W005(s, t, report.db) \/ E006(s, t, report.db)
                      /\ "private" \in last.seen /\ report.db /\ HasUri(t, a)
                            => s.acked \/ E006(s, t, report.db)
    BY DEF ExposureForetold
  <2>1. Evidence(last.seen, s, row[a]) /\ a \in Apps
    BY DEF IInv, Checked, TypeOK
  <2>2. "cleartext" \in last.seen /\ row[a] = t[a] /\ row[a].active => HttpApps(t) # {}
    BY <2>1 DEF Evidence, HttpApps, HasUri, Exists
  <2>3. HasUri(t, a) => BclApps(t) # {}
    BY <2>1 DEF BclApps
  <2> QED
    BY <2>1, <2>2, <2>3 DEF Evidence, W004, W005, E006, AnyBclUriRegistered
<1> QED
  BY <1>1, Invariance, PTL

\* No check has anything to say.
AllClear(s, t, db) ==
    /\ ~E001(s, t, db) /\ ~E002(s) /\ ~E003(s) /\ ~E004(s) /\ ~E005(s) /\ ~E006(s, t, db)
    /\ ~W001(s) /\ ~W002(s) /\ ~W003(s, t, db) /\ ~W004(s, t, db) /\ ~W005(s, t, db)
    /\ ~W007(t, db) /\ ~W008(s)

\* What a process may still do wrong with an application, under settings and
\* with a row for which the checks were clear: all that they cannot judge.
\* The settings object may not be buildable, the format may be pinned on the
\* row, a callable may decide on PKCE, RP-initiated logout may be None or 0,
\* and the row may be inactive.
Unjudged(s, r) ==
    {"snapshot"} \cup (IF r.format # "" THEN {"opaque"} ELSE {})
                 \cup (IF s.pkce = "callable" THEN {"bare"} ELSE {})
                 \cup (IF s.rp = "falsy" THEN {"noRoute"} ELSE {})
                 \cup (IF ~r.active THEN {"cleartext"} ELSE {})

CleanBill ==
    Checked(last.by) /\ report.db /\ Exists(row, last.app)
    /\ row[last.app] = report.row[last.app]
    /\ AllClear(report.conf, report.row, report.db)
        => last.seen \subseteq Unjudged(report.conf, row[last.app])

\* The three promises together: of the twelve harms only the five that no
\* check looks at can befall a deployment whose report was empty.
THEOREM CleanBillOfHealth == Spec => []CleanBill
<1>1. TypeOK /\ FailureForetold /\ GateForetold /\ ExposureForetold => CleanBill
  <2> DEFINE s == report.conf
             t == report.row
             a == last.app
  <2> SUFFICES ASSUME TypeOK, FailureForetold, GateForetold, ExposureForetold,
                      Checked(last.by), report.db, Exists(row, a), row[a] = t[a],
                      AllClear(s, t, report.db)
               PROVE  last.seen \subseteq Unjudged(s, row[a])
    BY DEF CleanBill
  <2>1. SameButActive(a)
    BY DEF SameButActive, Exists
  <2>2. /\ "noIssuer" \notin last.seen /\ "unsigned" \notin last.seen
        /\ "noIdToken" \notin last.seen /\ ("noRoute" \in last.seen => s.rp = "falsy")
    BY <2>1 DEF FailureForetold, AllClear
  <2>3. /\ "ungated" \notin last.seen /\ "selfRegistered" \notin last.seen
        /\ "masked" \notin last.seen /\ ("bare" \in last.seen => s.pkce = "callable")
        /\ ("opaque" \in last.seen => row[a].format # "")
    BY DEF GateForetold, AllClear
  <2>4. "private" \notin last.seen /\ ("cleartext" \in last.seen => ~row[a].active)
    BY DEF ExposureForetold, AllClear
  <2>5. last.seen \subseteq Harms
    BY DEF TypeOK
  <2> QED
    BY <2>2, <2>3, <2>4, <2>5 DEF Harms, Unjudged
<1> QED
  BY <1>1, TypeCorrect, FailuresForetold, GatesForetold, ExposuresForetold, PTL
=============================================================================
