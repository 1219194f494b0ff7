------------------------ MODULE AuthorizeFlowProofs ------------------------
(***************************************************************************)
(* Theorems about AuthorizeFlow for every set of flows, every set of       *)
(* requests, every max_age and however long the user takes.                *)
(***************************************************************************)
EXTENDS AuthorizeFlow, TLAPS

Types ==
    /\ at \in [Flows -> {"closed", "sending", "login", "consent"} \cup Ends]
    /\ asked \in [Flows -> Params] /\ params \in [Flows -> Params]
    /\ session \in BOOLEAN
    /\ clock \in 0..MaxClock
    /\ loginAt \in Nat \cup {NoLogin}
    /\ gate \in {"allowed", "denied", "unusable"}
    /\ trusted \in BOOLEAN /\ covered \in BOOLEAN
    /\ fresh \subseteq Flows /\ approved \subseteq Flows /\ cancelled \subseteq Flows

\* The URL of a tab asks for no more than the relying party did.
UrlTells(f) ==
    /\ at[f] = "closed" => asked[f] = Blank
    /\ params[f].prompt \subseteq asked[f].prompt
    /\ "none" \in asked[f].prompt => asked[f].prompt = {"none"}
    /\ at[f] = "consent" => params[f].prompt \subseteq {"consent"}

\* Once prompt=login has left the URL, the session is gone or newer than the
\* request; what the form and the code were given to is newer.
LoginTells(f) == "login" \in asked[f].prompt /\ f \notin fresh =>
    /\ "login" \in params[f].prompt \/ ~session
    /\ at[f] \notin {"consent", "code"}

\* Only Cancel drops max_age and prompt=consent.
UncancelledTells(f) == f \notin cancelled =>
    /\ params[f].cap = asked[f].cap
    /\ "consent" \in asked[f].prompt => "consent" \in params[f].prompt
    /\ at[f] = "code" /\ "consent" \in asked[f].prompt => f \in approved

IInv ==
    /\ Types
    /\ \A f \in Flows : UrlTells(f) /\ LoginTells(f) /\ UncancelledTells(f)

-----------------------------------------------------------------------------
\* The view touches one tab and never starts a session.
LEMMA DispatchFrame ==
    ASSUME Types, NEW f \in Flows, NEW p \in Params, NEW submitted \in BOOLEAN,
           Dispatch(f, p, submitted)
    PROVE  /\ at' = [at EXCEPT ![f] = at'[f]]
           /\ at'[f] \in {"login", "consent"} \cup Ends
           /\ params' = [params EXCEPT ![f] = params'[f]]
           /\ session' \in {session, FALSE}
<1>1. CASE HandleNoPermission(f, p)
  BY <1>1 DEF HandleNoPermission, End, ToLogin, Types, Ends
<1>2. CASE RejectRequestObject(f, p)
  BY <1>2 DEF RejectRequestObject, End, Types, Ends
<1>3. CASE EnforceReauth(f, p)
  BY <1>3 DEF EnforceReauth, ToLogin, Types, Ends
<1>4. CASE Decide(f, p, submitted)
  BY <1>4 DEF Decide, Authorize, End, Types, Ends
<1> QED
  BY <1>1, <1>2, <1>3, <1>4 DEF Dispatch

\* A login redirect loses prompt=login only, and then the session ends.
LEMMA DispatchToLogin ==
    ASSUME Types, NEW f \in Flows, NEW p \in Params, NEW submitted \in BOOLEAN,
           Dispatch(f, p, submitted), at'[f] = "login"
    PROVE  /\ params'[f] \in Params
           /\ params'[f].cap = p.cap
           /\ params'[f].prompt \subseteq p.prompt
           /\ "consent" \in p.prompt => "consent" \in params'[f].prompt
           /\ ~session'
<1>1. CASE HandleNoPermission(f, p)
  BY <1>1 DEF HandleNoPermission, End, ToLogin, Types, Params
<1>2. CASE RejectRequestObject(f, p)
  BY <1>2 DEF RejectRequestObject, End, Types
<1>3. CASE EnforceReauth(f, p)
  <2>1. params'[f] = ReauthNext(p) /\ ~session'
    BY <1>3 DEF EnforceReauth, ToLogin, Types
  <2> QED
    BY <2>1 DEF ReauthNext, Params
<1>4. CASE Decide(f, p, submitted)
  BY <1>4 DEF Decide, Authorize, End, Types
<1> QED
  BY <1>1, <1>2, <1>3, <1>4 DEF Dispatch

\* Anything else leaves the URL, and a form or a code needs a session, a login
\* young enough and the policy's consent.
LEMMA DispatchAnswer ==
    ASSUME Types, NEW f \in Flows, NEW p \in Params, NEW submitted \in BOOLEAN,
           Dispatch(f, p, submitted), at'[f] # "login"
    PROVE  /\ params' = params
           /\ at'[f] \in {"consent", "code"} =>
                session /\ ~NeedsLogin(p) /\ gate = "allowed"
           /\ at'[f] = "consent" => ~submitted /\ "none" \notin p.prompt
           /\ at'[f] = "code" =>
                \/ submitted
                \/ "consent" \notin p.prompt
                \/ "none" \in p.prompt
<1>1. CASE HandleNoPermission(f, p)
  BY <1>1 DEF HandleNoPermission, End, ToLogin, Types
<1>2. CASE RejectRequestObject(f, p)
  BY <1>2 DEF RejectRequestObject, End, Types
<1>3. CASE EnforceReauth(f, p)
  BY <1>3 DEF EnforceReauth, ToLogin, Types
<1>4. CASE Decide(f, p, submitted)
  BY <1>4 DEF Decide, Authorize, AutoApproved, End, Types
<1> QED
  BY <1>1, <1>2, <1>3, <1>4 DEF Dispatch

\* A request that needs no login does not carry prompt=login.
LEMMA NoLoginPrompt ==
    ASSUME NEW p \in Params, ~NeedsLogin(p)
    PROVE  "login" \notin p.prompt /\ ~MaxAgeExpired(p)
BY DEF NeedsLogin

-----------------------------------------------------------------------------
\* Steps of the view keep the types.
LEMMA DispatchTypes ==
    ASSUME Types, NEW f \in Flows, NEW p \in Params, NEW submitted \in BOOLEAN,
           Dispatch(f, p, submitted)
    PROVE  /\ at' \in [Flows -> {"closed", "sending", "login", "consent"} \cup Ends]
           /\ params' \in [Flows -> Params]
           /\ session' \in BOOLEAN
<1>1. at' = [at EXCEPT ![f] = at'[f]] /\ at'[f] \in {"login", "consent"} \cup Ends
      /\ params' = [params EXCEPT ![f] = params'[f]] /\ session' \in {session, FALSE}
  BY DispatchFrame
<1>2. CASE at'[f] = "login"
  <2>1. params'[f] \in Params
    BY <1>2, DispatchToLogin
  <2> QED
    BY <1>1, <2>1 DEF Types
<1>3. CASE at'[f] # "login"
  <2>1. params' = params
    BY <1>3, DispatchAnswer
  <2> QED
    BY <1>1, <2>1 DEF Types
<1> QED
  BY <1>2, <1>3

\* The parameters of a Cancel are parameters.
LEMMA BlankParams == Blank \in Params
BY DEF Blank, Params

\* A flow that a step of the view does not answer keeps what is true of it: a
\* session can only end.
LEMMA Bystander ==
    ASSUME Types, NEW f \in Flows, NEW g \in Flows, f # g,
           NEW p \in Params, NEW submitted \in BOOLEAN, Dispatch(f, p, submitted),
           UrlTells(g), LoginTells(g), UncancelledTells(g),
           asked' = asked, fresh' = fresh,
           g \in cancelled => g \in cancelled', g \in cancelled' => g \in cancelled,
           g \in approved => g \in approved'
    PROVE  UrlTells(g)' /\ LoginTells(g)' /\ UncancelledTells(g)'
<1>0. at' = [at EXCEPT ![f] = at'[f]] /\ params' = [params EXCEPT ![f] = params'[f]]
      /\ session' \in {session, FALSE}
  BY DispatchFrame
<1>1. at'[g] = at[g] /\ params'[g] = params[g]
  BY <1>0 DEF Types
<1>2. session' = session \/ session' = FALSE
  BY <1>0
<1> QED
  BY <1>1, <1>2 DEF UrlTells, LoginTells, UncancelledTells

-----------------------------------------------------------------------------
\* It holds of closed tabs.
LEMMA InitInv == Init => IInv
<1> SUFFICES ASSUME Init PROVE IInv
  OBVIOUS
<1>1. Blank \in Params
  BY BlankParams
<1>2. Types
  BY <1>1, RequestsAssumption DEF Init, Types
<1> QED
  BY <1>2 DEF Init, IInv, UrlTells, LoginTells, UncancelledTells, Blank

\* A new flow's URL asks what the relying party did.
LEMMA OpenInv ==
    ASSUME IInv, NEW f \in Flows, Open(f) PROVE IInv'
<1>1. PICK r \in Requests : asked' = [asked EXCEPT ![f] = r] /\ params' = [params EXCEPT ![f] = r]
  BY DEF Open
<1>2. r \in Params /\ ("none" \in r.prompt => r.prompt = {"none"})
  BY RequestsAssumption
<1>3. at' = [at EXCEPT ![f] = "sending"]
      /\ UNCHANGED <<session, loginAt, clock, gate, trusted, covered, fresh, approved, cancelled>>
  BY DEF Open, userVars, appVars, toldVars
<1>4. Types'
  BY <1>1, <1>2, <1>3 DEF IInv, Types
<1>5. ASSUME NEW g \in Flows PROVE (UrlTells(g) /\ LoginTells(g) /\ UncancelledTells(g))'
  BY <1>1, <1>2, <1>3, <1>5 DEF IInv, Types, UrlTells, LoginTells, UncancelledTells
<1> QED
  BY <1>4, <1>5 DEF IInv

\* A GET strips prompt=login only where it ends the session.
LEMMA GetInv ==
    ASSUME IInv, NEW f \in Flows, Get(f) PROVE IInv'
<1>1. at[f] = "sending" /\ Dispatch(f, params[f], FALSE) /\ params[f] \in Params /\ Types
      /\ UNCHANGED <<asked, loginAt, clock, gate, trusted, covered, fresh, approved, cancelled>>
  BY DEF Get, IInv, Types, appVars, toldVars
<1>2. Types'
  BY <1>1, DispatchTypes DEF Types
<1>3. UrlTells(f) /\ LoginTells(f) /\ UncancelledTells(f)
  BY DEF IInv
<1>4. UrlTells(f)' /\ LoginTells(f)' /\ UncancelledTells(f)'
  <2>1. at'[f] \in {"login", "consent"} \cup Ends
    BY <1>1, DispatchFrame
  <2>2. CASE at'[f] = "login"
    <3>1. /\ params'[f].cap = params[f].cap /\ params'[f].prompt \subseteq params[f].prompt
          /\ "consent" \in params[f].prompt => "consent" \in params'[f].prompt
          /\ ~session'
      BY <1>1, <2>2, DispatchToLogin
    <3> QED
      BY <1>1, <1>3, <2>2, <3>1 DEF UrlTells, LoginTells, UncancelledTells
  <2>3. CASE at'[f] # "login"
    <3>1. /\ params' = params
          /\ at'[f] \in {"consent", "code"} => session /\ "login" \notin params[f].prompt
          /\ at'[f] = "consent" => "none" \notin params[f].prompt
          /\ at'[f] = "code" => "consent" \notin params[f].prompt \/ "none" \in params[f].prompt
      BY <1>1, <2>3, DispatchAnswer, NoLoginPrompt
    <3>2. session' => session
      BY <1>1, DispatchFrame
    <3>3. params[f].prompt \subseteq {"login", "consent", "none"}
      BY <1>1 DEF Params
    <3> QED
      BY <1>1, <1>3, <2>1, <2>3, <3>1, <3>2, <3>3
      DEF UrlTells, LoginTells, UncancelledTells, Ends
  <2> QED
    BY <2>2, <2>3
<1>5. ASSUME NEW g \in Flows, g # f PROVE UrlTells(g)' /\ LoginTells(g)' /\ UncancelledTells(g)'
  BY <1>1, <1>5, Bystander DEF IInv
<1> QED
  BY <1>2, <1>4, <1>5 DEF IInv

\* Authorize is pressed at a form that needed no login.
LEMMA AllowInv ==
    ASSUME IInv, NEW f \in Flows, Allow(f) PROVE IInv'
<1>1. at[f] = "consent" /\ Dispatch(f, params[f], TRUE) /\ params[f] \in Params /\ Types
      /\ approved' = approved \cup {f}
      /\ UNCHANGED <<asked, loginAt, clock, gate, trusted, covered, fresh, cancelled>>
  BY DEF Allow, IInv, Types, appVars
<1>2. Types'
  BY <1>1, DispatchTypes DEF Types
<1>3. UrlTells(f) /\ LoginTells(f) /\ UncancelledTells(f)
  BY DEF IInv
<1>4. UrlTells(f)' /\ LoginTells(f)' /\ UncancelledTells(f)'
  <2>1. at'[f] \in {"login", "consent"} \cup Ends
    BY <1>1, DispatchFrame
  <2>2. CASE at'[f] = "login"
    <3>1. /\ params'[f].cap = params[f].cap /\ params'[f].prompt \subseteq params[f].prompt
          /\ "consent" \in params[f].prompt => "consent" \in params'[f].prompt
          /\ ~session'
      BY <1>1, <2>2, DispatchToLogin
    <3> QED
      BY <1>1, <1>3, <2>2, <3>1 DEF UrlTells, LoginTells, UncancelledTells
  <2>3. CASE at'[f] # "login"
    <3>1. params' = params /\ at'[f] # "consent"
      BY <1>1, <2>3, DispatchAnswer
    <3> QED
      BY <1>1, <1>3, <2>1, <2>3, <3>1
      DEF UrlTells, LoginTells, UncancelledTells, Ends
  <2> QED
    BY <2>2, <2>3
<1>5. ASSUME NEW g \in Flows, g # f PROVE UrlTells(g)' /\ LoginTells(g)' /\ UncancelledTells(g)'
  BY <1>1, <1>5, Bystander DEF IInv
<1> QED
  BY <1>2, <1>4, <1>5 DEF IInv

\* Cancel drops the parameters, and is exempt for it.
LEMMA CancelInv ==
    ASSUME IInv, NEW f \in Flows, Cancel(f) PROVE IInv'
<1>1. at[f] = "consent" /\ Dispatch(f, Blank, FALSE) /\ Types
      /\ cancelled' = cancelled \cup {f}
      /\ UNCHANGED <<asked, loginAt, clock, gate, trusted, covered, fresh, approved>>
  BY DEF Cancel, IInv, appVars
<1>2. Types'
  BY <1>1, BlankParams, DispatchTypes DEF Types
<1>3. UrlTells(f) /\ LoginTells(f)
  BY DEF IInv
<1>4. UrlTells(f)' /\ LoginTells(f)' /\ UncancelledTells(f)'
  <2>1. at'[f] \in {"login", "consent"} \cup Ends
    BY <1>1, BlankParams, DispatchFrame
  <2>2. CASE at'[f] = "login"
    <3>1. params'[f].prompt \subseteq {}
      BY <1>1, <2>2, BlankParams, DispatchToLogin DEF Blank
    <3> QED
      BY <1>1, <1>3, <2>2, <3>1 DEF UrlTells, LoginTells, UncancelledTells
  <2>3. CASE at'[f] # "login"
    <3>1. params' = params
      BY <1>1, <2>3, BlankParams, DispatchAnswer
    <3> QED
      BY <1>1, <1>3, <2>1, <2>3, <3>1
      DEF UrlTells, LoginTells, UncancelledTells, Ends
  <2> QED
    BY <2>2, <2>3
<1>5. ASSUME NEW g \in Flows, g # f PROVE UrlTells(g)' /\ LoginTells(g)' /\ UncancelledTells(g)'
  BY <1>1, <1>5, BlankParams, Bystander DEF IInv
<1> QED
  BY <1>2, <1>4, <1>5 DEF IInv

\* A login is fresh for every flow that is open.
LEMMA LoginInv ==
    ASSUME IInv, NEW f \in Flows, Login(f) PROVE IInv'
<1>1. Types'
  BY DEF IInv, Types, Login, appVars
<1>2. ASSUME NEW g \in Flows PROVE (UrlTells(g) /\ LoginTells(g) /\ UncancelledTells(g))'
  <2>1. UrlTells(g) /\ LoginTells(g) /\ UncancelledTells(g)
    BY DEF IInv
  <2>2. at'[g] = at[g] \/ (at[g] = "login" /\ at'[g] = "sending")
    BY DEF IInv, Types, Login
  <2>3. "login" \in asked[g].prompt => g \in fresh'
    BY <2>1 DEF UrlTells, Login, Blank
  <2> QED
    BY <2>1, <2>2, <2>3 DEF Login, UrlTells, LoginTells, UncancelledTells
<1> QED
  BY <1>1, <1>2 DEF IInv

\* The user's and the operators' other steps.
LEMMA OtherInv ==
    ASSUME IInv, (\E f \in Flows : Revisit(f)) \/ Tick \/ ChangeGate \/ ToggleCovered
    PROVE  IInv'
<1>1. /\ UNCHANGED <<asked, params, fresh, approved, cancelled>>
      /\ session' => session
      /\ Types'
      /\ \A g \in Flows : at'[g] = at[g] \/ (at[g] = "login" /\ at'[g] = "sending")
  <2>1. CASE \E f \in Flows : Revisit(f)
    BY <2>1 DEF Revisit, IInv, Types, userVars, appVars, toldVars
  <2>2. CASE Tick
    <3>1. clock' \in 0..MaxClock
      BY <2>2, RequestsAssumption DEF Tick, IInv, Types
    <3>2. session' = session \/ session' = FALSE
      BY <2>2 DEF Tick
    <3>3. UNCHANGED <<at, asked, params, loginAt, gate, trusted, covered, fresh, approved, cancelled>>
      BY <2>2 DEF Tick, tabVars, appVars, toldVars
    <3>4. session' => session
      BY <3>2, Zenon
    <3>5. session' \in BOOLEAN
      <4>1. session \in BOOLEAN
        BY DEF IInv, Types
      <4> QED
        BY <3>2, <4>1, Zenon
    <3>6. Types'
      BY <3>1, <3>3, <3>5 DEF IInv, Types
    <3> QED
      BY <3>3, <3>4, <3>6
  <2>3. CASE ChangeGate
    BY <2>3 DEF ChangeGate, IInv, Types, tabVars, userVars, toldVars
  <2>4. CASE ToggleCovered
    BY <2>4 DEF ToggleCovered, IInv, Types, tabVars, userVars, toldVars
  <2> QED
    BY <2>1, <2>2, <2>3, <2>4
<1> QED
  BY <1>1 DEF IInv, UrlTells, LoginTells, UncancelledTells

\* Every step keeps the invariant.
LEMMA NextInv == IInv /\ [Next]_vars => IInv'
<1> SUFFICES ASSUME IInv, [Next]_vars PROVE IInv'
  OBVIOUS
<1>1. CASE Next
  BY <1>1, OpenInv, GetInv, AllowInv, CancelInv, LoginInv, OtherInv DEF Next
<1>2. CASE UNCHANGED vars
  BY <1>2 DEF vars, tabVars, userVars, appVars, toldVars, IInv, Types, UrlTells,
              LoginTells, UncancelledTells
<1> QED
  BY <1>1, <1>2

\* The inductive invariant: what a tab's URL still asks, and what has been done
\* for what it no longer asks.
THEOREM Invariance == Spec => []IInv
<1> QED
  BY InitInv, NextInv, PTL DEF Spec

-----------------------------------------------------------------------------
\* Types, and forms only where a page may be shown.
THEOREM TypeCorrect == Spec => []TypeOK
<1>1. IInv => TypeOK
  BY DEF IInv, Types, TypeOK, UrlTells
<1> QED
  BY <1>1, Invariance, PTL

\* prompt=login: a code follows a login made since the request was opened.
THEOREM LoginsFresh == Spec => []FreshLogin
<1>1. IInv => FreshLogin
  BY DEF IInv, LoginTells, FreshLogin
<1> QED
  BY <1>1, Invariance, PTL

\* prompt=consent: a code needs Authorize, unless Cancel was pressed.
THEOREM ConsentsGiven == Spec => []ConsentGiven
<1>1. IInv => ConsentGiven
  BY DEF IInv, UncancelledTells, ConsentGiven
<1> QED
  BY <1>1, Invariance, PTL

\* A flow that gets its code is the one the step serves.
LEMMA GrantedBy ==
    ASSUME IInv, Next, NEW f \in Flows, Granted(f)
    PROVE  /\ session /\ gate = "allowed"
           /\ f \notin cancelled' => ~MaxAgeExpired(params[f])
<1>1. ASSUME NEW g \in Flows, NEW p \in Params, NEW submitted \in BOOLEAN,
             Dispatch(g, p, submitted)
      PROVE  f = g /\ session /\ ~MaxAgeExpired(p) /\ gate = "allowed"
  <2>0. Types
    BY DEF IInv
  <2>2. at' = [at EXCEPT ![g] = at'[g]]
    BY <1>1, <2>0, DispatchFrame
  <2>1. f = g
    BY <2>0, <2>2 DEF Granted, Types
  <2> QED
    BY <1>1, <2>1, DispatchAnswer, NoLoginPrompt DEF Granted, IInv
<1>2. PICK g \in Flows : Get(g) \/ Allow(g) \/ Cancel(g)
  BY DEF Next, Open, Login, Revisit, Tick, ChangeGate, ToggleCovered, Granted, IInv, Types,
         tabVars
<1>3. CASE Get(g) \/ Allow(g)
  <2>1. params[g] \in Params
    BY DEF IInv, Types
  <2> QED
    BY <1>1, <1>3, <2>1 DEF Get, Allow
<1>4. CASE Cancel(g)
  <2>1. f = g /\ session /\ gate = "allowed"
    BY <1>1, <1>4, BlankParams DEF Cancel
  <2> QED
    BY <1>4, <2>1 DEF Cancel
<1> QED
  BY <1>2, <1>3, <1>4

\* The verdict at the granting request is "allowed".
THEOREM GrantsAllowed == Spec => GrantedWhileAllowed
<1> DEFINE Due == \A f \in Flows : Granted(f) => gate = "allowed"
<1>1. IInv /\ [Next]_vars => [Due]_vars
  BY GrantedBy
<1> QED
  BY <1>1, Invariance, PTL DEF Spec, GrantedWhileAllowed

\* Without a press of Authorize only a trusted application, or one whose tokens
\* cover the scopes, gets a code: CancelDenies fails in no other way.
THEOREM UnapprovedGrants == Spec => UnapprovedGrantsAutomatic
<1> DEFINE Automatic == \A f \in Flows :
              Granted(f) /\ f \notin approved' => trusted \/ covered
<1>1. IInv /\ [Next]_vars => [Automatic]_vars
  <2> SUFFICES ASSUME IInv, Next, NEW f \in Flows, Granted(f), f \notin approved'
               PROVE  trusted \/ covered
    OBVIOUS
  <2>1. Types
    BY DEF IInv
  <2>2. ASSUME NEW g \in Flows, NEW p \in Params, NEW submitted \in BOOLEAN,
               Dispatch(g, p, submitted)
        PROVE  f = g /\ (submitted \/ trusted \/ covered)
    <3>1. at' = [at EXCEPT ![g] = at'[g]]
      BY <2>1, <2>2, DispatchFrame
    <3>2. f = g
      BY <2>1, <3>1 DEF Granted, Types
    <3>3. at'[g] = "code"
      BY <3>2 DEF Granted
    <3> QED
      BY <2>1, <2>2, <3>2, <3>3
      DEF Dispatch, HandleNoPermission, RejectRequestObject, EnforceReauth, Decide,
          Authorize, AutoApproved, End, ToLogin, Types
  <2>3. PICK g \in Flows : Get(g) \/ Allow(g) \/ Cancel(g)
    BY <2>1 DEF Next, Open, Login, Revisit, Tick, ChangeGate, ToggleCovered, Granted,
                Types, tabVars
  <2>4. params[g] \in Params
    BY <2>1 DEF Types
  <2>5. CASE Allow(g)
    <3>1. f = g
      BY <2>2, <2>4, <2>5 DEF Allow
    <3> QED
      BY <2>5, <3>1 DEF Allow
  <2> QED
    BY <2>2, <2>3, <2>4, <2>5, BlankParams DEF Get, Cancel
<1> QED
  BY <1>1, Invariance, PTL DEF Spec, UnapprovedGrantsAutomatic

\* The login behind a code is younger than the max_age asked for.
THEOREM MaxAgesHonoured == Spec => MaxAgeHonoured
<1> DEFINE Young == \A f \in Flows :
              Granted(f) /\ asked[f].cap # NoCap /\ f \notin cancelled' =>
                  session /\ loginAt # NoLogin /\ clock - loginAt < asked[f].cap
<1>1. IInv /\ [Next]_vars => [Young]_vars
  <2> SUFFICES ASSUME IInv, Next, NEW f \in Flows,
                      Granted(f), asked[f].cap # NoCap, f \notin cancelled'
               PROVE  session /\ loginAt # NoLogin /\ clock - loginAt < asked[f].cap
    OBVIOUS
  <2>1. session /\ ~MaxAgeExpired(params[f])
    BY GrantedBy
  <2>2. f \notin cancelled
    BY DEF Next, Open, Get, Allow, Cancel, Login, Revisit, Tick, ChangeGate, ToggleCovered, toldVars
  <2>3. params[f].cap = asked[f].cap
    BY <2>2 DEF IInv, UncancelledTells
  <2>4. clock \in Nat /\ loginAt \in Nat \cup {NoLogin}
    BY RequestsAssumption DEF IInv, Types
  <2>5. asked[f] \in Params
    BY DEF IInv, Types
  <2>6. asked[f].cap \in Nat
    BY <2>5, RequestsAssumption DEF Params
  <2> QED
    BY <2>1, <2>3, <2>4, <2>6 DEF MaxAgeExpired
<1> QED
  BY <1>1, Invariance, PTL DEF Spec, MaxAgeHonoured

\* A request object is refused and the session kept.
THEOREM RejectionsKeepSession == Spec => RejectionKeepsSession
<1> DEFINE Kept == \A f \in Flows :
              at[f] = "sending" /\ session /\ Rejected(params[f]) /\ at'[f] # "sending" =>
                  session' /\ at'[f] = "refused"
<1>1. IInv /\ [Next]_vars => [Kept]_vars
  <2> SUFFICES ASSUME IInv, Next, NEW f \in Flows, at[f] = "sending", session,
                      Rejected(params[f]), at'[f] # "sending"
               PROVE  session' /\ at'[f] = "refused"
    OBVIOUS
  <2>1. Types
    BY DEF IInv
  <2>2. ASSUME NEW g \in Flows, NEW p \in Params, NEW submitted \in BOOLEAN,
               Dispatch(g, p, submitted)
        PROVE  f = g
    <3>1. at' = [at EXCEPT ![g] = at'[g]]
      BY <2>1, <2>2, DispatchFrame
    <3> QED
      BY <2>1, <3>1 DEF Types
  <2>3. PICK g \in Flows : Get(g) \/ Allow(g) \/ Cancel(g)
    BY <2>1 DEF Next, Open, Login, Revisit, Tick, ChangeGate, ToggleCovered, Types, tabVars
  <2>4. params[g] \in Params
    BY <2>1 DEF Types
  <2>5. f = g
    BY <2>2, <2>3, <2>4, BlankParams DEF Get, Allow, Cancel
  <2>6. Dispatch(f, params[f], FALSE)
    BY <2>3, <2>5 DEF Get, Allow, Cancel
  <2>7. RejectRequestObject(f, params[f])
    BY <2>6 DEF Dispatch, HandleNoPermission, EnforceReauth, Decide
  <2> QED
    BY <2>1, <2>7 DEF RejectRequestObject, End, Types
<1> QED
  BY <1>1, Invariance, PTL DEF Spec, RejectionKeepsSession
-----------------------------------------------------------------------------
(* AuthorizeFlow implements AuthorizePromise.                                *)

\* A dispatch answers its own flow or leaves it open, and pays no demand but
\* the decision on the form.
LEMMA TurnMaps ==
    ASSUME IInv, IInv', Next, NEW f \in Flows, Get(f) \/ Allow(f) \/ Cancel(f)
    PROVE  Promise!Turn(f)
<1>0. Types
  BY DEF IInv
<1>1. PICK p \in Params, submitted \in BOOLEAN : Dispatch(f, p, submitted)
  <2>1. params[f] \in Params
    BY <1>0 DEF Types
  <2> QED
    BY <2>1, BlankParams DEF Get, Allow, Cancel
<1>2. /\ at \in [Flows -> {"closed", "sending", "login", "consent"} \cup Ends]
      /\ at' = [at EXCEPT ![f] = at'[f]]
      /\ at'[f] \in {"login", "consent"} \cup Ends
      /\ at[f] \in {"sending", "consent"}
      /\ UNCHANGED gate
  <2>1. at \in [Flows -> {"closed", "sending", "login", "consent"} \cup Ends]
    BY <1>0 DEF Types
  <2>2. at[f] \in {"sending", "consent"} /\ UNCHANGED gate
    BY DEF Get, Allow, Cancel, appVars
  <2> QED
    BY <1>0, <1>1, <2>1, <2>2, DispatchFrame
<1>3. replyOf[f] = "open"
  BY <1>2 DEF replyOf, ReplyOf, Ends
<1>4. replyOf' = [replyOf EXCEPT ![f] = ReplyOf(at'[f])]
  BY <1>2 DEF replyOf
<1>5. owedOf' = owedOf \/ Promise!Press(f)
  <2>1. CASE Get(f)
    BY <2>1 DEF Get, toldVars, owedOf
  <2>2. CASE Allow(f) \/ Cancel(f)
    <3>1. UNCHANGED <<asked, fresh>> /\ approved' \cup cancelled' = approved \cup cancelled \cup {f}
      BY <2>2 DEF Allow, Cancel
    <3>2. ASSUME NEW g \in Flows
          PROVE  owedOf'[g] = IF g = f THEN owedOf[g] \ {"consent"} ELSE owedOf[g]
      BY <3>1 DEF owedOf
    <3> QED
      BY <3>2 DEF owedOf, Promise!Press
  <2> QED
    BY <2>1, <2>2
<1>6. UNCHANGED replyOf \/ \E what \in Ends : Promise!Answer(f, what)
  <2>1. CASE at'[f] \notin Ends
    <3>1. ReplyOf(at'[f]) = "open"
      BY <1>2, <2>1 DEF ReplyOf
    <3> QED
      BY <1>3, <1>4, <3>1 DEF replyOf
  <2>2. CASE at'[f] \in Ends
    <3>1. ReplyOf(at'[f]) = at'[f]
      BY <2>2 DEF ReplyOf, Ends
    <3>2. at'[f] = "code" => owedOf'[f] = {}
      BY DEF IInv, LoginTells, UncancelledTells, owedOf
    <3>3. at'[f] = "code" => gate = "allowed"
      BY <1>2, GrantedBy DEF Granted
    <3> QED
      BY <1>4, <2>2, <3>1, <3>2, <3>3 DEF Promise!Answer
  <2> QED
    BY <2>1, <2>2
<1> QED
  BY <1>2, <1>3, <1>5, <1>6 DEF Promise!Turn

\* A request is made: what it demands is owed.
LEMMA AskMaps ==
    ASSUME IInv, NEW f \in Flows, Open(f)
    PROVE  Promise!Ask(f)
<1>1. PICK r \in Requests : asked' = [asked EXCEPT ![f] = r]
  BY DEF Open
<1>2. /\ at[f] = "closed" /\ at' = [at EXCEPT ![f] = "sending"]
      /\ UNCHANGED <<gate, fresh, approved, cancelled>>
  BY DEF Open, appVars, toldVars
<1>3. replyOf[f] = "none" /\ replyOf' = [replyOf EXCEPT ![f] = "open"]
  BY <1>2 DEF replyOf, ReplyOf, Ends, IInv, Types
<1>4. owedOf' = [owedOf EXCEPT ![f] = owedOf'[f]]
  BY <1>1, <1>2 DEF owedOf, IInv, Types
<1>5. owedOf'[f] \in SUBSET Promise!Demands
  BY DEF owedOf, Promise!Demands
<1> QED
  BY <1>2, <1>3, <1>4, <1>5 DEF Promise!Ask

\* A login pays for every request made so far.
LEMMA LoginMaps ==
    ASSUME IInv, NEW f \in Flows, Login(f)
    PROVE  Promise!LogIn
<1>1. /\ at[f] = "login" /\ at' = [at EXCEPT ![f] = "sending"]
      /\ fresh' = {g \in Flows : at[g] # "closed"}
      /\ UNCHANGED <<asked, gate, approved, cancelled>>
  BY DEF Login, appVars
<1>2. replyOf' = replyOf
  BY <1>1 DEF replyOf, ReplyOf, Ends, IInv, Types
<1>3. ASSUME NEW g \in Flows PROVE owedOf'[g] = owedOf[g] \ {"login"}
  <2>1. at[g] = "closed" => asked[g].prompt = {}
    BY DEF IInv, UrlTells, Blank
  <2> QED
    BY <1>1, <2>1 DEF owedOf
<1>4. owedOf' = [g \in Flows |-> owedOf[g] \ {"login"}]
  BY <1>3 DEF owedOf
<1> QED
  BY <1>1, <1>2, <1>4 DEF Promise!LogIn

\* Nothing else is seen, but for the verdict.
LEMMA OtherMaps ==
    ASSUME IInv, \/ (\E f \in Flows : Revisit(f)) \/ Tick \/ ChangeGate
                 \/ ToggleCovered \/ UNCHANGED vars
    PROVE  Promise!Reconsider \/ UNCHANGED Promise!vars
<1>1. UNCHANGED <<asked, fresh, approved, cancelled>>
  BY DEF Revisit, Tick, ChangeGate, ToggleCovered, vars, tabVars, toldVars
<1>2. owedOf' = owedOf
  BY <1>1 DEF owedOf
<1>3. ASSUME NEW f \in Flows, Revisit(f) PROVE replyOf' = replyOf
  BY <1>3 DEF Revisit, replyOf, ReplyOf, Ends, IInv, Types
<1>4. replyOf' = replyOf
  BY <1>3 DEF Tick, ChangeGate, ToggleCovered, vars, tabVars, replyOf
<1>5. CASE (gate' = "allowed") <=> (gate = "allowed")
  <2>1. (gate' = "allowed") = (gate = "allowed")
    BY <1>5
  <2> QED
    BY <1>2, <1>4, <2>1 DEF Promise!vars
<1>6. CASE (gate' = "allowed") <=> (gate # "allowed")
  <2>1. (gate' = "allowed") = ~(gate = "allowed")
    BY <1>6
  <2> QED
    BY <1>2, <1>4, <2>1 DEF Promise!Reconsider
<1> QED
  BY <1>5, <1>6

\* Every step is a step, or a stutter, of AuthorizePromise.
LEMMA PromiseStep ==
    IInv /\ IInv' /\ [Next]_vars => [Promise!Next]_(Promise!vars)
<1> SUFFICES ASSUME IInv, IInv', [Next]_vars PROVE [Promise!Next]_(Promise!vars)
  OBVIOUS
<1>1. ASSUME NEW f \in Flows, Next, Get(f) \/ Allow(f) \/ Cancel(f) PROVE Promise!Next
  BY <1>1, TurnMaps DEF Promise!Next
<1>2. ASSUME NEW f \in Flows, Open(f) PROVE Promise!Next
  BY <1>2, AskMaps DEF Promise!Next
<1>3. ASSUME NEW f \in Flows, Login(f) PROVE Promise!Next
  BY <1>3, LoginMaps DEF Promise!Next
<1>4. ASSUME \/ (\E f \in Flows : Revisit(f)) \/ Tick \/ ChangeGate
             \/ ToggleCovered \/ UNCHANGED vars
      PROVE  [Promise!Next]_(Promise!vars)
  BY <1>4, OtherMaps DEF Promise!Next
<1> QED
  BY <1>1, <1>2, <1>3, <1>4 DEF Next

\* The authorize view implements AuthorizePromise: one answer per request, for
\* good, and no code while the user owes a login or a decision or the policy
\* says no.
THEOREM Refinement == Spec => PromiseSpec
<1>1. Init => Promise!Init
  BY DEF Init, Promise!Init, replyOf, ReplyOf, owedOf, Blank
<1>2. IInv /\ IInv' /\ [Next]_vars => [Promise!Next]_(Promise!vars)
  BY PromiseStep
<1> QED
  BY <1>1, <1>2, Invariance, PTL DEF Spec, PromiseSpec, Promise!Spec

=============================================================================
