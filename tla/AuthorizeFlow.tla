--------------------------- MODULE AuthorizeFlow ---------------------------
(***************************************************************************)
(* The authorize view (views_authorize.py): forced login under             *)
(* prompt=login and max_age, the policy gate, prompt=none, and consent.    *)
(*                                                                         *)
(* A flow is one authorize request in a tab of one browser; all tabs share *)
(* its session.  The library's view and its login redirect are modelled    *)
(* from how this view uses them.  Requests have a valid redirect_uri.      *)
(***************************************************************************)
EXTENDS Naturals

CONSTANTS
    Flows,
    Requests,   \* what relying parties may send, a set of Params
    Caps,       \* values of max_age
    MaxClock,   \* bound on the passing of time
    NoCap,      \* no max_age, or a malformed one
    NoLogin     \* last_login is None

\* jar: the request carries a request object (request or request_uri).
Params == [prompt : SUBSET {"login", "consent", "none"},
           cap : Caps \cup {NoCap}, jar : BOOLEAN]

ASSUME RequestsAssumption ==
    /\ Requests \subseteq Params
    /\ Caps \subseteq Nat /\ NoCap \notin Nat /\ NoLogin \notin Nat
    /\ MaxClock \in Nat
    /\ \A r \in Requests : "none" \in r.prompt => r.prompt = {"none"}

VARIABLES
    at,         \* where the tab is
    asked,      \* what the relying party sent
    params,     \* the parameters in the tab's URL
    session,    \* whether the browser is logged in
    loginAt,    \* last_login of its user
    clock,
    gate,       \* the policy's verdict, or "unusable" when application.active is False
    trusted,    \* application.skip_authorization
    covered,    \* a token of the user covers the scopes (approval_prompt=auto)
    fresh,      \* flows with a login since they were opened
    approved, cancelled     \* flows whose user pressed Authorize, Cancel

tabVars == <<at, asked, params>>
userVars == <<session, loginAt, clock>>
appVars == <<gate, trusted, covered>>
toldVars == <<fresh, approved, cancelled>>
vars == <<tabVars, userVars, appVars, toldVars>>

Ends == {"code", "refused", "denied"}
Blank == [prompt |-> {}, cap |-> NoCap, jar |-> FALSE]

\* Types; and a form is only shown for a request that needs no login and may
\* show a page.
TypeOK ==
    /\ at \in [Flows -> {"closed", "sending", "login", "consent"} \cup Ends]
    /\ asked \in [Flows -> Params] /\ params \in [Flows -> Params]
    /\ session \in BOOLEAN
    /\ clock \in 0..MaxClock
    /\ loginAt \in Nat \cup {NoLogin}
    /\ gate \in {"allowed", "denied", "unusable"}
    /\ trusted \in BOOLEAN /\ covered \in BOOLEAN
    /\ fresh \subseteq Flows /\ approved \subseteq Flows /\ cancelled \subseteq Flows
    /\ \A f \in Flows : at[f] = "consent" => params[f].prompt \subseteq {"consent"}

Init ==
    /\ at = [f \in Flows |-> "closed"]
    /\ asked = [f \in Flows |-> Blank] /\ params = [f \in Flows |-> Blank]
    /\ session \in BOOLEAN
    /\ loginAt \in {0, NoLogin}
    /\ clock = 0
    /\ gate = "allowed"
    /\ trusted \in BOOLEAN /\ covered \in BOOLEAN
    /\ fresh = {} /\ approved = {} /\ cancelled = {}

-----------------------------------------------------------------------------
\* _max_age_expired: elapsed > max_age, where some time always passes between
\* a login and the next request, so that the elapsed seconds exceed their
\* whole part.
MaxAgeExpired(p) ==
    /\ p.cap # NoCap
    /\ loginAt # NoLogin => clock - loginAt >= p.cap

NeedsLogin(p) == "login" \in p.prompt \/ MaxAgeExpired(p)

\* Mutants: prompt=login kept in the next URL; max_age dropped from it.
NextUnstripped(p) == p
NextUncapped(p) == [p EXCEPT !.prompt = @ \ {"login"}, !.cap = NoCap]

\* _reauth_next_url: max_age stays, prompt=login goes.
ReauthNext(p) == [p EXCEPT !.prompt = @ \ {"login"}]

\* _reject_unsupported_request_object finds an application to answer to.
Rejected(p) == p.jar /\ gate # "unusable"

End(f, what) ==
    /\ at' = [at EXCEPT ![f] = what]
    /\ UNCHANGED params

ToLogin(f, p) ==
    /\ at' = [at EXCEPT ![f] = "login"]
    /\ params' = [params EXCEPT ![f] = p]

\* The anonymous branch: login_required when no page may be shown.
HandleNoPermission(f, p) ==
    /\ ~session
    /\ \/ "none" \in p.prompt /\ End(f, "refused")
       \/ /\ "none" \notin p.prompt \/ gate = "unusable"
          /\ ToLogin(f, p)
    /\ UNCHANGED session

RejectRequestObject(f, p) ==
    /\ session /\ Rejected(p)
    /\ End(f, "refused")
    /\ UNCHANGED session

\* Mutants: the session is kept; the request object is looked at too late.
RedirectOnly(f, p) ==
    /\ session /\ ~Rejected(p) /\ NeedsLogin(p)
    /\ UNCHANGED session
    /\ ToLogin(f, ReauthNext(p))
ReauthFirst(f, p) ==
    /\ session /\ NeedsLogin(p)
    /\ session' = FALSE
    /\ ToLogin(f, ReauthNext(p))

EnforceReauth(f, p) ==
    /\ session /\ ~Rejected(p) /\ NeedsLogin(p)
    /\ session' = FALSE
    /\ ToLogin(f, ReauthNext(p))

\* Mutant: prompt=consent is overlooked.
AutoApprovedAnyway(p) == trusted \/ covered

\* The library would answer without a form; prompt=consent stops it there
\* (_ForceConsentRequired).
AutoApproved(p) == (trusted \/ covered) /\ "consent" \notin p.prompt

\* Mutant: prompt=none is treated like any other request.
AuthorizeAloud(f, p, submitted) ==
    \/ (submitted \/ AutoApproved(p)) /\ End(f, "code")
    \/ ~submitted /\ ~AutoApproved(p) /\ End(f, "consent")

\* What follows for an allowed user: a submitted form is answered, a silent
\* request is answered for a trusted application only
\* (validate_silent_authorization), and others see the form unless approved.
Authorize(f, p, submitted) ==
    \/ submitted /\ End(f, "code")
    \/ /\ ~submitted /\ "none" \in p.prompt
       /\ End(f, IF trusted THEN "code" ELSE "refused")
    \/ /\ ~submitted /\ "none" \notin p.prompt
       /\ End(f, IF AutoApproved(p) THEN "code" ELSE "consent")

\* Mutant: a submitted form is not decided again.
DecideOnGet(f, p, submitted) ==
    /\ session /\ ~Rejected(p) /\ ~NeedsLogin(p)
    /\ \/ gate = "denied" /\ ~submitted /\ End(f, "denied")
       \/ gate = "unusable" /\ ~submitted /\ End(f, "refused")
       \/ (gate = "allowed" \/ submitted) /\ Authorize(f, p, submitted)
    /\ UNCHANGED session

\* The policy gate; the library answers for an unusable application.
Decide(f, p, submitted) ==
    /\ session /\ ~Rejected(p) /\ ~NeedsLogin(p)
    /\ \/ gate = "denied" /\ End(f, "denied")
       \/ gate = "unusable" /\ End(f, "refused")
       \/ gate = "allowed" /\ Authorize(f, p, submitted)
    /\ UNCHANGED session

\* _dispatch_inner, for a GET or a promoted POST, and for a submitted form.
Dispatch(f, p, submitted) ==
    \/ HandleNoPermission(f, p)
    \/ RejectRequestObject(f, p)
    \/ EnforceReauth(f, p)
    \/ Decide(f, p, submitted)

-----------------------------------------------------------------------------
\* The relying party sends the browser here.
Open(f) ==
    /\ at[f] = "closed"
    /\ at' = [at EXCEPT ![f] = "sending"]
    /\ \E r \in Requests :
         /\ asked' = [asked EXCEPT ![f] = r]
         /\ params' = [params EXCEPT ![f] = r]
    /\ UNCHANGED <<userVars, appVars, toldVars>>

Get(f) ==
    /\ at[f] = "sending"
    /\ Dispatch(f, params[f], FALSE)
    /\ UNCHANGED <<asked, loginAt, clock, appVars, toldVars>>

\* The form is posted to the URL it was shown at.
Allow(f) ==
    /\ at[f] = "consent"
    /\ Dispatch(f, params[f], TRUE)
    /\ approved' = approved \cup {f}
    /\ UNCHANGED <<asked, loginAt, clock, appVars, fresh, cancelled>>

\* The Cancel button has no name: its POST lacks "allow" and is promoted to a
\* GET whose parameters are the hidden fields of the form, without prompt and
\* max_age.
Cancel(f) ==
    /\ at[f] = "consent"
    /\ Dispatch(f, Blank, FALSE)
    /\ cancelled' = cancelled \cup {f}
    /\ UNCHANGED <<asked, loginAt, clock, appVars, fresh, approved>>

Login(f) ==
    /\ at[f] = "login"
    /\ at' = [at EXCEPT ![f] = "sending"]
    /\ session' = TRUE
    /\ loginAt' = clock
    /\ fresh' = {g \in Flows : at[g] # "closed"}
    /\ UNCHANGED <<asked, params, clock, appVars, approved, cancelled>>

\* The user goes to the next URL without logging in there; with no session
\* that leads back to the login page.
Revisit(f) ==
    /\ at[f] = "login" /\ session
    /\ at' = [at EXCEPT ![f] = "sending"]
    /\ UNCHANGED <<asked, params, userVars, appVars, toldVars>>

\* A second passes; the session may end meanwhile.
Tick ==
    /\ clock < MaxClock
    /\ clock' = clock + 1
    /\ session' \in {session, FALSE}
    /\ UNCHANGED <<tabVars, loginAt, appVars, toldVars>>

\* Group, state, permission and application changes; tokens come and go.
ChangeGate ==
    /\ gate' \in {"allowed", "denied", "unusable"} \ {gate}
    /\ UNCHANGED <<tabVars, userVars, trusted, covered, toldVars>>

ToggleCovered ==
    /\ covered' = ~covered
    /\ UNCHANGED <<tabVars, userVars, gate, trusted, toldVars>>

Next ==
    \/ \E f \in Flows :
         \/ Open(f) \/ Get(f) \/ Allow(f) \/ Cancel(f)
         \/ Login(f) \/ Revisit(f)
    \/ Tick \/ ChangeGate \/ ToggleCovered

Spec == Init /\ [][Next]_vars

\* The browser follows redirects, and the user logs in and presses Authorize
\* when asked.  Time is not pushed and nobody has to cancel.
FairSpec ==
    /\ Spec
    /\ \A f \in Flows : WF_vars(Get(f)) /\ WF_vars(Login(f)) /\ WF_vars(Allow(f))

-----------------------------------------------------------------------------
\* A code for a request that came with prompt=login is preceded by a login
\* since the request was opened, although prompt=login leaves the URL at once
\* and all tabs share one session.
FreshLogin ==
    \A f \in Flows : at[f] = "code" /\ "login" \in asked[f].prompt => f \in fresh

\* A code for a request that came with prompt=consent needs the user's press
\* of Authorize, trusted application or not; Cancel is the exception.
ConsentGiven ==
    \A f \in Flows :
        at[f] = "code" /\ "consent" \in asked[f].prompt /\ f \notin cancelled
            => f \in approved

Granted(f) == at[f] # "code" /\ at'[f] = "code"

\* The login behind a code is younger than the max_age the relying party
\* asked for, through redirects and while the form is open, unless the user
\* cancelled.
MaxAgeHonoured ==
    [][\A f \in Flows : Granted(f) /\ asked[f].cap # NoCap /\ f \notin cancelled' =>
         session /\ loginAt # NoLogin /\ clock - loginAt < asked[f].cap]_vars

\* The verdict that counts is the one at the request that grants the code,
\* also when it changed while the form was open.
GrantedWhileAllowed == [][\A f \in Flows : Granted(f) => gate = "allowed"]_vars

\* Nobody gets a code without pressing Authorize unless the application is
\* trusted or a token covers the scopes at that very request, whatever Cancel,
\* a login or another tab did before.
UnapprovedGrantsAutomatic ==
    [][\A f \in Flows : Granted(f) /\ f \notin approved' => trusted \/ covered]_vars

\* Seen by relying parties, the view is AuthorizePromise: all pages of a flow
\* are one open request, and what a parameter demanded is owed until the user
\* has done it, however early the parameter left the URL.
ReplyOf(place) ==
    IF place = "closed" THEN "none" ELSE IF place \in Ends THEN place ELSE "open"

replyOf == [f \in Flows |-> ReplyOf(at[f])]
owedOf == [f \in Flows |->
    {d \in asked[f].prompt :
        \/ d = "login" /\ f \notin fresh
        \/ d = "consent" /\ f \notin approved \cup cancelled}]

Promise == INSTANCE AuthorizePromise
    WITH Replies <- Ends, reply <- replyOf, owed <- owedOf, allowed <- (gate = "allowed")

\* Whatever the tabs, the sessions and the policy do meanwhile, a request is
\* answered once, for good, and with a code only when the verdict at that very
\* request is "allowed" and nothing is owed (Cancel counts as a decision).
PromiseSpec == Promise!Spec

\* A request object is refused without ending the session ("never logout() an
\* existing session on its account"), whatever else the request asks.
RejectionKeepsSession ==
    [][\A f \in Flows :
         at[f] = "sending" /\ session /\ Rejected(params[f]) /\ at'[f] # "sending" =>
             session' /\ at'[f] = "refused"]_vars

\* An open request is answered, however many logins it asks for.
Answered == \A f \in Flows : at[f] = "sending" ~> at[f] \in Ends

-----------------------------------------------------------------------------
(* What the documentation says, and the code does not do.                   *)

\* Consent denial ends in "an access_denied error redirect"
\* (TestStateEchoOnError): no code after Cancel without a later Authorize.
\* Refuted: a promoted POST is approved for a trusted application.
CancelDenies ==
    \A f \in Flows : at[f] = "code" /\ f \in cancelled => f \in approved
=============================================================================
