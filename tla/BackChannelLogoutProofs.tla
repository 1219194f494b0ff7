----------------------- MODULE BackChannelLogoutProofs -----------------------
(***************************************************************************)
(* Theorems about BackChannelLogout for every set of jobs, users,          *)
(* applications and keys, every number of retries, with crashes or without. *)
(***************************************************************************)
EXTENDS BackChannelLogout, TLAPS

\* What the phase of a job says of its transaction, its attempts and its
\* arguments.
PhaseTells(j) ==
    /\ phase[j] = "free" => j \notin open \cup committed
    /\ phase[j] \in {"free", "staged"} =>
         retries[j] = 0 /\ posts[j] = 0 /\ signed[j] = {}
    /\ phase[j] = "queued" => posts[j] = retries[j]
    /\ phase[j] = "posting" => posts[j] = retries[j] + 1
    /\ phase[j] = "staged" => j \in open
    /\ phase[j] \in {"queued", "posting"} => j \in committed
    /\ j \in open =>
         phase[j] \in {"staged", "settled"} /\ j \notin committed /\ posts[j] = 0
    /\ phase[j] # "free" /\ app[j] \in RevokeOnly => reason[j] = "user_revoked"
    /\ phase[j] \in {"staged", "queued", "posting"} => kid[j] # NoKey

\* What the verdict of a settled job says of its attempts.
VerdictTells(j) == phase[j] = "settled" =>
    /\ outcome[j] \in HttpOutcomes => attempt[j] = posts[j] /\ posts[j] > 0
    /\ outcome[j] \in {"blocked", "kid_retired"} => attempt[j] = posts[j] + 1
    /\ outcome[j] \notin WorkerOutcomes => attempt[j] = 0 /\ posts[j] = 0
    /\ attempt[j] <= MaxRetries + 1

\* Rows follow the signal, until their own transaction rolls back.
RowsTell(j) ==
    /\ phase[j] # "settled" => rows[j] = 0
    /\ phase[j] = "settled" /\ j \in open \cup committed /\ app[j] \in apps =>
         rows[j] = IF outcome[j] = "success" /\ ~AuditSuccess THEN 0 ELSE 1

\* What is true of one job.
Told(j) ==
    /\ emitted[j] = IF phase[j] = "settled" THEN 1 ELSE 0
    /\ signed[j] \subseteq {kid[j]}
    /\ posts[j] > 0 => j \in committed
    /\ PhaseTells(j)
    /\ VerdictTells(j)
    /\ RowsTell(j)

IInv == TypeOK /\ \A j \in Jobs : Told(j)

\* TypeOK in three parts: what a worker writes, what the dispatcher pins, and
\* the rest.
WorkTypes ==
    /\ phase \in [Jobs -> Phases]
    /\ retries \in [Jobs -> 0..MaxRetries]
    /\ posts \in [Jobs -> Nat]
    /\ signed \in [Jobs -> SUBSET Keys]
    /\ emitted \in [Jobs -> Nat]
    /\ outcome \in [Jobs -> Outcomes \cup {""}]
    /\ attempt \in [Jobs -> Nat]
    /\ rows \in [Jobs -> Nat]

ArgTypes ==
    /\ user \in [Jobs -> Users \cup {NoUser}]
    /\ app \in [Jobs -> Apps \cup {NoApp}]
    /\ reason \in [Jobs -> Reasons \cup {""}]
    /\ kid \in [Jobs -> Keys \cup {NoKey}]

WorldTypes ==
    /\ open \subseteq Jobs /\ committed \subseteq Jobs
    /\ users \subseteq Users /\ doomed \subseteq Users
    /\ apps \subseteq Apps /\ active \subseteq Apps /\ hasUri \subseteq Apps
    /\ signing \in Keys \cup {NoKey}
    /\ inactive \subseteq Keys

\* Nothing a job's invariant reads moves, except that applications may go.
Untouched(j) ==
    /\ phase'[j] = phase[j] /\ retries'[j] = retries[j] /\ posts'[j] = posts[j]
    /\ signed'[j] = signed[j] /\ emitted'[j] = emitted[j]
    /\ outcome'[j] = outcome[j] /\ attempt'[j] = attempt[j] /\ rows'[j] = rows[j]
    /\ app'[j] = app[j] /\ reason'[j] = reason[j] /\ kid'[j] = kid[j]
    /\ j \in open' <=> j \in open
    /\ j \in committed' <=> j \in committed
    /\ apps' \subseteq apps

-----------------------------------------------------------------------------
\* The invariant is what the checked properties need, conjunct by conjunct.
LEMMA IInvImplies ==
    IInv => /\ TypeOK /\ OneTerminalSignal /\ AttemptsReported
            /\ RetriesIdentical /\ PostsAreDue /\ DeadLettersComplete
<1> SUFFICES ASSUME IInv
             PROVE /\ TypeOK /\ OneTerminalSignal /\ AttemptsReported
                   /\ RetriesIdentical /\ PostsAreDue /\ DeadLettersComplete
  OBVIOUS
<1>1. TypeOK
  BY DEF IInv
<1>2. OneTerminalSignal /\ RetriesIdentical
  BY DEF IInv, Told, OneTerminalSignal, RetriesIdentical
<1>3. AttemptsReported
  <2> SUFFICES ASSUME NEW j \in Jobs, phase[j] = "settled"
               PROVE /\ attempt[j] = CASE outcome[j] \in HttpOutcomes -> posts[j]
                          [] outcome[j] \in {"blocked", "kid_retired"} -> posts[j] + 1
                          [] OTHER -> 0
                     /\ attempt[j] <= MaxRetries + 1
                     /\ attempt[j] = 0 => posts[j] = 0
    BY DEF AttemptsReported
  <2>1. posts[j] \in Nat
    BY DEF IInv, TypeOK
  <2> QED
    BY <2>1 DEF IInv, Told, VerdictTells, HttpOutcomes, WorkerOutcomes
<1>4. PostsAreDue
  BY DEF IInv, TypeOK, Told, PhaseTells, PostsAreDue
<1>5. DeadLettersComplete
  BY DEF IInv, TypeOK, Told, RowsTell, DeadLettersComplete
<1> QED
  BY <1>1, <1>2, <1>3, <1>4, <1>5

\* The three parts are TypeOK.
LEMMA TypeParts == TypeOK <=> WorkTypes /\ ArgTypes /\ WorldTypes
BY DEF TypeOK, WorkTypes, ArgTypes, WorldTypes

\* The initial states satisfy the invariant.
LEMMA InitIInv == Init => IInv
<1> SUFFICES ASSUME Init PROVE IInv
  OBVIOUS
<1>1. WorkTypes
  <2>1. phase \in [Jobs -> Phases]
    <3>1. phase = [j \in Jobs |-> "free"]
      BY DEF Init
    <3> QED
      BY <3>1 DEF Phases
  <2>2. retries \in [Jobs -> 0..MaxRetries]
    <3>1. retries = [j \in Jobs |-> 0]
      BY DEF Init
    <3> QED
      BY <3>1, BoundsAssumption
  <2>3. posts \in [Jobs -> Nat]
    <3>1. posts = [j \in Jobs |-> 0]
      BY DEF Init
    <3> QED
      BY <3>1
  <2>4. signed \in [Jobs -> SUBSET Keys]
    <3>1. signed = [j \in Jobs |-> {}]
      BY DEF Init
    <3> QED
      BY <3>1
  <2>5. emitted \in [Jobs -> Nat]
    <3>1. emitted = [j \in Jobs |-> 0]
      BY DEF Init
    <3> QED
      BY <3>1
  <2>6. outcome \in [Jobs -> Outcomes \cup {""}]
    <3>1. outcome = [j \in Jobs |-> ""]
      BY DEF Init
    <3> QED
      BY <3>1
  <2>7. attempt \in [Jobs -> Nat]
    <3>1. attempt = [j \in Jobs |-> 0]
      BY DEF Init
    <3> QED
      BY <3>1
  <2>8. rows \in [Jobs -> Nat]
    <3>1. rows = [j \in Jobs |-> 0]
      BY DEF Init
    <3> QED
      BY <3>1
  <2> QED
    BY <2>1, <2>2, <2>3, <2>4, <2>5, <2>6, <2>7, <2>8 DEF Init, WorkTypes
<1>2. ArgTypes
  <2>1. user \in [Jobs -> Users \cup {NoUser}]
    BY DEF Init
  <2>2. app \in [Jobs -> Apps \cup {NoApp}]
    BY DEF Init
  <2>3. reason \in [Jobs -> Reasons \cup {""}]
    BY DEF Init
  <2>4. kid \in [Jobs -> Keys \cup {NoKey}]
    BY DEF Init
  <2> QED
    BY <2>1, <2>2, <2>3, <2>4 DEF ArgTypes
<1>3. WorldTypes
  BY DEF Init, WorldTypes
<1>4. ASSUME NEW j \in Jobs PROVE Told(j)
  <2>1. /\ phase[j] = "free" /\ open = {} /\ committed = {} /\ retries[j] = 0
        /\ posts[j] = 0 /\ signed[j] = {} /\ emitted[j] = 0 /\ rows[j] = 0
    BY DEF Init
  <2> QED
    BY <2>1 DEF Told, PhaseTells, VerdictTells, RowsTell
<1> QED
  BY <1>1, <1>2, <1>3, <1>4, TypeParts DEF IInv

\* A job nothing touches keeps its invariant.
LEMMA Frame ==
    ASSUME IInv, NEW j \in Jobs, Untouched(j)
    PROVE  Told(j)'
BY DEF IInv, Untouched, Told, PhaseTells, VerdictTells, RowsTell, HttpOutcomes,
       WorkerOutcomes

-----------------------------------------------------------------------------
\* Types of what Emit writes.
LEMMA EmitTypes ==
    ASSUME WorkTypes, NEW S, NEW what \in Outcomes, NEW n \in Nat, Emit(S, what, n)
    PROVE  /\ emitted' \in [Jobs -> Nat]
           /\ outcome' \in [Jobs -> Outcomes \cup {""}]
           /\ attempt' \in [Jobs -> Nat]
           /\ rows' \in [Jobs -> Nat]
<1>1. emitted' \in [Jobs -> Nat]
  <2>1. emitted' = [j \in Jobs |-> IF j \in S THEN emitted[j] + 1 ELSE emitted[j]]
    BY DEF Emit
  <2>2. emitted \in [Jobs -> Nat]
    BY DEF WorkTypes
  <2> QED
    BY <2>1, <2>2
<1>2. outcome' \in [Jobs -> Outcomes \cup {""}]
  <2>1. outcome' = [j \in Jobs |-> IF j \in S THEN what ELSE outcome[j]]
    BY DEF Emit
  <2>2. outcome \in [Jobs -> Outcomes \cup {""}]
    BY DEF WorkTypes
  <2> QED
    BY <2>1, <2>2
<1>3. attempt' \in [Jobs -> Nat]
  <2>1. attempt' = [j \in Jobs |-> IF j \in S THEN n ELSE attempt[j]]
    BY DEF Emit
  <2>2. attempt \in [Jobs -> Nat]
    BY DEF WorkTypes
  <2> QED
    BY <2>1, <2>2
<1>4. rows' \in [Jobs -> Nat]
  <2>1. rows' = [j \in Jobs |->
                   IF j \in S /\ Recorded(j, what) THEN rows[j] + 1 ELSE rows[j]]
    BY DEF Emit
  <2>2. rows \in [Jobs -> Nat]
    BY DEF WorkTypes
  <2> QED
    BY <2>1, <2>2
<1> QED
  BY <1>1, <1>2, <1>3, <1>4

\* What Emit does to one job.
LEMMA EmitAt ==
    ASSUME NEW S, NEW what, NEW n, Emit(S, what, n), NEW j \in Jobs
    PROVE  /\ j \in S =>
                /\ emitted'[j] = emitted[j] + 1
                /\ outcome'[j] = what
                /\ attempt'[j] = n
                /\ rows'[j] = IF Recorded(j, what) THEN rows[j] + 1 ELSE rows[j]
           /\ j \notin S =>
                /\ emitted'[j] = emitted[j]
                /\ outcome'[j] = outcome[j]
                /\ attempt'[j] = attempt[j]
                /\ rows'[j] = rows[j]
BY DEF Emit

\* A worker ends a committed job with one signal: the invariant holds when
\* the reported attempt fits the POSTs made.
LEMMA SettleStep ==
    ASSUME IInv, NEW j \in Jobs, NEW what \in WorkerOutcomes, NEW n \in 1..(MaxRetries + 1),
           Settle(j, what, n),
           phase[j] \in {"queued", "posting"},
           what \in HttpOutcomes => n = posts'[j],
           what \notin HttpOutcomes => n = posts'[j] + 1,
           posts' \in [Jobs -> Nat], signed' \in [Jobs -> SUBSET Keys],
           signed'[j] \subseteq {kid[j]},
           \A i \in Jobs \ {j} : posts'[i] = posts[i] /\ signed'[i] = signed[i],
           UNCHANGED <<retries, argVars, txnVars, worldVars, keyVars>>
    PROVE  IInv'
<1>1. WorkTypes /\ ArgTypes /\ WorldTypes
  BY TypeParts DEF IInv
<1>2. what \in Outcomes /\ n \in Nat /\ n > 0
  BY BoundsAssumption DEF Outcomes
<1>3. Emit({j}, what, n)
  BY DEF Settle
<1>4. WorkTypes'
  <2>1. phase' = [phase EXCEPT ![j] = "settled"]
    BY DEF Settle
  <2>2. phase' \in [Jobs -> Phases]
    BY <1>1, <2>1 DEF WorkTypes, Phases
  <2>3. retries' \in [Jobs -> 0..MaxRetries]
    BY <1>1 DEF WorkTypes
  <2> QED
    BY <2>2, <2>3, <1>1, <1>2, <1>3, EmitTypes DEF WorkTypes
<1>5. ArgTypes' /\ WorldTypes'
  BY <1>1 DEF ArgTypes, WorldTypes, argVars, txnVars, worldVars, keyVars
<1>6. Told(j)'
  <2>1. /\ phase'[j] = "settled" /\ outcome'[j] = what /\ attempt'[j] = n
        /\ emitted'[j] = emitted[j] + 1
        /\ rows'[j] = IF Recorded(j, what) THEN rows[j] + 1 ELSE rows[j]
    <3>1. phase'[j] = "settled"
      BY <1>1 DEF Settle, WorkTypes
    <3> QED
      BY <3>1, <1>3, EmitAt
  <2>2. /\ emitted[j] = 0 /\ rows[j] = 0 /\ j \in committed /\ j \notin open
        /\ app[j] \in RevokeOnly => reason[j] = "user_revoked"
        /\ kid[j] # NoKey
    BY DEF IInv, Told, PhaseTells, RowsTell
  <2>3. UNCHANGED <<app, reason, kid, apps, open, committed>>
    BY DEF argVars, txnVars, worldVars
  <2>4. PhaseTells(j)'
    BY <2>1, <2>2, <2>3 DEF PhaseTells
  <2>5. VerdictTells(j)'
    BY <2>1, <1>2 DEF VerdictTells, WorkerOutcomes, HttpOutcomes
  <2>6. RowsTell(j)'
    BY <2>1, <2>2, <2>3, BoundsAssumption DEF RowsTell, Recorded
  <2> QED
    BY <2>1, <2>2, <2>3, <2>4, <2>5, <2>6 DEF Told
<1>7. ASSUME NEW i \in Jobs, i # j PROVE Told(i)'
  <2>1. phase'[i] = phase[i]
    BY <1>1, <1>7 DEF Settle, WorkTypes
  <2>2. Untouched(i)
    BY <2>1, <1>3, <1>7, EmitAt DEF Untouched, argVars, txnVars, worldVars
  <2> QED
    BY <2>2, Frame
<1> QED
  BY <1>4, <1>5, <1>6, <1>7, TypeParts DEF IInv, TypeOK, WorkTypes, ArgTypes, WorldTypes

\* A worker, or its death, moves a committed job on without a signal.
LEMMA SilentStep ==
    ASSUME IInv, NEW j \in Jobs, NEW to \in {"queued", "posting", "dropped", "raised", "lost"},
           phase' = [phase EXCEPT ![j] = to], Silent,
           phase[j] \in {"queued", "posting"},
           to = "queued" => posts'[j] = retries'[j],
           to = "posting" => posts'[j] = retries'[j] + 1,
           retries' \in [Jobs -> 0..MaxRetries],
           posts' \in [Jobs -> Nat], signed' \in [Jobs -> SUBSET Keys],
           signed'[j] \subseteq {kid[j]},
           \A i \in Jobs \ {j} :
               posts'[i] = posts[i] /\ signed'[i] = signed[i] /\ retries'[i] = retries[i],
           UNCHANGED <<argVars, txnVars, worldVars, keyVars>>
    PROVE  IInv'
<1>1. WorkTypes /\ ArgTypes /\ WorldTypes
  BY TypeParts DEF IInv
<1>2. WorkTypes'
  <2>1. phase' \in [Jobs -> Phases]
    BY <1>1 DEF WorkTypes, Phases
  <2> QED
    BY <2>1, <1>1 DEF WorkTypes, Silent
<1>3. ArgTypes' /\ WorldTypes'
  BY <1>1 DEF ArgTypes, WorldTypes, argVars, txnVars, worldVars, keyVars
<1>4. Told(j)'
  <2>1. phase'[j] = to
    BY <1>1 DEF WorkTypes
  <2>2. /\ emitted[j] = 0 /\ rows[j] = 0 /\ j \in committed /\ j \notin open
        /\ app[j] \in RevokeOnly => reason[j] = "user_revoked"
        /\ kid[j] # NoKey
    BY DEF IInv, Told, PhaseTells, RowsTell
  <2>3. UNCHANGED <<app, reason, kid, apps, open, committed, emitted, rows>>
    BY DEF argVars, txnVars, worldVars, Silent
  <2>4. PhaseTells(j)'
    BY <2>1, <2>2, <2>3 DEF PhaseTells
  <2>5. VerdictTells(j)' /\ RowsTell(j)'
    BY <2>1, <2>2, <2>3 DEF VerdictTells, RowsTell
  <2> QED
    BY <2>1, <2>2, <2>3, <2>4, <2>5 DEF Told
<1>5. ASSUME NEW i \in Jobs, i # j PROVE Told(i)'
  <2>1. phase'[i] = phase[i]
    BY <1>1, <1>5 DEF WorkTypes
  <2>2. Untouched(i)
    BY <2>1, <1>5 DEF Untouched, Silent, argVars, txnVars, worldVars
  <2> QED
    BY <2>2, Frame
<1> QED
  BY <1>2, <1>3, <1>4, <1>5, TypeParts DEF IInv, TypeOK, WorkTypes, ArgTypes, WorldTypes

\* A failed attempt, whether its POST left or not, keeps the invariant when
\* the POST has been counted.
LEMMA FailStep ==
    ASSUME IInv, NEW j \in Jobs, FailTransiently(j),
           phase[j] \in {"queued", "posting"},
           posts'[j] = retries[j] + 1,
           posts' \in [Jobs -> Nat], signed' \in [Jobs -> SUBSET Keys],
           signed'[j] \subseteq {kid[j]},
           \A i \in Jobs \ {j} : posts'[i] = posts[i] /\ signed'[i] = signed[i],
           UNCHANGED <<argVars, txnVars, worldVars, keyVars>>
    PROVE  IInv'
<1>1. retries \in [Jobs -> 0..MaxRetries]
  BY DEF IInv, TypeOK
<1>2. CASE /\ retries[j] < MaxRetries
           /\ retries' = [retries EXCEPT ![j] = @ + 1]
           /\ phase' = [phase EXCEPT ![j] = "queued"]
           /\ Silent
  <2>1. retries' \in [Jobs -> 0..MaxRetries] /\ retries'[j] = retries[j] + 1
    BY <1>1, <1>2, BoundsAssumption
  <2>2. \A i \in Jobs \ {j} : retries'[i] = retries[i]
    BY <1>1, <1>2
  <2> QED
    BY <1>2, <2>1, <2>2, SilentStep
<1>3. CASE /\ retries[j] >= MaxRetries
           /\ Settle(j, "exhausted", retries[j] + 1)
           /\ UNCHANGED retries
  <2>1. retries[j] + 1 \in 1..(MaxRetries + 1)
    BY <1>1, BoundsAssumption
  <2>2. "exhausted" \in HttpOutcomes /\ "exhausted" \in WorkerOutcomes
    BY DEF HttpOutcomes, WorkerOutcomes
  <2> QED
    BY <1>3, <2>1, <2>2, SettleStep
<1> QED
  BY <1>2, <1>3 DEF FailTransiently

-----------------------------------------------------------------------------
\* A job stopped before its POST.
LEMMA AbortStep ==
    ASSUME IInv, NEW j \in Jobs, AbortRetired(j) \/ AbortBlocked(j)
    PROVE  IInv'
<1>1. PICK what \in {"kid_retired", "blocked"} :
        /\ Taken(j) /\ Settle(j, what, retries[j] + 1)
        /\ UNCHANGED <<retries, posts, signed>>
  BY DEF AbortRetired, AbortBlocked
<1>2. retries[j] + 1 \in 1..(MaxRetries + 1)
  <2>1. retries[j] \in 0..MaxRetries
    BY DEF IInv, TypeOK
  <2> QED
    BY <2>1, BoundsAssumption
<1>3. what \in WorkerOutcomes /\ what \notin HttpOutcomes
  BY DEF HttpOutcomes, WorkerOutcomes
<1>4. /\ phase[j] = "queued"
      /\ UNCHANGED <<argVars, txnVars, worldVars, keyVars>>
  BY <1>1 DEF Taken
<1>5. posts[j] = retries[j] /\ signed[j] \subseteq {kid[j]}
  BY <1>4 DEF IInv, Told, PhaseTells
<1>6. /\ posts \in [Jobs -> Nat] /\ signed \in [Jobs -> SUBSET Keys]
  BY DEF IInv, TypeOK
<1> QED
  BY <1>1, <1>2, <1>3, <1>4, <1>5, <1>6, SettleStep

\* The task ends without a signal: no user, no application, an unreadable key
\* or a dead worker.
LEMMA DropStep ==
    ASSUME IInv, NEW j \in Jobs, DropGone(j) \/ RaiseUnreadable(j) \/ Crash(j)
    PROVE  IInv'
<1>1. signed[j] \subseteq {kid[j]}
  BY DEF IInv, Told
<1>2. /\ posts \in [Jobs -> Nat] /\ signed \in [Jobs -> SUBSET Keys]
      /\ retries \in [Jobs -> 0..MaxRetries]
  BY DEF IInv, TypeOK
<1> QED
  BY <1>1, <1>2, SilentStep DEF DropGone, RaiseUnreadable, Taken, Crash

\* A POST leaves, or fails for want of a URI.
LEMMA PostStep ==
    ASSUME IInv, NEW j \in Jobs, Post(j)
    PROVE  IInv'
<1>1. /\ posts \in [Jobs -> Nat] /\ signed \in [Jobs -> SUBSET Keys]
      /\ retries \in [Jobs -> 0..MaxRetries]
      /\ signing \in Keys \cup {NoKey} /\ inactive \subseteq Keys
      /\ kid \in [Jobs -> Keys \cup {NoKey}]
  BY DEF IInv, TypeOK
<1>2. /\ phase[j] = "queued" /\ KeyKnown(j)
      /\ UNCHANGED <<argVars, txnVars, worldVars, keyVars>>
      /\ posts' = [posts EXCEPT ![j] = @ + 1]
      /\ signed' = [signed EXCEPT ![j] = @ \cup {kid[j]}]
  BY DEF Post, Taken
<1>3. posts[j] = retries[j] /\ signed[j] \subseteq {kid[j]} /\ kid[j] # NoKey
  BY <1>2 DEF IInv, Told, PhaseTells
<1>4. /\ posts' \in [Jobs -> Nat] /\ posts'[j] = retries[j] + 1
      /\ signed'[j] \subseteq {kid[j]}
      /\ \A i \in Jobs \ {j} : posts'[i] = posts[i] /\ signed'[i] = signed[i]
  BY <1>1, <1>2, <1>3
<1>5. signed' \in [Jobs -> SUBSET Keys]
  <2>1. kid[j] \in Keys
    BY <1>1, <1>3
  <2> QED
    BY <1>1, <1>2, <2>1
<1>6. CASE /\ phase' = [phase EXCEPT ![j] = "posting"]
           /\ Silent
           /\ UNCHANGED retries
  BY <1>1, <1>2, <1>4, <1>5, <1>6, SilentStep
<1>7. CASE FailTransiently(j)
  BY <1>1, <1>2, <1>4, <1>5, <1>7, FailStep
<1> QED
  BY <1>6, <1>7 DEF Post

\* The answer of the relying party.
LEMMA AnswerStep ==
    ASSUME IInv, NEW j \in Jobs, Succeed(j) \/ Refuse(j) \/ Fail(j)
    PROVE  IInv'
<1>1. /\ posts \in [Jobs -> Nat] /\ signed \in [Jobs -> SUBSET Keys]
      /\ retries \in [Jobs -> 0..MaxRetries]
  BY DEF IInv, TypeOK
<1>2. /\ phase[j] = "posting"
      /\ UNCHANGED <<posts, signed, argVars, txnVars, worldVars, keyVars>>
  BY DEF Succeed, Refuse, Fail, Answered
<1>3. posts[j] = retries[j] + 1 /\ signed[j] \subseteq {kid[j]}
  BY <1>2 DEF IInv, Told, PhaseTells
<1>4. retries[j] + 1 \in 1..(MaxRetries + 1)
  BY <1>1, BoundsAssumption
<1>5. {"success", "refused"} \subseteq HttpOutcomes /\ HttpOutcomes \subseteq WorkerOutcomes
  BY DEF HttpOutcomes, WorkerOutcomes
<1>6. CASE Succeed(j)
  BY <1>1, <1>2, <1>3, <1>4, <1>5, <1>6, SettleStep DEF Succeed
<1>7. CASE Refuse(j)
  BY <1>1, <1>2, <1>3, <1>4, <1>5, <1>7, SettleStep DEF Refuse
<1>8. CASE Fail(j)
  BY <1>1, <1>2, <1>3, <1>8, FailStep DEF Fail
<1> QED
  BY <1>6, <1>7, <1>8

-----------------------------------------------------------------------------
\* A trigger reaches the dispatcher.
LEMMA DispatchStep ==
    ASSUME IInv, NEW j \in Jobs, NEW u \in Users, NEW a \in Apps, NEW why \in Reasons,
           Dispatch(j, u, a, why)
    PROVE  IInv'
<1>1. WorkTypes /\ ArgTypes /\ WorldTypes
  BY TypeParts DEF IInv
<1>2. /\ phase[j] = "free" /\ a \in apps /\ ~Skipped(a, why)
      /\ user' = [user EXCEPT ![j] = u]
      /\ app' = [app EXCEPT ![j] = a]
      /\ reason' = [reason EXCEPT ![j] = why]
      /\ open' = open \cup {j}
      /\ UNCHANGED <<committed, doomed, retries, posts, signed, worldVars, keyVars>>
  BY DEF Dispatch
<1>3. /\ retries[j] = 0 /\ posts[j] = 0 /\ signed[j] = {} /\ rows[j] = 0
      /\ emitted[j] = 0 /\ j \notin committed /\ j \notin open
  BY <1>2 DEF IInv, Told, PhaseTells, RowsTell
<1>4. app'[j] = a /\ reason'[j] = why /\ app'[j] \in apps'
  BY <1>1, <1>2 DEF ArgTypes, worldVars
<1>5. app'[j] \in RevokeOnly => reason'[j] = "user_revoked"
  BY <1>2, <1>4 DEF Skipped
<1>6. user' \in [Jobs -> Users \cup {NoUser}] /\ app' \in [Jobs -> Apps \cup {NoApp}]
  BY <1>1, <1>2 DEF ArgTypes
<1>7. reason' \in [Jobs -> Reasons \cup {""}]
  BY <1>1, <1>2 DEF ArgTypes
<1>8. WorldTypes'
  BY <1>1, <1>2 DEF WorldTypes, worldVars, keyVars
<1>9. CASE Stage(j)
  <2>1. /\ phase' = [phase EXCEPT ![j] = "staged"]
        /\ kid' = [kid EXCEPT ![j] = signing]
        /\ signing # NoKey /\ Silent
    BY <1>9 DEF Stage
  <2>2. phase' \in [Jobs -> Phases] /\ kid' \in [Jobs -> Keys \cup {NoKey}]
    BY <1>1, <2>1 DEF WorkTypes, ArgTypes, WorldTypes, Phases
  <2>3. TypeOK'
    BY <1>1, <1>2, <1>6, <1>7, <1>8, <2>1, <2>2 DEF TypeOK, WorkTypes, WorldTypes, Silent
  <2>4. phase'[j] = "staged" /\ kid'[j] # NoKey
    BY <1>1, <2>1 DEF WorkTypes, ArgTypes
  <2>5. Told(j)'
    BY <1>2, <1>3, <1>5, <2>1, <2>4 DEF Told, PhaseTells, VerdictTells, RowsTell, Silent
  <2>6. ASSUME NEW i \in Jobs, i # j PROVE Told(i)'
    <3>1. Untouched(i)
      BY <1>1, <1>2, <2>1, <2>6 DEF Untouched, WorkTypes, ArgTypes, Silent, worldVars
    <3> QED
      BY <3>1, Frame
  <2> QED
    BY <2>3, <2>5, <2>6 DEF IInv
<1>10. CASE StageFails(j)
  <2>1. /\ phase' = [phase EXCEPT ![j] = "settled"]
        /\ emitted' = [emitted EXCEPT ![j] = @ + 1]
        /\ outcome' = [outcome EXCEPT ![j] = "kid_unresolved"]
        /\ attempt' = [attempt EXCEPT ![j] = 0]
        /\ rows' = [rows EXCEPT ![j] = @ + 1]
        /\ kid' = kid
    BY <1>10 DEF StageFails
  <2>2. phase' \in [Jobs -> Phases]
    BY <1>1, <2>1 DEF WorkTypes, Phases
  <2>3. /\ emitted' \in [Jobs -> Nat] /\ attempt' \in [Jobs -> Nat] /\ rows' \in [Jobs -> Nat]
        /\ emitted'[j] = 1 /\ attempt'[j] = 0 /\ rows'[j] = 1
    <3>1. emitted \in [Jobs -> Nat] /\ attempt \in [Jobs -> Nat] /\ rows \in [Jobs -> Nat]
      BY <1>1 DEF WorkTypes
    <3>2. emitted' \in [Jobs -> Nat] /\ emitted'[j] = 1
      BY <1>3, <2>1, <3>1
    <3>3. attempt' \in [Jobs -> Nat] /\ attempt'[j] = 0
      BY <2>1, <3>1
    <3>4. rows' \in [Jobs -> Nat] /\ rows'[j] = 1
      BY <1>3, <2>1, <3>1
    <3> QED
      BY <3>2, <3>3, <3>4
  <2>4. outcome' \in [Jobs -> Outcomes \cup {""}]
    BY <1>1, <2>1 DEF WorkTypes, Outcomes
  <2>5. TypeOK'
    BY <1>1, <1>2, <1>6, <1>7, <1>8, <2>1, <2>2, <2>3, <2>4
    DEF TypeOK, WorkTypes, ArgTypes, WorldTypes
  <2>6. phase'[j] = "settled" /\ outcome'[j] = "kid_unresolved" /\ kid'[j] = kid[j]
    BY <1>1, <2>1 DEF WorkTypes
  <2>7. Told(j)'
    <3>1. PhaseTells(j)'
      BY <1>2, <1>3, <1>5, <2>3, <2>6 DEF PhaseTells
    <3>2. VerdictTells(j)'
      BY <1>2, <1>3, <2>3, <2>6, BoundsAssumption
      DEF VerdictTells, HttpOutcomes, WorkerOutcomes
    <3>3. RowsTell(j)'
      BY <2>3, <2>6 DEF RowsTell
    <3> QED
      BY <1>2, <1>3, <2>3, <2>6, <3>1, <3>2, <3>3 DEF Told
  <2>8. ASSUME NEW i \in Jobs, i # j PROVE Told(i)'
    <3>1. Untouched(i)
      BY <1>1, <1>2, <2>1, <2>8 DEF Untouched, WorkTypes, ArgTypes, worldVars
    <3> QED
      BY <3>1, Frame
  <2> QED
    BY <2>5, <2>7, <2>8 DEF IInv
<1> QED
  BY <1>9, <1>10 DEF Dispatch

\* The transaction commits: each of its jobs is enqueued, refused or lost.
LEMMA CommitStep ==
    ASSUME IInv, NEW u \in Users, Commit(u)
    PROVE  IInv'
<1> DEFINE mine == {j \in open : user[j] = u}
           staged == {j \in mine : phase[j] = "staged"}
<1>1. WorkTypes /\ ArgTypes /\ WorldTypes
  BY TypeParts DEF IInv
<1>2. PICK refused \in SUBSET staged, dead \in SUBSET staged :
        /\ refused \cap dead = {}
        /\ phase' = [j \in Jobs |->
             CASE j \in refused -> "settled"
               [] j \in dead -> "lost"
               [] j \in staged \ (refused \cup dead) -> "queued"
               [] OTHER -> phase[j]]
        /\ Emit(refused, "broker_unavailable", 0)
  BY DEF Commit
<1>3. /\ open' = open \ mine /\ committed' = committed \cup mine
      /\ users' = users \ (doomed \cap {u}) /\ doomed' = doomed \ {u}
      /\ UNCHANGED <<retries, posts, signed, argVars, apps, active, hasUri, keyVars>>
  BY DEF Commit
<1>4. \A j \in Jobs : phase'[j] =
        IF j \in refused THEN "settled" ELSE IF j \in dead THEN "lost"
        ELSE IF j \in staged THEN "queued" ELSE phase[j]
  BY <1>2
<1>5. phase' \in [Jobs -> Phases]
  <2> DEFINE to(j) == CASE j \in refused -> "settled"
                         [] j \in dead -> "lost"
                         [] j \in staged \ (refused \cup dead) -> "queued"
                         [] OTHER -> phase[j]
  <2>1. \A j \in Jobs : to(j) \in Phases
    <3>1. \A j \in Jobs : phase[j] \in Phases
      BY <1>1 DEF WorkTypes
    <3>2. {"settled", "lost", "queued"} \subseteq Phases
      BY DEF Phases
    <3> QED
      BY <3>1, <3>2
  <2>2. phase' = [j \in Jobs |-> to(j)]
    BY <1>2
  <2> HIDE DEF to
  <2> QED
    BY <2>1, <2>2
<1>6. TypeOK'
  <2>1. "broker_unavailable" \in Outcomes
    BY DEF Outcomes
  <2>2. WorkTypes'
    BY <1>1, <1>2, <1>3, <1>5, <2>1, EmitTypes DEF WorkTypes
  <2>3. ArgTypes' /\ WorldTypes'
    BY <1>1, <1>3 DEF ArgTypes, WorldTypes, argVars, keyVars
  <2> QED
    BY <2>2, <2>3 DEF TypeOK, WorkTypes, ArgTypes, WorldTypes
<1>7. ASSUME NEW j \in Jobs PROVE Told(j)'
  <2>1. UNCHANGED <<app, reason, kid, apps, retries, posts, signed>>
    BY <1>3 DEF argVars
  <2>2. CASE j \notin mine
    <3>1. Untouched(j)
      BY <1>2, <1>3, <1>4, <2>1, <2>2, EmitAt DEF Untouched
    <3> QED
      BY <3>1, Frame
  <2>3. CASE j \in mine \ staged
    <3>1. /\ phase[j] = "settled" /\ phase'[j] = "settled" /\ posts[j] = 0
          /\ j \in committed' /\ j \notin open'
      BY <1>2, <1>3, <1>4, <2>3 DEF IInv, Told, PhaseTells
    <3>2. /\ emitted'[j] = emitted[j] /\ outcome'[j] = outcome[j]
          /\ attempt'[j] = attempt[j] /\ rows'[j] = rows[j]
      BY <1>2, <2>3, EmitAt
    <3>3. Told(j)
      BY DEF IInv
    <3>4. PhaseTells(j)' /\ VerdictTells(j)'
      BY <2>1, <3>1, <3>2, <3>3
      DEF Told, PhaseTells, VerdictTells, WorkerOutcomes, HttpOutcomes
    <3>5. RowsTell(j)'
      BY <2>1, <2>3, <3>1, <3>2, <3>3 DEF Told, RowsTell
    <3> QED
      BY <2>1, <3>1, <3>2, <3>3, <3>4, <3>5 DEF Told
  <2>4. CASE j \in staged
    <3>1. /\ phase[j] = "staged" /\ j \in committed' /\ j \notin open'
          /\ emitted[j] = 0 /\ rows[j] = 0 /\ posts[j] = 0 /\ retries[j] = 0
          /\ signed[j] = {} /\ kid[j] # NoKey
          /\ app[j] \in RevokeOnly => reason[j] = "user_revoked"
      BY <1>3, <2>4 DEF IInv, Told, PhaseTells, RowsTell
    <3>2. CASE j \in refused
      <4>1. /\ phase'[j] = "settled" /\ emitted'[j] = 1 /\ attempt'[j] = 0
            /\ outcome'[j] = "broker_unavailable"
            /\ rows'[j] = IF Recorded(j, "broker_unavailable") THEN 1 ELSE 0
        BY <1>2, <1>4, <3>1, <3>2, EmitAt
      <4>2. PhaseTells(j)' /\ RowsTell(j)'
        BY <2>1, <3>1, <4>1 DEF PhaseTells, RowsTell, Recorded
      <4>3. VerdictTells(j)'
        BY <2>1, <3>1, <4>1, BoundsAssumption DEF VerdictTells, WorkerOutcomes, HttpOutcomes
      <4> QED
        BY <2>1, <3>1, <4>1, <4>2, <4>3 DEF Told
    <3>3. CASE j \notin refused
      <4>1. /\ phase'[j] \in {"queued", "lost"} /\ emitted'[j] = 0 /\ rows'[j] = 0
        BY <1>2, <1>4, <2>4, <3>1, <3>3, EmitAt
      <4>2. PhaseTells(j)' /\ VerdictTells(j)' /\ RowsTell(j)'
        BY <2>1, <3>1, <4>1 DEF PhaseTells, VerdictTells, RowsTell
      <4> QED
        BY <2>1, <3>1, <4>1, <4>2 DEF Told
    <3> QED
      BY <3>2, <3>3
  <2> QED
    BY <2>2, <2>3, <2>4
<1> QED
  BY <1>6, <1>7 DEF IInv

\* The transaction rolls back.
LEMMA RollbackStep ==
    ASSUME IInv, NEW u \in Users, Rollback(u)
    PROVE  IInv'
<1> DEFINE mine == {j \in open : user[j] = u}
<1>1. WorkTypes /\ ArgTypes /\ WorldTypes
  BY TypeParts DEF IInv
<1>2. /\ phase' = [j \in Jobs |->
            IF j \in mine /\ phase[j] = "staged" THEN "withdrawn" ELSE phase[j]]
      /\ rows' = [j \in Jobs |-> IF j \in mine THEN 0 ELSE rows[j]]
  BY DEF Rollback
<1>3. /\ open' = open \ mine /\ doomed' = doomed \ {u}
      /\ UNCHANGED <<retries, posts, signed, emitted, outcome, attempt,
                     committed, argVars, worldVars, keyVars>>
  BY DEF Rollback
<1>4. phase' \in [Jobs -> Phases]
  BY <1>1, <1>2 DEF WorkTypes, Phases
<1>5. rows' \in [Jobs -> Nat]
  BY <1>1, <1>2 DEF WorkTypes
<1>6. TypeOK'
  BY <1>1, <1>3, <1>4, <1>5
  DEF TypeOK, WorkTypes, ArgTypes, WorldTypes, argVars, worldVars, keyVars
<1>7. ASSUME NEW j \in Jobs PROVE Told(j)'
  <2>1. UNCHANGED <<app, reason, kid, apps, retries, posts, signed, emitted, outcome,
                    attempt, committed>>
    BY <1>3 DEF argVars, worldVars
  <2>2. CASE j \notin mine
    <3>1. Untouched(j)
      BY <1>2, <1>3, <2>1, <2>2 DEF Untouched
    <3> QED
      BY <3>1, Frame
  <2>3. CASE j \in mine
    <3>1. Told(j) /\ phase[j] \in {"staged", "settled"}
      BY <2>3 DEF IInv, Told, PhaseTells
    <3>2. /\ phase'[j] = IF phase[j] = "staged" THEN "withdrawn" ELSE phase[j]
          /\ rows'[j] = 0 /\ j \notin open' /\ j \notin committed' /\ posts[j] = 0
      BY <1>2, <1>3, <2>1, <2>3, <3>1 DEF Told, PhaseTells
    <3>3. PhaseTells(j)' /\ RowsTell(j)'
      BY <2>1, <3>1, <3>2 DEF Told, PhaseTells, RowsTell
    <3>4. VerdictTells(j)'
      BY <2>1, <3>1, <3>2 DEF Told, VerdictTells, WorkerOutcomes, HttpOutcomes
    <3> QED
      BY <2>1, <3>1, <3>2, <3>3, <3>4 DEF Told
  <2> QED
    BY <2>2, <2>3
<1> QED
  BY <1>6, <1>7 DEF IInv

\* Steps that touch no job: user deletions, operators, stuttering.
LEMMA OtherStep ==
    ASSUME IInv, UNCHANGED <<jobVars, argVars, open, committed>>, apps' \subseteq apps,
           users' \subseteq Users, doomed' \subseteq Users,
           active' \subseteq Apps, hasUri' \subseteq Apps,
           signing' \in Keys \cup {NoKey}, inactive' \subseteq Keys
    PROVE  IInv'
<1>1. WorkTypes /\ ArgTypes /\ WorldTypes
  BY TypeParts DEF IInv
<1>2. TypeOK'
  BY <1>1 DEF TypeOK, WorkTypes, ArgTypes, WorldTypes, jobVars, argVars
<1>3. ASSUME NEW j \in Jobs PROVE Told(j)'
  <2>1. Untouched(j)
    BY DEF Untouched, jobVars, argVars
  <2> QED
    BY <2>1, Frame
<1> QED
  BY <1>2, <1>3 DEF IInv

-----------------------------------------------------------------------------
\* The invariant is inductive.
LEMMA IInvStep == IInv /\ [Next]_vars => IInv'
<1> SUFFICES ASSUME IInv, [Next]_vars PROVE IInv'
  OBVIOUS
<1>1. WorldTypes
  BY TypeParts DEF IInv
<1>2. ASSUME NEW u \in Users, DeleteUser(u) PROVE IInv'
  BY <1>1, <1>2, OtherStep DEF DeleteUser, WorldTypes, worldVars, keyVars
<1>3. ASSUME NEW j \in Jobs, WorkerStep(j) \/ Crash(j) PROVE IInv'
  BY <1>3, AbortStep, DropStep, PostStep, AnswerStep DEF WorkerStep
<1>4. ASSUME OperatorStep PROVE IInv'
  <2>1. ASSUME NEW k \in Keys, RotateKey(k) \/ RetireKey(k) PROVE IInv'
    BY <1>1, <2>1, OtherStep
    DEF RotateKey, RetireKey, WorldTypes, txnVars, worldVars
  <2>2. ASSUME BreakKey PROVE IInv'
    BY <1>1, <2>2, OtherStep DEF BreakKey, WorldTypes, txnVars, worldVars
  <2>3. ASSUME NEW a \in Apps, Deactivate(a) \/ BlankUri(a) \/ DeleteApp(a) PROVE IInv'
    BY <1>1, <2>3, OtherStep
    DEF Deactivate, BlankUri, DeleteApp, WorldTypes, txnVars, keyVars
  <2> QED
    BY <1>4, <2>1, <2>2, <2>3 DEF OperatorStep
<1>5. ASSUME UNCHANGED vars PROVE IInv'
  BY <1>1, <1>5, OtherStep DEF vars, WorldTypes, txnVars, worldVars, keyVars
<1> QED
  BY <1>2, <1>3, <1>4, <1>5, DispatchStep, CommitStep, RollbackStep DEF Next

-----------------------------------------------------------------------------
\* The inductive invariant holds in every behaviour.
THEOREM Invariance == Spec => []IInv
BY InitIInv, IInvStep, PTL DEF Spec

\* Every variable keeps its type: retries never pass max_retries.
THEOREM TypeCorrect == Spec => []TypeOK
BY Invariance, IInvImplies, PTL

\* Receivers of oidc_logout_dispatched hear of a logout_token once, when its
\* job is over, whatever its retries.
THEOREM SignalledOnce == Spec => []OneTerminalSignal
BY Invariance, IInvImplies, PTL

\* attempt_count is the number of tries the relying party had.
THEOREM AttemptsCounted == Spec => []AttemptsReported
BY Invariance, IInvImplies, PTL

\* Key rotation between attempts does not change the token posted.
THEOREM SameTokenPosted == Spec => []RetriesIdentical
BY Invariance, IInvImplies, PTL

\* No POST for a trigger that has not committed or that the application
\* declined.
THEOREM OnlyDuePosts == Spec => []PostsAreDue
BY Invariance, IInvImplies, PTL

\* Every committed logout that failed has one dead-letter row while its
\* application exists.
THEOREM DeadLettersKept == Spec => []DeadLettersComplete
BY Invariance, IInvImplies, PTL

\* A reported verdict is final: no step posts again, or reports again.
THEOREM VerdictsFinal == Spec => VerdictFinal
<1> DEFINE Final == \A j \in Jobs : emitted[j] > 0 =>
              posts'[j] = posts[j] /\ outcome'[j] = outcome[j] /\ emitted'[j] = emitted[j]
<1>1. IInv /\ [Next]_vars => [Final]_vars
  <2> SUFFICES ASSUME IInv, Next, NEW j \in Jobs, emitted[j] > 0
               PROVE  /\ posts'[j] = posts[j] /\ outcome'[j] = outcome[j]
                      /\ emitted'[j] = emitted[j]
    OBVIOUS
  <2>1. phase[j] = "settled"
    BY DEF IInv, Told
  <2>2. WorkTypes
    BY TypeParts DEF IInv
  <2>3. ASSUME NEW i \in Jobs, phase[i] # "settled",
               Settle(i, "success", retries[i] + 1) \/ Settle(i, "refused", retries[i] + 1)
               \/ Settle(i, "blocked", retries[i] + 1) \/ Settle(i, "exhausted", retries[i] + 1)
               \/ Settle(i, "kid_retired", retries[i] + 1) \/ Silent
        PROVE  outcome'[j] = outcome[j] /\ emitted'[j] = emitted[j]
    BY <2>1, <2>3, EmitAt DEF Settle, Silent
  <2>4. ASSUME NEW i \in Jobs, WorkerStep(i) \/ Crash(i)
        PROVE  /\ posts'[j] = posts[j] /\ outcome'[j] = outcome[j]
               /\ emitted'[j] = emitted[j]
    <3>1. phase[i] # "settled" /\ posts'[j] = posts[j]
      BY <2>1, <2>2, <2>4
      DEF WorkerStep, DropGone, AbortRetired, RaiseUnreadable, AbortBlocked, Post, Succeed, Refuse, Fail,
          Crash, Taken, Answered, WorkTypes
    <3>2. \/ Settle(i, "success", retries[i] + 1) \/ Settle(i, "refused", retries[i] + 1)
          \/ Settle(i, "blocked", retries[i] + 1) \/ Settle(i, "exhausted", retries[i] + 1)
          \/ Settle(i, "kid_retired", retries[i] + 1) \/ Silent
      BY <2>4
      DEF WorkerStep, DropGone, AbortRetired, RaiseUnreadable, AbortBlocked, Post, Succeed, Refuse, Fail,
          Crash, FailTransiently
    <3> QED
      BY <3>1, <3>2, <2>3
  <2>5. ASSUME NEW i \in Jobs, NEW u \in Users, NEW a \in Apps, NEW why \in Reasons,
               Dispatch(i, u, a, why)
        PROVE  /\ posts'[j] = posts[j] /\ outcome'[j] = outcome[j]
               /\ emitted'[j] = emitted[j]
    <3>1. i # j /\ posts' = posts
      BY <2>1, <2>5 DEF Dispatch
    <3> QED
      BY <2>2, <2>5, <3>1 DEF Dispatch, Stage, StageFails, Silent, WorkTypes
  <2>6. ASSUME NEW u \in Users, Commit(u)
        PROVE  /\ posts'[j] = posts[j] /\ outcome'[j] = outcome[j]
               /\ emitted'[j] = emitted[j]
    <3>1. PICK S : Emit(S, "broker_unavailable", 0) /\ j \notin S
      BY <2>1, <2>6 DEF Commit
    <3> QED
      BY <2>6, <3>1, EmitAt DEF Commit
  <2>7. ASSUME \/ \E u \in Users : DeleteUser(u) \/ Rollback(u)
               \/ OperatorStep
        PROVE  /\ posts'[j] = posts[j] /\ outcome'[j] = outcome[j]
               /\ emitted'[j] = emitted[j]
    BY <2>7
    DEF DeleteUser, Rollback, OperatorStep, RotateKey, RetireKey, BreakKey, Deactivate,
        BlankUri, DeleteApp, jobVars
  <2> QED
    BY <2>4, <2>5, <2>6, <2>7 DEF Next
<1> QED
  BY <1>1, Invariance, PTL DEF Spec, VerdictFinal

-----------------------------------------------------------------------------
(* BackChannelLogout implements LogoutDelivery.                              *)

\* A job that moves without a signal moves its stage and nothing else.
LEMMA QuietMaps ==
    ASSUME WorkTypes, NEW j \in Jobs, NEW to,
           phase' = [phase EXCEPT ![j] = to], Silent
    PROVE  Delivery!Go(j, StageOf(to)) /\ Delivery!Quiet
<1>1. stageOf' = [stageOf EXCEPT ![j] = StageOf(to)]
  BY DEF stageOf, WorkTypes
<1>2. verdictOf' = verdictOf /\ emitted' = emitted
  BY DEF verdictOf, Silent
<1> QED
  BY <1>1, <1>2 DEF Delivery!Go, Delivery!Quiet

\* A job that settles is reported once, with the verdict of its outcome.
LEMMA SettleMaps ==
    ASSUME WorkTypes, NEW j \in Jobs, NEW what, NEW n, Settle(j, what, n)
    PROVE  Delivery!Report(j, VerdictOf(what))
<1>1. /\ phase' = [phase EXCEPT ![j] = "settled"]
      /\ emitted' = [i \in Jobs |-> IF i \in {j} THEN emitted[i] + 1 ELSE emitted[i]]
      /\ outcome' = [i \in Jobs |-> IF i \in {j} THEN what ELSE outcome[i]]
  BY DEF Settle, Emit
<1>2. stageOf' = [stageOf EXCEPT ![j] = "over"]
  BY <1>1 DEF stageOf, StageOf, WorkTypes
<1>3. emitted' = [emitted EXCEPT ![j] = @ + 1]
  BY <1>1 DEF WorkTypes
<1>4. verdictOf' = [verdictOf EXCEPT ![j] = VerdictOf(what)]
  BY <1>1 DEF verdictOf
<1> QED
  BY <1>2, <1>3, <1>4 DEF Delivery!Report, Delivery!Go

\* A failed attempt whose POST has been counted is a failed try.
LEMMA FailMaps ==
    ASSUME IInv, NEW j \in Jobs, FailTransiently(j), posts'[j] = retries[j] + 1
    PROVE  Delivery!FailedTry(j)
<1>1. WorkTypes
  BY TypeParts DEF IInv
<1>2. retries[j] \in Nat
  <2>1. retries[j] \in 0..MaxRetries
    BY <1>1 DEF WorkTypes
  <2> QED
    BY <2>1, BoundsAssumption
<1>3. CASE /\ retries[j] < MaxRetries
           /\ phase' = [phase EXCEPT ![j] = "queued"]
           /\ Silent
  <2>1. posts'[j] < MaxRetries + 1
    BY <1>2, <1>3, BoundsAssumption
  <2>2. Delivery!Go(j, "due") /\ Delivery!Quiet
    BY <1>1, <1>3, QuietMaps DEF StageOf
  <2> QED
    BY <2>1, <2>2 DEF Delivery!FailedTry
<1>4. CASE Settle(j, "exhausted", retries[j] + 1)
  <2>1. Delivery!Report(j, VerdictOf("exhausted"))
    BY <1>1, <1>4, SettleMaps
  <2> QED
    BY <2>1 DEF VerdictOf, Delivery!FailedTry
<1> QED
  BY <1>3, <1>4 DEF FailTransiently

\* A step of a worker, or its death, is a try, an answer or giving up.
LEMMA WorkerMaps ==
    ASSUME IInv, NEW j \in Jobs, WorkerStep(j) \/ Crash(j)
    PROVE  Delivery!Try(j) \/ Delivery!Answer(j) \/ Delivery!GiveUp(j)
<1>1. WorkTypes
  BY TypeParts DEF IInv
<1>2. /\ retries[j] \in 0..MaxRetries
      /\ phase[j] = "queued" => posts[j] = retries[j]
      /\ phase[j] = "posting" => posts[j] = retries[j] + 1
  BY <1>1 DEF WorkTypes, IInv, Told, PhaseTells
<1>3. /\ phase[j] = "queued" => stageOf[j] = "due"
      /\ phase[j] = "posting" => stageOf[j] = "trying"
  BY DEF stageOf, StageOf
<1>4. CASE DropGone(j) \/ RaiseUnreadable(j) \/ Crash(j)
  <2>1. PICK to \in {"dropped", "raised", "lost"} :
          /\ phase[j] \in {"queued", "posting"}
          /\ phase' = [phase EXCEPT ![j] = to]
          /\ Silent /\ UNCHANGED posts
    BY <1>4 DEF DropGone, RaiseUnreadable, Crash, Taken
  <2>2. Delivery!Go(j, "over") /\ Delivery!Quiet
    BY <1>1, <2>1, QuietMaps DEF StageOf
  <2> QED
    BY <1>3, <2>1, <2>2 DEF Delivery!GiveUp
<1>5. CASE AbortRetired(j) \/ AbortBlocked(j)
  <2>1. PICK what \in {"kid_retired", "blocked"} :
          /\ phase[j] = "queued"
          /\ Settle(j, what, retries[j] + 1)
          /\ UNCHANGED posts
    BY <1>5 DEF AbortRetired, AbortBlocked, Taken
  <2>2. Delivery!Report(j, "failed")
    BY <1>1, <2>1, SettleMaps DEF VerdictOf
  <2> QED
    BY <1>3, <2>1, <2>2 DEF Delivery!GiveUp
<1>6. CASE Post(j)
  <2>1. /\ phase[j] = "queued"
        /\ posts' = [posts EXCEPT ![j] = @ + 1]
    BY <1>6 DEF Post, Taken
  <2>2. posts[j] < MaxRetries + 1 /\ posts'[j] = retries[j] + 1
    <3>1. posts'[j] = posts[j] + 1
      BY <1>1, <2>1 DEF WorkTypes
    <3> QED
      BY <1>2, <2>1, <3>1, BoundsAssumption
  <2>3. CASE phase' = [phase EXCEPT ![j] = "posting"] /\ Silent
    <3>1. Delivery!Go(j, "trying") /\ Delivery!Quiet
      BY <1>1, <2>3, QuietMaps DEF StageOf
    <3> QED
      BY <1>3, <2>1, <2>2, <3>1 DEF Delivery!Try
  <2>4. CASE FailTransiently(j)
    <3>1. Delivery!FailedTry(j)
      BY <2>2, <2>4, FailMaps
    <3> QED
      BY <1>3, <2>1, <2>2, <3>1 DEF Delivery!Try
  <2> QED
    BY <1>6, <2>3, <2>4 DEF Post
<1>7. CASE Succeed(j) \/ Refuse(j)
  <2>1. PICK what \in {"success", "refused"} :
          /\ phase[j] = "posting"
          /\ Settle(j, what, retries[j] + 1)
          /\ UNCHANGED posts
    BY <1>7 DEF Succeed, Refuse, Answered
  <2>2. Delivery!Report(j, "delivered") \/ Delivery!Report(j, "failed")
    BY <1>1, <2>1, SettleMaps DEF VerdictOf
  <2> QED
    BY <1>3, <2>1, <2>2 DEF Delivery!Answer, Delivery!FailedTry
<1>8. CASE Fail(j)
  <2>1. phase[j] = "posting" /\ FailTransiently(j) /\ UNCHANGED posts
    BY <1>8 DEF Fail, Answered
  <2>2. Delivery!FailedTry(j)
    BY <1>2, <2>1, FailMaps
  <2> QED
    BY <1>3, <2>1, <2>2 DEF Delivery!Answer
<1> QED
  BY <1>4, <1>5, <1>6, <1>7, <1>8 DEF WorkerStep

\* A transaction ends: its staged jobs become due, fail with the broker, or
\* are lost with their process or their transaction.
LEMMA TransactionMaps ==
    ASSUME IInv, NEW u \in Users, Commit(u) \/ Rollback(u)
    PROVE  Delivery!EndTransaction
<1> DEFINE mine == {j \in open : user[j] = u}
           staged == {j \in mine : phase[j] = "staged"}
<1>1. open \subseteq Jobs /\ UNCHANGED posts
  BY DEF IInv, TypeOK, Commit, Rollback
<1>2. staged \in SUBSET {j \in Jobs : stageOf[j] = "pending"}
  BY <1>1 DEF stageOf, StageOf
<1>3. CASE Commit(u)
  <2>1. PICK refused \in SUBSET staged, dead \in SUBSET staged :
          /\ refused \cap dead = {}
          /\ phase' = [j \in Jobs |->
               CASE j \in refused -> "settled"
                 [] j \in dead -> "lost"
                 [] j \in staged \ (refused \cup dead) -> "queued"
                 [] OTHER -> phase[j]]
          /\ Emit(refused, "broker_unavailable", 0)
    BY <1>3 DEF Commit
  <2> DEFINE due == staged \ (refused \cup dead)
  <2>2. refused \in SUBSET (staged \ due) /\ due \in SUBSET staged
    OBVIOUS
  <2>3. stageOf' = [j \in Jobs |-> IF j \in due THEN "due"
                                   ELSE IF j \in staged THEN "over" ELSE stageOf[j]]
    <3>1. ASSUME NEW j \in Jobs
          PROVE  StageOf(phase'[j]) = IF j \in due THEN "due"
                                      ELSE IF j \in staged THEN "over" ELSE stageOf[j]
      <4>1. phase'[j] = IF j \in refused THEN "settled" ELSE IF j \in dead THEN "lost"
                        ELSE IF j \in staged THEN "queued" ELSE phase[j]
        BY <2>1
      <4> QED
        BY <2>1, <4>1 DEF StageOf, stageOf
    <3> QED
      BY <3>1 DEF stageOf
  <2>4. emitted' = [j \in Jobs |-> IF j \in refused THEN emitted[j] + 1 ELSE emitted[j]]
    BY <2>1 DEF Emit
  <2>5. verdictOf' = [j \in Jobs |-> IF j \in refused THEN "failed" ELSE verdictOf[j]]
    BY <2>1 DEF Emit, verdictOf, VerdictOf
  <2> QED
    BY <1>1, <1>2, <2>2, <2>3, <2>4, <2>5 DEF Delivery!EndTransaction
<1>4. CASE Rollback(u)
  <2>1. /\ phase' = [j \in Jobs |-> IF j \in mine /\ phase[j] = "staged"
                                    THEN "withdrawn" ELSE phase[j]]
        /\ UNCHANGED <<emitted, outcome>>
    BY <1>4 DEF Rollback
  <2>2. stageOf' = [j \in Jobs |-> IF j \in {} THEN "due"
                                   ELSE IF j \in staged THEN "over" ELSE stageOf[j]]
    BY <2>1 DEF stageOf, StageOf
  <2>3. /\ emitted' = [j \in Jobs |-> IF j \in {} THEN emitted[j] + 1 ELSE emitted[j]]
        /\ verdictOf' = [j \in Jobs |-> IF j \in {} THEN "failed" ELSE verdictOf[j]]
    BY <2>1 DEF verdictOf, IInv, TypeOK
  <2>4. {} \in SUBSET staged /\ {} \in SUBSET (staged \ {})
    OBVIOUS
  <2> QED
    BY <1>1, <1>2, <2>2, <2>3, <2>4 DEF Delivery!EndTransaction
<1> QED
  BY <1>3, <1>4

\* A trigger asks for a logout: it is pending, or has failed at once.
LEMMA DispatchMaps ==
    ASSUME IInv, NEW j \in Jobs, NEW u \in Users, NEW a \in Apps, NEW why \in Reasons,
           Dispatch(j, u, a, why)
    PROVE  Delivery!Ask(j)
<1>1. WorkTypes
  BY TypeParts DEF IInv
<1>2. stageOf[j] = "none" /\ UNCHANGED posts
  BY DEF Dispatch, stageOf, StageOf
<1>3. CASE Stage(j)
  <2>1. Delivery!Go(j, "pending") /\ Delivery!Quiet
    BY <1>1, <1>3, QuietMaps DEF Stage, StageOf
  <2> QED
    BY <1>2, <2>1 DEF Delivery!Ask
<1>4. CASE StageFails(j)
  <2>1. /\ phase' = [phase EXCEPT ![j] = "settled"]
        /\ emitted' = [emitted EXCEPT ![j] = @ + 1]
        /\ outcome' = [outcome EXCEPT ![j] = "kid_unresolved"]
    BY <1>4 DEF StageFails
  <2>2. stageOf' = [stageOf EXCEPT ![j] = "over"]
    BY <1>1, <2>1 DEF stageOf, StageOf, WorkTypes
  <2>3. verdictOf' = [verdictOf EXCEPT ![j] = "failed"]
    BY <1>1, <2>1 DEF verdictOf, VerdictOf, WorkTypes
  <2> QED
    BY <1>2, <2>1, <2>2, <2>3 DEF Delivery!Ask, Delivery!Report, Delivery!Go
<1> QED
  BY <1>3, <1>4 DEF Dispatch

\* Every step is a step, or a stutter, of LogoutDelivery.
LEMMA DeliveryStep == IInv /\ [Next]_vars => [Delivery!Next]_(Delivery!vars)
<1> SUFFICES ASSUME IInv, [Next]_vars PROVE [Delivery!Next]_(Delivery!vars)
  OBVIOUS
<1>1. ASSUME NEW j \in Jobs, WorkerStep(j) \/ Crash(j) PROVE Delivery!Next
  BY <1>1, WorkerMaps DEF Delivery!Next
<1>2. ASSUME NEW u \in Users, Commit(u) \/ Rollback(u) PROVE Delivery!Next
  BY <1>2, TransactionMaps DEF Delivery!Next
<1>3. ASSUME NEW j \in Jobs, NEW u \in Users, NEW a \in Apps, NEW why \in Reasons,
             Dispatch(j, u, a, why)
      PROVE  Delivery!Next
  BY <1>3, DispatchMaps DEF Delivery!Next
<1>4. ASSUME UNCHANGED jobVars PROVE UNCHANGED Delivery!vars
  BY <1>4 DEF jobVars, Delivery!vars, stageOf, verdictOf
<1>5. ASSUME (\E u \in Users : DeleteUser(u)) \/ OperatorStep \/ UNCHANGED vars
      PROVE  UNCHANGED jobVars
  BY <1>5
  DEF DeleteUser, OperatorStep, RotateKey, RetireKey, BreakKey, Deactivate, BlankUri,
      DeleteApp, vars
<1> QED
  BY <1>1, <1>2, <1>3, <1>4, <1>5 DEF Next

\* The dispatcher, the broker and the workers implement LogoutDelivery: no try
\* before the transaction ends well, none after the report, max_retries + 1 of
\* them at most, one report, and "delivered" only in answer to a try.
THEOREM Refinement == Spec => DeliverySpec
<1>1. Init => Delivery!Init
  BY DEF Init, Delivery!Init, stageOf, StageOf, verdictOf, VerdictOf
<1> QED
  BY <1>1, DeliveryStep, Invariance, PTL DEF Spec, DeliverySpec, Delivery!Spec

-----------------------------------------------------------------------------
(* The variant of the retries.                                               *)

\* What is left of a job is a natural number, and nothing unless it is queued
\* or posting.
LEMMA StepsLeftNatural ==
    ASSUME IInv, NEW j \in Jobs
    PROVE  /\ StepsLeft(j) \in Nat
           /\ phase[j] = "queued" => StepsLeft(j) = 2 * (MaxRetries - retries[j]) + 2
           /\ phase[j] = "posting" => StepsLeft(j) = 2 * (MaxRetries - retries[j]) + 1
           /\ phase[j] \notin {"queued", "posting"} => StepsLeft(j) = 0
<1>1. retries[j] \in 0..MaxRetries
  BY DEF IInv, TypeOK
<1> QED
  BY <1>1, BoundsAssumption DEF StepsLeft

\* A step of the worker leaves less to do.
LEMMA WorkerShortens ==
    ASSUME IInv, IInv', NEW j \in Jobs, WorkerStep(j) \/ Crash(j)
    PROVE  StepsLeft(j)' < StepsLeft(j) /\ StepsLeft(j)' <= StepsLeft(j)
<1>1. /\ retries \in [Jobs -> 0..MaxRetries] /\ retries[j] \in 0..MaxRetries
      /\ phase \in [Jobs -> Phases]
  BY DEF IInv, TypeOK
<1>2. /\ phase[j] = "queued" => StepsLeft(j) = 2 * (MaxRetries - retries[j]) + 2
      /\ phase[j] = "posting" => StepsLeft(j) = 2 * (MaxRetries - retries[j]) + 1
  BY StepsLeftNatural
<1>3. /\ phase'[j] = "queued" => StepsLeft(j)' = 2 * (MaxRetries - retries'[j]) + 2
      /\ phase'[j] = "posting" => StepsLeft(j)' = 2 * (MaxRetries - retries'[j]) + 1
      /\ phase'[j] \notin {"queued", "posting"} => StepsLeft(j)' = 0
  BY DEF StepsLeft
<1>4. phase[j] \in {"queued", "posting"} => StepsLeft(j) > 0
  BY <1>1, <1>2, BoundsAssumption
<1>5. /\ phase[j] \in {"queued", "posting"}
      /\ \/ phase'[j] \notin {"queued", "posting"}
         \/ phase[j] = "queued" /\ phase'[j] = "posting" /\ retries'[j] = retries[j]
         \/ /\ phase'[j] = "queued" /\ retries[j] < MaxRetries
            /\ retries'[j] = retries[j] + 1
  BY <1>1
  DEF WorkerStep, Crash, DropGone, AbortRetired, RaiseUnreadable, AbortBlocked, Post,
      Succeed, Refuse, Fail, Taken, Answered, FailTransiently, Settle
<1>6. CASE phase'[j] \notin {"queued", "posting"}
  <2>1. StepsLeft(j) \in Nat
    BY StepsLeftNatural
  <2> QED
    BY <1>3, <1>4, <1>5, <1>6, <2>1
<1>7. CASE phase[j] = "queued" /\ phase'[j] = "posting" /\ retries'[j] = retries[j]
  BY <1>1, <1>2, <1>3, <1>7, BoundsAssumption
<1>8. CASE /\ phase'[j] = "queued" /\ retries[j] < MaxRetries
           /\ retries'[j] = retries[j] + 1
  BY <1>1, <1>2, <1>3, <1>5, <1>8, BoundsAssumption
<1> QED
  BY <1>5, <1>6, <1>7, <1>8

\* A worker that holds a job makes at most 2 * (max_retries + 1) steps for it,
\* and nothing that happens after the commit grants it more.
THEOREM RetriesRunOut == Spec => AttemptsRunOut
<1> DEFINE Shorter == \A j \in Jobs :
             /\ j \in committed => StepsLeft(j)' <= StepsLeft(j)
             /\ WorkerStep(j) => StepsLeft(j)' < StepsLeft(j)
<1>1. IInv /\ IInv' /\ [Next]_vars => [Shorter]_vars
  <2> SUFFICES ASSUME IInv, IInv', Next, NEW j \in Jobs
               PROVE  /\ j \in committed => StepsLeft(j)' <= StepsLeft(j)
                      /\ WorkerStep(j) => StepsLeft(j)' < StepsLeft(j)
    OBVIOUS
  <2>0. ASSUME WorkerStep(j) \/ Crash(j)
        PROVE  StepsLeft(j)' < StepsLeft(j) /\ StepsLeft(j)' <= StepsLeft(j)
    BY <2>0, WorkerShortens
  <2> SUFFICES ASSUME j \in committed, ~(WorkerStep(j) \/ Crash(j))
               PROVE  StepsLeft(j)' <= StepsLeft(j)
    BY <2>0
  <2>1. StepsLeft(j) \in Nat
    BY StepsLeftNatural
  <2>2. /\ phase \in [Jobs -> Phases] /\ retries \in [Jobs -> 0..MaxRetries]
        /\ phase[j] \notin {"free", "staged"} /\ j \notin open
    BY DEF IInv, TypeOK, Told, PhaseTells
  <2>3. phase'[j] = phase[j] /\ retries'[j] = retries[j]
    <3>1. ASSUME NEW i \in Jobs, i # j, WorkerStep(i) \/ Crash(i)
          PROVE  phase'[j] = phase[j] /\ retries'[j] = retries[j]
      BY <2>2, <3>1
      DEF WorkerStep, Crash, DropGone, AbortRetired, RaiseUnreadable, AbortBlocked, Post,
          Succeed, Refuse, Fail, Taken, Answered, FailTransiently, Settle
    <3>2. ASSUME NEW i \in Jobs, NEW u \in Users, NEW a \in Apps, NEW why \in Reasons,
                 Dispatch(i, u, a, why)
          PROVE  phase'[j] = phase[j] /\ retries'[j] = retries[j]
      <4>1. i # j
        BY <2>2, <3>2 DEF Dispatch
      <4> QED
        BY <2>2, <3>2, <4>1 DEF Dispatch, Stage, StageFails
    <3>3. ASSUME NEW u \in Users, Commit(u)
          PROVE  phase'[j] = phase[j] /\ retries'[j] = retries[j]
      BY <2>2, <3>3 DEF Commit
    <3>4. ASSUME NEW u \in Users, Rollback(u)
          PROVE  phase'[j] = phase[j] /\ retries'[j] = retries[j]
      BY <2>2, <3>4 DEF Rollback
    <3>5. ASSUME (\E u \in Users : DeleteUser(u)) \/ OperatorStep
          PROVE  phase'[j] = phase[j] /\ retries'[j] = retries[j]
      BY <3>5
      DEF DeleteUser, OperatorStep, RotateKey, RetireKey, BreakKey, Deactivate, BlankUri,
          DeleteApp, jobVars
    <3> QED
      BY <3>1, <3>2, <3>3, <3>4, <3>5 DEF Next
  <2>4. StepsLeft(j)' = StepsLeft(j)
    BY <2>3 DEF StepsLeft
  <2> QED
    BY <2>1, <2>4
<1> QED
  BY <1>1, Invariance, PTL DEF Spec, AttemptsRunOut

-----------------------------------------------------------------------------
(* Where DeletedUserLoggedOut fails: everywhere.                             *)

\* A logout of a deleted user is dispatched while its row is doomed and
\* enqueued when the row is gone, so that no worker finds its user.
DeletedTells(j) ==
    /\ phase[j] = "free" => outcome[j] = ""
    /\ phase[j] = "settled" => outcome[j] # ""
    /\ reason[j] = "user_deleted" =>
         /\ posts[j] = 0
         /\ outcome[j] \in {"", "kid_unresolved", "broker_unavailable"}
         /\ j \in open => user[j] \in doomed
         /\ j \in committed => user[j] \notin users

DeletedInv == \A j \in Jobs : DeletedTells(j)

\* The worker of such a job, if it takes it, drops it.
LEMMA DeletedWorker ==
    ASSUME IInv, DeletedInv, NEW i \in Jobs, WorkerStep(i) \/ Crash(i)
    PROVE  DeletedInv'
<1> SUFFICES ASSUME NEW j \in Jobs PROVE DeletedTells(j)'
  BY DEF DeletedInv
<1>1. WorkTypes /\ DeletedTells(j) /\ PhaseTells(j)
  BY TypeParts DEF IInv, DeletedInv, Told
<1>2. UNCHANGED <<user, reason, open, committed, doomed, users>>
  BY DEF WorkerStep, Crash, DropGone, AbortRetired, RaiseUnreadable, AbortBlocked, Post,
         Succeed, Refuse, Fail, Taken, Answered, argVars, txnVars, worldVars
<1>3. /\ phase[i] \in {"queued", "posting"}
      /\ phase'[i] # "free"
      /\ phase'[i] = "settled" => outcome'[i] # ""
      /\ i # j => phase'[j] = phase[j] /\ posts'[j] = posts[j] /\ outcome'[j] = outcome[j]
  <2>1. phase[i] \in {"queued", "posting"}
    BY DEF WorkerStep, Crash, DropGone, AbortRetired, RaiseUnreadable, AbortBlocked, Post,
           Succeed, Refuse, Fail, Taken, Answered
  <2>2. \/ /\ Silent
           /\ \E to \in {"queued", "posting", "dropped", "raised", "lost"} :
                phase' = [phase EXCEPT ![i] = to]
        \/ \E what \in WorkerOutcomes : Settle(i, what, retries[i] + 1)
    BY DEF WorkerStep, Crash, DropGone, AbortRetired, RaiseUnreadable, AbortBlocked, Post,
           Succeed, Refuse, Fail, FailTransiently, WorkerOutcomes, HttpOutcomes
  <2>3. posts' = posts \/ posts' = [posts EXCEPT ![i] = @ + 1]
    BY DEF WorkerStep, Crash, DropGone, AbortRetired, RaiseUnreadable, AbortBlocked, Post,
           Succeed, Refuse, Fail, Answered
  <2>4. CASE Silent /\ \E to \in {"queued", "posting", "dropped", "raised", "lost"} :
                         phase' = [phase EXCEPT ![i] = to]
    BY <1>1, <2>1, <2>3, <2>4 DEF WorkTypes, Silent
  <2>5. ASSUME NEW what \in WorkerOutcomes, Settle(i, what, retries[i] + 1)
        PROVE  /\ phase'[i] = "settled" /\ outcome'[i] # ""
               /\ i # j => phase'[j] = phase[j] /\ outcome'[j] = outcome[j]
    <3>1. phase' = [phase EXCEPT ![i] = "settled"] /\ Emit({i}, what, retries[i] + 1)
      BY <2>5 DEF Settle
    <3>2. outcome'[i] = what /\ (i # j => outcome'[j] = outcome[j])
      BY <3>1, EmitAt
    <3> QED
      BY <1>1, <3>1, <3>2 DEF WorkTypes, WorkerOutcomes, HttpOutcomes
  <2> QED
    BY <1>1, <2>1, <2>2, <2>3, <2>4, <2>5 DEF WorkTypes
<1>4. CASE i # j
  BY <1>1, <1>2, <1>3, <1>4 DEF DeletedTells
<1>5. CASE i = j
  <2>1. ASSUME reason[j] = "user_deleted"
        PROVE  posts' = posts /\ outcome' = outcome
    <3>1. phase[j] = "queued" /\ user[j] \notin users
      <4>1. posts[j] = 0 /\ (j \in committed => user[j] \notin users)
        BY <1>1, <2>1 DEF DeletedTells
      <4>2. retries[j] + 1 # 0
        <5>1. retries[j] \in 0..MaxRetries
          BY <1>1 DEF WorkTypes
        <5> QED
          BY <5>1, BoundsAssumption
      <4>3. phase[j] # "posting" /\ (phase[j] = "queued" => j \in committed)
        BY <1>1, <4>1, <4>2 DEF PhaseTells
      <4> QED
        BY <1>3, <1>5, <4>1, <4>3
    <3> QED
      BY <1>5, <3>1
      DEF WorkerStep, Crash, DropGone, AbortRetired, RaiseUnreadable, AbortBlocked, Post,
          Succeed, Refuse, Fail, Taken, Answered, Silent
  <2> QED
    BY <1>1, <1>2, <1>3, <1>5, <2>1 DEF DeletedTells
<1> QED
  BY <1>4, <1>5

\* A deletion's logouts are dispatched while its transaction is open.
LEMMA DeletedDispatch ==
    ASSUME IInv, DeletedInv, NEW i \in Jobs, NEW u \in Users, NEW a \in Apps,
           NEW why \in Reasons, Dispatch(i, u, a, why)
    PROVE  DeletedInv'
<1> SUFFICES ASSUME NEW j \in Jobs PROVE DeletedTells(j)'
  BY DEF DeletedInv
<1>1. WorkTypes /\ ArgTypes /\ DeletedTells(j) /\ PhaseTells(j)
  BY TypeParts DEF IInv, DeletedInv, Told
<1>2. /\ phase[i] = "free" /\ (u \in doomed <=> why = "user_deleted")
      /\ user' = [user EXCEPT ![i] = u] /\ reason' = [reason EXCEPT ![i] = why]
      /\ open' = open \cup {i}
      /\ UNCHANGED <<committed, doomed, posts, users>>
  BY DEF Dispatch, worldVars
<1>3. \/ phase' = [phase EXCEPT ![i] = "staged"] /\ outcome' = outcome
      \/ /\ phase' = [phase EXCEPT ![i] = "settled"]
         /\ outcome' = [outcome EXCEPT ![i] = "kid_unresolved"]
  BY DEF Dispatch, Stage, StageFails, Silent
<1>4. CASE i # j
  BY <1>1, <1>2, <1>3, <1>4 DEF DeletedTells, WorkTypes, ArgTypes
<1>5. CASE i = j
  <2>1. posts[j] = 0 /\ outcome[j] = "" /\ j \notin committed
    BY <1>1, <1>2, <1>5 DEF DeletedTells, PhaseTells
  <2> QED
    BY <1>1, <1>2, <1>3, <1>5, <2>1 DEF DeletedTells, WorkTypes, ArgTypes
<1> QED
  BY <1>4, <1>5

\* The row goes with the commit that enqueues the logouts.
LEMMA DeletedTransaction ==
    ASSUME IInv, DeletedInv, NEW u \in Users, Commit(u) \/ Rollback(u)
    PROVE  DeletedInv'
<1> DEFINE mine == {i \in open : user[i] = u}
<1> SUFFICES ASSUME NEW j \in Jobs PROVE DeletedTells(j)'
  BY DEF DeletedInv
<1>1. DeletedTells(j) /\ PhaseTells(j)
  BY DEF IInv, DeletedInv, Told
<1>2. /\ UNCHANGED <<user, reason, posts>>
      /\ open' = open \ mine /\ doomed' = doomed \ {u}
  BY DEF Commit, Rollback, argVars
<1>3. CASE Commit(u)
  <2>1. committed' = committed \cup mine /\ users' = users \ (doomed \cap {u})
    BY <1>3 DEF Commit
  <2>2. /\ phase'[j] = "free" => phase[j] = "free" /\ outcome'[j] = outcome[j]
        /\ phase'[j] = "settled" => phase[j] = "settled" \/ outcome'[j] # ""
        /\ outcome'[j] \in {outcome[j], "broker_unavailable"}
    <3>1. PICK refused \in SUBSET {i \in mine : phase[i] = "staged"},
               dead \in SUBSET {i \in mine : phase[i] = "staged"} :
            /\ phase'[j] = CASE j \in refused -> "settled"
                             [] j \in dead -> "lost"
                             [] j \in {i \in mine : phase[i] = "staged"} \ (refused \cup dead)
                                  -> "queued"
                             [] OTHER -> phase[j]
            /\ refused \cap dead = {}
            /\ Emit(refused, "broker_unavailable", 0)
      BY <1>3 DEF Commit
    <3>2. phase'[j] = IF j \in refused THEN "settled" ELSE IF j \in dead THEN "lost"
                      ELSE IF j \in mine /\ phase[j] = "staged" THEN "queued" ELSE phase[j]
      BY <3>1
    <3>3. outcome'[j] = IF j \in refused THEN "broker_unavailable" ELSE outcome[j]
      <4>1. Emit(refused, "broker_unavailable", 0)
        BY <3>1
      <4> QED
        BY <4>1, EmitAt
    <3> QED
      BY <3>2, <3>3
  <2> QED
    BY <1>1, <1>2, <2>1, <2>2 DEF DeletedTells
<1>4. CASE Rollback(u)
  <2>1. /\ UNCHANGED <<committed, users, outcome>>
        /\ phase'[j] \in {"free", "settled"} => phase[j] = phase'[j]
    BY <1>4 DEF Rollback, worldVars
  <2> QED
    BY <1>1, <1>2, <2>1 DEF DeletedTells
<1> QED
  BY <1>3, <1>4

\* Every step keeps what is true of a deletion's logouts.
LEMMA DeletedStep == IInv /\ DeletedInv /\ [Next]_vars => DeletedInv'
<1> SUFFICES ASSUME IInv, DeletedInv, [Next]_vars PROVE DeletedInv'
  OBVIOUS
<1>1. ASSUME (\E u \in Users : DeleteUser(u)) \/ OperatorStep \/ UNCHANGED vars
      PROVE  DeletedInv'
  <2>1. /\ UNCHANGED <<phase, posts, outcome, user, reason, open, committed, users>>
        /\ doomed \subseteq doomed'
    BY <1>1
    DEF DeleteUser, OperatorStep, RotateKey, RetireKey, BreakKey, Deactivate, BlankUri,
        DeleteApp, vars, jobVars, argVars, txnVars, worldVars
  <2> QED
    BY <2>1 DEF DeletedInv, DeletedTells
<1> QED
  BY <1>1, DeletedWorker, DeletedDispatch, DeletedTransaction DEF Next

\* A deleted user's logout reaches no relying party, and is reported only when
\* the dispatcher had no key or the broker refused the task: DeletedUserLoggedOut
\* fails for every other deletion.
THEOREM DeletionsNotPosted == Spec => []DeletionNeverPosted
<1>1. Init => DeletedInv
  BY DEF Init, DeletedInv, DeletedTells
<1>2. IInv /\ DeletedInv => DeletionNeverPosted
  <2> SUFFICES ASSUME IInv, DeletedInv, NEW j \in Jobs, reason[j] = "user_deleted"
               PROVE  /\ posts[j] = 0
                      /\ emitted[j] > 0 =>
                           outcome[j] \in {"kid_unresolved", "broker_unavailable"}
    BY DEF DeletionNeverPosted
  <2>1. DeletedTells(j)
    BY DEF DeletedInv
  <2> QED
    <3>1. emitted[j] > 0 => phase[j] = "settled"
      BY DEF IInv, Told
    <3> QED
      BY <2>1, <3>1 DEF DeletedTells
<1> QED
  BY <1>1, <1>2, Invariance, DeletedStep, PTL DEF Spec

=============================================================================
