------------------------- MODULE CodeExchangeProofs -------------------------
(***************************************************************************)
(* Theorems about CodeExchange for every set of codes, requests and pairs  *)
(* and every lifetime.  The inductive invariant IInv is the conjunction of *)
(* TypeOK and of named facts about what a pair, an audit row and a request *)
(* in progress say of one another.                                         *)
(***************************************************************************)
EXTENDS CodeExchange, TLAPS

\* A pair that exists has a code and a chain head that exist and share them.
PairsRooted ==
    \A p \in Pairs : at[p] # "unborn" =>
        /\ source[p] \in Codes
        /\ root[p] \in Pairs
        /\ at[root[p]] # "unborn"

\* A pair not saved yet has left no trace.
UnbornBlank ==
    \A p \in Pairs : at[p] = "unborn" =>
        rt[p] = "unborn" /\ root[p] = NoPair /\ p \notin answered

\* A request in progress holds what its last step left it with.
RequestHolds ==
    \A r \in Requests :
        /\ pc[r] # "idle" => code[r] \in Codes
        /\ pc[r] \in {"saved", "refreshing", "rotating"} =>
             /\ held[r] \in Pairs
             /\ at[held[r]] # "unborn"
             /\ source[held[r]] = code[r]
        /\ pc[r] = "saved" => Direct(held[r])
        /\ pc[r] \in {"validated", "saving", "saved"} => grant[code[r]] # "none"

\* An answered code has lost its grant.
AnsweredClosed ==
    \A p \in answered : Direct(p) => grant[source[p]] = "deleted"

\* A revoked refresh token has lost its access token.
RevokedWhole == \A p \in Pairs : rt[p] = "revoked" => at[p] # "stored"

\* An audit row is no older than the first exchange of its code.
AuditDated ==
    \A c \in Codes : link[c] # NoPair =>
        \E p \in DirectPairs(c) : born[p] <= auditBorn[c]

\* The cleanup reads its clock before it runs.
SweepPast == sweep # NoSweep => sweep <= clock

\* A recalled code has an exchange whose pair is gone for good.
RecalledGone ==
    \A c \in recalled :
        \E p \in DirectPairs(c) : at[p] # "stored" /\ rt[p] # "stored"

\* A counted reuse has its row.
ReuseLinked == \A c \in Codes : reuse[c] > 0 => link[c] # NoPair

IInv ==
    /\ TypeOK
    /\ PairsRooted
    /\ UnbornBlank
    /\ RequestHolds
    /\ AnsweredClosed
    /\ RevokedWhole
    /\ AuditLinksItsExchange
    /\ AuditDated
    /\ FirstExchangeAudited
    /\ SweepPast
    /\ RecalledGone
    /\ ReuseLinked

-----------------------------------------------------------------------------
\* Before any code is issued the inductive invariant holds.
LEMMA InitIInv == Init => IInv
<1> SUFFICES ASSUME Init PROVE IInv
  OBVIOUS
<1> USE SentinelAssumption, LifetimesAssumption DEF Init
<1>1. TypeOK
  BY DEF TypeOK, AtStates, RtStates, AccessStates
<1>2. PairsRooted /\ UnbornBlank /\ RequestHolds /\ AnsweredClosed
  BY DEF PairsRooted, UnbornBlank, RequestHolds, AnsweredClosed
<1>3. RevokedWhole /\ SweepPast /\ RecalledGone /\ ReuseLinked
  BY DEF RevokedWhole, SweepPast, RecalledGone, ReuseLinked
<1>4. AuditLinksItsExchange /\ AuditDated
  BY DEF AuditLinksItsExchange, AuditDated
<1>5. FirstExchangeAudited
  BY DEF FirstExchangeAudited, Direct
<1>6. QED
  BY <1>1, <1>2, <1>3, <1>4, <1>5 DEF IInv

-----------------------------------------------------------------------------
\* Every operation keeps the type of every variable.
LEMMA TypeStep == TypeOK /\ AuditLinksItsExchange /\ RequestHolds /\ [Next]_vars => TypeOK'
<1> SUFFICES ASSUME TypeOK, AuditLinksItsExchange, RequestHolds, [Next]_vars PROVE TypeOK'
  OBVIOUS
<1> USE SentinelAssumption, LifetimesAssumption
        DEF TypeOK, AtStates, RtStates, AccessStates, vars, dbVars, reqVars, envVars, obsVars
<1>1. ASSUME NEW c \in Codes, StoreGrant(c) PROVE TypeOK'
  BY <1>1 DEF StoreGrant
<1>2. ASSUME NEW r \in Requests, NEW c \in Codes, ValidateCode(r, c) PROVE TypeOK'
  BY <1>2 DEF ValidateCode, Goto
<1>3. ASSUME NEW r \in Requests, ReuseMiss(r) PROVE TypeOK'
  BY <1>3 DEF ReuseMiss, Release, Goto, RequestHolds
<1>4. ASSUME NEW r \in Requests, ReuseHit(r) PROVE TypeOK'
  BY <1>4 DEF ReuseHit, RevokePair, Release, Goto, RequestHolds
<1>5. ASSUME NEW r \in Requests, NEW p \in Pairs, SaveBearerToken(r, p) PROVE TypeOK'
  BY <1>5 DEF SaveBearerToken, Mint, FirstRefresh, RecordIssuance,
              Goto, RequestHolds
<1>6. ASSUME NEW r \in Requests, InvalidateAuthorizationCode(r) PROVE TypeOK'
  BY <1>6 DEF InvalidateAuthorizationCode, Release, Goto, RequestHolds
<1>7. ASSUME NEW r \in Requests, NEW p \in Pairs, ValidateRefreshToken(r, p) PROVE TypeOK'
  BY <1>7 DEF ValidateRefreshToken, StartRefresh, Goto
<1>8. ASSUME NEW r \in Requests, NEW q \in Pairs, SaveRotation(r, q) PROVE TypeOK'
  BY <1>8 DEF SaveRotation, Rotate, Mint, Release, Goto, RequestHolds
<1>9. ASSUME NEW r \in Requests, DecideSave(r) \/ RefuseSave(r) \/ Abort(r)
      PROVE  TypeOK'
  BY <1>9 DEF DecideSave, RefuseSave, Abort, Release, Goto
<1>10. ASSUME NEW p \in Pairs, ReplayRefreshToken(p) PROVE TypeOK'
  BY <1>10 DEF ReplayRefreshToken
<1>11. CASE ClearExpired
  BY <1>11 DEF ClearExpired
<1>12. CASE PurgeAudits
  BY <1>12 DEF PurgeAudits
<1>13. CASE Tick
  BY <1>13 DEF Tick
<1>14. ASSUME NEW c \in Codes, ChangeAccess(c) \/ ToggleActive(c) PROVE TypeOK'
  BY <1>14 DEF ChangeAccess, ToggleActive
<1>15. CASE UNCHANGED vars
  BY <1>15
<1>16. QED
  BY <1>1, <1>2, <1>3, <1>4, <1>5, <1>6, <1>7, <1>8, <1>9, <1>10, <1>11, <1>12,
     <1>13, <1>14, <1>15 DEF Next, RequestStep

-----------------------------------------------------------------------------
\* What no step does to a pair that exists: it keeps its code, its chain and
\* its date, and neither of its tokens comes back.
PairKept(p) ==
    /\ at'[p] # "unborn"
    /\ source'[p] = source[p]
    /\ root'[p] = root[p]
    /\ born'[p] = born[p]
    /\ at'[p] = "stored" => at[p] = "stored"
    /\ rt'[p] = "stored" => rt[p] = "stored"

\* What one step can do to a pair that exists: its origin stays, and its rows are
\* never stored again.
LEMMA PairStep ==
    ASSUME TypeOK, RequestHolds, [Next]_vars, NEW p \in Pairs, at[p] # "unborn"
    PROVE  PairKept(p)
<1> USE DEF TypeOK, AtStates, RtStates, dbVars, PairKept
<1>1. ASSUME NEW r \in Requests, ReuseHit(r) PROVE PairKept(p)
  BY <1>1 DEF ReuseHit, RevokePair, RequestHolds
<1>2. ASSUME NEW r \in Requests, NEW q \in Pairs, SaveBearerToken(r, q) PROVE PairKept(p)
  BY <1>2 DEF SaveBearerToken, Mint
<1>3. ASSUME NEW r \in Requests, NEW q \in Pairs, SaveRotation(r, q) PROVE PairKept(p)
  BY <1>3 DEF SaveRotation, Rotate, Mint
<1>4. ASSUME NEW q \in Pairs, ReplayRefreshToken(q) PROVE PairKept(p)
  BY <1>4 DEF ReplayRefreshToken
<1>5. CASE ClearExpired
  BY <1>5 DEF ClearExpired
<1>6. ASSUME UNCHANGED <<at, rt, born, source, root>> PROVE PairKept(p)
  BY <1>6
<1>7. QED
  BY <1>1, <1>2, <1>3, <1>4, <1>5, <1>6
  DEF Next, RequestStep, vars, StoreGrant, ValidateCode, ReuseMiss,
      InvalidateAuthorizationCode, ValidateRefreshToken, StartRefresh,
      DecideSave, RefuseSave, Abort,
      PurgeAudits, Tick, ChangeAccess, ToggleActive

\* A pair that comes to exist was saved by an exchange or by a rotation.
LEMMA BirthStep ==
    ASSUME IInv, [Next]_vars, NEW p \in Pairs, at[p] = "unborn", at'[p] # "unborn"
    PROVE  \E r \in Requests : SaveBearerToken(r, p) \/ SaveRotation(r, p)
<1> USE DEF TypeOK, AtStates, RtStates, dbVars, IInv
<1>1. ASSUME NEW r \in Requests, ReuseHit(r) PROVE at'[p] = "unborn"
  BY <1>1, SentinelAssumption DEF ReuseHit, RevokePair, RequestHolds, UnbornBlank,
      AuditLinksItsExchange, DirectPairs, Direct
<1>2. ASSUME NEW r \in Requests, NEW q \in Pairs, p # q, SaveBearerToken(r, q)
      PROVE at'[p] = "unborn"
  BY <1>2 DEF SaveBearerToken, Mint
<1>3. ASSUME NEW r \in Requests, NEW q \in Pairs, p # q, SaveRotation(r, q)
      PROVE at'[p] = "unborn"
  BY <1>3 DEF SaveRotation, Rotate, Mint, RequestHolds
<1>4. ASSUME NEW q \in Pairs, ReplayRefreshToken(q) PROVE at'[p] = "unborn"
  BY <1>4 DEF ReplayRefreshToken
<1>5. ASSUME ClearExpired PROVE at'[p] = "unborn"
  BY <1>5 DEF ClearExpired
<1>6. ASSUME UNCHANGED at PROVE at'[p] = "unborn"
  BY <1>6
<1>7. QED
  BY <1>1, <1>2, <1>3, <1>4, <1>5, <1>6
  DEF Next, RequestStep, vars, StoreGrant, ValidateCode, ReuseMiss,
      InvalidateAuthorizationCode, ValidateRefreshToken, StartRefresh,
      DecideSave, RefuseSave, Abort,
      PurgeAudits, Tick, ChangeAccess, ToggleActive

-----------------------------------------------------------------------------
\* The conjuncts of IInv' about pairs.
LEMMA PairsRootedStep == IInv /\ TypeOK' /\ [Next]_vars => PairsRooted'
<1> SUFFICES ASSUME IInv, TypeOK', [Next]_vars,
                    NEW p \in Pairs, at'[p] # "unborn"
             PROVE  /\ source'[p] \in Codes
                    /\ root'[p] \in Pairs
                    /\ at'[root'[p]] # "unborn"
  BY DEF PairsRooted
<1> USE DEF IInv
<1>1. CASE at[p] # "unborn"
  BY <1>1, PairStep DEF PairsRooted, PairKept
<1>2. ASSUME NEW r \in Requests, SaveBearerToken(r, p)
      PROVE source'[p] \in Codes /\ root'[p] = p
  BY <1>2 DEF TypeOK, SaveBearerToken, Mint, RequestHolds
<1>3. ASSUME NEW r \in Requests, SaveRotation(r, p)
      PROVE /\ source'[p] \in Codes
            /\ root'[p] \in Pairs
            /\ at[root'[p]] # "unborn"
  BY <1>3 DEF TypeOK, SaveRotation, Rotate, Mint, RequestHolds, PairsRooted
<1>4. CASE at[p] = "unborn"
  BY <1>2, <1>3, <1>4, BirthStep, PairStep DEF PairKept
<1>5. QED
  BY <1>1, <1>4

\* A pair not saved yet keeps no token row and no origin.
LEMMA UnbornBlankStep == IInv /\ TypeOK' /\ [Next]_vars => UnbornBlank'
<1> SUFFICES ASSUME TypeOK, RequestHolds, AuditLinksItsExchange, UnbornBlank,
                    [Next]_vars
             PROVE  UnbornBlank'
  BY DEF IInv
<1> USE DEF UnbornBlank, dbVars
<1>1. ASSUME NEW r \in Requests, ReuseHit(r) PROVE UnbornBlank'
  BY <1>1, SentinelAssumption DEF TypeOK, ReuseHit, RevokePair, RequestHolds,
      AuditLinksItsExchange, DirectPairs, Direct
<1>2. ASSUME NEW r \in Requests, NEW q \in Pairs, SaveBearerToken(r, q) PROVE UnbornBlank'
  BY <1>2 DEF TypeOK, SaveBearerToken, Mint, obsVars
<1>3. ASSUME NEW r \in Requests, NEW q \in Pairs, SaveRotation(r, q) PROVE UnbornBlank'
  BY <1>3 DEF TypeOK, SaveRotation, Rotate, Mint, RequestHolds
<1>4. ASSUME NEW r \in Requests, InvalidateAuthorizationCode(r) PROVE UnbornBlank'
  BY <1>4 DEF InvalidateAuthorizationCode, RequestHolds
<1>5. ASSUME NEW q \in Pairs, ReplayRefreshToken(q) PROVE UnbornBlank'
  BY <1>5 DEF TypeOK, ReplayRefreshToken, obsVars
<1>6. CASE ClearExpired
  BY <1>6 DEF TypeOK, ClearExpired, obsVars
<1>7. ASSUME UNCHANGED <<at, rt, root, answered>> PROVE UnbornBlank'
  BY <1>7
<1>8. QED
  BY <1>1, <1>2, <1>3, <1>4, <1>5, <1>6, <1>7
  DEF Next, RequestStep, vars, obsVars, StoreGrant, ValidateCode, ReuseMiss,
      ValidateRefreshToken, StartRefresh,
      DecideSave, RefuseSave, Abort, PurgeAudits, Tick, ChangeAccess,
      ToggleActive

\* A revoked refresh token leaves no stored access token beside it.
LEMMA RevokedWholeStep == IInv /\ TypeOK' /\ [Next]_vars => RevokedWhole'
<1> SUFFICES ASSUME TypeOK, RequestHolds, RevokedWhole, [Next]_vars
             PROVE  RevokedWhole'
  BY DEF IInv
<1> USE DEF TypeOK, dbVars, AtStates, RtStates, RevokedWhole
<1>1. ASSUME NEW r \in Requests, ReuseHit(r) PROVE RevokedWhole'
  BY <1>1 DEF ReuseHit, RevokePair, RequestHolds
<1>2. ASSUME NEW r \in Requests, NEW q \in Pairs, SaveBearerToken(r, q) PROVE RevokedWhole'
  BY <1>2 DEF SaveBearerToken, Mint, FirstRefresh
<1>3. ASSUME NEW r \in Requests, NEW q \in Pairs, SaveRotation(r, q) PROVE RevokedWhole'
  BY <1>3 DEF SaveRotation, Rotate, Mint, RequestHolds
<1>4. ASSUME NEW q \in Pairs, ReplayRefreshToken(q) PROVE RevokedWhole'
  BY <1>4 DEF ReplayRefreshToken
<1>5. CASE ClearExpired
  BY <1>5 DEF ClearExpired
<1>6. ASSUME UNCHANGED <<at, rt>> PROVE RevokedWhole'
  BY <1>6
<1>7. QED
  BY <1>1, <1>2, <1>3, <1>4, <1>5, <1>6
  DEF Next, RequestStep, vars, StoreGrant, ValidateCode, ReuseMiss,
      InvalidateAuthorizationCode, ValidateRefreshToken, StartRefresh,
      DecideSave, RefuseSave, Abort,
      PurgeAudits, Tick, ChangeAccess, ToggleActive

-----------------------------------------------------------------------------
\* The exchanges of a code only grow, by the pair an exchange saves.
LEMMA DirectKept ==
    ASSUME IInv, [Next]_vars, NEW c \in Codes
    PROVE  DirectPairs(c) \subseteq DirectPairs(c)'
<1> SUFFICES ASSUME NEW p \in DirectPairs(c) PROVE p \in DirectPairs(c)'
  OBVIOUS
<1>1. p \in Pairs /\ root[p] = p /\ source[p] = c
  BY DEF DirectPairs, Direct
<1>2. at[p] # "unborn"
  BY <1>1, SentinelAssumption DEF IInv, UnbornBlank
<1>3. PairKept(p)
  BY <1>1, <1>2, PairStep DEF IInv
<1>4. QED
  BY <1>1, <1>3 DEF PairKept, DirectPairs, Direct

\* A direct pair that a code gains is saved by an exchange of that code.
LEMMA DirectNew ==
    ASSUME IInv, TypeOK', [Next]_vars, NEW c \in Codes,
           NEW p \in DirectPairs(c)', p \notin DirectPairs(c)
    PROVE  \E r \in Requests : SaveBearerToken(r, p) /\ code[r] = c
<1>1. p \in Pairs /\ root'[p] = p /\ source'[p] = c
  BY DEF DirectPairs, Direct
<1>2. ASSUME at[p] # "unborn" PROVE FALSE
  <2>1. PairKept(p)
    BY <1>1, <1>2, PairStep DEF IInv
  <2>2. QED
    BY <1>1, <2>1 DEF PairKept, DirectPairs, Direct
<1>3. at'[p] # "unborn"
  <2>1. UnbornBlank'
    BY UnbornBlankStep
  <2>2. QED
    BY <1>1, <2>1, SentinelAssumption DEF UnbornBlank
<1>4. ASSUME NEW r \in Requests, SaveRotation(r, p) PROVE FALSE
  <2>1. root'[p] = root[held[r]] /\ at[held[r]] # "unborn" /\ held[r] \in Pairs
    BY <1>1, <1>4 DEF IInv, TypeOK, SaveRotation, Rotate, Mint, RequestHolds
  <2>2. at[root'[p]] # "unborn"
    BY <2>1 DEF IInv, PairsRooted
  <2>3. QED
    BY <1>1, <1>2, <2>2
<1>5. PICK r \in Requests : SaveBearerToken(r, p)
  BY <1>1, <1>2, <1>3, <1>4, BirthStep
<1>6. source'[p] = code[r]
  BY <1>1, <1>5 DEF IInv, TypeOK, SaveBearerToken, Mint
<1>7. QED
  BY <1>1, <1>5, <1>6

\* A retired pair stays unusable: time only moves on.
LEMMA UnusableKept ==
    ASSUME IInv, TypeOK', [Next]_vars, NEW p \in Pairs, at[p] # "unborn", ~Usable(p)
    PROVE  ~Usable(p)'
<1>1. PairKept(p)
  BY PairStep DEF IInv
<1>2. clock' >= clock
  BY DEF IInv, TypeOK, Next, RequestStep, vars, envVars, StoreGrant, ValidateCode,
      ReuseMiss, ReuseHit, SaveBearerToken,
      InvalidateAuthorizationCode, ValidateRefreshToken, StartRefresh,
      SaveRotation, Rotate,
      DecideSave, RefuseSave, Abort, ReplayRefreshToken, ClearExpired, PurgeAudits, Tick,
      ChangeAccess, ToggleActive
<1>3. clock \in Nat /\ clock' \in Nat /\ born[p] \in Nat /\ born'[p] \in Nat
  BY DEF IInv, TypeOK
<1>4. QED
  BY <1>1, <1>2, <1>3, LifetimesAssumption DEF PairKept, Usable, AtLive, RtLive

\* How an audit row can change: written by an exchange, or purged.
LEMMA AuditStep ==
    ASSUME IInv, TypeOK', [Next]_vars, NEW c \in Codes
    PROVE  \/ link'[c] = link[c] /\ auditBorn'[c] = auditBorn[c]
           \/ \E r \in Requests, p \in Pairs :
                SaveBearerToken(r, p) /\ code[r] = c /\ link'[c] = p
           \/ Purged(c) /\ PurgeAudits /\ link'[c] = NoPair
<1> DEFINE Kept == link'[c] = link[c] /\ auditBorn'[c] = auditBorn[c]
<1>1. ASSUME NEW r \in Requests, NEW p \in Pairs, SaveBearerToken(r, p)
      PROVE  Kept \/ (code[r] = c /\ link'[c] = p)
  BY <1>1 DEF IInv, TypeOK, RequestHolds, SaveBearerToken,
      RecordIssuance
<1>2. ASSUME PurgeAudits PROVE Kept \/ (Purged(c) /\ link'[c] = NoPair)
  BY <1>2 DEF PurgeAudits
<1>3. ASSUME UNCHANGED <<link, auditBorn>> PROVE Kept
  BY <1>3
<1>4. QED
  BY <1>1, <1>2, <1>3
  DEF Next, RequestStep, vars, dbVars, StoreGrant, ValidateCode, ReuseMiss, ReuseHit,
      InvalidateAuthorizationCode, ValidateRefreshToken, StartRefresh,
      SaveRotation, DecideSave, RefuseSave,
      Abort, ReplayRefreshToken, ClearExpired, Tick, ChangeAccess, ToggleActive

-----------------------------------------------------------------------------
\* The conjuncts of IInv' about requests, answers, audit rows and the cleanup.
LEMMA RequestHoldsStep == IInv /\ TypeOK' /\ [Next]_vars => RequestHolds'
<1> SUFFICES ASSUME IInv, TypeOK', [Next]_vars PROVE RequestHolds'
  OBVIOUS
<1>0. \A p \in Pairs : at[p] # "unborn" => PairKept(p)
  BY PairStep DEF IInv
<1>1. TypeOK /\ RequestHolds /\ UnbornBlank /\ PairsRooted
  BY DEF IInv
<1> USE <1>0, <1>1 DEF TypeOK, RequestHolds, PairKept, Direct, Goto, Release,
                       dbVars, reqVars
<1>2. ASSUME NEW c \in Codes, StoreGrant(c) PROVE RequestHolds'
  BY <1>2 DEF StoreGrant
<1>3. ASSUME NEW r \in Requests, DecideSave(r) \/ \E c \in Codes : ValidateCode(r, c)
      PROVE  RequestHolds'
  BY <1>3 DEF DecideSave, ValidateCode, Redeemable
<1>4. ASSUME NEW r \in Requests, ReuseMiss(r) \/ RefuseSave(r) \/ Abort(r)
      PROVE  RequestHolds'
  BY <1>4 DEF ReuseMiss, RefuseSave, Abort
<1>5. ASSUME NEW r \in Requests, ReuseHit(r) PROVE RequestHolds'
  BY <1>5 DEF ReuseHit
<1>6. ASSUME NEW r \in Requests, NEW p \in Pairs, SaveBearerToken(r, p)
      PROVE  RequestHolds'
  BY <1>6 DEF SaveBearerToken, Mint
<1>7. ASSUME NEW r \in Requests, InvalidateAuthorizationCode(r) PROVE RequestHolds'
  BY <1>7 DEF InvalidateAuthorizationCode
<1>8. ASSUME NEW r \in Requests, NEW p \in Pairs, ValidateRefreshToken(r, p)
      PROVE  RequestHolds'
  BY <1>8 DEF ValidateRefreshToken, StartRefresh, UnbornBlank, PairsRooted
<1>9. ASSUME NEW r \in Requests, NEW q \in Pairs, SaveRotation(r, q)
      PROVE  RequestHolds'
  BY <1>9 DEF SaveRotation, Rotate
<1>10. ASSUME NEW p \in Pairs, ReplayRefreshToken(p) PROVE RequestHolds'
  BY <1>10 DEF ReplayRefreshToken
<1>11. CASE ClearExpired
  BY <1>11 DEF ClearExpired
<1>12. ASSUME UNCHANGED <<at, source, root, grant, reqVars>> PROVE RequestHolds'
  BY <1>12
<1>13. QED
  BY <1>2, <1>3, <1>4, <1>5, <1>6, <1>7, <1>8, <1>9, <1>10, <1>11, <1>12
  DEF Next, RequestStep, vars, PurgeAudits, Tick, ChangeAccess, ToggleActive

\* Answered pairs exist, and a code whose exchange was answered is closed.
LEMMA AnsweredClosedStep == IInv /\ TypeOK' /\ [Next]_vars => AnsweredClosed'
<1> SUFFICES ASSUME IInv, TypeOK', [Next]_vars,
                    NEW p \in answered', Direct(p)'
             PROVE  grant'[source'[p]] = "deleted"
  BY DEF AnsweredClosed
<1>0. p \in Pairs /\ (at[p] # "unborn" => PairKept(p))
  BY PairStep DEF IInv, TypeOK
<1>1. \A c \in Codes : grant[c] = "deleted" => grant'[c] = "deleted"
  BY DEF IInv, TypeOK, Next, RequestStep, vars, dbVars, StoreGrant, ValidateCode,
      ReuseMiss, ReuseHit, SaveBearerToken,
      InvalidateAuthorizationCode, ValidateRefreshToken, StartRefresh,
      SaveRotation, Rotate,
      DecideSave, RefuseSave, Abort, ReplayRefreshToken, ClearExpired, PurgeAudits, Tick,
      ChangeAccess, ToggleActive
<1>2. CASE p \in answered
  <2>1. at[p] # "unborn"
    BY <1>2, <1>0 DEF IInv, UnbornBlank
  <2>2. source[p] \in Codes /\ grant[source[p]] = "deleted"
    BY <1>0, <1>2, <2>1 DEF IInv, AnsweredClosed, PairsRooted, Direct, PairKept
  <2>3. QED
    BY <1>0, <1>1, <2>1, <2>2 DEF PairKept
<1>3. ASSUME NEW r \in Requests, InvalidateAuthorizationCode(r), p \notin answered
      PROVE  grant'[source'[p]] = "deleted"
  BY <1>0, <1>3 DEF IInv, TypeOK, RequestHolds, InvalidateAuthorizationCode, PairKept
<1>4. ASSUME NEW r \in Requests, NEW q \in Pairs, SaveRotation(r, q), p \notin answered
      PROVE  FALSE
  <2>1. p = q /\ root'[p] = root[held[r]] /\ held[r] \in Pairs
        /\ at[p] = "unborn" /\ at[held[r]] # "unborn"
    BY <1>4 DEF IInv, TypeOK, RequestHolds, SaveRotation, Rotate, Mint
  <2>2. at[root'[p]] # "unborn"
    BY <2>1 DEF IInv, PairsRooted
  <2>3. QED
    BY <2>1, <2>2 DEF Direct
<1>5. \/ p \in answered
      \/ \E r \in Requests : InvalidateAuthorizationCode(r)
      \/ \E r \in Requests, q \in Pairs : SaveRotation(r, q)
  BY DEF Next, RequestStep, vars, obsVars, StoreGrant, ValidateCode, ReuseMiss, ReuseHit,
      SaveBearerToken, ValidateRefreshToken, StartRefresh,
      DecideSave, RefuseSave, Abort,
      ReplayRefreshToken, ClearExpired, PurgeAudits, Tick, ChangeAccess, ToggleActive
<1>6. QED
  BY <1>2, <1>3, <1>4, <1>5

\* An audit row always links an exchange of its own code.
LEMMA AuditStepKeeps ==
    IInv /\ TypeOK' /\ [Next]_vars => AuditLinksItsExchange' /\ AuditDated'
<1> SUFFICES ASSUME IInv, TypeOK', [Next]_vars, NEW c \in Codes, link'[c] # NoPair
             PROVE  /\ link'[c] \in DirectPairs(c)'
                    /\ \E p \in DirectPairs(c)' : born'[p] <= auditBorn'[c]
  BY DEF AuditLinksItsExchange, AuditDated
<1>1. DirectPairs(c) \subseteq DirectPairs(c)'
  BY DirectKept
<1>2. \A p \in DirectPairs(c) : born'[p] = born[p]
  BY PairStep, SentinelAssumption DEF IInv, PairKept, DirectPairs, Direct, UnbornBlank
<1>3. ASSUME link[c] # NoPair
      PROVE  \E p \in DirectPairs(c) : born[p] <= auditBorn[c]
  BY <1>3 DEF IInv, AuditDated
<1>4. CASE link'[c] = link[c] /\ auditBorn'[c] = auditBorn[c]
  BY <1>1, <1>2, <1>3, <1>4 DEF IInv, AuditLinksItsExchange
<1>5. ASSUME NEW r \in Requests, NEW p \in Pairs,
             SaveBearerToken(r, p), code[r] = c, link'[c] = p
      PROVE  /\ link'[c] \in DirectPairs(c)'
             /\ \E q \in DirectPairs(c)' : born'[q] <= auditBorn'[c]
  <2>1. p \in DirectPairs(c)' /\ born'[p] = clock
    BY <1>5 DEF IInv, TypeOK, SaveBearerToken, Mint, DirectPairs, Direct
  <2>2. auditBorn'[c] = IF link[c] = NoPair THEN clock ELSE auditBorn[c]
    BY <1>5 DEF IInv, TypeOK, SaveBearerToken, RecordIssuance
  <2>3. clock \in Nat
    BY DEF IInv, TypeOK
  <2>4. QED
    BY <1>1, <1>2, <1>3, <1>5, <2>1, <2>2, <2>3
<1>6. QED
  BY <1>4, <1>5, AuditStep

\* The cleanup never deletes the row of a first exchange still usable.
LEMMA FirstExchangeAuditedStep == IInv /\ TypeOK' /\ [Next]_vars => FirstExchangeAudited'
<1> SUFFICES ASSUME IInv, TypeOK', [Next]_vars PROVE FirstExchangeAudited'
  OBVIOUS
<1>0. \A p \in Pairs : Direct(p)' => source'[p] \in Codes
  <2>1. UnbornBlank' /\ PairsRooted'
    BY UnbornBlankStep, PairsRootedStep
  <2>2. QED
    BY <2>1, SentinelAssumption DEF UnbornBlank, PairsRooted, Direct
<1> SUFFICES ASSUME NEW c \in Codes, NEW p \in DirectPairs(c)', Usable(p)',
                    \A q \in DirectPairs(c)' : born'[p] <= born'[q],
                    link'[c] = NoPair
             PROVE  FALSE
  BY <1>0 DEF FirstExchangeAudited, DirectPairs
<1>1. p \in Pairs
  BY DEF DirectPairs
<1>3. p \in DirectPairs(c)
  <2>1. ASSUME NEW r \in Requests, SaveBearerToken(r, p), code[r] = c PROVE FALSE
    BY <2>1, <1>1, SentinelAssumption
    DEF IInv, TypeOK, SaveBearerToken, RecordIssuance
  <2>2. QED
    BY <1>1, <2>1, DirectNew
<1>4. at[p] # "unborn" /\ PairKept(p) /\ source[p] = c
  <2>1. at[p] # "unborn" /\ source[p] = c
    BY <1>1, <1>3, SentinelAssumption DEF IInv, UnbornBlank, DirectPairs, Direct
  <2>2. QED
    BY <1>1, <2>1, PairStep DEF IInv
<1>5. Usable(p)
  BY <1>1, <1>4, UnusableKept
<1>6. \A q \in DirectPairs(c) : q \in Pairs /\ born[p] <= born[q]
  <2>1. TAKE q \in DirectPairs(c)
  <2>2. q \in Pairs /\ at[q] # "unborn"
    BY SentinelAssumption DEF IInv, UnbornBlank, DirectPairs, Direct
  <2>3. PairKept(q)
    BY <2>2, PairStep DEF IInv
  <2>4. q \in DirectPairs(c)'
    BY <1>1, DirectKept
  <2>5. QED
    BY <1>4, <2>2, <2>3, <2>4 DEF PairKept
<1>7. link[c] # NoPair
  BY <1>3, <1>4, <1>5, <1>6 DEF IInv, FirstExchangeAudited, DirectPairs
<1>8. Purged(c)
  BY <1>1, <1>7, AuditStep, SentinelAssumption
<1>9. born[p] + RtTTL < clock
  <2>1. PICK q \in DirectPairs(c) : born[q] <= auditBorn[c]
    BY <1>1, <1>7 DEF IInv, AuditDated
  <2>2. auditBorn[c] + RtTTL < sweep /\ sweep \in Nat /\ sweep <= clock
    <3>1. PurgeAudits
      BY <1>1, <1>7, AuditStep, SentinelAssumption
    <3>2. QED
      BY <1>8, <3>1, SentinelAssumption DEF IInv, TypeOK, SweepPast, PurgeAudits, Purged
  <2>3. born[p] <= born[q] /\ q \in Pairs
    BY <1>6
  <2>4. QED
    BY <1>1, <2>1, <2>2, <2>3, LifetimesAssumption DEF IInv, TypeOK
<1>10. QED
  BY <1>1, <1>5, <1>9, LifetimesAssumption DEF IInv, TypeOK, Usable, AtLive, RtLive

\* The cleanup's `now` is not ahead of the clock.
LEMMA SweepPastStep == IInv /\ TypeOK' /\ [Next]_vars => SweepPast'
<1> SUFFICES ASSUME TypeOK, SweepPast, [Next]_vars PROVE SweepPast'
  BY DEF IInv
<1> QED
  BY DEF SweepPast, TypeOK, Next, RequestStep, vars, envVars, StoreGrant, ValidateCode,
      ReuseMiss, ReuseHit, SaveBearerToken,
      InvalidateAuthorizationCode, ValidateRefreshToken, StartRefresh,
      SaveRotation, Rotate,
      DecideSave, RefuseSave, Abort, ReplayRefreshToken, ClearExpired, PurgeAudits, Tick,
      ChangeAccess, ToggleActive

\* A recalled code keeps an exchange whose tokens are retired.
LEMMA RecalledGoneStep == IInv /\ TypeOK' /\ [Next]_vars => RecalledGone'
<1> SUFFICES ASSUME IInv, TypeOK', [Next]_vars, NEW c \in recalled'
             PROVE  \E p \in DirectPairs(c)' : at'[p] # "stored" /\ rt'[p] # "stored"
  BY DEF RecalledGone
<1>0. c \in Codes /\ DirectPairs(c) \subseteq DirectPairs(c)'
  BY DirectKept DEF TypeOK
<1>1. CASE c \in recalled
  <2>1. PICK p \in DirectPairs(c) : at[p] # "stored" /\ rt[p] # "stored"
    BY <1>1 DEF IInv, RecalledGone
  <2>2. p \in Pairs /\ PairKept(p)
    BY PairStep, SentinelAssumption DEF IInv, UnbornBlank, DirectPairs, Direct
  <2>3. QED
    BY <1>0, <2>1, <2>2 DEF PairKept
<1>2. ASSUME NEW r \in Requests, ReuseHit(r), c \notin recalled
      PROVE  \E p \in DirectPairs(c)' : at'[p] # "stored" /\ rt'[p] # "stored"
  <2>1. c = code[r] /\ link[c] # NoPair /\ RevokePair(link[c])
    BY <1>2 DEF ReuseHit
  <2>2. link[c] \in DirectPairs(c) /\ link[c] \in Pairs
    BY <1>0, <2>1 DEF IInv, AuditLinksItsExchange, DirectPairs
  <2>3. at'[link[c]] # "stored" /\ rt'[link[c]] # "stored"
    BY <2>1, <2>2 DEF IInv, TypeOK, AtStates, RtStates, RevokePair, RevokedWhole
  <2>4. QED
    BY <1>0, <2>2, <2>3
<1>3. c \in recalled \/ \E r \in Requests : ReuseHit(r)
  BY DEF Next, RequestStep, vars, obsVars, StoreGrant, ValidateCode, ReuseMiss,
      SaveBearerToken, InvalidateAuthorizationCode,
      ValidateRefreshToken, StartRefresh,
      SaveRotation, Rotate, DecideSave, RefuseSave, Abort,
      ReplayRefreshToken, ClearExpired, PurgeAudits, Tick, ChangeAccess, ToggleActive
<1>4. QED
  BY <1>1, <1>2, <1>3

\* A code seen reused keeps its row and its count.
LEMMA EvidenceStep ==
    ASSUME IInv, TypeOK', [Next]_vars, NEW c \in Codes
    PROVE  /\ reuse'[c] >= reuse[c]
           /\ reuse'[c] > 0 => link'[c] # NoPair
<1>1. ASSUME NEW r \in Requests, ReuseHit(r)
      PROVE  reuse'[c] >= reuse[c] /\ (reuse'[c] > 0 => link'[c] # NoPair)
  BY <1>1 DEF IInv, TypeOK, RequestHolds, ReuseLinked, ReuseHit
<1>2. ASSUME UNCHANGED reuse
      PROVE  reuse'[c] >= reuse[c] /\ (reuse'[c] > 0 => link'[c] # NoPair)
  BY <1>2, AuditStep, SentinelAssumption DEF IInv, TypeOK, ReuseLinked, Purged
<1>3. QED
  BY <1>1, <1>2
  DEF Next, RequestStep, vars, dbVars, StoreGrant, ValidateCode, ReuseMiss,
      SaveBearerToken, InvalidateAuthorizationCode,
      ValidateRefreshToken, StartRefresh,
      SaveRotation, Rotate, DecideSave, RefuseSave, Abort,
      ReplayRefreshToken, ClearExpired, PurgeAudits, Tick, ChangeAccess, ToggleActive

\* The invariant is inductive.
LEMMA IInvStep == IInv /\ [Next]_vars => IInv'
<1> SUFFICES ASSUME IInv, [Next]_vars PROVE IInv'
  OBVIOUS
<1>1. TypeOK'
  BY TypeStep DEF IInv
<1>2. ReuseLinked'
  BY <1>1, EvidenceStep DEF ReuseLinked
<1>3. QED
  BY <1>1, <1>2, PairsRootedStep, UnbornBlankStep, RevokedWholeStep, RequestHoldsStep,
     AnsweredClosedStep, AuditStepKeeps, FirstExchangeAuditedStep, SweepPastStep,
     RecalledGoneStep DEF IInv

\* Every reachable state satisfies the inductive invariant.
THEOREM Invariance == Spec => []IInv
<1>1. Init => IInv
  BY InitIInv
<1>2. IInv /\ [Next]_vars => IInv'
  BY IInvStep
<1>3. QED
  BY <1>1, <1>2, PTL DEF Spec

-----------------------------------------------------------------------------
\* Type correctness, for every set of codes, requests and token pairs.
THEOREM TypeCorrect == Spec => []TypeOK
<1>1. IInv => TypeOK
  BY DEF IInv
<1>2. QED
  BY <1>1, Invariance, PTL

\* An audit row links a pair an exchange of its own code saved
\* (_record_code_issuance runs for authorization_code grants only).
THEOREM AuditLinks == Spec => []AuditLinksItsExchange
<1>1. IInv => AuditLinksItsExchange
  BY DEF IInv
<1>2. QED
  BY <1>1, Invariance, PTL

\* While the tokens of a first exchange can be used, its audit row is there:
\* clear_expired_tokens never purges it too early.
THEOREM FirstExchangesAudited == Spec => []FirstExchangeAudited
<1>1. IInv => FirstExchangeAudited
  BY DEF IInv
<1>2. QED
  BY <1>1, Invariance, PTL

\* After _handle_potential_code_reuse reported a recall, the tokens of a code
\* exchanged once are not usable, then or later.
THEOREM SoleExchangesRecalled == Spec => []ReuseRecallsSoleExchange
<1>1. IInv => ReuseRecallsSoleExchange
  BY DEF IInv, RecalledGone, ReuseRecallsSoleExchange, Usable, AtLive, RtLive
<1>2. QED
  BY <1>1, Invariance, PTL

\* No step of the exchange or of the cleanup loses the evidence of a reuse.
THEOREM EvidenceKept == Spec => ReuseEvidenceKept
<1>1. IInv /\ IInv' /\ [Next]_vars =>
        [\A c \in Codes :
           reuse[c] > 0 => reuse'[c] >= reuse[c] /\ link'[c] # NoPair]_vars
  <2> SUFFICES ASSUME IInv, IInv', [Next]_vars, NEW c \in Codes, reuse[c] > 0
               PROVE  reuse'[c] >= reuse[c] /\ link'[c] # NoPair
    OBVIOUS
  <2>1. reuse[c] \in Nat /\ reuse'[c] \in Nat
    BY DEF IInv, TypeOK
  <2>2. QED
    BY <2>1, EvidenceStep DEF IInv
<1>2. QED
  BY <1>1, Invariance, PTL DEF Spec, ReuseEvidenceKept

\* An unusable pair stays unusable.
THEOREM RetiredForGood == Spec => TokensNotRevived
<1>1. IInv /\ IInv' /\ [Next]_vars =>
        [\A p \in Pairs : at[p] # "unborn" /\ ~Usable(p) => ~Usable(p)']_vars
  <2> SUFFICES ASSUME IInv, IInv', [Next]_vars, NEW p \in Pairs,
                      at[p] # "unborn", ~Usable(p)
               PROVE  ~Usable(p)'
    OBVIOUS
  <2>1. QED
    BY UnusableKept DEF IInv
<1>2. QED
  BY <1>1, Invariance, PTL DEF Spec, TokensNotRevived

\* A pair that becomes usable for a code has just been saved for it.
LEMMA UsableBorn ==
    ASSUME IInv, IInv', [Next]_vars, NEW c \in Codes,
           NEW p \in UsablePairs(c)', p \notin UsablePairs(c)
    PROVE  \E r \in Requests : code[r] = c /\ (SaveBearerToken(r, p) \/ SaveRotation(r, p))
<1>1. p \in Pairs /\ source'[p] = c /\ Usable(p)'
  BY DEF UsablePairs
<1>2. at[p] = "unborn"
  <2> SUFFICES ASSUME at[p] # "unborn" PROVE FALSE
    OBVIOUS
  <2>1. source'[p] = source[p]
    BY <1>1, PairStep DEF IInv, PairKept
  <2>2. ~Usable(p)
    BY <1>1, <2>1 DEF UsablePairs
  <2>3. QED
    BY <1>1, <2>2, UnusableKept DEF IInv
<1>3. at'[p] # "unborn"
  BY <1>1 DEF IInv, UnbornBlank, Usable, AtLive, RtLive
<1>4. PICK r \in Requests : SaveBearerToken(r, p) \/ SaveRotation(r, p)
  BY <1>1, <1>2, <1>3, BirthStep
<1>5. source'[p] = code[r]
  BY <1>1, <1>4 DEF IInv, TypeOK, SaveBearerToken, SaveRotation, Rotate, Mint
<1>6. QED
  BY <1>1, <1>4, <1>5

\* A save ends the request's way to a pair and brings no other pair to life.
LEMMA SaveSpends ==
    ASSUME IInv, IInv', [Next]_vars, NEW c \in Codes,
           NEW r \in Requests, NEW p \in Pairs, code[r] = c,
           SaveBearerToken(r, p) \/ SaveRotation(r, p)
    PROVE  /\ r \in Underway(c)
           /\ Underway(c)' = Underway(c) \ {r}
           /\ UsablePairs(c)' \subseteq UsablePairs(c) \cup {p}
<1>1. pc[r] \in {"saving", "rotating"} /\ pc'[r] \in {"saved", "idle"}
  BY DEF IInv, TypeOK, SaveBearerToken, SaveRotation, Rotate, Goto, Release
<1>2. \A t \in Requests : t # r => pc'[t] = pc[t] /\ code'[t] = code[t]
  BY DEF IInv, TypeOK, SaveBearerToken, SaveRotation, Rotate, Goto, Release
<1>3. r \in Underway(c) /\ Underway(c)' = Underway(c) \ {r}
  BY <1>1, <1>2 DEF Underway
<1>4. ASSUME NEW q \in UsablePairs(c)', q \notin UsablePairs(c), q # p PROVE FALSE
  <2>1. PICK t \in Requests : SaveBearerToken(t, q) \/ SaveRotation(t, q)
    BY <1>4, UsableBorn
  <2>2. q \in Pairs /\ at[q] = "unborn"
    BY <1>4, <2>1 DEF UsablePairs, SaveBearerToken, SaveRotation, Rotate, Mint
  <2>3. at'[q] = "stored"
    BY <2>1, <2>2 DEF IInv, TypeOK, RequestHolds, SaveBearerToken, SaveRotation, Rotate
  <2>4. at'[q] = "unborn"
    BY <1>4, <2>2 DEF IInv, TypeOK, RequestHolds, SaveBearerToken, SaveRotation, Rotate
  <2>5. QED
    BY <2>3, <2>4
<1>5. QED
  BY <1>3, <1>4

\* Nobody denied gets past validation: who is underway for the code was so.
LEMMA NoneJoins ==
    ASSUME IInv, [Next]_vars, NEW c \in Codes, access[c] # "granted"
    PROVE  Underway(c)' \subseteq Underway(c)
<1> SUFFICES ASSUME NEW r \in Underway(c)', r \notin Underway(c) PROVE FALSE
  OBVIOUS
<1> USE DEF Underway
<1>1. r \in Requests /\ TypeOK /\ RequestHolds
  BY DEF IInv
<1>2. ASSUME NEW s \in Requests, NEW d \in Codes, ValidateCode(s, d) PROVE FALSE
  BY <1>1, <1>2 DEF TypeOK, ValidateCode, Goto
<1>3. ASSUME NEW s \in Requests, NEW p \in Pairs, ValidateRefreshToken(s, p) PROVE FALSE
  BY <1>1, <1>3 DEF TypeOK, ValidateRefreshToken, StartRefresh, Goto
<1>4. ASSUME NEW s \in Requests,
             DecideSave(s) \/ \E p \in Pairs : SaveBearerToken(s, p)
      PROVE  FALSE
  BY <1>1, <1>4 DEF TypeOK, DecideSave, SaveBearerToken, Goto
<1>5. ASSUME NEW s \in Requests, Release(s) PROVE FALSE
  BY <1>1, <1>5 DEF TypeOK, Release, Goto
<1>6. CASE UNCHANGED reqVars
  BY <1>6 DEF reqVars
<1>7. QED
  BY <1>2, <1>3, <1>4, <1>5, <1>6
  DEF Next, RequestStep, vars, ReuseMiss, ReuseHit, InvalidateAuthorizationCode,
      SaveRotation, Rotate, RefuseSave, Abort, StoreGrant, ChangeAccess, ToggleActive,
      ReplayRefreshToken, ClearExpired, PurgeAudits, Tick

\* Once a user is denied, each pair that becomes usable is the last act of a
\* request that was past its validation, and no further request gets there.
THEOREM DenialsShrink == Spec => DeniedAccessShrinks
<1>1. IInv /\ IInv' /\ [Next]_vars =>
        [\A c \in Codes : access[c] # "granted" => OnlyShrinks(c)]_vars
  <2> SUFFICES ASSUME IInv, IInv', [Next]_vars, NEW c \in Codes, access[c] # "granted"
               PROVE  OnlyShrinks(c)
    OBVIOUS
  <2>1. CASE UsablePairs(c)' \subseteq UsablePairs(c)
    BY <2>1, NoneJoins DEF OnlyShrinks
  <2>2. CASE ~(UsablePairs(c)' \subseteq UsablePairs(c))
    <3>1. PICK p \in UsablePairs(c)' : p \notin UsablePairs(c)
      BY <2>2
    <3>2. p \in Pairs
      BY <3>1 DEF UsablePairs
    <3>3. PICK r \in Requests :
            code[r] = c /\ (SaveBearerToken(r, p) \/ SaveRotation(r, p))
      BY <3>1, UsableBorn
    <3>4. QED
      BY <3>2, <3>3, SaveSpends DEF OnlyShrinks
  <2>3. QED
    BY <2>1, <2>2
<1>2. QED
  BY <1>1, Invariance, PTL DEF Spec, DeniedAccessShrinks

-----------------------------------------------------------------------------
(* CodeExchange implements SingleUseCode.                                   *)

\* A pair that exists leaves or enters the answers of its code only by an
\* answer; a rotated pair is no answer to the code.
LEMMA TakenStep ==
    ASSUME IInv, IInv', [Next]_vars, NEW c \in Codes
    PROVE  takenForCode'[c] =
             {p \in answered' : p \in Pairs /\ root[p] = p /\ source[p] = c}
<1>1. takenForCode'[c] = {p \in answered' : p \in Pairs /\ root'[p] = p /\ source'[p] = c}
  BY DEF takenForCode, DirectPairs, Direct
<1>2. ASSUME NEW p \in Pairs, at[p] # "unborn"
      PROVE  root'[p] = root[p] /\ source'[p] = source[p]
  BY <1>2, PairStep DEF IInv, PairKept
<1>3. ASSUME NEW p \in answered', p \in Pairs, at[p] = "unborn"
      PROVE  root[p] # p /\ root'[p] # p
  <2>1. PICK r \in Requests : SaveBearerToken(r, p) \/ SaveRotation(r, p)
    <3>1. at'[p] # "unborn"
      BY <1>3 DEF IInv, UnbornBlank
    <3>2. QED
      BY <1>3, <3>1, BirthStep
  <2>2. p \notin answered /\ root[p] = NoPair
    BY <1>3 DEF IInv, UnbornBlank
  <2>3. SaveRotation(r, p)
    BY <1>3, <2>1, <2>2 DEF SaveBearerToken, obsVars
  <2>4. root'[p] = root[held[r]] /\ held[r] \in Pairs /\ at[held[r]] # "unborn"
    BY <1>3, <2>3 DEF IInv, TypeOK, RequestHolds, SaveRotation, Rotate, Mint
  <2>5. at[root'[p]] # "unborn"
    BY <2>4 DEF IInv, PairsRooted
  <2>6. QED
    BY <1>3, <2>2, <2>5, SentinelAssumption
<1>4. QED
  BY <1>1, <1>2, <1>3 DEF IInv, TypeOK

\* Every step is a step, or a stutter, of SingleUseCode.
LEMMA RefinementStep == IInv /\ IInv' /\ [Next]_vars => [SingleUse!Next]_(SingleUse!vars)
<1> SUFFICES ASSUME IInv, IInv', [Next]_vars PROVE [SingleUse!Next]_(SingleUse!vars)
  OBVIOUS
<1> USE DEF SingleUse!vars
<1>0. \A c \in Codes : takenForCode[c] =
        {p \in answered : p \in Pairs /\ root[p] = p /\ source[p] = c}
  BY DEF takenForCode, DirectPairs, Direct
<1>1. ASSUME answered' = answered PROVE takenForCode' = takenForCode
  <2>1. \A c \in Codes : takenForCode'[c] = takenForCode[c]
    BY <1>0, <1>1, TakenStep
  <2>2. QED
    BY <2>1 DEF takenForCode
<1>2. ASSUME grant' = grant PROVE phaseOfCode' = phaseOfCode
  BY <1>2 DEF phaseOfCode
<1>3. ASSUME NEW c \in Codes, StoreGrant(c) PROVE SingleUse!Issue(c)
  <2>1. phaseOfCode[c] = "unissued"
        /\ phaseOfCode' = [phaseOfCode EXCEPT ![c] = "open"]
    BY <1>3 DEF IInv, TypeOK, StoreGrant, phaseOfCode, PhaseOf
  <2>2. QED
    BY <1>1, <1>3, <2>1 DEF SingleUse!Issue, StoreGrant, obsVars
<1>4. ASSUME NEW r \in Requests, InvalidateAuthorizationCode(r)
      PROVE  SingleUse!Redeem(code[r]) \/ UNCHANGED <<phaseOfCode, takenForCode>>
  <2>1. /\ code[r] \in Codes /\ held[r] \in Pairs /\ grant[code[r]] # "none"
        /\ root[held[r]] = held[r] /\ source[held[r]] = code[r]
    BY <1>4 DEF IInv, InvalidateAuthorizationCode, RequestHolds, Direct
  <2>2. CASE grant[code[r]] = "stored"
    <3>1. phaseOfCode[code[r]] = "open"
          /\ phaseOfCode' = [phaseOfCode EXCEPT ![code[r]] = "closed"]
      BY <1>4, <2>1, <2>2
      DEF IInv, TypeOK, InvalidateAuthorizationCode, phaseOfCode, PhaseOf
    <3>2. takenForCode[code[r]] = {}
      BY <1>0, <2>1, <2>2 DEF IInv, AnsweredClosed, Direct
    <3>3. \A c \in Codes : takenForCode'[c] =
            IF c = code[r] THEN {held[r]} ELSE takenForCode[c]
      <4>1. answered' = answered \cup {held[r]}
        BY <1>4, <2>2 DEF InvalidateAuthorizationCode
      <4>2. \A c \in Codes : takenForCode'[c] =
              {p \in answered \cup {held[r]} :
                 p \in Pairs /\ root[p] = p /\ source[p] = c}
        BY <4>1, TakenStep
      <4>3. takenForCode'[code[r]] = {held[r]}
        BY <1>0, <2>1, <3>2, <4>2
      <4>4. ASSUME NEW c \in Codes, c # code[r]
            PROVE  takenForCode'[c] = takenForCode[c]
        <5>1. {p \in answered \cup {held[r]} :
                 p \in Pairs /\ root[p] = p /\ source[p] = c}
                = {p \in answered : p \in Pairs /\ root[p] = p /\ source[p] = c}
          BY <2>1, <4>4
        <5>2. QED
          BY <1>0, <4>2, <5>1
      <4>5. QED
        BY <4>3, <4>4
    <3>4. takenForCode' = [takenForCode EXCEPT ![code[r]] = {held[r]}]
      BY <3>3 DEF takenForCode
    <3>5. QED
      BY <2>1, <3>1, <3>2, <3>4 DEF SingleUse!Redeem
  <2>3. CASE grant[code[r]] # "stored"
    <3>1. grant' = grant /\ answered' = answered
      BY <1>4, <2>1, <2>3 DEF IInv, TypeOK, InvalidateAuthorizationCode
    <3>2. QED
      BY <1>1, <1>2, <3>1
  <2>4. QED
    BY <2>2, <2>3
<1>5. ASSUME NEW r \in Requests, NEW q \in Pairs, SaveRotation(r, q)
      PROVE  UNCHANGED <<phaseOfCode, takenForCode>>
  <2>1. answered' = answered \cup {q} /\ root[q] # q
    BY <1>5, SentinelAssumption
    DEF IInv, UnbornBlank, SaveRotation, Rotate, Mint
  <2>2. \A c \in Codes : takenForCode'[c] =
          {p \in answered \cup {q} : p \in Pairs /\ root[p] = p /\ source[p] = c}
    BY <2>1, TakenStep
  <2>3. ASSUME NEW c \in Codes PROVE takenForCode'[c] = takenForCode[c]
    <3>1. {p \in answered \cup {q} : p \in Pairs /\ root[p] = p /\ source[p] = c}
            = {p \in answered : p \in Pairs /\ root[p] = p /\ source[p] = c}
      BY <2>1
    <3>2. QED
      BY <1>0, <2>2, <3>1
  <2>4. takenForCode' = takenForCode
    BY <2>3 DEF takenForCode
  <2>5. QED
    BY <1>2, <1>5, <2>4 DEF SaveRotation, Rotate
<1>6. CASE ClearExpired
  <2> DEFINE S == {c \in Codes : grant[c] = "stored" /\ ~Redeemable(c)}
  <2>1. S \in SUBSET {c \in Codes : phaseOfCode[c] = "open"}
    BY DEF phaseOfCode, PhaseOf
  <2>2. phaseOfCode' = [c \in Codes |-> IF c \in S THEN "closed" ELSE phaseOfCode[c]]
    BY <1>6 DEF ClearExpired, phaseOfCode, PhaseOf
  <2>3. takenForCode' = takenForCode
    BY <1>1, <1>6 DEF ClearExpired, obsVars
  <2>4. QED
    BY <2>1, <2>2, <2>3 DEF SingleUse!Next, SingleUse!Withdraw
<1>7. ASSUME UNCHANGED <<grant, answered>> PROVE UNCHANGED <<phaseOfCode, takenForCode>>
  BY <1>1, <1>2, <1>7
<1>8. \A r \in Requests : InvalidateAuthorizationCode(r) => code[r] \in Codes
  BY DEF IInv, InvalidateAuthorizationCode, RequestHolds
<1>9. QED
  BY <1>3, <1>4, <1>5, <1>6, <1>7, <1>8
  DEF SingleUse!Next, Next, RequestStep, vars, dbVars, obsVars, ValidateCode,
      ReuseMiss, ReuseHit, SaveBearerToken, ValidateRefreshToken, StartRefresh,
      DecideSave, RefuseSave, Abort, ReplayRefreshToken, PurgeAudits, Tick, ChangeAccess,
      ToggleActive

\* The token endpoint implements SingleUseCode: whatever requests, rotations,
\* replays and cleanups overlap, a code is answered at most once.
THEOREM Refinement == Spec => SingleUseSpec
<1>1. Init => SingleUse!Init
  BY DEF Init, SingleUse!Init, phaseOfCode, PhaseOf, takenForCode, DirectPairs
<1>2. IInv /\ IInv' /\ [Next]_vars => [SingleUse!Next]_(SingleUse!vars)
  BY RefinementStep
<1>3. QED
  BY <1>1, <1>2, Invariance, PTL DEF Spec, SingleUseSpec, SingleUse!Spec
=============================================================================
