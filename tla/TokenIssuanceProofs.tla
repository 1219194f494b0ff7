------------------------ MODULE TokenIssuanceProofs ------------------------
(***************************************************************************)
(* Theorems about TokenIssuance for any number of processes, audit         *)
(* receivers, requests, keys and changes, and for every lifetime.          *)
(***************************************************************************)
EXTENDS TokenIssuance, TLAPS

\* What a process knows of the token it works on.
GroupsRead(t) ==
    t.format = "jwt" => /\ 1 <= t.profile /\ t.from <= t.profile
                        /\ t.profile <= t.groups /\ t.groups <= version

ClaimsRead(t) ==
    /\ t.from <= t.profile /\ t.profile <= t.idGroups
    /\ t.format = "jwt" => t.profile <= t.groups /\ t.groups <= t.idGroups

Told(i, r) == <<i, r, tok[i].format>> \in heard \/ <<i, r>> \in failed

Work(p) ==
    /\ pc[p] # "idle" => cur[p] \in 1..next
    /\ pc[p] = "validated" => tok[cur[p]].format = "none"
    /\ pc[p] \in {"built", "signed"} => tok[cur[p]].format # "none" /\ cur[p] \notin stored
    /\ pc[p] \in {"saved", "announcing"} => tok[cur[p]].format # "none"
    /\ pc[p] = "built" => GroupsRead(tok[cur[p]])
    /\ pc[p] = "signed" => ClaimsRead(tok[cur[p]])
    /\ todo[p] # {} => pc[p] = "announcing"
    /\ pc[p] = "announcing" =>
          cur[p] \in unannounced \/ \A r \in Receivers \ todo[p] : Told(cur[p], r)

\* Two processes work on different tokens.
Exclusive ==
    \A p, q \in Processes :
        p # q /\ pc[p] # "idle" /\ pc[q] # "idle" => cur[p] # cur[q]

Sound(i) ==
    /\ i > next => tok[i].format = "none"
    /\ tok[i].from <= version
    /\ tok[i].profile # 0 => tok[i].from <= tok[i].profile /\ tok[i].profile <= version
    /\ tok[i].exp <= clock + Ttl
    /\ i \in stored => ClaimsRead(tok[i]) /\ (tok[i].format = "jwt" => tok[i].exp <= tok[i].rowExp)

RequestInv ==
    /\ TypeOK
    /\ \A p \in Processes : Work(p)
    /\ Exclusive
    /\ \A i \in Tokens : Sound(i)
    /\ IssuanceAudited

\* A key is published wherever a process signs with it, and until the last
\* JWT it signed has expired; without a signer, that is Ttl after the last
\* one stopped.
KeyInv ==
    /\ \A p \in Processes : conf[p].active \in Published /\ conf[p].active <= keys.active
    /\ \A p, q \in Processes : conf[p].active <= conf[q].active => conf[p].active \in Jwks(q)
    /\ \A i \in Tokens :
          tok[i].format = "jwt" =>
             /\ \/ \E p \in Processes : conf[p].active = tok[i].kid
                \/ tok[i].exp <= unused[tok[i].kid] + Ttl
             /\ clock < tok[i].exp => tok[i].kid \in Published
    /\ Verifiable

----------------------------------------------------------------------------
(* Types.                                                                  *)

LEMMA TokenFields ==
    ASSUME TypeOK, NEW i \in Tokens
    PROVE  /\ tok[i] \in TokenType
           /\ tok[i].kid \in Keys /\ tok[i].exp \in Nat /\ tok[i].rowExp \in Nat
           /\ tok[i].from \in Nat /\ tok[i].profile \in Nat
           /\ tok[i].groups \in Nat /\ tok[i].idGroups \in Nat
           /\ tok[i].format \in {"jwt", "opaque", "none"}
<1>1. tok[i] \in TokenType
  BY DEF TypeOK
<1> QED
  BY <1>1 DEF TokenType, Formats

LEMMA KeyTypes ==
    ASSUME TypeOK
    PROVE  /\ keys.active \in Nat /\ keys.inactive \subseteq Nat
           /\ \A p \in Processes : conf[p].active \in Nat
           /\ \A k \in Keys : unused[k] \in Nat
           /\ Keys \subseteq Nat /\ clock \in Nat
           /\ Ttl \in Nat /\ Wait \in Nat /\ Ttl <= Wait
BY ParametersAssumption DEF TypeOK, KeySettings, Keys

----------------------------------------------------------------------------
(* The signing keys.                                                       *)

LEMMA KeyInit == Init => KeyInv
<1> SUFFICES ASSUME Init PROVE KeyInv
  OBVIOUS
<1>1. keys = [active |-> 1, inactive |-> {}] /\ \A p \in Processes : conf[p] = keys
  BY DEF Init
<1>2. \A i \in Tokens : tok[i].format = "none"
  BY DEF Init
<1> QED
  BY <1>1, <1>2 DEF KeyInv, Verifiable, Unexpired, Published, Jwks

\* A step that touches no key and builds no token only lets time pass.
LEMMA KeysAtRest ==
    ASSUME TypeOK, KeyInv, UNCHANGED keyVars, clock' \in Nat, clock <= clock',
           \A i \in Tokens : /\ tok'[i].format = tok[i].format
                             /\ tok'[i].kid = tok[i].kid /\ tok'[i].exp = tok[i].exp
    PROVE  KeyInv'
<1> USE TokenFields, KeyTypes
<1>1. keys' = keys /\ conf' = conf /\ unused' = unused
  BY DEF keyVars
<1>2. \A p \in Processes : conf'[p].active \in Published' /\ conf'[p].active <= keys'.active
  BY <1>1 DEF KeyInv, Published
<1>3. \A p, q \in Processes : conf'[p].active <= conf'[q].active => conf'[p].active \in Jwks(q)'
  BY <1>1 DEF KeyInv, Jwks
<1>4. ASSUME NEW i \in Tokens, tok'[i].format = "jwt"
      PROVE  /\ \/ \E p \in Processes : conf'[p].active = tok'[i].kid
                \/ tok'[i].exp <= unused'[tok'[i].kid] + Ttl
             /\ clock' < tok'[i].exp => tok'[i].kid \in Published'
  BY <1>1, <1>4 DEF KeyInv, Published
<1>5. Verifiable'
  BY <1>1 DEF KeyInv, Verifiable, Unexpired, Jwks
<1> QED
  BY <1>2, <1>3, <1>4, <1>5 DEF KeyInv

LEMMA RotateKeys == ASSUME TypeOK, KeyInv, Rotate PROVE KeyInv'
<1> USE TokenFields, KeyTypes
<1>1. /\ keys'.active = keys.active + 1
      /\ keys'.inactive = keys.inactive \cup {keys.active}
      /\ conf' = conf /\ unused' = unused /\ clock' = clock /\ tok' = tok
  BY DEF Rotate, tokenVars
<1>2. Published \subseteq Published'
  BY <1>1 DEF Published
<1>3. \A p \in Processes : conf'[p].active \in Published' /\ conf'[p].active <= keys'.active
  BY <1>1, <1>2 DEF KeyInv
<1>4. \A p, q \in Processes : conf'[p].active <= conf'[q].active => conf'[p].active \in Jwks(q)'
  BY <1>1 DEF KeyInv, Jwks
<1>5. Verifiable'
  BY <1>1 DEF KeyInv, Verifiable, Unexpired, Jwks
<1> QED
  BY <1>1, <1>2, <1>3, <1>4, <1>5 DEF KeyInv

LEMMA DropKeys == ASSUME TypeOK, KeyInv, NEW k \in Keys, Drop(k) PROVE KeyInv'
<1> USE TokenFields, KeyTypes
<1>1. /\ keys'.active = keys.active /\ keys'.inactive = keys.inactive \ {k}
      /\ conf' = conf /\ unused' = unused /\ clock' = clock /\ tok' = tok
      /\ \A p \in Processes : conf[p].active # k
      /\ clock >= unused[k] + Wait
  BY DEF Drop, tokenVars, TypeOK, KeySettings
<1>2. Published \ {k} \subseteq Published'
  BY <1>1 DEF Published
<1>3. \A p \in Processes : conf'[p].active \in Published' /\ conf'[p].active <= keys'.active
  BY <1>1, <1>2 DEF KeyInv
<1>4. \A p, q \in Processes : conf'[p].active <= conf'[q].active => conf'[p].active \in Jwks(q)'
  BY <1>1 DEF KeyInv, Jwks
<1>5. ASSUME NEW i \in Tokens, tok[i].format = "jwt", clock < tok[i].exp
      PROVE  tok[i].kid # k
  <2>1. SUFFICES ASSUME tok[i].kid = k PROVE FALSE
    OBVIOUS
  <2>2. tok[i].exp <= unused[k] + Ttl
    BY <1>1, <1>5, <2>1 DEF KeyInv
  <2> QED
    BY <1>1, <1>5, <2>2
<1>6. Verifiable'
  BY <1>1 DEF KeyInv, Verifiable, Unexpired, Jwks
<1> QED
  BY <1>1, <1>2, <1>3, <1>4, <1>5, <1>6 DEF KeyInv

LEMMA RestartKeys ==
    ASSUME TypeOK, KeyInv, \A i \in Tokens : tok[i].exp <= clock + Ttl,
           NEW p \in Processes, Restart(p)
    PROVE  KeyInv'
<1> USE TokenFields, KeyTypes
<1>1. /\ conf'[p] = keys /\ \A q \in Processes \ {p} : conf'[q] = conf[q]
      /\ keys' = keys /\ clock' = clock /\ tok' = tok
  BY DEF Restart, tokenVars, TypeOK
<1>2. /\ conf[p].active = keys.active => unused' = unused
      /\ conf[p].active # keys.active =>
            unused' = [unused EXCEPT ![conf[p].active] = clock]
  BY DEF Restart
<1>3. conf[p].active \in Keys
  BY DEF TypeOK, KeySettings
<1>4. \A k \in Keys : \/ unused'[k] = unused[k]
                      \/ k = conf[p].active /\ unused'[k] = clock
  BY <1>2, <1>3 DEF TypeOK
<1>5. conf[p].active = keys.active \/ unused'[conf[p].active] = clock
  BY <1>2, <1>3 DEF TypeOK
<1>6. \A q \in Processes : conf'[q].active \in Published' /\ conf'[q].active <= keys'.active
  BY <1>1 DEF KeyInv, Published
<1>7. ASSUME NEW q1 \in Processes, NEW q2 \in Processes, conf'[q1].active <= conf'[q2].active
      PROVE  conf'[q1].active \in Jwks(q2)'
  <2>1. CASE q2 = p
    BY <1>1, <1>6, <2>1 DEF Published, Jwks
  <2>2. CASE q2 # p /\ q1 # p
    BY <1>1, <1>7, <2>2 DEF KeyInv, Jwks
  <2>3. CASE q2 # p /\ q1 = p
    <3>1. conf[q2].active = keys.active
      BY <1>1, <1>6, <1>7, <2>3
    <3> QED
      BY <1>1, <2>3, <3>1 DEF Jwks
  <2> QED
    BY <2>1, <2>2, <2>3
<1>8. ASSUME NEW i \in Tokens, tok'[i].format = "jwt"
      PROVE  \/ \E q \in Processes : conf'[q].active = tok'[i].kid
             \/ tok'[i].exp <= unused'[tok'[i].kid] + Ttl
  <2>1. CASE tok[i].exp <= unused[tok[i].kid] + Ttl
    BY <1>1, <1>4, <2>1
  <2>2. CASE \E q \in Processes \ {p} : conf[q].active = tok[i].kid
    BY <1>1, <2>2
  <2>3. CASE conf[p].active = tok[i].kid
    BY <1>1, <1>5, <2>3
  <2> QED
    BY <1>1, <1>8, <2>1, <2>2, <2>3 DEF KeyInv
<1>9. \A i \in Tokens : tok'[i].format = "jwt" /\ clock' < tok'[i].exp => tok'[i].kid \in Published'
  BY <1>1 DEF KeyInv, Published
<1>10. ASSUME NEW i \in Tokens, NEW q \in Processes, Unexpired(i)',
              tok'[i].kid <= conf'[q].active
       PROVE  tok'[i].kid \in Jwks(q)'
  <2>1. CASE q = p
    BY <1>1, <1>9, <1>10, <2>1 DEF Published, Jwks, Unexpired
  <2>2. CASE q # p
    BY <1>1, <1>10, <2>2 DEF KeyInv, Verifiable, Unexpired, Jwks
  <2> QED
    BY <2>1, <2>2
<1>11. Verifiable'
  BY <1>10 DEF Verifiable
<1> QED
  BY <1>6, <1>7, <1>8, <1>9, <1>11 DEF KeyInv

----------------------------------------------------------------------------
(* One request, seen by the other processes and the other tokens.          *)

LEMMA RequestTypes ==
    ASSUME TypeOK, NEW p \in Processes
    PROVE  /\ next \in Nat /\ version \in Nat /\ 1 <= version /\ clock \in Nat /\ Ttl \in Nat
           /\ cur[p] \in Nat /\ Tokens \subseteq Nat
           /\ (cur[p] \in 1..next => cur[p] \in Tokens)
BY ParametersAssumption DEF TypeOK, Tokens

\* The invariant of another process, when the step leaves its token alone
\* and takes nothing from what was announced.
LEMMA OthersWork ==
    ASSUME TypeOK, Exclusive, NEW p \in Processes, NEW q \in Processes, p # q, Work(q),
           pc'[q] = pc[q], cur'[q] = cur[q], todo'[q] = todo[q],
           next' \in Nat, next <= next', version' = version,
           pc[q] # "idle" => tok'[cur[q]] = tok[cur[q]],
           pc[q] # "idle" /\ cur[q] \in stored' => cur[q] \in stored,
           unannounced \subseteq unannounced', heard \subseteq heard', failed \subseteq failed'
    PROVE  Work(q)'
<1> USE RequestTypes
<1>1. pc[q] # "idle" => cur[q] \in 1..next'
  BY DEF Work
<1>2. \A r \in Receivers : pc[q] # "idle" /\ Told(cur[q], r) => Told(cur[q], r)'
  BY DEF Told
<1>3. pc[q] = "built" => GroupsRead(tok[cur[q]])'
  BY DEF Work, GroupsRead
<1> QED
  BY <1>1, <1>2, <1>3 DEF Work, ClaimsRead, Told

LEMMA OthersSound ==
    ASSUME TypeOK, NEW i \in Tokens, Sound(i), tok'[i] = tok[i],
           next' \in Nat, next <= next', clock' \in Nat, clock <= clock',
           version' \in Nat, version <= version',
           i \in stored' => i \in stored
    PROVE  Sound(i)'
<1>1. next \in Nat /\ clock \in Nat /\ version \in Nat /\ Ttl \in Nat /\ i \in Nat
  BY ParametersAssumption DEF TypeOK, Tokens
<1> QED
  BY <1>1, TokenFields DEF Sound, ClaimsRead

LEMMA AuditKept ==
    ASSUME TypeOK, IssuanceAudited, heard' = heard, failed \subseteq failed',
           answered' = answered, unannounced \subseteq unannounced',
           \A i \in Tokens : tok[i].format # "none" => tok'[i].format = tok[i].format
    PROVE  IssuanceAudited'
<1>1. \A i \in answered : tok'[i].format = tok[i].format
  BY DEF TypeOK, Built
<1>2. \A h \in heard : tok'[h[1]].format = tok[h[1]].format
  BY DEF TypeOK, Built
<1> QED
  BY <1>1, <1>2 DEF IssuanceAudited

\* What is left to show of a step of the request of p.
LEMMA RequestStep ==
    ASSUME RequestInv, NEW p \in Processes,
           \A q \in Processes \ {p} : pc'[q] = pc[q] /\ todo'[q] = todo[q],
           pc[p] = "idle" => pc'[p] = "idle",
           cur' = cur, next' = next, version' = version, clock' = clock,
           \A i \in Tokens : i # cur[p] \/ pc[p] = "idle" => tok'[i] = tok[i],
           \A i \in stored' : i \in stored \/ (i = cur[p] /\ pc[p] # "idle"),
           unannounced \subseteq unannounced', heard \subseteq heard', failed \subseteq failed',
           TypeOK', Work(p)', cur[p] \in Tokens /\ pc[p] # "idle" => Sound(cur[p])',
           IssuanceAudited'
    PROVE  RequestInv'
<1>2. Exclusive'
  BY DEF RequestInv, Exclusive
<1>3. ASSUME NEW q \in Processes, q # p PROVE Work(q)'
  <2>1. pc[q] # "idle" /\ pc[p] # "idle" => cur[p] # cur[q]
    BY <1>3 DEF RequestInv, Exclusive
  <2>2. pc[q] # "idle" => cur[q] \in Tokens
    BY RequestTypes DEF RequestInv, Work
  <2>3. /\ pc'[q] = pc[q] /\ cur'[q] = cur[q] /\ todo'[q] = todo[q]
        /\ pc[q] # "idle" => tok'[cur[q]] = tok[cur[q]]
        /\ pc[q] # "idle" /\ cur[q] \in stored' => cur[q] \in stored
    BY <1>3, <2>1, <2>2
  <2>4. TypeOK /\ Exclusive /\ Work(q) /\ next \in Nat
    BY RequestTypes DEF RequestInv
  <2> QED
    BY <1>3, <2>3, <2>4, OthersWork
<1>4. ASSUME NEW i \in Tokens PROVE Sound(i)'
  <2>1. CASE i = cur[p] /\ pc[p] # "idle"
    BY <2>1
  <2>2. CASE i # cur[p] \/ pc[p] = "idle"
    <3>1. tok'[i] = tok[i] /\ (i \in stored' => i \in stored)
      BY <2>2
    <3>2. TypeOK /\ Sound(i) /\ next \in Nat /\ clock \in Nat /\ version \in Nat
      BY RequestTypes DEF RequestInv
    <3> QED
      BY <3>1, <3>2, OthersSound
  <2> QED
    BY <2>1, <2>2
<1> QED
  BY <1>2, <1>3, <1>4 DEF RequestInv

----------------------------------------------------------------------------
(* The steps of a request.                                                 *)

LEMMA RequestInit == Init => RequestInv
<1> SUFFICES ASSUME Init PROVE RequestInv
  OBVIOUS
<1>1. 1 \in Keys /\ 1 \in Nat \ {0} /\ 0 \in 0..MaxTokens
  BY ParametersAssumption DEF Keys
<1>2. keys \in KeySettings /\ conf \in [Processes -> KeySettings] /\ unused \in [Keys -> Nat]
  BY <1>1 DEF Init, KeySettings
<1>3. tok \in [Tokens -> TokenType] /\ \A i \in Tokens :
          /\ tok[i].format = "none" /\ tok[i].from = 0 /\ tok[i].profile = 0 /\ tok[i].exp = 0
  BY <1>1 DEF Init, TokenType
<1>4. TypeOK
  BY <1>1, <1>2, <1>3 DEF Init, TypeOK, Built
<1>5. \A i \in Tokens : Sound(i)
  BY <1>1, <1>3, ParametersAssumption DEF Init, Sound
<1> QED
  BY <1>4, <1>5 DEF Init, RequestInv, Work, Exclusive, IssuanceAudited

LEMMA RestartRequest == ASSUME RequestInv, NEW p \in Processes, Restart(p) PROVE RequestInv'
<1>1. /\ pc' = [pc EXCEPT ![p] = "idle"] /\ todo' = [todo EXCEPT ![p] = {}]
      /\ UNCHANGED <<clock, keys, format, version, cur, tokenVars, auditVars>>
  BY DEF Restart
<1>2. conf' \in [Processes -> KeySettings] /\ unused' \in [Keys -> Nat]
  BY DEF Restart, RequestInv, TypeOK
<1>3. TypeOK'
  BY <1>1, <1>2 DEF RequestInv, TypeOK, Built, tokenVars, auditVars
<1>4. pc'[p] = "idle" /\ todo'[p] = {}
  BY <1>1 DEF RequestInv, TypeOK
<1>5. Work(p)'
  BY <1>4 DEF Work
<1>6. IssuanceAudited' /\ (cur[p] \in Tokens => Sound(cur[p])')
  BY <1>1 DEF RequestInv, IssuanceAudited, Sound, ClaimsRead, tokenVars, auditVars
<1>7. \A q \in Processes \ {p} : pc'[q] = pc[q] /\ todo'[q] = todo[q]
  BY <1>1 DEF RequestInv, TypeOK
<1>8. \A i \in Tokens : tok'[i] = tok[i]
  BY <1>1 DEF tokenVars
<1>9. /\ cur' = cur /\ next' = next /\ version' = version /\ clock' = clock /\ stored' = stored
      /\ unannounced \subseteq unannounced' /\ heard \subseteq heard' /\ failed \subseteq failed'
  BY <1>1 DEF tokenVars, auditVars
<1> QED
  BY <1>3, <1>4, <1>5, <1>6, <1>7, <1>8, <1>9, RequestStep

LEMMA ValidateRequest == ASSUME RequestInv, NEW p \in Processes, Validate(p) PROVE RequestInv'
<1>1. /\ pc[p] = "idle" /\ pc' = [pc EXCEPT ![p] = "validated"]
      /\ next < MaxTokens /\ next' = next + 1 /\ cur' = [cur EXCEPT ![p] = next']
      /\ UNCHANGED <<clock, keyVars, format, version, todo, stored, answered, auditVars>>
  BY DEF Validate, Goto
<1>2. PICK profile \in {0, version} :
          tok' = [tok EXCEPT ![next'] = [@ EXCEPT !.from = version, !.profile = profile]]
  BY DEF Validate
<1>3. TypeOK /\ next \in Nat /\ next' \in Tokens /\ Tokens \subseteq Nat
      /\ next < next' /\ next <= next' /\ next' \in 0..MaxTokens
      /\ version \in Nat /\ profile \in Nat /\ version \in Nat \ {0}
  BY <1>1, ParametersAssumption DEF RequestInv, TypeOK, Tokens
<1>n. PICK n \in Tokens : n = next'
  BY <1>3
<1>4. tok[n].format = "none" /\ tok[n] \in TokenType
  BY <1>3, <1>n, TokenFields DEF RequestInv, Sound
<1>5. /\ tok'[n] \in TokenType /\ tok'[n].format = "none"
      /\ tok'[n].from = version /\ tok'[n].profile = profile
      /\ tok'[n].exp = tok[n].exp
      /\ \A i \in Tokens \ {n} : tok'[i] = tok[i]
      /\ tok' \in [Tokens -> TokenType]
  <2>1. [tok[n] EXCEPT !.from = version, !.profile = profile] \in TokenType
    BY <1>3, <1>4 DEF TokenType
  <2> QED
    BY <1>2, <1>3, <1>n, <1>4, <2>1 DEF TypeOK, TokenType
<1>6. \A i \in Tokens : tok'[i].format = tok[i].format
  BY <1>4, <1>5
<1>7. TypeOK'
  <2>1. cur' \in [Processes -> Tokens \cup {0}] /\ next' \in 0..MaxTokens
    BY <1>1, <1>3 DEF TypeOK
  <2>2. pc' \in [Processes -> {"idle", "validated", "built", "signed", "saved", "announcing"}]
    BY <1>1, <1>3 DEF TypeOK
  <2>3. Built' = Built
    BY <1>6 DEF Built
  <2> QED
    BY <1>1, <1>3, <1>5, <2>1, <2>2, <2>3 DEF TypeOK, keyVars, auditVars
<1>8. pc'[p] = "validated" /\ cur'[p] = n /\ todo'[p] = {}
  BY <1>1, <1>3, <1>n DEF RequestInv, TypeOK, Work
<1>9. Work(p)'
  BY <1>1, <1>3, <1>n, <1>5, <1>8 DEF Work
<1>10. \A q \in Processes \ {p} : pc'[q] = pc[q] /\ cur'[q] = cur[q] /\ todo'[q] = todo[q]
  BY <1>1, <1>3 DEF TypeOK
<1>11. \A q \in Processes \ {p} : pc[q] # "idle" => cur[q] \in 1..next /\ cur[q] # n /\ cur[q] \in Tokens
  BY <1>3, <1>n, RequestTypes DEF RequestInv, Work
<1>12. Exclusive'
  BY <1>1, <1>8, <1>10, <1>11 DEF RequestInv, Exclusive
<1>13. ASSUME NEW q \in Processes \ {p} PROVE Work(q)'
  BY <1>1, <1>3, <1>5, <1>10, <1>11, OthersWork DEF RequestInv, auditVars
<1>14. ASSUME NEW i \in Tokens \ {n} PROVE Sound(i)'
  BY <1>1, <1>3, <1>5, OthersSound DEF RequestInv, TypeOK
<1>15. Sound(n)'
  <2>1. n \notin stored'
    BY <1>1, <1>4 DEF RequestInv, TypeOK, Built
  <2> QED
    BY <1>1, <1>3, <1>n, <1>4, <1>5, <2>1, ParametersAssumption DEF RequestInv, Sound
<1>16. IssuanceAudited'
  BY <1>1, <1>3, <1>6, AuditKept DEF RequestInv, auditVars
<1> QED
  BY <1>7, <1>9, <1>12, <1>13, <1>14, <1>15, <1>16 DEF RequestInv

\* Building: the token of p gets its fields and the others keep theirs.
LEMMA BuildStep ==
    ASSUME RequestInv, NEW p \in Processes, NEW step \in {"built", "signed"},
           pc[p] \in {"validated", "built"}, pc' = [pc EXCEPT ![p] = step],
           UNCHANGED <<clock, keyVars, format, version, cur, todo, next, stored, answered, auditVars>>,
           NEW t \in TokenType, tok' = [tok EXCEPT ![cur[p]] = t],
           t.format # "none",
           tok[cur[p]].format # "none" => t.format = tok[cur[p]].format,
           t.from = tok[cur[p]].from, t.exp <= clock + Ttl,
           t.profile # 0 => t.from <= t.profile /\ t.profile <= version,
           step = "built" => GroupsRead(t), step = "signed" => ClaimsRead(t)
    PROVE  RequestInv'
<1> DEFINE c == cur[p]
<1>1. TypeOK /\ Work(p) /\ c \in 1..next /\ c \in Tokens /\ c \in Nat /\ next \in Nat
      /\ cur' = cur /\ next' = next /\ version' = version /\ clock' = clock /\ stored' = stored
      /\ unannounced' = unannounced /\ heard' = heard /\ failed' = failed
      /\ answered' = answered /\ todo' = todo
  BY RequestTypes DEF RequestInv, Work, auditVars
<1>2. c \notin stored
  BY <1>1 DEF Work, TypeOK, Built
<1>3. tok'[c] = t /\ (\A i \in Tokens \ {c} : tok'[i] = tok[i]) /\ tok' \in [Tokens -> TokenType]
  BY <1>1 DEF TypeOK
<1>4. \A i \in Tokens : tok[i].format # "none" => tok'[i].format = tok[i].format
  BY <1>3
<1>5. Built \subseteq Built'
  BY <1>4 DEF Built
<1>6. pc'[p] = step /\ (\A q \in Processes \ {p} : pc'[q] = pc[q])
      /\ pc' \in [Processes -> {"idle", "validated", "built", "signed", "saved", "announcing"}]
  BY <1>1 DEF TypeOK
<1>7. TypeOK'
  <2>1. heard' \subseteq Built' \X Receivers \X Formats /\ failed' \subseteq Built' \X Receivers
    BY <1>1, <1>5 DEF TypeOK
  <2> QED
    BY <1>1, <1>3, <1>5, <1>6, <2>1 DEF TypeOK, keyVars
<1>8. Work(p)'
  <2>1. todo[p] = {}
    BY <1>1 DEF Work
  <2>2. step = "built" => GroupsRead(t)'
    BY <1>1 DEF GroupsRead
  <2>3. step = "signed" => ClaimsRead(t)'
    BY DEF ClaimsRead
  <2> QED
    BY <1>1, <1>2, <1>3, <1>6, <2>1, <2>2, <2>3 DEF Work
<1>9. Sound(c)'
  <2>1. ~(c > next)
    BY <1>1
  <2> QED
    BY <1>1, <1>2, <1>3, <2>1 DEF RequestInv, Sound
<1>10. IssuanceAudited'
  BY <1>1, <1>4, AuditKept DEF RequestInv
<1>11. /\ \A q \in Processes \ {p} : pc'[q] = pc[q] /\ todo'[q] = todo[q]
       /\ \A i \in Tokens : i # cur[p] \/ pc[p] = "idle" => tok'[i] = tok[i]
       /\ \A i \in stored' : i \in stored
       /\ unannounced \subseteq unannounced' /\ heard \subseteq heard' /\ failed \subseteq failed'
  BY <1>1, <1>3, <1>6
<1> QED
  BY <1>1, <1>7, <1>8, <1>9, <1>10, <1>11, RequestStep

LEMMA CreateTokenRequest ==
    ASSUME RequestInv, NEW p \in Processes, CreateToken(p) PROVE RequestInv'
<1> DEFINE o == tok[cur[p]]
<1>1. /\ pc[p] = "validated" /\ pc' = [pc EXCEPT ![p] = "built"]
      /\ UNCHANGED <<clock, keyVars, format, version, cur, todo, next, stored, answered, auditVars>>
  BY DEF CreateToken, Goto
<1>2. TypeOK /\ cur[p] \in Tokens /\ o.format = "none" /\ Sound(cur[p])
  BY <1>1, RequestTypes DEF RequestInv, Work
<1>3. o \in TokenType /\ o.exp <= clock + Ttl /\ o.from <= version
      /\ (o.profile # 0 => o.from <= o.profile /\ o.profile <= version)
      /\ o.from \in Nat /\ o.profile \in Nat
  BY <1>2, TokenFields DEF Sound
<1>4. clock \in Nat /\ Ttl \in Nat /\ version \in Nat \ {0} /\ conf[p].active \in Keys
  BY <1>2, ParametersAssumption DEF TypeOK, KeySettings
<1>5. CASE tok' = [tok EXCEPT ![cur[p]].format = "opaque"]
  <2> DEFINE t == [o EXCEPT !.format = "opaque"]
  <2>1. t \in TokenType /\ t.format = "opaque" /\ t.from = o.from /\ t.exp = o.exp
        /\ t.profile = o.profile
    BY <1>3 DEF TokenType, Formats
  <2>2. tok' = [tok EXCEPT ![cur[p]] = t]
    BY <1>5
  <2>3. GroupsRead(t)
    BY <2>1 DEF GroupsRead
  <2> HIDE DEF t
  <2> QED
    BY <1>1, <1>2, <1>3, <2>1, <2>2, <2>3, BuildStep
<1>6. CASE /\ format = "jwt"
           /\ tok' = [tok EXCEPT ![cur[p]] = [@ EXCEPT
                 !.format = "jwt", !.kid = conf[p].active, !.exp = clock + Lifetime,
                 !.profile = Profile(cur[p]), !.groups = Groups]]
  <2> DEFINE v == Profile(cur[p])
             t == [o EXCEPT !.format = "jwt", !.kid = conf[p].active, !.exp = clock + Ttl,
                            !.profile = v, !.groups = version]
  <2>1. v \in Nat /\ 1 <= v /\ o.from <= v /\ v <= version
    BY <1>3, <1>4 DEF Profile
  <2>2. tok' = [tok EXCEPT ![cur[p]] = t]
    BY <1>6, Zenon DEF Lifetime, Groups
  <2> HIDE DEF v
  <2> DEFINE e == clock + Ttl
  <2>e. e \in Nat
    BY <1>4
  <2>3. t \in TokenType /\ t.format = "jwt" /\ t.from = o.from /\ t.exp = clock + Ttl
        /\ t.profile = v /\ t.groups = version
    <3> HIDE DEF e
    <3>1. t = [o EXCEPT !.format = "jwt", !.kid = conf[p].active, !.exp = e,
                        !.profile = v, !.groups = version]
      BY DEF e
    <3> HIDE DEF t
    <3>2. t \in TokenType /\ t.format = "jwt" /\ t.from = o.from /\ t.exp = e
          /\ t.profile = v /\ t.groups = version
      BY <1>3, <1>4, <2>1, <2>e, <3>1 DEF TokenType, Formats
    <3> QED
      BY <3>2 DEF e
  <2>4. GroupsRead(t)
    BY <2>1, <2>3, <1>4 DEF GroupsRead
  <2> HIDE DEF t
  <2>5. t.exp <= clock + Ttl
    BY <2>3, <2>e
  <2>6. t.profile # 0 => t.from <= t.profile /\ t.profile <= version
    BY <2>1, <2>3
  <2> HIDE DEF o
  <2> QED
    BY <1>1, <1>2, <2>2, <2>3, <2>4, <2>5, <2>6, BuildStep DEF o
<1> QED
  BY <1>5, <1>6 DEF CreateToken

LEMMA CreateIdTokenRequest ==
    ASSUME RequestInv, NEW p \in Processes, CreateIdToken(p) PROVE RequestInv'
<1> DEFINE o == tok[cur[p]]
           v == Profile(cur[p])
           t == [o EXCEPT !.profile = v, !.idGroups = version]
<1>1. /\ pc[p] = "built" /\ pc' = [pc EXCEPT ![p] = "signed"]
      /\ UNCHANGED <<clock, keyVars, format, version, cur, todo, next, stored, answered, auditVars>>
      /\ tok' = [tok EXCEPT ![cur[p]] = t]
  BY DEF CreateIdToken, Goto, Groups
<1>2. TypeOK /\ cur[p] \in Tokens /\ o.format # "none" /\ Sound(cur[p]) /\ GroupsRead(o)
  BY <1>1, RequestTypes DEF RequestInv, Work
<1>3. o \in TokenType /\ o.exp <= clock + Ttl /\ o.from <= version
      /\ (o.profile # 0 => o.from <= o.profile /\ o.profile <= version)
      /\ o.from \in Nat /\ o.profile \in Nat /\ o.groups \in Nat
  BY <1>2, TokenFields DEF Sound
<1>4. version \in Nat \ {0}
  BY <1>2 DEF TypeOK
<1>5. v \in Nat /\ o.from <= v /\ v <= version /\ (o.format = "jwt" => v = o.profile)
  BY <1>2, <1>3, <1>4 DEF Profile, GroupsRead
<1> HIDE DEF v
<1>6. t \in TokenType /\ t.format = o.format /\ t.from = o.from /\ t.exp = o.exp
      /\ t.profile = v /\ t.groups = o.groups /\ t.idGroups = version
  BY <1>3, <1>4, <1>5 DEF TokenType
<1>7. ClaimsRead(t)
  BY <1>2, <1>5, <1>6 DEF GroupsRead, ClaimsRead
<1> HIDE DEF t
<1> QED
  BY <1>1, <1>2, <1>3, <1>5, <1>6, <1>7, BuildStep

LEMMA SaveTokenRequest ==
    ASSUME RequestInv, NEW p \in Processes, SaveToken(p) PROVE RequestInv'
<1> DEFINE c == cur[p]
           t == [tok[c] EXCEPT !.rowExp = clock + Ttl]
<1>1. /\ pc[p] = "signed" /\ pc' = [pc EXCEPT ![p] = "saved"]
      /\ UNCHANGED <<clock, keyVars, format, version, cur, todo, next, answered, auditVars>>
      /\ stored' = stored \cup {c}
      /\ tok' = [tok EXCEPT ![c] = t]
  BY DEF SaveToken, Signed, Goto
<1>2. TypeOK /\ c \in Tokens /\ c \in 1..next /\ c \in Nat /\ next \in Nat
      /\ tok[c].format # "none" /\ Sound(c) /\ Work(p) /\ ClaimsRead(tok[c])
  BY <1>1, RequestTypes DEF RequestInv, Work
<1>3. tok[c] \in TokenType /\ clock + Ttl \in Nat
  BY <1>2, TokenFields, ParametersAssumption DEF TypeOK
<1>4. t \in TokenType /\ t.format = tok[c].format /\ t.from = tok[c].from /\ t.exp = tok[c].exp
      /\ t.profile = tok[c].profile /\ t.groups = tok[c].groups
      /\ t.idGroups = tok[c].idGroups /\ t.rowExp = clock + Ttl
  BY <1>3 DEF TokenType
<1> HIDE DEF t
<1>5. tok'[c] = t /\ (\A i \in Tokens \ {c} : tok'[i] = tok[i]) /\ tok' \in [Tokens -> TokenType]
  BY <1>1, <1>2, <1>4 DEF TypeOK
<1>6. \A i \in Tokens : tok'[i].format = tok[i].format
  BY <1>4, <1>5
<1>7. Built' = Built
  BY <1>6 DEF Built
<1>8. pc'[p] = "saved" /\ (\A q \in Processes \ {p} : pc'[q] = pc[q])
      /\ pc' \in [Processes -> {"idle", "validated", "built", "signed", "saved", "announcing"}]
  BY <1>1, <1>2 DEF TypeOK
<1>9. c \in Built
  BY <1>2 DEF Built
<1>10. TypeOK'
  BY <1>1, <1>2, <1>5, <1>7, <1>8, <1>9 DEF TypeOK, keyVars, auditVars
<1>11. Work(p)'
  BY <1>1, <1>2, <1>4, <1>5, <1>8 DEF Work
<1>12. Sound(c)'
  <2>1. cur'[p] = c /\ tok'[c].exp <= tok'[c].rowExp
    BY <1>1, <1>2, <1>4, <1>5 DEF Sound
  <2>2. ClaimsRead(tok[c])'
    BY <1>2, <1>4, <1>5, <2>1 DEF ClaimsRead
  <2>3. ~(c > next)
    BY <1>2
  <2> QED
    BY <1>1, <1>2, <1>4, <1>5, <2>1, <2>2, <2>3 DEF Sound
<1>13. IssuanceAudited'
  BY <1>1, <1>2, <1>6, AuditKept DEF RequestInv, auditVars
<1>14. /\ \A q \in Processes \ {p} : pc'[q] = pc[q] /\ todo'[q] = todo[q]
       /\ \A i \in Tokens : i # cur[p] \/ pc[p] = "idle" => tok'[i] = tok[i]
       /\ \A i \in stored' : i \in stored \/ (i = cur[p] /\ pc[p] # "idle")
       /\ cur' = cur /\ next' = next /\ version' = version /\ clock' = clock
       /\ unannounced \subseteq unannounced' /\ heard \subseteq heard' /\ failed \subseteq failed'
  BY <1>1, <1>5, <1>8 DEF auditVars
<1> QED
  BY <1>1, <1>10, <1>11, <1>12, <1>13, <1>14, RequestStep

\* A step after the rows are saved, or one that gives up: tokens and rows
\* stay.
LEMMA AuditStep ==
    ASSUME RequestInv, NEW p \in Processes, pc[p] # "idle",
           NEW step \in {"idle", "saved", "announcing"}, pc' = [pc EXCEPT ![p] = step],
           NEW td \in SUBSET Receivers, todo' = [todo EXCEPT ![p] = td],
           UNCHANGED <<clock, keyVars, format, version, cur, next, tok, stored>>,
           unannounced \subseteq unannounced', heard \subseteq heard', failed \subseteq failed',
           unannounced' \subseteq Built, answered' \subseteq Built,
           heard' \subseteq Built \X Receivers \X Formats, failed' \subseteq Built \X Receivers,
           Work(p)', IssuanceAudited'
    PROVE  RequestInv'
<1>1. TypeOK /\ Built' = Built
  BY DEF RequestInv, Built
<1>2. /\ \A q \in Processes \ {p} : pc'[q] = pc[q] /\ todo'[q] = todo[q]
      /\ pc' \in [Processes -> {"idle", "validated", "built", "signed", "saved", "announcing"}]
      /\ todo' \in [Processes -> SUBSET Receivers]
  BY <1>1 DEF TypeOK
<1>3. TypeOK'
  BY <1>1, <1>2 DEF TypeOK, keyVars
<1>4. cur[p] \in Tokens => Sound(cur[p])'
  BY DEF RequestInv, Sound, ClaimsRead
<1> QED
  BY <1>2, <1>3, <1>4, RequestStep

LEMMA GiveUpRequest ==
    ASSUME RequestInv, NEW p \in Processes, Refuse(p) \/ LookupFails(p) PROVE RequestInv'
<1>1. /\ pc[p] \in {"validated", "built", "signed", "saved"} /\ pc' = [pc EXCEPT ![p] = "idle"]
      /\ UNCHANGED <<clock, keyVars, format, version, cur, todo, tokenVars, auditVars>>
  BY DEF Refuse, LookupFails, Accepted, Goto
<1>2. TypeOK /\ todo[p] = {} /\ todo' = [todo EXCEPT ![p] = {}] /\ pc'[p] = "idle" /\ todo'[p] = {}
  BY <1>1 DEF RequestInv, Work, TypeOK
<1>3. Work(p)'
  BY <1>2 DEF Work
<1>4. IssuanceAudited'
  BY <1>1 DEF RequestInv, IssuanceAudited, tokenVars, auditVars
<1>5. /\ UNCHANGED <<clock, keyVars, format, version, cur, next, tok, stored>>
      /\ unannounced' = unannounced /\ heard' = heard /\ failed' = failed /\ answered' = answered
  BY <1>1 DEF tokenVars, auditVars
<1> QED
  BY <1>1, <1>2, <1>3, <1>4, <1>5, AuditStep DEF TypeOK

LEMMA AnnounceRequest ==
    ASSUME RequestInv, NEW p \in Processes, SkipAudit(p) \/ FindToken(p) PROVE RequestInv'
<1>1. /\ pc[p] = "saved" /\ pc' = [pc EXCEPT ![p] = "announcing"]
      /\ UNCHANGED <<clock, keyVars, format, version, cur, tokenVars, heard, failed>>
  BY DEF SkipAudit, FindToken, Goto, auditVars
<1>2. TypeOK /\ Work(p) /\ todo[p] = {} /\ cur[p] \in Built /\ pc'[p] = "announcing"
      /\ cur'[p] = cur[p] /\ tok' = tok /\ next' = next
  BY <1>1, RequestTypes DEF RequestInv, Work, TypeOK, Built, tokenVars
<1>3. PICK td \in {{}, Receivers} :
         /\ todo' = [todo EXCEPT ![p] = td] /\ todo'[p] = td
         /\ \/ td = Receivers /\ unannounced' = unannounced
            \/ td = {} /\ unannounced' = unannounced \cup {cur[p]}
  BY <1>2 DEF SkipAudit, FindToken, TypeOK, auditVars
<1>4. Work(p)'
  BY <1>1, <1>2, <1>3 DEF Work
<1>5. IssuanceAudited'
  BY <1>1, <1>2, <1>3, AuditKept DEF RequestInv, tokenVars
<1>6. /\ UNCHANGED <<clock, keyVars, format, version, cur, next, tok, stored>>
      /\ answered' = answered /\ heard' = heard /\ failed' = failed
      /\ unannounced \subseteq unannounced' /\ unannounced' \subseteq Built
  BY <1>1, <1>2, <1>3 DEF tokenVars, TypeOK
<1>7. td \in SUBSET Receivers
  BY <1>3
<1> QED
  BY <1>1, <1>2, <1>3, <1>4, <1>5, <1>6, <1>7, AuditStep DEF TypeOK

LEMMA CallRequest ==
    ASSUME RequestInv, NEW p \in Processes, NEW r \in Receivers, Call(p, r) PROVE RequestInv'
<1> DEFINE c == cur[p]
           td == todo[p] \ {r}
<1>1. /\ r \in todo[p] /\ todo' = [todo EXCEPT ![p] = td]
      /\ UNCHANGED <<clock, keyVars, format, version, pc, cur, tokenVars, unannounced>>
      /\ \/ heard' = heard \cup {<<c, r, tok[c].format>>} /\ failed' = failed
         \/ failed' = failed \cup {<<c, r>>} /\ heard' = heard
  BY DEF Call, ClassifiedFormat
<1>2. TypeOK /\ Work(p) /\ pc[p] = "announcing" /\ c \in Tokens /\ c \in Built
      /\ tok[c].format \in Formats /\ IssuanceAudited
  BY <1>1, RequestTypes, TokenFields DEF RequestInv, Work, Built, Formats
<1>3. todo'[p] = td /\ pc' = [pc EXCEPT ![p] = "announcing"] /\ pc' = pc /\ cur' = cur
      /\ td \in SUBSET Receivers
  BY <1>1, <1>2 DEF TypeOK
<1>4. /\ UNCHANGED <<clock, keyVars, format, version, cur, next, tok, stored>>
      /\ answered' = answered /\ unannounced' = unannounced
      /\ heard \subseteq heard' /\ failed \subseteq failed'
      /\ heard' \subseteq Built \X Receivers \X Formats /\ failed' \subseteq Built \X Receivers
  BY <1>1, <1>2 DEF tokenVars, TypeOK
<1>5. Told(c, r)' /\ \A s \in Receivers : Told(c, s) => Told(c, s)'
  BY <1>1, <1>3, <1>4 DEF Told
<1>6. Work(p)'
  BY <1>1, <1>2, <1>3, <1>4, <1>5 DEF Work
<1>7. IssuanceAudited'
  BY <1>1, <1>2, <1>4 DEF IssuanceAudited
<1> QED
  BY <1>1, <1>2, <1>3, <1>4, <1>6, <1>7, AuditStep DEF TypeOK

LEMMA RespondRequest ==
    ASSUME RequestInv, NEW p \in Processes, Respond(p) PROVE RequestInv'
<1>1. /\ pc[p] = "announcing" /\ todo[p] = {} /\ pc' = [pc EXCEPT ![p] = "idle"]
      /\ answered' = answered \cup {cur[p]}
      /\ UNCHANGED <<clock, keyVars, format, version, cur, todo, next, tok, stored, auditVars>>
  BY DEF Respond, Goto
<1>2. TypeOK /\ Work(p) /\ cur[p] \in Built /\ IssuanceAudited
      /\ todo' = [todo EXCEPT ![p] = {}] /\ todo'[p] = {} /\ pc'[p] = "idle"
  BY <1>1, RequestTypes DEF RequestInv, Work, TypeOK, Built
<1>3. Work(p)'
  BY <1>2 DEF Work
<1>4. cur[p] \in unannounced \/ \A r \in Receivers : Told(cur[p], r)
  BY <1>1, <1>2 DEF Work
<1>5. IssuanceAudited'
  BY <1>1, <1>2, <1>4 DEF IssuanceAudited, Told, auditVars
<1>6. /\ UNCHANGED <<clock, keyVars, format, version, cur, next, tok, stored>>
      /\ unannounced' = unannounced /\ heard' = heard /\ failed' = failed
      /\ answered' \subseteq Built
  BY <1>1, <1>2 DEF auditVars, TypeOK
<1> QED
  BY <1>1, <1>2, <1>3, <1>5, <1>6, AuditStep DEF TypeOK

\* A step around the requests: time passes, versions grow, rows go.
LEMMA AroundStep ==
    ASSUME RequestInv, UNCHANGED <<requestVars, next, tok, answered, auditVars>>,
           stored' \subseteq stored, clock' \in Nat, clock <= clock',
           version' \in Nat \ {0}, version <= version', format' \in Formats,
           keys' \in KeySettings, UNCHANGED <<conf, unused>>
    PROVE  RequestInv'
<1>1. /\ pc' = pc /\ cur' = cur /\ todo' = todo /\ next' = next /\ tok' = tok /\ answered' = answered
      /\ unannounced' = unannounced /\ heard' = heard /\ failed' = failed
      /\ TypeOK /\ Built' = Built
  BY DEF requestVars, auditVars, RequestInv, Built
<1>2. TypeOK'
  BY <1>1 DEF TypeOK
<1>3. ASSUME NEW p \in Processes PROVE Work(p)'
  <2>1. Work(p) /\ (pc[p] # "idle" => cur[p] \in Tokens) /\ version \in Nat
    BY <1>1, RequestTypes DEF RequestInv, Work
  <2>2. pc[p] = "built" => GroupsRead(tok[cur[p]])'
    BY <1>1, <2>1, TokenFields DEF Work, GroupsRead
  <2> QED
    BY <1>1, <2>1, <2>2 DEF Work, ClaimsRead, Told
<1>4. Exclusive' /\ IssuanceAudited'
  BY <1>1 DEF RequestInv, Exclusive, IssuanceAudited
<1>5. ASSUME NEW i \in Tokens PROVE Sound(i)'
  <2>1. next' \in Nat /\ next <= next'
    BY <1>1 DEF TypeOK
  <2> QED
    BY <1>1, <1>5, <2>1, OthersSound DEF RequestInv
<1> QED
  BY <1>2, <1>3, <1>4, <1>5 DEF RequestInv

LEMMA AroundRequest ==
    ASSUME RequestInv,
           \/ Rotate \/ (\E k \in Keys : Drop(k)) \/ (\E i \in Tokens : DeleteRow(i))
           \/ ChangeFormat \/ ChangeMemberships \/ Tick
    PROVE  RequestInv'
<1>1. TypeOK /\ clock \in Nat /\ version \in Nat \ {0} /\ format \in Formats /\ keys \in KeySettings
      /\ clock <= clock /\ version <= version
  BY DEF RequestInv, TypeOK
<1>2. CASE Rotate
  <2>1. keys.active \in Keys /\ keys.active + 1 \in Keys
    BY <1>1, <1>2, ParametersAssumption DEF Rotate, KeySettings, Keys
  <2>2. keys' \in KeySettings
    BY <1>1, <1>2, <2>1 DEF Rotate, KeySettings
  <2> QED
    BY <1>1, <1>2, <2>2, AroundStep DEF Rotate, tokenVars
<1>3. ASSUME NEW k \in Keys, Drop(k) PROVE RequestInv'
  <2>1. keys' \in KeySettings
    BY <1>1, <1>3 DEF Drop, KeySettings
  <2> QED
    BY <1>1, <1>3, <2>1, AroundStep DEF Drop, tokenVars
<1>4. ASSUME NEW i \in Tokens, DeleteRow(i) PROVE RequestInv'
  BY <1>1, <1>4, AroundStep DEF DeleteRow, keyVars
<1>5. CASE ChangeFormat
  BY <1>1, <1>5, AroundStep DEF ChangeFormat, keyVars, tokenVars
<1>6. CASE ChangeMemberships
  BY <1>1, <1>6, AroundStep DEF ChangeMemberships, keyVars, tokenVars
<1>7. CASE Tick
  BY <1>1, <1>7, AroundStep DEF Tick, keyVars, tokenVars
<1> QED
  BY <1>2, <1>3, <1>4, <1>5, <1>6, <1>7

LEMMA RequestNext == RequestInv /\ [Next]_vars => RequestInv'
<1> SUFFICES ASSUME RequestInv, [Next]_vars PROVE RequestInv'
  OBVIOUS
<1>1. ASSUME NEW p \in Processes,
             \/ Restart(p) \/ Validate(p) \/ CreateToken(p) \/ CreateIdToken(p)
             \/ SaveToken(p) \/ Refuse(p) \/ SkipAudit(p) \/ FindToken(p)
             \/ LookupFails(p) \/ Respond(p) \/ \E r \in Receivers : Call(p, r)
      PROVE  RequestInv'
  BY <1>1, RestartRequest, ValidateRequest, CreateTokenRequest, CreateIdTokenRequest,
     SaveTokenRequest, GiveUpRequest, AnnounceRequest, CallRequest, RespondRequest
<1>2. CASE \/ Rotate \/ (\E k \in Keys : Drop(k)) \/ (\E i \in Tokens : DeleteRow(i))
           \/ ChangeFormat \/ ChangeMemberships \/ Tick
  BY <1>2, AroundRequest
<1>3. CASE UNCHANGED vars
  <2>1. /\ UNCHANGED <<requestVars, next, tok, answered, auditVars, conf, unused>>
        /\ stored' = stored /\ clock' = clock /\ version' = version /\ format' = format
        /\ keys' = keys
    BY <1>3 DEF vars, keyVars, tokenVars
  <2> QED
    BY <2>1, AroundStep DEF RequestInv, TypeOK
<1> QED
  BY <1>1, <1>2, <1>3 DEF Next

----------------------------------------------------------------------------
(* The signing keys again: a token is built with a key that is published.  *)

LEMMA CreateTokenKeys ==
    ASSUME RequestInv, KeyInv, NEW p \in Processes, CreateToken(p) PROVE KeyInv'
<1> USE TokenFields, KeyTypes
<1> DEFINE c == cur[p]
<1>1. TypeOK /\ c \in Tokens /\ UNCHANGED <<clock, keys, conf, unused>>
  BY RequestTypes DEF RequestInv, Work, CreateToken, keyVars
<1>2. tok[c] \in TokenType /\ tok \in [Tokens -> TokenType]
  BY <1>1 DEF TypeOK
<1>3. \A i \in Tokens \ {c} : tok'[i] = tok[i]
  BY <1>1, <1>2 DEF CreateToken
<1>4. \/ tok'[c].format = "opaque"
      \/ tok'[c].kid = conf[p].active /\ tok'[c].exp = clock + Ttl
  <2>1. CASE tok' = [tok EXCEPT ![c].format = "opaque"]
    BY <1>1, <1>2, <2>1 DEF TokenType
  <2>2. CASE tok' = [tok EXCEPT ![c] = [@ EXCEPT
                 !.format = "jwt", !.kid = conf[p].active, !.exp = clock + Lifetime,
                 !.profile = Profile(c), !.groups = Groups]]
    <3> DEFINE v == Profile(c)
               e == clock + Ttl
               t == [tok[c] EXCEPT !.format = "jwt", !.kid = conf[p].active, !.exp = e,
                                   !.profile = v, !.groups = version]
    <3>1. tok' = [tok EXCEPT ![c] = t]
      BY <2>2, Zenon DEF Lifetime, Groups
    <3> HIDE DEF v, e
    <3>2. t.kid = conf[p].active /\ t.exp = e
      BY <1>2 DEF TokenType
    <3> HIDE DEF t
    <3>3. tok'[c] = t
      BY <1>1, <1>2, <3>1
    <3> QED
      BY <3>2, <3>3 DEF e
  <2> QED
    BY <2>1, <2>2 DEF CreateToken
<1>5. \A q \in Processes : conf'[q].active \in Published' /\ conf'[q].active <= keys'.active
  BY <1>1 DEF KeyInv, Published
<1>6. \A q1, q2 \in Processes : conf'[q1].active <= conf'[q2].active => conf'[q1].active \in Jwks(q2)'
  BY <1>1 DEF KeyInv, Jwks
<1>7. ASSUME NEW i \in Tokens, tok'[i].format = "jwt"
      PROVE  /\ \/ \E q \in Processes : conf'[q].active = tok'[i].kid
                \/ tok'[i].exp <= unused'[tok'[i].kid] + Ttl
             /\ clock' < tok'[i].exp => tok'[i].kid \in Published'
  <2>1. CASE i = c
    BY <1>1, <1>4, <1>5, <1>7, <2>1
  <2>2. CASE i # c
    BY <1>1, <1>3, <1>7, <2>2 DEF KeyInv, Published
  <2> QED
    BY <2>1, <2>2
<1>8. ASSUME NEW i \in Tokens, NEW q \in Processes, Unexpired(i)',
             tok'[i].kid <= conf'[q].active
      PROVE  tok'[i].kid \in Jwks(q)'
  <2>1. CASE i = c
    BY <1>1, <1>4, <1>6, <1>8, <2>1 DEF Unexpired
  <2>2. CASE i # c
    BY <1>1, <1>3, <1>8, <2>2 DEF KeyInv, Verifiable, Unexpired, Jwks
  <2> QED
    BY <2>1, <2>2
<1>9. Verifiable'
  BY <1>8 DEF Verifiable
<1> QED
  BY <1>5, <1>6, <1>7, <1>9 DEF KeyInv

LEMMA KeyNext == RequestInv /\ KeyInv /\ [Next]_vars => KeyInv'
<1> SUFFICES ASSUME RequestInv, KeyInv, [Next]_vars PROVE KeyInv'
  OBVIOUS
<1>1. TypeOK /\ clock \in Nat /\ clock <= clock /\ \A i \in Tokens : tok[i].exp <= clock + Ttl
  BY DEF RequestInv, TypeOK, Sound
<1>2. ASSUME NEW p \in Processes, Restart(p) PROVE KeyInv'
  BY <1>1, <1>2, RestartKeys
<1>3. ASSUME NEW p \in Processes, CreateToken(p) PROVE KeyInv'
  BY <1>3, CreateTokenKeys
<1>4. ASSUME NEW p \in Processes, Validate(p) \/ CreateIdToken(p) \/ SaveToken(p)
      PROVE  KeyInv'
  <2>1. \A i \in Tokens : /\ tok'[i].format = tok[i].format
                          /\ tok'[i].kid = tok[i].kid /\ tok'[i].exp = tok[i].exp
    <3>1. \A i \in Tokens : tok[i] \in TokenType
      BY <1>1 DEF TypeOK
    <3>2. CASE Validate(p)
      <4>1. PICK profile \in {0, version} :
                tok' = [tok EXCEPT ![next'] = [@ EXCEPT !.from = version, !.profile = profile]]
        BY <3>2 DEF Validate
      <4> QED
        BY <1>1, <3>1, <4>1 DEF TypeOK, TokenType
    <3>3. CASE CreateIdToken(p)
      <4> DEFINE v == Profile(cur[p])
      <4>1. tok' = [tok EXCEPT ![cur[p]] = [@ EXCEPT !.profile = v, !.idGroups = version]]
        BY <3>3 DEF CreateIdToken, Groups
      <4> HIDE DEF v
      <4> QED
        BY <1>1, <3>1, <4>1 DEF TypeOK, TokenType
    <3>4. CASE SaveToken(p)
      <4>1. tok' = [tok EXCEPT ![cur[p]].rowExp = clock + Ttl]
        BY <3>4 DEF SaveToken
      <4> QED
        BY <1>1, <3>1, <4>1 DEF TypeOK, TokenType
    <3> QED
      BY <1>4, <3>2, <3>3, <3>4
  <2>2. UNCHANGED keyVars /\ clock' = clock
    BY <1>4 DEF Validate, CreateIdToken, SaveToken
  <2> QED
    BY <1>1, <2>1, <2>2, KeysAtRest
<1>5. ASSUME NEW p \in Processes,
             \/ Refuse(p) \/ SkipAudit(p) \/ FindToken(p) \/ LookupFails(p) \/ Respond(p)
             \/ \E r \in Receivers : Call(p, r)
      PROVE  KeyInv'
  <2>1. UNCHANGED keyVars /\ clock' = clock /\ tok' = tok
    BY <1>5 DEF Refuse, SkipAudit, FindToken, LookupFails, Respond, Call, tokenVars
  <2> QED
    BY <1>1, <2>1, KeysAtRest
<1>6. CASE Rotate
  BY <1>1, <1>6, RotateKeys
<1>7. ASSUME NEW k \in Keys, Drop(k) PROVE KeyInv'
  BY <1>1, <1>7, DropKeys
<1>8. CASE \/ (\E i \in Tokens : DeleteRow(i)) \/ ChangeFormat \/ ChangeMemberships \/ Tick
           \/ UNCHANGED vars
  <2>1. UNCHANGED keyVars /\ tok' = tok /\ clock' \in Nat /\ clock <= clock'
    BY <1>1, <1>8 DEF DeleteRow, ChangeFormat, ChangeMemberships, Tick, vars, tokenVars
  <2> QED
    BY <1>1, <2>1, KeysAtRest
<1> QED
  BY <1>2, <1>3, <1>4, <1>5, <1>6, <1>7, <1>8 DEF Next

----------------------------------------------------------------------------
(* The theorems.                                                           *)

\* Both invariants hold in every reachable state.
THEOREM Invariance == Spec => [](RequestInv /\ KeyInv)
<1>1. Init => RequestInv /\ KeyInv
  BY RequestInit, KeyInit
<1>2. (RequestInv /\ KeyInv) /\ [Next]_vars => (RequestInv /\ KeyInv)'
  BY RequestNext, KeyNext
<1> QED
  BY <1>1, <1>2, PTL DEF Spec

\* Only built tokens are stored, answered or announced.
THEOREM TypeCorrect == Spec => []TypeOK
<1>1. RequestInv => TypeOK
  BY DEF RequestInv
<1> QED
  BY <1>1, Invariance, PTL

\* The recipe of oidc_jwks_rotate keeps every JWT verifiable until it
\* expires, for any number of processes and rotations.
THEOREM JwtsVerifiable == Spec => []Verifiable
<1>1. KeyInv => Verifiable
  BY DEF KeyInv
<1> QED
  BY <1>1, Invariance, PTL

\* However long past Ttl the operator waits, a key is dropped only when no
\* process signs with it and every JWT it signed has expired.
THEOREM KeysDropDead == Spec => []DroppedKeysDead
<1>1. RequestInv /\ KeyInv => DroppedKeysDead
  <2> SUFFICES ASSUME RequestInv, KeyInv, NEW k \in 1..keys.active \ Published
               PROVE  /\ \A p \in Processes : conf[p].active # k
                      /\ \A i \in Tokens : tok[i].kid = k => ~Unexpired(i)
    BY DEF DroppedKeysDead
  <2>1. \A p \in Processes : conf[p].active # k
    BY DEF KeyInv
  <2>2. \A i \in Tokens : tok[i].kid = k => ~Unexpired(i)
    BY DEF KeyInv, Unexpired
  <2> QED
    BY <2>1, <2>2
<1> QED
  BY <1>1, Invariance, PTL

\* A JWT expires no later than the row the logout triggers look for.
THEOREM RowsOutliveJwts == Spec => []RowOutlivesJwt
<1>1. RequestInv => RowOutlivesJwt
  <2> SUFFICES ASSUME RequestInv, NEW i \in stored, Unexpired(i) PROVE clock < tok[i].rowExp
    BY DEF RowOutlivesJwt
  <2>1. TypeOK /\ i \in Tokens
    BY DEF RequestInv, TypeOK, Built
  <2>2. Sound(i)
    BY <2>1 DEF RequestInv
  <2> QED
    BY <2>1, <2>2, TokenFields DEF Sound, Unexpired, TypeOK
<1> QED
  BY <1>1, Invariance, PTL

\* Each receiver has heard of an answered token, or its failure was counted.
THEOREM IssuancesAudited == Spec => []IssuanceAudited
<1>1. RequestInv => IssuanceAudited
  BY DEF RequestInv
<1> QED
  BY <1>1, Invariance, PTL

\* Tokens carry claims of the request they were issued to.
THEOREM ClaimsAreCurrent == Spec => []ClaimsCurrent
<1>1. RequestInv => ClaimsCurrent
  BY DEF RequestInv, Sound, ClaimsRead, ClaimsCurrent, TypeOK, Built
<1> QED
  BY <1>1, Invariance, PTL
=============================================================================
