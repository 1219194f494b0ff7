---------------------------- MODULE TokenIssuance ----------------------------
(***************************************************************************)
(* Token requests in several web processes: the access token is built, as  *)
(* a JWT signed with the key the process was started with or as an opaque  *)
(* string, then the id_token, then the row is saved, and before the        *)
(* response leaves the issuance is announced to the audit receivers.       *)
(* Meanwhile the operator rotates the signing key by the recipe that       *)
(* oidc_jwks_rotate prints, the format of the application and the          *)
(* memberships of the user change, rows are deleted, processes restart.    *)
(***************************************************************************)
EXTENDS Naturals, FiniteSets

CONSTANTS
    Processes, Receivers,
    Ttl,         \* ACCESS_TOKEN_EXPIRE_SECONDS
    Wait,        \* how long step 4 of the recipe waits: twice that, it says
    MaxTokens,   \* bounds: token requests, signing keys, versions of the
    MaxKeys,     \* user's memberships, time
    MaxVersion,
    MaxClock

ASSUME ParametersAssumption ==
    /\ Ttl \in Nat \ {0} /\ Wait \in Nat /\ Wait >= Ttl
    /\ MaxTokens \in Nat /\ MaxKeys \in Nat \ {0} /\ MaxVersion \in Nat \ {0} /\ MaxClock \in Nat

VARIABLES
    clock, keys,     \* OIDC_RSA_PRIVATE_KEY and its inactive list, as written
    conf,            \* as each process has read them
    unused,          \* since when no process signs with a key
    format,          \* access-token format the application resolves to
    version,         \* of the memberships of the user: groups, state, character
    pc, cur, todo,   \* the request of each process, receivers to be called
    next, tok,       \* tokens requested so far, and what was built
    stored,          \* AccessToken rows
    answered,        \* tokens the client got
    unannounced,     \* those whose response was too large or whose row was gone
    heard, failed    \* what each receiver was told; failures that were counted

keyVars == <<keys, conf, unused>>
requestVars == <<pc, cur, todo>>
tokenVars == <<next, tok, stored, answered>>
auditVars == <<unannounced, heard, failed>>
vars == <<clock, keyVars, format, version, requestVars, tokenVars, auditVars>>

Formats == {"jwt", "opaque"}
Tokens == 1..MaxTokens
Keys == 1..MaxKeys
KeySettings == [active : Keys, inactive : SUBSET Keys]

\* from: the version when the request was accepted; groups, idGroups: of the
\* groups in the JWT and the id_token; profile: of the state and character in
\* both.  0: not read.
TokenType == [format : Formats \cup {"none"}, kid : Keys, exp : Nat, rowExp : Nat,
              from : Nat, profile : Nat, groups : Nat, idGroups : Nat]

Built == {i \in Tokens : tok[i].format # "none"}

\* Types; only built tokens are stored, answered or announced.
TypeOK ==
    /\ clock \in Nat /\ version \in Nat \ {0} /\ format \in Formats
    /\ keys \in KeySettings /\ conf \in [Processes -> KeySettings]
    /\ unused \in [Keys -> Nat]
    /\ pc \in [Processes -> {"idle", "validated", "built", "signed", "saved", "announcing"}]
    /\ cur \in [Processes -> Tokens \cup {0}]
    /\ todo \in [Processes -> SUBSET Receivers]
    /\ next \in 0..MaxTokens
    /\ tok \in [Tokens -> TokenType]
    /\ stored \subseteq Built /\ answered \subseteq Built /\ unannounced \subseteq Built
    /\ heard \subseteq Built \X Receivers \X Formats
    /\ failed \subseteq Built \X Receivers

Init ==
    /\ clock = 0 /\ version = 1 /\ format \in Formats
    /\ keys = [active |-> 1, inactive |-> {}]
    /\ conf = [p \in Processes |-> keys]
    /\ unused = [k \in Keys |-> 0]
    /\ pc = [p \in Processes |-> "idle"]
    /\ cur = [p \in Processes |-> 0]
    /\ todo = [p \in Processes |-> {}]
    /\ next = 0
    /\ tok = [i \in Tokens |-> [format |-> "none", kid |-> 1, exp |-> 0, rowExp |-> 0,
                                from |-> 0, profile |-> 0, groups |-> 0, idGroups |-> 0]]
    /\ stored = {} /\ answered = {}
    /\ unannounced = {} /\ heard = {} /\ failed = {}

----------------------------------------------------------------------------
(* Signing keys.                                                           *)

\* JwksInfoView publishes the active key and the inactive ones.
Jwks(p) == {conf[p].active} \cup conf[p].inactive

\* Steps 1 and 2 of the recipe, when all processes have the last settings.
Rotate ==
    /\ keys.active < MaxKeys
    /\ \A p \in Processes : conf[p] = keys
    /\ keys' = [active |-> keys.active + 1,
                inactive |-> keys.inactive \cup {keys.active}]
    /\ UNCHANGED <<clock, conf, unused, format, version, requestVars, tokenVars, auditVars>>

\* Step 3, or any other restart: the request at work is lost.
Restart(p) ==
    /\ conf' = [conf EXCEPT ![p] = keys]
    /\ unused' = IF conf[p].active = keys.active THEN unused
                 ELSE [unused EXCEPT ![conf[p].active] = clock]
    /\ pc' = [pc EXCEPT ![p] = "idle"]
    /\ todo' = [todo EXCEPT ![p] = {}]
    /\ UNCHANGED <<clock, keys, format, version, cur, tokenVars, auditVars>>

\* The keys the settings name.
Published == {keys.active} \cup keys.inactive

\* Step 4, counted from the restart of the last process.  Mutant: counted
\* from anything else, with a process that still signs.
DropUnasked(k) ==
    /\ k \in keys.inactive
    /\ clock >= unused[k] + Wait
    /\ keys' = [keys EXCEPT !.inactive = @ \ {k}]
    /\ UNCHANGED <<clock, conf, unused, format, version, requestVars, tokenVars, auditVars>>
Drop(k) ==
    /\ k \in keys.inactive
    /\ \A p \in Processes : conf[p].active # k
    /\ clock >= unused[k] + Wait
    /\ keys' = [keys EXCEPT !.inactive = @ \ {k}]
    /\ UNCHANGED <<clock, conf, unused, format, version, requestVars, tokenVars, auditVars>>

----------------------------------------------------------------------------
(* A token request.                                                        *)

Goto(p, step) == pc' = [pc EXCEPT ![p] = step]

\* user.profile.state and main_character are cached on the user object, which
\* lives as long as the request; groups.all() asks the database.
\* Mutant: groups kept from an earlier request.
Profile(i) == IF tok[i].profile = 0 THEN version ELSE tok[i].profile
GroupsKept == 1
Groups == version

\* The grant is valid and the policy agrees; it has read the profile if the
\* application names states.
Validate(p) ==
    /\ pc[p] = "idle" /\ next < MaxTokens
    /\ next' = next + 1
    /\ cur' = [cur EXCEPT ![p] = next']
    /\ \E profile \in {0, version} :
           tok' = [tok EXCEPT ![next'] = [@ EXCEPT !.from = version, !.profile = profile]]
    /\ Goto(p, "validated")
    /\ UNCHANGED <<clock, keyVars, format, version, todo, stored, answered, auditVars>>

\* Mutant: a JWT that lives longer than its key is published.
LongLifetime == 4 * Ttl
Lifetime == Ttl

\* dispatching_access_token_generator, _build_jwt: format, header, framing
\* and identity claims.  An application that cannot be read gives an opaque
\* token.
CreateToken(p) ==
    /\ pc[p] = "validated"
    /\ \/ tok' = [tok EXCEPT ![cur[p]].format = "opaque"]
       \/ /\ format = "jwt"
          /\ tok' = [tok EXCEPT ![cur[p]] = [@ EXCEPT
                 !.format = "jwt", !.kid = conf[p].active, !.exp = clock + Lifetime,
                 !.profile = Profile(cur[p]), !.groups = Groups]]
    /\ Goto(p, "built")
    /\ UNCHANGED <<clock, keyVars, format, version, cur, todo, next, stored, answered, auditVars>>

\* The id_token builds the claims again.
CreateIdToken(p) ==
    /\ pc[p] = "built"
    /\ tok' = [tok EXCEPT ![cur[p]] = [@ EXCEPT
           !.profile = Profile(cur[p]), !.idGroups = Groups]]
    /\ Goto(p, "signed")
    /\ UNCHANGED <<clock, keyVars, format, version, cur, todo, next, stored, answered, auditVars>>

\* Mutant: the row is saved while the tokens are being built.
Accepted(p) == pc[p] \in {"validated", "built", "signed"}
Signed(p) == pc[p] = "signed"

SaveToken(p) ==
    /\ Signed(p)
    /\ tok' = [tok EXCEPT ![cur[p]].rowExp = clock + Ttl]
    /\ stored' = stored \cup {cur[p]}
    /\ Goto(p, "saved")
    /\ UNCHANGED <<clock, keyVars, format, version, cur, todo, next, answered, auditVars>>

\* save_bearer_token denies, or anything up to here raises.
Refuse(p) ==
    /\ Accepted(p)
    /\ Goto(p, "idle")
    /\ UNCHANGED <<clock, keyVars, format, version, cur, todo, tokenVars, auditVars>>

----------------------------------------------------------------------------
(* TokenAudit.emit and the response.                                       *)

\* parse_body refuses a large body, _find_token misses the row.
SkipAudit(p) ==
    /\ pc[p] = "saved"
    /\ unannounced' = unannounced \cup {cur[p]}
    /\ Goto(p, "announcing")
    /\ UNCHANGED <<clock, keyVars, format, version, cur, todo, tokenVars, heard, failed>>

FindToken(p) ==
    /\ pc[p] = "saved" /\ cur[p] \in stored
    /\ todo' = [todo EXCEPT ![p] = Receivers]
    /\ Goto(p, "announcing")
    /\ UNCHANGED <<clock, keyVars, format, version, cur, tokenVars, auditVars>>

\* Only DoesNotExist is caught: any other database error ends the request,
\* with the tokens saved.
LookupFails(p) ==
    /\ pc[p] = "saved"
    /\ Goto(p, "idle")
    /\ UNCHANGED <<clock, keyVars, format, version, cur, todo, tokenVars, auditVars>>

\* classify_token_format reads the header of the stored token.  Mutant: the
\* format of the application is resolved again.
ResolvedFormat(i) == format
ClassifiedFormat(i) == tok[i].format

\* send_robust: a receiver is called, and returns or raises.  Mutant: send.
CallOrGiveUp(p, r) ==
    /\ r \in todo[p]
    /\ \/ /\ heard' = heard \cup {<<cur[p], r, ClassifiedFormat(cur[p])>>}
          /\ todo' = [todo EXCEPT ![p] = @ \ {r}]
          /\ UNCHANGED failed
       \/ /\ failed' = failed \cup {<<cur[p], r>>}
          /\ todo' = [todo EXCEPT ![p] = {}]
          /\ UNCHANGED heard
    /\ UNCHANGED <<clock, keyVars, format, version, pc, cur, tokenVars, unannounced>>
Call(p, r) ==
    /\ r \in todo[p]
    /\ todo' = [todo EXCEPT ![p] = @ \ {r}]
    /\ \/ /\ heard' = heard \cup {<<cur[p], r, ClassifiedFormat(cur[p])>>}
          /\ UNCHANGED failed
       \/ /\ failed' = failed \cup {<<cur[p], r>>}
          /\ UNCHANGED heard
    /\ UNCHANGED <<clock, keyVars, format, version, pc, cur, tokenVars, unannounced>>

Respond(p) ==
    /\ pc[p] = "announcing" /\ todo[p] = {}
    /\ answered' = answered \cup {cur[p]}
    /\ Goto(p, "idle")
    /\ UNCHANGED <<clock, keyVars, format, version, cur, todo, next, tok, stored, auditVars>>

----------------------------------------------------------------------------
(* Around the requests.                                                    *)

\* Revocation deletes an AccessToken row, cleanup does when it has expired.
DeleteRow(i) ==
    /\ i \in stored
    /\ stored' = stored \ {i}
    /\ UNCHANGED <<clock, keyVars, format, version, requestVars, next, tok, answered, auditVars>>

ChangeFormat ==
    /\ format' \in Formats \ {format}
    /\ UNCHANGED <<clock, keyVars, version, requestVars, tokenVars, auditVars>>

ChangeMemberships ==
    /\ version < MaxVersion
    /\ version' = version + 1
    /\ UNCHANGED <<clock, keyVars, format, requestVars, tokenVars, auditVars>>

Tick ==
    /\ clock < MaxClock
    /\ clock' = clock + 1
    /\ UNCHANGED <<keyVars, format, version, requestVars, tokenVars, auditVars>>

Next ==
    \/ \E p \in Processes :
        \/ Restart(p)
        \/ Validate(p) \/ CreateToken(p) \/ CreateIdToken(p) \/ SaveToken(p) \/ Refuse(p)
        \/ SkipAudit(p) \/ FindToken(p) \/ LookupFails(p) \/ Respond(p)
        \/ \E r \in Receivers : Call(p, r)
    \/ Rotate \/ \E k \in Keys : Drop(k)
    \/ \E i \in Tokens : DeleteRow(i)
    \/ ChangeFormat \/ ChangeMemberships \/ Tick

Spec == Init /\ [][Next]_vars

----------------------------------------------------------------------------
(* Properties.                                                             *)

Unexpired(i) == tok[i].format = "jwt" /\ clock < tok[i].exp

\* While keys are rotated by the recipe, every process that has read a key
\* publishes it until the last JWT signed with it has expired, though
\* processes restart one by one and a second rotation may follow.
Verifiable ==
    \A i \in Tokens, p \in Processes :
        Unexpired(i) /\ tok[i].kid <= conf[p].active => tok[i].kid \in Jwks(p)

\* A key that was dropped from the settings is done with: nobody signs with
\* it, no JWT signed with it is still good.  It may be given away, and a
\* process started from now on misses nothing.
DroppedKeysDead ==
    \A k \in 1..keys.active \ Published :
        /\ \A p \in Processes : conf[p].active # k
        /\ \A i \in Tokens : tok[i].kid = k => ~Unexpired(i)

\* A JWT does not outlive its row: the triggers that look for unexpired rows
\* find every client that holds one, unless the row was revoked.
RowOutlivesJwt ==
    \A i \in stored : Unexpired(i) => clock < tok[i].rowExp

\* No client has a token before each receiver has been told of it, with the
\* format it was issued in, or has failed and been counted; exceptions are
\* the responses the audit skips.
IssuanceAudited ==
    /\ \A i \in answered \ unannounced, r \in Receivers :
           \/ <<i, r, tok[i].format>> \in heard
           \/ <<i, r>> \in failed
    /\ \A h \in heard : h[3] = tok[h[1]].format

\* No claim is older than the request, and a change made before the JWT was
\* built is in the groups of both tokens, though each is read on its own and
\* the profile may be older than either.
ClaimsCurrent ==
    \A i \in stored :
        LET t == tok[i]
        IN /\ t.from <= t.profile /\ t.profile <= t.idGroups
           /\ t.format = "jwt" => t.profile <= t.groups /\ t.groups <= t.idGroups

=============================================================================
