---------------------------- MODULE UserSessions ----------------------------
(***************************************************************************)
(* What happens to the tokens of one user when the account changes: the    *)
(* triggers of receivers.py that tell relying parties to log the user out, *)
(* the oidc_revoke_user_tokens command, and the requests that save new     *)
(* tokens or present old ones meanwhile.                                   *)
(*                                                                         *)
(* "Told" is a send of oidc_logout_required; what becomes of it is the     *)
(* subject of BackChannelLogout.  Every step is one committed transaction, *)
(* or one statement where the code runs in autocommit.                     *)
(***************************************************************************)
EXTENDS AccessPolicy, FiniteSets, Naturals

CONSTANTS
    Apps, Groups, States,
    Gates,       \* the restrictions [states, groups] an application may have
    PermGroups,  \* groups that carry the access_oidc permission
    Savers,      \* processes that save the User row
    MaxBusy      \* bound: procedures of several steps that run at once

ASSUME ParametersAssumption ==
    /\ NoApp \notin Gates
    /\ Gates \subseteq [states : SUBSET States, groups : SUBSET Groups]
    /\ PermGroups \subseteq Groups
    /\ MaxBusy \in Nat

VARIABLES
    exists, active, superuser, direct, state, groups,   \* the user row
    gate, usable,    \* restrictions of each application, those with active set
    access, refresh, \* applications with an unexpired access token, an unrevoked refresh token
    passed,          \* applications whose token request passed the policy and is not saved
    saving,          \* user.save() of each process
    moving,          \* assign_state saved the state and has not signalled it
    deleting, snapshot, skipped,   \* user.delete(): _PENDING_LOGOUTS
    command, ids, owed, late,      \* oidc_revoke_user_tokens
    told,            \* applications told since the user lost them
    gap              \* those lost in a way nobody is told of

userVars == <<exists, active, superuser, direct, state, groups>>
appVars == <<gate, usable>>
tokenVars == <<access, refresh, passed>>
deleteVars == <<deleting, snapshot, skipped>>
commandVars == <<command, ids, owed, late>>
logoutVars == <<told, gap>>
vars == <<userVars, appVars, tokenVars, saving, moving, deleteVars, commandVars, logoutVars>>

Idle == [pc |-> "idle", was |-> FALSE, will |-> FALSE, raced |-> FALSE]

TypeOK ==
    /\ exists \in BOOLEAN /\ active \in BOOLEAN /\ superuser \in BOOLEAN /\ direct \in BOOLEAN
    /\ state \in States /\ groups \subseteq Groups
    /\ gate \in [Apps -> Gates] /\ usable \subseteq Apps
    /\ access \subseteq Apps /\ refresh \subseteq Apps /\ passed \subseteq Apps
    /\ saving \in [Savers -> [pc : {"idle", "read", "written"},
                             was : BOOLEAN, will : BOOLEAN, raced : BOOLEAN]]
    /\ moving \in BOOLEAN
    /\ deleting \in {"no", "collected", "stale"}
    /\ snapshot \subseteq Apps /\ skipped \subseteq Apps
    /\ command \in {"idle", "collected", "revoked"}
    /\ ids \subseteq Apps /\ owed \subseteq Apps /\ late \subseteq Apps
    /\ told \subseteq Apps /\ gap \subseteq Apps

Init ==
    /\ exists = TRUE /\ active = TRUE /\ superuser \in BOOLEAN /\ direct = FALSE
    /\ state \in States /\ groups = Groups
    /\ gate \in [Apps -> Gates] /\ usable = Apps
    /\ access = {} /\ refresh = {} /\ passed = {}
    /\ saving = [s \in Savers |-> Idle]
    /\ moving = FALSE
    /\ deleting = "no" /\ snapshot = {} /\ skipped = {}
    /\ command = "idle" /\ ids = {} /\ owed = {} /\ late = {}
    /\ told = {} /\ gap = {}

-----------------------------------------------------------------------------
\* has_perm of Django and Alliance Auth: nothing for an inactive user.
HasPerm == active /\ (direct \/ groups \cap PermGroups # {})

User == [superuser |-> superuser, perm |-> HasPerm, state |-> state, groups |-> groups]

Allowed(a) == exists /\ IsAllowed(User, gate[a])

\* Applications that hold something of the user.
Live == access \cup refresh

\* apps_with_active_tokens.
AppsWithActiveTokens == Live \cap usable

\* validate_bearer_token, and what the inherited introspection answers.
ValidateBearer(a) == a \in access /\ a \in usable /\ Allowed(a)
IntrospectedActive(a) == a \in access

\* The signal goes to the applications of S and passes those of G by; an
\* application the user may use again is neither told nor lost.
Tell(S, G) ==
    /\ told' = {a \in told \cup S : ~Allowed(a)'}
    /\ gap' = {a \in (gap \cup G) \ told' : ~Allowed(a)'}

\* Several-step procedures under way.
Busy == Cardinality({s \in Savers : saving[s].pc # "idle"})
        + Cardinality({p \in {"moving"} : moving})
        + Cardinality({p \in {"deleting"} : deleting # "no"})
        + Cardinality({p \in {"command"} : command # "idle"})
Free == exists /\ Busy < MaxBusy

-----------------------------------------------------------------------------
\* A token request is validated, then its tokens are saved.  The decision of
\* save_bearer_token in between asks the same user object and may refuse, but
\* does not have to: the verdict that counts is that of the validation.
EnforcePolicy(a) ==
    /\ a \in usable /\ Allowed(a)
    /\ passed' = passed \cup {a}
    /\ UNCHANGED <<userVars, appVars, access, refresh, saving, moving, deleteVars,
                   commandVars, logoutVars>>

\* The tokens arrive after whatever happened meanwhile: a revocation under
\* way did not collect them, and the transaction that deletes the user cannot
\* commit over the new foreign key.
SaveTokens(a, withRefresh) ==
    /\ exists /\ a \in passed
    /\ passed' = passed \ {a}
    /\ access' = access \cup {a}
    /\ refresh' = IF withRefresh THEN refresh \cup {a} ELSE refresh
    /\ told' = told \ {a}
    /\ gap' = IF Allowed(a) THEN gap ELSE gap \cup {a}
    /\ late' = IF command = "collected" THEN late \cup {a} ELSE late
    /\ deleting' = IF deleting = "collected" THEN "stale" ELSE deleting
    /\ UNCHANGED <<userVars, appVars, saving, moving, snapshot, skipped, command, ids, owed>>

Refuse(a) ==
    /\ a \in passed
    /\ passed' = passed \ {a}
    /\ UNCHANGED <<userVars, appVars, access, refresh, saving, moving, deleteVars,
                   commandVars, logoutVars>>

\* Access tokens expire, refresh tokens are revoked or cleaned up.
Expire(a) ==
    /\ \/ a \in access /\ access' = access \ {a} /\ UNCHANGED refresh
       \/ a \in refresh /\ refresh' = refresh \ {a} /\ UNCHANGED access
    /\ UNCHANGED <<userVars, appVars, passed, saving, moving, deleteVars, commandVars,
                   logoutVars>>

-----------------------------------------------------------------------------
\* Mutant: the prior value is that of the instance, which the caller changed.
PreSaveOfInstance(s, will) ==
    /\ Free /\ saving[s].pc = "idle"
    /\ saving' = [saving EXCEPT ![s] =
                    [pc |-> "read", was |-> will, will |-> will, raced |-> FALSE]]
    /\ UNCHANGED <<userVars, appVars, tokenVars, moving, deleteVars, commandVars, logoutVars>>

\* on_user_pre_save reads is_active from the database.
PreSave(s, will) ==
    /\ Free /\ saving[s].pc = "idle"
    /\ saving' = [saving EXCEPT ![s] =
                    [pc |-> "read", was |-> active, will |-> will, raced |-> FALSE]]
    /\ UNCHANGED <<userVars, appVars, tokenVars, moving, deleteVars, commandVars, logoutVars>>

\* The UPDATE.  When another one came between, pre_save may have seen the user
\* inactive already, and the deactivation is passed by.
Save(s) ==
    /\ exists /\ saving[s].pc = "read"
    /\ active' = saving[s].will
    /\ saving' = [r \in Savers |->
                    IF r = s THEN [saving[r] EXCEPT !.pc = "written"]
                    ELSE IF saving[r].pc = "read" THEN [saving[r] EXCEPT !.raced = TRUE]
                    ELSE saving[r]]
    /\ UNCHANGED <<exists, superuser, direct, state, groups, appVars, tokenVars, moving,
                   deleteVars, commandVars>>
    /\ Tell({}, IF saving[s].raced /\ ~saving[s].was THEN Live ELSE {})

\* on_user_post_save: is_active went from True to False.
Deactivates(s) == saving[s].pc = "written" /\ saving[s].was /\ ~saving[s].will

PostSave(s) ==
    /\ saving[s].pc = "written"
    /\ saving' = [saving EXCEPT ![s] = Idle]
    /\ UNCHANGED <<userVars, appVars, tokenVars, moving, deleteVars, commandVars>>
    /\ IF Deactivates(s) THEN Tell(AppsWithActiveTokens, Live \ usable) ELSE Tell({}, {})

\* The process dies, before or after the UPDATE.
StopSave(s) ==
    /\ saving[s].pc # "idle"
    /\ saving' = [saving EXCEPT ![s] = Idle]
    /\ UNCHANGED <<userVars, appVars, tokenVars, moving, deleteVars, commandVars>>
    /\ Tell({}, IF Deactivates(s) THEN Live ELSE {})

-----------------------------------------------------------------------------
\* on_user_groups_changed runs the policy again on the instance it is given,
\* whose permissions may have been cached before the removal.
ToldByGroups(stillPerm) ==
    {a \in AppsWithActiveTokens : ~IsAllowed([User' EXCEPT !.perm = stillPerm], gate[a])}

\* user.groups.remove() and clear(): the rows and the signal are one
\* transaction.
RemoveGroups(S, cached) ==
    /\ exists /\ S \subseteq groups /\ S # {}
    /\ groups' = groups \ S
    /\ UNCHANGED <<exists, active, superuser, direct, state, appVars, tokenVars, saving,
                   moving, deleteVars, commandVars>>
    /\ Tell(ToldByGroups(IF cached THEN HasPerm ELSE HasPerm'),
            (Live \ usable) \cup (IF cached THEN Live ELSE {}))

\* user.groups.add(): post_add is not looked at.
AddGroups ==
    /\ exists /\ groups # Groups
    /\ groups' = Groups
    /\ UNCHANGED <<exists, active, superuser, direct, state, appVars, tokenVars, saving,
                   moving, deleteVars, commandVars>>
    /\ Tell({}, {})

\* assign_state saves the profile, then sends state_changed.
AssignState(to) ==
    /\ Free /\ ~moving /\ to # state
    /\ state' = to
    /\ moving' = TRUE
    /\ UNCHANGED <<exists, active, superuser, direct, groups, appVars, tokenVars, saving,
                   deleteVars, commandVars>>
    /\ Tell({}, {})

\* on_state_changed.
StateChanged ==
    /\ moving
    /\ moving' = FALSE
    /\ UNCHANGED <<userVars, appVars, tokenVars, saving, deleteVars, commandVars>>
    /\ Tell({a \in AppsWithActiveTokens : ~Allowed(a)}, Live \ usable)

StopAssign ==
    /\ moving
    /\ moving' = FALSE
    /\ UNCHANGED <<userVars, appVars, tokenVars, saving, deleteVars, commandVars>>
    /\ Tell({}, Live)

\* Changes no receiver listens to: removal from the side of the group, the
\* permission, the superuser flag, and the restrictions of the application.
RemoveFromGroup(S) ==
    /\ exists /\ S \subseteq groups /\ S # {}
    /\ groups' = groups \ S
    /\ UNCHANGED <<exists, active, superuser, direct, state, appVars, tokenVars, saving,
                   moving, deleteVars, commandVars>>
    /\ Tell({}, Live)

SetPermission ==
    /\ exists
    /\ direct' = ~direct
    /\ UNCHANGED <<exists, active, superuser, state, groups, appVars, tokenVars, saving,
                   moving, deleteVars, commandVars>>
    /\ Tell({}, IF direct THEN Live ELSE {})

Demote ==
    /\ exists /\ superuser
    /\ superuser' = FALSE
    /\ UNCHANGED <<exists, active, direct, state, groups, appVars, tokenVars, saving,
                   moving, deleteVars, commandVars>>
    /\ Tell({}, Live)

EditGate(a, g) ==
    /\ exists /\ g # gate[a]
    /\ gate' = [gate EXCEPT ![a] = g]
    /\ UNCHANGED <<userVars, usable, tokenVars, saving, moving, deleteVars, commandVars>>
    /\ Tell({}, Live \cap {a})

\* The kill-switch of an application.
ToggleUsable(a) ==
    /\ exists
    /\ usable' = IF a \in usable THEN usable \ {a} ELSE usable \cup {a}
    /\ UNCHANGED <<userVars, gate, tokenVars, saving, moving, deleteVars, commandVars,
                   logoutVars>>

-----------------------------------------------------------------------------
\* user.delete(): Django collects what cascades, then sends pre_delete.  An
\* instance whose deletion failed before still has its entry, and keeps it
\* when there is nothing to snapshot now.
PreDelete(sameInstance) ==
    /\ Free /\ deleting = "no"
    /\ deleting' = "collected"
    /\ snapshot' = IF AppsWithActiveTokens # {} THEN AppsWithActiveTokens
                   ELSE IF sameInstance THEN snapshot ELSE {}
    /\ skipped' = Live \ usable
    /\ UNCHANGED <<userVars, appVars, tokenVars, saving, moving, commandVars, logoutVars>>

\* Mutant: the applications are read when the tokens are gone.
PostDeleteReread ==
    /\ deleting = "collected"
    /\ exists' = FALSE
    /\ access' = {} /\ refresh' = {}
    /\ deleting' = "no" /\ snapshot' = {} /\ UNCHANGED skipped
    /\ UNCHANGED <<active, superuser, direct, state, groups, appVars, passed, saving, moving,
                   commandVars>>
    /\ Tell((access' \cup refresh') \cap usable, Live \ usable)

\* The rows are deleted, and post_delete tells those of the snapshot that are
\* still active.
PostDelete ==
    /\ deleting = "collected"
    /\ exists' = FALSE
    /\ access' = {} /\ refresh' = {}
    /\ deleting' = "no" /\ snapshot' = {} /\ UNCHANGED skipped
    /\ UNCHANGED <<active, superuser, direct, state, groups, appVars, passed, saving, moving,
                   commandVars>>
    /\ Tell(snapshot \cap usable, Live \ usable)

\* Rolled back; the snapshot goes with the instance.
AbortDelete ==
    /\ deleting # "no"
    /\ deleting' = "no"
    /\ skipped' = {}
    /\ UNCHANGED snapshot
    /\ UNCHANGED <<userVars, appVars, tokenVars, saving, moving, commandVars, logoutVars>>

-----------------------------------------------------------------------------
\* Mutants: rows without an application are collected too; only what a
\* trigger would tell is collected.
CollectNull(kept) ==
    /\ Free /\ command = "idle"
    /\ command' = "collected"
    /\ ids' = Live \cup kept \cup {NoApp}
    /\ owed' = {} /\ late' = {}
    /\ UNCHANGED <<userVars, appVars, tokenVars, saving, moving, deleteVars, logoutVars>>
CollectActive(kept) ==
    /\ Free /\ command = "idle"
    /\ command' = "collected"
    /\ ids' = AppsWithActiveTokens
    /\ owed' = {} /\ late' = {}
    /\ UNCHANGED <<userVars, appVars, tokenVars, saving, moving, deleteVars, logoutVars>>

\* oidc_revoke_user_tokens: the applications of all token rows, the expired
\* and revoked ones too ("kept").
Collect(kept) ==
    /\ Free /\ command = "idle"
    /\ command' = "collected"
    /\ ids' = Live \cup kept
    /\ owed' = {} /\ late' = {}
    /\ UNCHANGED <<userVars, appVars, tokenVars, saving, moving, deleteVars, logoutVars>>

\* One transaction revokes what is there by then.
RevokeAll ==
    /\ exists /\ command = "collected"
    /\ command' = "revoked"
    /\ owed' = Live
    /\ access' = {} /\ refresh' = {}
    /\ UNCHANGED <<userVars, appVars, passed, saving, moving, deleteVars, ids, late,
                   logoutVars>>

\* Every collected application is told; one that is not usable is skipped by
\* the dispatcher.
SendRevoked ==
    /\ command = "revoked"
    /\ command' = "idle" /\ ids' = {} /\ owed' = {} /\ late' = {}
    /\ UNCHANGED <<userVars, appVars, tokenVars, saving, moving, deleteVars>>
    /\ Tell(ids \cap usable, {})

\* The command is stopped: what it revoked is told to nobody.
StopCommand ==
    /\ command # "idle"
    /\ command' = "idle" /\ ids' = {} /\ owed' = {} /\ late' = {}
    /\ UNCHANGED <<userVars, appVars, tokenVars, saving, moving, deleteVars, logoutVars>>

-----------------------------------------------------------------------------
TokenStep(a) ==
    \/ EnforcePolicy(a) \/ Refuse(a) \/ Expire(a)
    \/ \E withRefresh \in BOOLEAN : SaveTokens(a, withRefresh)

SaveStep(s) == Save(s) \/ PostSave(s) \/ StopSave(s)

GroupStep ==
    \/ \E S \in SUBSET Groups : RemoveFromGroup(S)
    \/ \E S \in SUBSET Groups, cached \in BOOLEAN : RemoveGroups(S, cached)
    \/ AddGroups

AccountStep ==
    \/ \E to \in States : AssignState(to)
    \/ StateChanged \/ StopAssign
    \/ SetPermission \/ Demote
    \/ \E sameInstance \in BOOLEAN : PreDelete(sameInstance)
    \/ PostDelete \/ AbortDelete

OperatorStep ==
    \/ \E a \in Apps : ToggleUsable(a)
    \/ \E a \in Apps, g \in Gates : EditGate(a, g)
    \/ \E kept \in SUBSET Apps : Collect(kept)
    \/ RevokeAll \/ SendRevoked \/ StopCommand

Next ==
    \/ \E a \in Apps : TokenStep(a)
    \/ \E s \in Savers : SaveStep(s)
    \/ \E s \in Savers, will \in BOOLEAN : PreSave(s, will)
    \/ GroupStep
    \/ AccountStep
    \/ OperatorStep

Spec == Init /\ [][Next]_vars

-----------------------------------------------------------------------------
\* A loss whose trigger has yet to fire.
Pending == moving \/ \E s \in Savers : Deactivates(s)

\* Once the triggers under way have fired, an application that still holds
\* tokens of a user it may no longer serve has been told, through any overlap
\* of saves, removals, state changes and token requests; the exceptions are
\* the ones named by an action: a process that died, two overlapping saves,
\* cached permissions, tokens saved after the policy was asked, changes no
\* receiver listens to, and applications that were switched off.
LossTold == exists /\ ~Pending => \A a \in Live : Allowed(a) \/ a \in told \cup gap

\* A deployment where none of this happens: processes run to their end and
\* saves of a user do not overlap across a reactivation, permissions are read
\* fresh, tokens are saved only while the policy still agrees, applications
\* stay switched on, and access is taken away by the account page, by
\* user.groups or by assign_state, or before there are tokens.
QuietNext ==
    \/ \E a \in Apps :
        \/ EnforcePolicy(a) \/ Refuse(a) \/ Expire(a)
        \/ Allowed(a) /\ \E withRefresh \in BOOLEAN : SaveTokens(a, withRefresh)
        \/ a \notin Live /\ \E g \in Gates : EditGate(a, g)
    \/ \E s \in Savers :
        \/ \E will \in BOOLEAN : PreSave(s, will)
        \/ (saving[s].raced => saving[s].was) /\ Save(s)
        \/ PostSave(s)
        \/ ~Deactivates(s) /\ StopSave(s)
    \/ \E S \in SUBSET Groups : RemoveGroups(S, FALSE)
    \/ AddGroups
    \/ \E to \in States : AssignState(to)
    \/ StateChanged
    \/ ~direct /\ SetPermission
    \/ Live = {} /\ (SetPermission \/ Demote \/ StopAssign)
    \/ \E sameInstance \in BOOLEAN : PreDelete(sameInstance)
    \/ PostDelete \/ AbortDelete
    \/ \E kept \in SUBSET Apps : Collect(kept)
    \/ RevokeAll \/ SendRevoked \/ StopCommand

QuietSpec == Init /\ [][QuietNext]_vars

\* There the promise has no exception: whoever holds tokens of a user it may
\* no longer serve was told.
LossToldAlways == exists /\ ~Pending => \A a \in Live : Allowed(a) \/ a \in told

\* The deletion of a user tells every application that held a token of it,
\* although the tokens are gone when post_delete runs; only those switched off
\* at either end are left out.
DeletionTold ==
    [][exists /\ ~exists' => Live \cap usable \subseteq told' \cup skipped]_vars

\* The command tells every application whose tokens it revoked, those saved
\* while it ran included.  The exception is an application without any row
\* when the command collected them.
RevokedTold == command = "revoked" => owed \subseteq ids \cup late

-----------------------------------------------------------------------------
(* What the documentation says, and the code does not do.                   *)

\* "Overridden in this app - adds per-app gating plus the
\* oidc_token_introspected audit signal" (README, introspection): a token is
\* introspected active only while its bearer would be served.  Refuted: the
\* inherited answer asks no policy and does not look at the application.
IntrospectionGated == \A a \in Apps : IntrospectedActive(a) => ValidateBearer(a)
=============================================================================
