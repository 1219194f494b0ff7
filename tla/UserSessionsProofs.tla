------------------------ MODULE UserSessionsProofs ------------------------
(***************************************************************************)
(* Theorems about UserSessions for any applications, groups, states,       *)
(* restrictions and processes, and any number of procedures at once.       *)
(* LossTold is inductive with TypeOK and ReadsCurrent; the command and the *)
(* deletion each need one more fact about what they have collected.        *)
(***************************************************************************)
EXTENDS UserSessions, TLAPS

\* A save that nothing came between knows what is in the database.
ReadsCurrent ==
    \A s \in Savers : saving[s].pc = "read" /\ ~saving[s].raced => saving[s].was = active

\* Until the command revokes, what it would revoke is collected or late.
CollectedOrLate == command = "collected" => Live \subseteq ids \cup late

\* Until the deletion commits, the tokens it will remove are in its snapshot.
SnapshotWhole == deleting = "collected" => Live \subseteq snapshot \cup skipped

IInv == TypeOK /\ ReadsCurrent /\ LossTold /\ CollectedOrLate /\ RevokedTold /\ SnapshotWhole

-----------------------------------------------------------------------------
\* Adding groups never takes access away: on_user_groups_changed is right to
\* ignore post_add.
THEOREM GroupsGrant ==
    ASSUME NEW su, NEW perm, NEW st, NEW few, NEW many, NEW app,
           few \subseteq many,
           IsAllowed([superuser |-> su, perm |-> perm, state |-> st, groups |-> few], app)
    PROVE  IsAllowed([superuser |-> su, perm |-> perm, state |-> st, groups |-> many], app)
<1> DEFINE u == [superuser |-> su, perm |-> perm, state |-> st, groups |-> few]
           v == [superuser |-> su, perm |-> perm, state |-> st, groups |-> many]
<1>1. CheckGlobal(u) /\ (app = NoApp \/ CheckApp(u, app))
  BY DEF IsAllowed, Decide
<1>2. CheckGlobal(v)
  BY <1>1 DEF CheckGlobal, Superuser
<1>3. app = NoApp \/ CheckApp(v, app)
  BY <1>1 DEF CheckApp, Superuser
<1> QED  BY <1>2, <1>3 DEF IsAllowed, Decide

\* A step that takes nothing from the user takes no access away.
LEMMA NothingTaken ==
    ASSUME NEW a, Allowed(a),
           exists' = exists, superuser' = superuser, HasPerm => HasPerm',
           state' = state, groups \subseteq groups', gate'[a] = gate[a]
    PROVE  Allowed(a)'
<1>1. exists /\ CheckGlobal(User) /\ (gate[a] = NoApp \/ CheckApp(User, gate[a]))
  BY DEF Allowed, IsAllowed, Decide
<1>2. CheckGlobal(User')
  BY <1>1 DEF CheckGlobal, Superuser, User
<1>3. gate[a] = NoApp \/ CheckApp(User', gate[a])
  BY <1>1 DEF CheckApp, Superuser, User
<1> QED  BY <1>1, <1>2, <1>3 DEF Allowed, IsAllowed, Decide

\* What Tell is given, and what was told or lost before, is told or lost
\* unless it is allowed again.
LEMMA TellKeeps ==
    ASSUME NEW S, NEW G, Tell(S, G), NEW a, a \in told \cup gap \cup S \cup G
    PROVE  Allowed(a)' \/ a \in told' \cup gap'
BY DEF Tell

LEMMA TellTypes ==
    ASSUME TypeOK, NEW S, NEW G, Tell(S, G), S \subseteq Apps, G \subseteq Apps
    PROVE  told' \subseteq Apps /\ gap' \subseteq Apps
BY DEF Tell, TypeOK

LEMMA LiveTyped == TypeOK => Live \subseteq Apps /\ AppsWithActiveTokens \subseteq Apps
BY DEF TypeOK, Live, AppsWithActiveTokens

-----------------------------------------------------------------------------
LEMMA InitInv == Init => IInv
<1> SUFFICES ASSUME Init PROVE IInv
  OBVIOUS
<1> USE DEF Init
<1>1. TypeOK
  BY ParametersAssumption DEF TypeOK, Idle
<1>2. ReadsCurrent /\ LossTold /\ CollectedOrLate /\ RevokedTold /\ SnapshotWhole
  BY DEF ReadsCurrent, LossTold, Live, CollectedOrLate, RevokedTold, SnapshotWhole, Idle
<1> QED  BY <1>1, <1>2 DEF IInv

LEMMA TypeStep == TypeOK /\ [Next]_vars => TypeOK'
<1> SUFFICES ASSUME TypeOK, [Next]_vars PROVE TypeOK'
  OBVIOUS
<1> USE DEF TypeOK, userVars, appVars, tokenVars, deleteVars, commandVars, logoutVars
<1> DEFINE SaveType == [pc : {"idle", "read", "written"}, was : BOOLEAN, will : BOOLEAN,
                        raced : BOOLEAN]
<1>0. TypeOK /\ Live \subseteq Apps /\ AppsWithActiveTokens \subseteq Apps
  BY LiveTyped
<1>1. ASSUME NEW a \in Apps, TokenStep(a) PROVE TypeOK'
  <2>1. CASE EnforcePolicy(a) \/ Refuse(a)
    BY <2>1 DEF EnforcePolicy, Refuse
  <2>2. CASE Expire(a)
    BY <2>2 DEF Expire
  <2>3. ASSUME NEW w \in BOOLEAN, SaveTokens(a, w) PROVE TypeOK'
    BY <2>3 DEF SaveTokens
  <2> QED  BY <1>1, <2>1, <2>2, <2>3 DEF TokenStep
<1>2. ASSUME NEW s \in Savers, SaveStep(s) PROVE TypeOK'
  <2>1. Idle \in SaveType
    BY DEF Idle
  <2>2. CASE Save(s)
    <3>1. saving' \in [Savers -> SaveType]
      <4>1. \A r \in Savers : saving[r] \in SaveType
        OBVIOUS
      <4>2. \A r \in Savers : [saving[r] EXCEPT !.pc = "written"] \in SaveType
        BY <4>1
      <4>3. \A r \in Savers : [saving[r] EXCEPT !.raced = TRUE] \in SaveType
        BY <4>1
      <4> QED  BY <2>2, <4>1, <4>2, <4>3 DEF Save
    <3>2. told' \subseteq Apps /\ gap' \subseteq Apps
      <4> DEFINE G == IF saving[s].raced /\ ~saving[s].was THEN Live ELSE {}
      <4>1. G \subseteq Apps
        BY <1>0
      <4>2. Tell({}, G)
        BY <2>2 DEF Save
      <4> HIDE DEF G
      <4> QED  BY <1>0, <4>1, <4>2, TellTypes
    <3>3. active' \in BOOLEAN
      BY <2>2 DEF Save
    <3> QED  BY <2>2, <3>1, <3>2, <3>3 DEF Save
  <2>3. CASE PostSave(s)
    <3>1. told' \subseteq Apps /\ gap' \subseteq Apps
      <4>1. Live \ usable \subseteq Apps /\ {} \subseteq Apps
        BY <1>0
      <4>2. CASE Deactivates(s)
        <5>1. Tell(AppsWithActiveTokens, Live \ usable)
          BY <2>3, <4>2 DEF PostSave
        <5> QED  BY <1>0, <4>1, <5>1, TellTypes
      <4>3. CASE ~Deactivates(s)
        <5>1. Tell({}, {})
          BY <2>3, <4>3 DEF PostSave
        <5> QED  BY <1>0, <4>1, <5>1, TellTypes
      <4> QED  BY <4>2, <4>3
    <3> QED  BY <2>1, <2>3, <3>1 DEF PostSave
  <2>4. CASE StopSave(s)
    <3>1. told' \subseteq Apps /\ gap' \subseteq Apps
      <4>1. {} \subseteq Apps
        OBVIOUS
      <4> QED  BY <1>0, <2>4, <4>1, TellTypes DEF StopSave
    <3> QED  BY <2>1, <2>4, <3>1 DEF StopSave
  <2> QED  BY <1>2, <2>2, <2>3, <2>4 DEF SaveStep
<1>3. ASSUME NEW s \in Savers, NEW will \in BOOLEAN, PreSave(s, will) PROVE TypeOK'
  BY <1>3 DEF PreSave
<1>4. ASSUME GroupStep PROVE TypeOK'
  <2>1. ASSUME NEW S \in SUBSET Groups, RemoveFromGroup(S) PROVE TypeOK'
    BY <1>0, <2>1, TellTypes DEF RemoveFromGroup
  <2>2. ASSUME NEW S \in SUBSET Groups, NEW cached \in BOOLEAN, RemoveGroups(S, cached)
        PROVE TypeOK'
    <3>1. \A p : ToldByGroups(p) \subseteq Apps
      BY <1>0 DEF ToldByGroups
    <3>2. (Live \ usable) \cup (IF cached THEN Live ELSE {}) \subseteq Apps
      BY <1>0
    <3>3. told' \subseteq Apps /\ gap' \subseteq Apps
      BY <1>0, <2>2, <3>1, <3>2, TellTypes, Zenon DEF RemoveGroups
    <3> QED  BY <2>2, <3>3 DEF RemoveGroups
  <2>3. CASE AddGroups
    BY <1>0, <2>3, TellTypes DEF AddGroups
  <2> QED  BY <1>4, <2>1, <2>2, <2>3 DEF GroupStep
<1>5. ASSUME AccountStep PROVE TypeOK'
  <2>1. ASSUME NEW to \in States, AssignState(to) PROVE TypeOK'
    BY <1>0, <2>1, TellTypes DEF AssignState
  <2>2. CASE StateChanged
    <3>1. {a \in AppsWithActiveTokens : ~Allowed(a)} \subseteq Apps /\ Live \ usable \subseteq Apps
      BY <1>0
    <3>2. told' \subseteq Apps /\ gap' \subseteq Apps
      BY <1>0, <2>2, <3>1, TellTypes, Zenon DEF StateChanged
    <3> QED  BY <2>2, <3>2 DEF StateChanged
  <2>3. CASE StopAssign
    <3>1. told' \subseteq Apps /\ gap' \subseteq Apps
      BY <1>0, <2>3, TellTypes DEF StopAssign
    <3> QED  BY <2>3, <3>1 DEF StopAssign
  <2>4. CASE SetPermission
    <3>1. told' \subseteq Apps /\ gap' \subseteq Apps
      <4>1. CASE direct
        BY <1>0, <2>4, <4>1, TellTypes DEF SetPermission
      <4>2. CASE ~direct
        BY <1>0, <2>4, <4>2, TellTypes DEF SetPermission
      <4> QED  BY <4>1, <4>2
    <3>2. direct' \in BOOLEAN
      BY <2>4, Zenon DEF SetPermission
    <3> QED  BY <2>4, <3>1, <3>2 DEF SetPermission
  <2>5. CASE Demote
    <3>1. told' \subseteq Apps /\ gap' \subseteq Apps
      BY <1>0, <2>5, TellTypes DEF Demote
    <3> QED  BY <2>5, <3>1 DEF Demote
  <2>6. ASSUME NEW same \in BOOLEAN, PreDelete(same) PROVE TypeOK'
    BY <1>0, <2>6 DEF PreDelete
  <2>7. CASE PostDelete
    <3>1. snapshot \cap usable \subseteq Apps /\ Live \ usable \subseteq Apps
      BY <1>0
    <3>2. told' \subseteq Apps /\ gap' \subseteq Apps
      BY <1>0, <2>7, <3>1, TellTypes, Zenon DEF PostDelete
    <3> QED  BY <2>7, <3>2 DEF PostDelete
  <2>8. CASE AbortDelete
    BY <2>8 DEF AbortDelete
  <2> QED  BY <1>5, <2>1, <2>2, <2>3, <2>4, <2>5, <2>6, <2>7, <2>8 DEF AccountStep
<1>6. ASSUME OperatorStep PROVE TypeOK'
  <2>1. ASSUME NEW a \in Apps, ToggleUsable(a) PROVE TypeOK'
    BY <2>1 DEF ToggleUsable
  <2>2. ASSUME NEW a \in Apps, NEW g \in Gates, EditGate(a, g) PROVE TypeOK'
    <3>1. told' \subseteq Apps /\ gap' \subseteq Apps
      BY <1>0, <2>2, TellTypes DEF EditGate
    <3> QED  BY <2>2, <3>1 DEF EditGate
  <2>3. ASSUME NEW kept \in SUBSET Apps, Collect(kept) PROVE TypeOK'
    BY <1>0, <2>3 DEF Collect
  <2>4. CASE RevokeAll
    BY <1>0, <2>4 DEF RevokeAll
  <2>5. CASE SendRevoked
    <3>1. told' \subseteq Apps /\ gap' \subseteq Apps
      BY <1>0, <2>5, TellTypes DEF SendRevoked
    <3> QED  BY <2>5, <3>1 DEF SendRevoked
  <2>6. CASE StopCommand
    BY <2>6 DEF StopCommand
  <2> QED  BY <1>6, <2>1, <2>2, <2>3, <2>4, <2>5, <2>6 DEF OperatorStep
<1>7. CASE UNCHANGED vars
  BY <1>7 DEF vars
<1> QED  BY <1>1, <1>2, <1>3, <1>4, <1>5, <1>6, <1>7 DEF Next

-----------------------------------------------------------------------------
LEMMA ReadsStep == TypeOK /\ ReadsCurrent /\ [Next]_vars => ReadsCurrent'
<1> SUFFICES ASSUME TypeOK, ReadsCurrent, [Next]_vars PROVE ReadsCurrent'
  OBVIOUS
<1> USE DEF ReadsCurrent
<1>1. CASE UNCHANGED <<active, saving>>
  BY <1>1
<1>2. ASSUME NEW s \in Savers, PreSave(s, TRUE) \/ PreSave(s, FALSE) PROVE ReadsCurrent'
  BY <1>2 DEF PreSave, userVars, TypeOK
<1>3. ASSUME NEW s \in Savers, Save(s) PROVE ReadsCurrent'
  BY <1>3 DEF Save, TypeOK
<1>4. ASSUME NEW s \in Savers, PostSave(s) \/ StopSave(s) PROVE ReadsCurrent'
  BY <1>4 DEF PostSave, StopSave, userVars, Idle, TypeOK
<1>5. ASSUME NEW a \in Apps, TokenStep(a) PROVE UNCHANGED <<active, saving>>
  BY <1>5 DEF TokenStep, EnforcePolicy, Refuse, Expire, SaveTokens, userVars
<1>6. ASSUME GroupStep PROVE UNCHANGED <<active, saving>>
  BY <1>6 DEF GroupStep, RemoveGroups, RemoveFromGroup, AddGroups
<1>7. ASSUME AccountStep PROVE UNCHANGED <<active, saving>>
  BY <1>7 DEF AccountStep, AssignState, StateChanged, StopAssign, SetPermission, Demote,
     PreDelete, PostDelete, AbortDelete, userVars
<1>8. ASSUME OperatorStep PROVE UNCHANGED <<active, saving>>
  BY <1>8 DEF OperatorStep, ToggleUsable, EditGate, Collect, RevokeAll, SendRevoked,
     StopCommand, userVars
<1> QED
  BY <1>1, <1>2, <1>3, <1>4, <1>5, <1>6, <1>7, <1>8 DEF Next, SaveStep, vars, userVars

LEMMA CommandStep ==
    TypeOK /\ CollectedOrLate /\ RevokedTold /\ [Next]_vars => CollectedOrLate' /\ RevokedTold'
<1> SUFFICES ASSUME TypeOK, CollectedOrLate, RevokedTold, [Next]_vars
             PROVE  CollectedOrLate' /\ RevokedTold'
  OBVIOUS
<1> USE DEF CollectedOrLate, RevokedTold, Live, tokenVars, commandVars
<1>1. CASE UNCHANGED <<access, refresh, command, ids, owed, late>>
  BY <1>1
<1>2. ASSUME NEW a \in Apps, TokenStep(a) PROVE CollectedOrLate' /\ RevokedTold'
  BY <1>2 DEF TokenStep, EnforcePolicy, Refuse, Expire, SaveTokens
<1>3. ASSUME NEW s \in Savers,
             SaveStep(s) \/ PreSave(s, TRUE) \/ PreSave(s, FALSE)
      PROVE  CollectedOrLate' /\ RevokedTold'
  BY <1>1, <1>3 DEF SaveStep, Save, PostSave, StopSave, PreSave
<1>4. CASE GroupStep
  BY <1>1, <1>4 DEF GroupStep, RemoveGroups, RemoveFromGroup, AddGroups
<1>5. CASE AccountStep
  BY <1>5 DEF AccountStep, AssignState, StateChanged, StopAssign, SetPermission, Demote,
     PreDelete, PostDelete, AbortDelete
<1>6. CASE OperatorStep
  BY <1>6 DEF OperatorStep, ToggleUsable, EditGate, Collect, RevokeAll, SendRevoked,
     StopCommand
<1> QED  BY <1>1, <1>2, <1>3, <1>4, <1>5, <1>6 DEF Next, vars

LEMMA SnapshotStep == TypeOK /\ SnapshotWhole /\ [Next]_vars => SnapshotWhole'
<1> SUFFICES ASSUME TypeOK, SnapshotWhole, [Next]_vars PROVE SnapshotWhole'
  OBVIOUS
<1> USE DEF SnapshotWhole, Live, tokenVars, deleteVars
<1>1. CASE UNCHANGED <<access, refresh, deleting, snapshot, skipped>>
  BY <1>1
<1>2. ASSUME NEW a \in Apps, TokenStep(a) PROVE SnapshotWhole'
  BY <1>2 DEF TokenStep, EnforcePolicy, Refuse, Expire, SaveTokens
<1>3. ASSUME NEW s \in Savers,
             SaveStep(s) \/ PreSave(s, TRUE) \/ PreSave(s, FALSE)
      PROVE  SnapshotWhole'
  BY <1>1, <1>3 DEF SaveStep, Save, PostSave, StopSave, PreSave
<1>4. CASE GroupStep
  BY <1>1, <1>4 DEF GroupStep, RemoveGroups, RemoveFromGroup, AddGroups
<1>5. CASE AccountStep
  <2>1. ASSUME NEW same \in BOOLEAN, PreDelete(same) PROVE SnapshotWhole'
    BY <2>1 DEF PreDelete, AppsWithActiveTokens
  <2>2. CASE PostDelete \/ AbortDelete
    BY <2>2 DEF PostDelete, AbortDelete
  <2>3. CASE SetPermission \/ Demote \/ StateChanged \/ StopAssign
    BY <1>1, <2>3 DEF SetPermission, Demote, StateChanged, StopAssign
  <2>4. ASSUME NEW to \in States, AssignState(to) PROVE SnapshotWhole'
    BY <1>1, <2>4 DEF AssignState
  <2> QED  BY <1>5, <2>1, <2>2, <2>3, <2>4 DEF AccountStep
<1>6. CASE OperatorStep
  BY <1>6 DEF OperatorStep, ToggleUsable, EditGate, Collect, RevokeAll, SendRevoked,
     StopCommand
<1> QED  BY <1>1, <1>2, <1>3, <1>4, <1>5, <1>6 DEF Next, vars

-----------------------------------------------------------------------------
\* A step that changes neither the user, nor the restrictions, nor what was
\* told, keeps LossTold as long as it adds no token and ends no trigger.
LEMMA LossKept ==
    ASSUME LossTold, UNCHANGED <<userVars, gate, told, gap>>, Live' \subseteq Live,
           Pending => Pending'
    PROVE  LossTold'
BY DEF LossTold, Allowed, User, HasPerm, userVars

LEMMA LossStep == TypeOK /\ ReadsCurrent /\ LossTold /\ [Next]_vars => LossTold'
<1> SUFFICES ASSUME TypeOK, ReadsCurrent, LossTold, [Next]_vars PROVE LossTold'
  OBVIOUS
<1> USE DEF userVars, appVars, tokenVars, deleteVars, commandVars, logoutVars
<1>1. ASSUME NEW a \in Apps, TokenStep(a) PROVE LossTold'
  <2>1. CASE EnforcePolicy(a) \/ Refuse(a)
    BY <2>1, LossKept DEF EnforcePolicy, Refuse, Live, Pending, Deactivates
  <2>2. CASE Expire(a)
    BY <2>2, LossKept DEF Expire, Live, Pending, Deactivates
  <2>3. ASSUME NEW w \in BOOLEAN, SaveTokens(a, w) PROVE LossTold'
    <3>1. Pending => Pending'
      BY <2>3 DEF SaveTokens, Pending, Deactivates
    <3>2. \A b : Allowed(b)' <=> Allowed(b)
      BY <2>3 DEF SaveTokens, Allowed, User, HasPerm
    <3>3. \A b \in Live' : b = a \/ b \in Live
      BY <2>3 DEF SaveTokens, Live
    <3>4. Allowed(a) \/ a \in gap'
      BY <2>3 DEF SaveTokens
    <3>5. \A b : b # a /\ b \in told \cup gap => b \in told' \cup gap'
      BY <2>3 DEF SaveTokens
    <3>6. exists' = exists
      BY <2>3 DEF SaveTokens
    <3> QED  BY <3>1, <3>2, <3>3, <3>4, <3>5, <3>6 DEF LossTold
  <2> QED  BY <1>1, <2>1, <2>2, <2>3 DEF TokenStep
<1>2. ASSUME NEW s \in Savers, NEW will \in BOOLEAN, PreSave(s, will) PROVE LossTold'
  <2>1. Pending => Pending'
    BY <1>2 DEF PreSave, Pending, Deactivates, TypeOK
  <2> QED  BY <1>2, <2>1, LossKept DEF PreSave, Live
<1>3. ASSUME NEW s \in Savers, Save(s) PROVE LossTold'
  <2> DEFINE G == IF saving[s].raced /\ ~saving[s].was THEN Live ELSE {}
  <2>1. Tell({}, G)
    BY <1>3 DEF Save
  <2>2. Pending => Pending'
    <3>1. \A r \in Savers : Deactivates(r) => Deactivates(r)'
      BY <1>3 DEF Save, Deactivates, TypeOK
    <3> QED  BY <1>3, <3>1 DEF Save, Pending
  <2>3. SUFFICES ASSUME exists', ~Pending', NEW a \in Live' PROVE Allowed(a)' \/ a \in told' \cup gap'
    BY DEF LossTold
  <2>4. a \in Live /\ exists
    BY <1>3, <2>3 DEF Save, Live
  <2>5. Allowed(a) \/ a \in told \cup gap
    BY <2>2, <2>3, <2>4 DEF LossTold
  <2>6. CASE saving[s].raced /\ ~saving[s].was
    BY <2>1, <2>4, <2>6, TellKeeps
  <2>7. CASE ~(saving[s].raced /\ ~saving[s].was)
    <3>1. active => active'
      <4>1. saving[s].pc = "read" /\ active' = saving[s].will
        BY <1>3 DEF Save
      <4>2. saving'[s] = [saving[s] EXCEPT !.pc = "written"]
        BY <1>3 DEF Save, TypeOK
      <4>3. ~(saving'[s].pc = "written" /\ saving'[s].was /\ ~saving'[s].will)
        BY <2>3 DEF Pending, Deactivates
      <4>4. saving[s] \in [pc : {"idle", "read", "written"}, was : BOOLEAN,
                           will : BOOLEAN, raced : BOOLEAN]
        BY DEF TypeOK
      <4>5. ~saving[s].was \/ saving[s].will
        BY <4>2, <4>3, <4>4
      <4>6. ~saving[s].was => ~active
        BY <2>7, <4>1 DEF ReadsCurrent
      <4> QED  BY <4>1, <4>5, <4>6
    <3>2. CASE a \in told \cup gap
      BY <2>1, <3>2, TellKeeps
    <3>3. CASE Allowed(a)
      <4>1. exists' = exists /\ superuser' = superuser /\ state' = state /\ groups' = groups
            /\ gate' = gate /\ direct' = direct
        BY <1>3 DEF Save
      <4>2. HasPerm => HasPerm'
        BY <3>1, <4>1 DEF HasPerm
      <4> QED  BY <3>3, <4>1, <4>2, NothingTaken
    <3> QED  BY <2>5, <3>2, <3>3
  <2> QED  BY <2>6, <2>7
<1>4. ASSUME NEW s \in Savers, PostSave(s) \/ StopSave(s) PROVE LossTold'
  <2>1. UNCHANGED <<userVars, gate, access, refresh, usable, moving>>
    BY <1>4 DEF PostSave, StopSave
  <2>2. \A b : Allowed(b)' <=> Allowed(b)
    BY <2>1 DEF Allowed, User, HasPerm
  <2>3. SUFFICES ASSUME exists', ~Pending', NEW a \in Live' PROVE Allowed(a)' \/ a \in told' \cup gap'
    BY DEF LossTold
  <2>4. a \in Live /\ exists
    BY <2>1, <2>3 DEF Live
  <2>5. CASE Deactivates(s)
    <3>1. CASE PostSave(s)
      <4>1. Tell(AppsWithActiveTokens, Live \ usable)
        BY <2>5, <3>1 DEF PostSave
      <4>2. a \in AppsWithActiveTokens \cup (Live \ usable)
        BY <2>4 DEF AppsWithActiveTokens
      <4> QED  BY <4>1, <4>2, TellKeeps
    <3>2. CASE StopSave(s)
      <4>1. Tell({}, Live)
        BY <2>5, <3>2 DEF StopSave
      <4> QED  BY <2>4, <4>1, TellKeeps
    <3> QED  BY <1>4, <3>1, <3>2
  <2>6. CASE ~Deactivates(s)
    <3>1. Tell({}, {})
      BY <1>4, <2>6 DEF PostSave, StopSave
    <3>2. \A r \in Savers : r # s => saving'[r] = saving[r]
      BY <1>4 DEF PostSave, StopSave, TypeOK
    <3>3. Pending => Pending'
      BY <2>1, <2>6, <3>2 DEF Pending, Deactivates
    <3>4. Allowed(a) \/ a \in told \cup gap
      BY <2>3, <2>4, <3>3 DEF LossTold
    <3> QED  BY <2>2, <3>1, <3>4, TellKeeps
  <2> QED  BY <2>5, <2>6
<1>5. ASSUME GroupStep PROVE LossTold'
  <2>1. UNCHANGED <<exists, active, superuser, direct, state, gate, usable, access, refresh,
                    saving, moving>>
    BY <1>5 DEF GroupStep, RemoveGroups, RemoveFromGroup, AddGroups
  <2>2. Pending' = Pending
    BY <2>1 DEF Pending, Deactivates
  <2>3. SUFFICES ASSUME exists', ~Pending', NEW a \in Live' PROVE Allowed(a)' \/ a \in told' \cup gap'
    BY DEF LossTold
  <2>4. a \in Live /\ exists /\ (Allowed(a) \/ a \in told \cup gap)
    BY <2>1, <2>2, <2>3 DEF Live, LossTold
  <2>5. ASSUME NEW S \in SUBSET Groups, RemoveFromGroup(S) PROVE Allowed(a)' \/ a \in told' \cup gap'
    BY <2>4, <2>5, TellKeeps DEF RemoveFromGroup
  <2>6. ASSUME NEW S \in SUBSET Groups, NEW cached \in BOOLEAN, RemoveGroups(S, cached)
        PROVE  Allowed(a)' \/ a \in told' \cup gap'
    <3> DEFINE p == IF cached THEN HasPerm ELSE HasPerm'
               T == ToldByGroups(p)
               G == (Live \ usable) \cup (IF cached THEN Live ELSE {})
    <3>1. Tell(T, G)
      BY <2>6 DEF RemoveGroups
    <3>2. CASE a \in T \cup G
      BY <3>1, <3>2, TellKeeps
    <3>3. CASE a \notin T \cup G
      <4>1. ~cached /\ a \in AppsWithActiveTokens
        BY <2>4, <3>3 DEF AppsWithActiveTokens
      <4>2. IsAllowed([User' EXCEPT !.perm = HasPerm'], gate[a])
        BY <3>3, <4>1 DEF ToldByGroups
      <4>3. [User' EXCEPT !.perm = HasPerm'] = User'
        BY DEF User
      <4> QED  BY <2>1, <2>3, <4>2, <4>3 DEF Allowed
    <3> QED  BY <3>2, <3>3
  <2>7. CASE AddGroups
    <3>1. CASE a \in told \cup gap
      BY <2>7, <3>1, TellKeeps DEF AddGroups
    <3>2. CASE Allowed(a)
      <4>1. groups \subseteq groups'
        BY <2>7 DEF AddGroups, TypeOK
      <4>2. HasPerm => HasPerm'
        BY <2>1, <4>1 DEF HasPerm
      <4> QED  BY <2>1, <3>2, <4>1, <4>2, NothingTaken
    <3> QED  BY <2>4, <3>1, <3>2
  <2> QED  BY <1>5, <2>5, <2>6, <2>7 DEF GroupStep
<1>6. ASSUME AccountStep PROVE LossTold'
  <2>1. ASSUME NEW to \in States, AssignState(to) PROVE LossTold'
    BY <2>1 DEF AssignState, LossTold, Pending
  <2>2. CASE StateChanged \/ StopAssign
    <3>1. UNCHANGED <<userVars, gate, access, refresh>>
      BY <2>2 DEF StateChanged, StopAssign
    <3>2. \A b : Allowed(b)' <=> Allowed(b)
      BY <3>1 DEF Allowed, User, HasPerm
    <3>3. SUFFICES ASSUME NEW a \in Live' PROVE Allowed(a)' \/ a \in told' \cup gap'
      BY DEF LossTold
    <3>4. a \in Live
      BY <3>1, <3>3 DEF Live
    <3>5. CASE StopAssign
      BY <3>4, <3>5, TellKeeps DEF StopAssign
    <3>6. CASE StateChanged
      <4> DEFINE T == {b \in AppsWithActiveTokens : ~Allowed(b)}
      <4>1. Tell(T, Live \ usable)
        BY <3>6 DEF StateChanged
      <4>2. Allowed(a) \/ a \in T \cup (Live \ usable)
        BY <3>4 DEF AppsWithActiveTokens
      <4> HIDE DEF T
      <4> QED  BY <3>2, <4>1, <4>2, TellKeeps
    <3> QED  BY <2>2, <3>5, <3>6
  <2>3. CASE SetPermission \/ Demote
    <3>1. UNCHANGED <<exists, active, state, groups, gate, access, refresh, saving, moving>>
      BY <2>3 DEF SetPermission, Demote
    <3>2. SUFFICES ASSUME exists', ~Pending', NEW a \in Live' PROVE Allowed(a)' \/ a \in told' \cup gap'
      BY DEF LossTold
    <3>3. a \in Live /\ (Allowed(a) \/ a \in told \cup gap)
      BY <3>1, <3>2 DEF Live, LossTold, Pending, Deactivates
    <3>4. CASE Demote
      BY <3>3, <3>4, TellKeeps DEF Demote
    <3>5. CASE SetPermission
      <4>1. CASE a \in told \cup gap \/ direct
        <5>1. Tell({}, IF direct THEN Live ELSE {})
          BY <3>5 DEF SetPermission
        <5> QED  BY <3>3, <4>1, <5>1, TellKeeps
      <4>2. CASE Allowed(a) /\ ~direct
        <5>1. superuser' = superuser
          BY <3>5 DEF SetPermission
        <5>2. HasPerm => HasPerm'
          BY <3>1, <4>2 DEF HasPerm
        <5> QED  BY <3>1, <4>2, <5>1, <5>2, NothingTaken
      <4> QED  BY <3>3, <4>1, <4>2
    <3> QED  BY <2>3, <3>4, <3>5
  <2>4. ASSUME NEW same \in BOOLEAN, PreDelete(same) PROVE LossTold'
    BY <2>4, LossKept DEF PreDelete, Live, Pending, Deactivates
  <2>5. CASE PostDelete
    BY <2>5 DEF PostDelete, LossTold
  <2>6. CASE AbortDelete
    BY <2>6, LossKept DEF AbortDelete, Live, Pending, Deactivates
  <2> QED  BY <1>6, <2>1, <2>2, <2>3, <2>4, <2>5, <2>6 DEF AccountStep
<1>7. ASSUME OperatorStep PROVE LossTold'
  <2>1. ASSUME NEW a \in Apps, ToggleUsable(a) PROVE LossTold'
    BY <2>1, LossKept DEF ToggleUsable, Live, Pending, Deactivates
  <2>2. ASSUME NEW b \in Apps, NEW g \in Gates, EditGate(b, g) PROVE LossTold'
    <3>1. UNCHANGED <<userVars, access, refresh, saving, moving>>
      BY <2>2 DEF EditGate
    <3>2. SUFFICES ASSUME exists', ~Pending', NEW a \in Live' PROVE Allowed(a)' \/ a \in told' \cup gap'
      BY DEF LossTold
    <3>3. a \in Live /\ (Allowed(a) \/ a \in told \cup gap)
      BY <3>1, <3>2 DEF Live, LossTold, Pending, Deactivates
    <3>4. CASE a = b \/ a \in told \cup gap
      BY <2>2, <3>3, <3>4, TellKeeps DEF EditGate
    <3>5. CASE a # b /\ Allowed(a)
      <4>1. gate'[a] = gate[a]
        BY <2>2, <3>3, <3>5 DEF EditGate, TypeOK, Live
      <4>2. HasPerm => HasPerm'
        BY <3>1 DEF HasPerm
      <4> QED  BY <3>1, <3>5, <4>1, <4>2, NothingTaken
    <3> QED  BY <3>3, <3>4, <3>5
  <2>3. ASSUME NEW kept \in SUBSET Apps, Collect(kept) PROVE LossTold'
    BY <2>3, LossKept DEF Collect, Live, Pending, Deactivates
  <2>4. CASE RevokeAll
    BY <2>4, LossKept DEF RevokeAll, Live, Pending, Deactivates
  <2>5. CASE SendRevoked
    <3>1. UNCHANGED <<userVars, gate, access, refresh, saving, moving>>
      BY <2>5 DEF SendRevoked
    <3>2. SUFFICES ASSUME exists', ~Pending', NEW a \in Live' PROVE Allowed(a)' \/ a \in told' \cup gap'
      BY DEF LossTold
    <3>3. Allowed(a) \/ a \in told \cup gap
      BY <3>1, <3>2 DEF Live, LossTold, Pending, Deactivates
    <3>4. Allowed(a)' <=> Allowed(a)
      BY <3>1 DEF Allowed, User, HasPerm
    <3> QED  BY <2>5, <3>3, <3>4, TellKeeps DEF SendRevoked
  <2>6. CASE StopCommand
    BY <2>6, LossKept DEF StopCommand, Live, Pending, Deactivates
  <2> QED  BY <1>7, <2>1, <2>2, <2>3, <2>4, <2>5, <2>6 DEF OperatorStep
<1>8. CASE UNCHANGED vars
  BY <1>8, LossKept DEF vars, Live, Pending, Deactivates
<1> QED  BY <1>1, <1>2, <1>3, <1>4, <1>5, <1>6, <1>7, <1>8 DEF Next, SaveStep

-----------------------------------------------------------------------------
\* The inductive invariant of the sessions of one user.
THEOREM Invariance == Spec => []IInv
<1>1. Init => IInv
  BY InitInv
<1>2. IInv /\ [Next]_vars => IInv'
  BY TypeStep, ReadsStep, CommandStep, SnapshotStep, LossStep DEF IInv
<1> QED  BY <1>1, <1>2, PTL DEF Spec

\* Types, whatever the applications, groups, states and processes.
THEOREM TypeCorrect == Spec => []TypeOK
<1>1. IInv => TypeOK
  BY DEF IInv
<1> QED  BY <1>1, Invariance, PTL

\* The triggers of receivers.py miss no loss of access but the named ones.
THEOREM LossesTold == Spec => []LossTold
<1>1. IInv => LossTold
  BY DEF IInv
<1> QED  BY <1>1, Invariance, PTL

\* Without the named exceptions nothing is lost silently.
NoGap == gap = {} /\ usable = Apps

LEMMA QuietIsNext == QuietNext => Next
BY DEF QuietNext, Next, TokenStep, SaveStep, GroupStep, AccountStep, OperatorStep

LEMMA QuietStep == TypeOK /\ NoGap /\ [QuietNext]_vars => NoGap'
<1> SUFFICES ASSUME TypeOK, NoGap, [QuietNext]_vars PROVE NoGap'
  OBVIOUS
<1> USE DEF NoGap, userVars, appVars, tokenVars, deleteVars, commandVars, logoutVars
<1>1. ASSUME NEW S, Tell(S, {}), usable' = usable PROVE NoGap'
  BY <1>1 DEF Tell
<1>2. Live \ usable = {}
  BY LiveTyped
<1>3. CASE UNCHANGED <<usable, gap>>
  BY <1>3
<1>4. ASSUME NEW a \in Apps,
             \/ EnforcePolicy(a) \/ Refuse(a) \/ Expire(a)
             \/ Allowed(a) /\ \E w \in BOOLEAN : SaveTokens(a, w)
      PROVE  NoGap'
  BY <1>4 DEF EnforcePolicy, Refuse, Expire, SaveTokens
<1>5. ASSUME NEW a \in Apps, NEW g \in Gates, a \notin Live, EditGate(a, g) PROVE NoGap'
  <2>1. Live \cap {a} = {} /\ usable' = usable
    BY <1>5 DEF EditGate
  <2> QED  BY <1>1, <1>5, <2>1 DEF EditGate
<1>6. ASSUME NEW s \in Savers,
             \/ PreSave(s, TRUE) \/ PreSave(s, FALSE)
             \/ (saving[s].raced => saving[s].was) /\ Save(s)
             \/ PostSave(s)
             \/ ~Deactivates(s) /\ StopSave(s)
      PROVE  NoGap'
  <2>1. CASE (saving[s].raced => saving[s].was) /\ Save(s)
    BY <1>1, <2>1 DEF Save
  <2>2. CASE PostSave(s)
    <3>1. Tell(AppsWithActiveTokens, {}) \/ Tell({}, {})
      BY <1>2, <2>2 DEF PostSave
    <3> QED  BY <1>1, <2>2, <3>1 DEF PostSave
  <2>3. CASE ~Deactivates(s) /\ StopSave(s)
    BY <1>1, <2>3 DEF StopSave
  <2>4. CASE PreSave(s, TRUE) \/ PreSave(s, FALSE)
    BY <2>4 DEF PreSave
  <2> QED  BY <1>6, <2>1, <2>2, <2>3, <2>4
<1>7. ASSUME NEW S \in SUBSET Groups, RemoveGroups(S, FALSE) PROVE NoGap'
  <2>1. Tell(ToldByGroups(HasPerm'), (Live \ usable) \cup {}) /\ usable' = usable
    BY <1>7 DEF RemoveGroups
  <2>2. (Live \ usable) \cup {} = {}
    BY <1>2
  <2> QED  BY <1>1, <2>1, <2>2
<1>8. CASE AddGroups \/ \E to \in States : AssignState(to)
  BY <1>1, <1>8 DEF AddGroups, AssignState
<1>9. CASE StateChanged
  <2>1. Tell({a \in AppsWithActiveTokens : ~Allowed(a)}, {}) /\ usable' = usable
    BY <1>2, <1>9 DEF StateChanged
  <2> QED  BY <1>1, <2>1
<1>10. CASE ~direct /\ SetPermission
  BY <1>1, <1>10 DEF SetPermission
<1>11. CASE Live = {} /\ (SetPermission \/ Demote \/ StopAssign)
  <2>1. usable' = usable /\ Tell({}, {})
    BY <1>11 DEF SetPermission, Demote, StopAssign
  <2> QED  BY <1>1, <2>1
<1>12. CASE PostDelete
  <2>1. Tell(snapshot \cap usable, {}) /\ usable' = usable
    BY <1>2, <1>12 DEF PostDelete
  <2> QED  BY <1>1, <2>1
<1>13. CASE (\E same \in BOOLEAN : PreDelete(same)) \/ AbortDelete
  BY <1>13 DEF PreDelete, AbortDelete
<1>14. CASE SendRevoked
  BY <1>1, <1>14 DEF SendRevoked
<1>15. CASE (\E kept \in SUBSET Apps : Collect(kept)) \/ RevokeAll \/ StopCommand
  BY <1>15 DEF Collect, RevokeAll, StopCommand
<1>16. CASE UNCHANGED vars
  BY <1>16 DEF vars
<1> QED
  BY <1>4, <1>5, <1>6, <1>7, <1>8, <1>9, <1>10, <1>11, <1>12, <1>13, <1>14, <1>15, <1>16
  DEF QuietNext

\* The exceptions LossTold names are all there are: where none of them
\* happens, no relying party keeps tokens of a lost user untold.
THEOREM QuietLossesTold == QuietSpec => []LossToldAlways
<1>1. Init => IInv /\ NoGap
  BY InitInv DEF Init, NoGap
<1>2. (IInv /\ NoGap) /\ [QuietNext]_vars => (IInv /\ NoGap)'
  <2>1. [QuietNext]_vars => [Next]_vars
    BY QuietIsNext
  <2> QED
    BY <2>1, TypeStep, ReadsStep, CommandStep, SnapshotStep, LossStep, QuietStep DEF IInv
<1>3. IInv /\ NoGap => LossToldAlways
  BY DEF IInv, NoGap, LossTold, LossToldAlways
<1> QED  BY <1>1, <1>2, <1>3, PTL DEF QuietSpec

\* oidc_revoke_user_tokens tells whatever it revoked.
THEOREM RevocationsTold == Spec => []RevokedTold
<1>1. IInv => RevokedTold
  BY DEF IInv
<1> QED  BY <1>1, Invariance, PTL

\* The snapshot of on_user_pre_delete is whole when on_user_post_delete reads
\* it.
THEOREM DeletionsTold == Spec => DeletionTold
<1> DEFINE A == exists /\ ~exists' => Live \cap usable \subseteq told' \cup skipped
<1>1. IInv /\ [Next]_vars => [A]_vars
  <2> SUFFICES ASSUME IInv, Next, exists, ~exists' PROVE Live \cap usable \subseteq told' \cup skipped
    OBVIOUS
  <2>1. PostDelete
    BY DEF Next, TokenStep, EnforcePolicy, Refuse, Expire, SaveTokens, SaveStep, Save, PostSave,
       StopSave, PreSave, GroupStep, RemoveGroups, RemoveFromGroup, AddGroups, AccountStep,
       AssignState, StateChanged, StopAssign, SetPermission, Demote, PreDelete, AbortDelete,
       OperatorStep, ToggleUsable, EditGate, Collect, RevokeAll, SendRevoked, StopCommand,
       userVars
  <2>2. Live \subseteq snapshot \cup skipped
    BY <2>1 DEF PostDelete, IInv, SnapshotWhole
  <2>3. \A a : ~Allowed(a)'
    BY DEF Allowed
  <2>4. snapshot \cap usable \subseteq told'
    BY <2>1, <2>3 DEF PostDelete, Tell
  <2> QED  BY <2>2, <2>4
<1>2. []IInv /\ [][Next]_vars => [][A]_vars
  BY <1>1, PTL
<1> QED  BY <1>2, Invariance DEF Spec, DeletionTold
=============================================================================
