--------------------------- MODULE WorkspacesProofs ---------------------------
(***************************************************************************)
(* Workspaces composed with Organisations: the outbox tells consumers what *)
(* the Workspace tables say, no Workspace role goes to a stranger, dormant *)
(* memberships stay and an archived Organisation freezes its Workspaces:   *)
(* proved for any users, Organisations, Workspaces and table sizes.        *)
(*                                                                         *)
(* GrantsStayInOrganisation is not inductive by itself.  Creating a        *)
(* Workspace sets its Organisation, which would change what the invariant  *)
(* says of rows in that Workspace if there were any: a Workspace that does *)
(* not exist must be known to have no rows, active or ended (AbsentIsBare).*)
(* That a grant is still justified later rests on the history-preserving   *)
(* organisation_memberships table: no step removes a row of it or gives it *)
(* another scope or user (MembershipsPersist).                             *)
(***************************************************************************)
EXTENDS Workspaces, OrganisationsProofs

\* A Workspace that does not exist has never had a membership row.
AbsentIsBare ==
    \A w \in Workspace :
        workspaces[w].status = "absent"
        => \A i \in 1..Len(wsMemberships) : wsMemberships[i].scope # w

WsInv == OrgInv /\ WsTypeOK /\ WsMirrorAgrees /\ AbsentIsBare /\ GrantsStayInOrganisation

\* The justification of a Workspace grant, as GrantsStayInOrganisation states it:
\* table has a row of the row's user in the Workspace's Organisation.
Justified(table, organisation, row) ==
    \/ row.user \in SystemAdmin /\ row.by = row.user
    \/ \E j \in 1..Len(table) : table[j].scope = organisation /\ table[j].user = row.user

\* The invariant holds in the empty database.
LEMMA WsInitInv == WsInit => WsInv
<1> SUFFICES ASSUME WsInit PROVE WsInv
  OBVIOUS
<1>1. OrgInv
  BY OrgInitInv DEF WsInit
<1>2. /\ workspaces = [w \in Workspace |-> NoWorkspace]
      /\ wsMemberships = << >>
      /\ wsMirror = [workspaces |-> [w \in Workspace |-> NoWorkspace], memberships |-> << >>]
  BY DEF WsInit, WorkspacesInit
<1>3. Len(wsMemberships) = 0 /\ wsMemberships \in Seq(WsRow) /\ << >> \in Seq(WsRecord)
  BY <1>2
<1>4. workspaces \in WsFacts /\ \A w \in Workspace : workspaces[w].status = "absent"
  BY <1>2 DEF WsFacts, NoWorkspace, WsStatus
<1>5. wsMirror.workspaces = workspaces /\ wsMirror.memberships = << >>
  BY <1>2
<1>6. WsTypeOK
  BY <1>2, <1>3, <1>4 DEF WsTypeOK
<1>7. WsMirrorAgrees
  BY <1>2, <1>3, <1>5 DEF WsMirrorAgrees, Agree
<1>8. AbsentIsBare /\ GrantsStayInOrganisation
  BY <1>3 DEF AbsentIsBare, GrantsStayInOrganisation, ActiveIn
<1> QED BY <1>1, <1>6, <1>7, <1>8 DEF WsInv

\* The organisation_memberships table preserves its history: whatever mutation of
\* organisation.go or users.go runs, the rows stay, each with its scope and user.
LEMMA MembershipsPersist ==
    ASSUME OrgInv, OrgNext
    PROVE  /\ Len(memberships') >= Len(memberships)
           /\ \A i \in 1..Len(memberships) :
                 /\ memberships'[i].scope = memberships[i].scope
                 /\ memberships'[i].user = memberships[i].user
<1> DEFINE n == Len(memberships)
           Goal == /\ Len(memberships') >= n
                   /\ \A i \in 1..n : /\ memberships'[i].scope = memberships[i].scope
                                      /\ memberships'[i].user = memberships[i].user
<1>0. memberships \in Seq(RowOf(Organisation, User, OrgRole)) /\ n \in Nat
  BY DEF OrgInv, OrgTypeOK, OrgRow
<1>1. ASSUME UNCHANGED memberships
      PROVE  Goal
  BY <1>0, <1>1
<1>2. ASSUME NEW row \in RowOf(Organisation, User, OrgRole), memberships' = Insert(memberships, row)
      PROVE  Goal
  BY <1>0, <1>2 DEF Insert
<1>3. ASSUME NEW ids, memberships' = Retire(memberships, ids)
      PROVE  Goal
  <2>1. /\ Len(Retire(memberships, ids)) = n
        /\ \A i \in 1..n : /\ Retire(memberships, ids)[i].scope = memberships[i].scope
                           /\ Retire(memberships, ids)[i].user = memberships[i].user
    BY <1>0, RetireFacts
  <2> QED BY <1>0, <1>3, <2>1
<1>4. ASSUME NEW k, NEW row \in RowOf(Organisation, User, OrgRole),
             memberships' = Insert(Retire(memberships, {k}), row)
      PROVE  Goal
  <2> DEFINE cut == Retire(memberships, {k})
  <2>1. /\ cut \in Seq(RowOf(Organisation, User, OrgRole)) /\ Len(cut) = n
        /\ \A i \in 1..n : /\ cut[i].scope = memberships[i].scope
                           /\ cut[i].user = memberships[i].user
    BY <1>0, RetireFacts
  <2>2. memberships' = Append(cut, row)
    BY <1>4 DEF Insert
  <2> HIDE DEF cut
  <2> QED BY <1>0, <2>1, <2>2
<1> HIDE DEF Goal
<1>5. ASSUME NEW u \in User, NEW status \in {"active", "inactive"},
             CreateUser(u, status) \/ SetUserActive(u, status)
      PROVE  Goal
  BY <1>1, <1>5 DEF CreateUser, SetUserActive
<1>6. ASSUME NEW a \in User, NEW o \in Organisation, NEW name \in Name,
             CreateOrganisation(a, o, name) \/ RenameOrganisation(a, o, name)
      PROVE  Goal
  <2>1. NewRow(o, a, "owner", 1, a) \in RowOf(Organisation, User, OrgRole)
    BY NewRowFacts DEF OrgRole
  <2> QED BY <1>1, <1>2, <1>6, <2>1 DEF CreateOrganisation, RenameOrganisation
<1>7. ASSUME NEW a \in User, NEW o \in Organisation, ArchiveOrganisation(a, o)
      PROVE  Goal
  BY <1>3, <1>7 DEF ArchiveOrganisation
<1>8. ASSUME NEW a \in User, NEW o \in Organisation, NEW u \in User, NEW role \in OrgRole,
             AddOrganisationMember(a, o, u, role)
      PROVE  Goal
  <2>1. NewRow(o, u, role, 1, a) \in RowOf(Organisation, User, OrgRole)
    BY NewRowFacts
  <2> QED BY <1>2, <1>8, <2>1 DEF AddOrganisationMember
<1>9. ASSUME NEW a \in User, NEW o \in Organisation, NEW u \in User, NEW role \in OrgRole,
             ChangeOrganisationMemberRole(a, o, u, role)
      PROVE  Goal
  <2>1. PICK k \in Current(memberships, o, u) :
           memberships' = Insert(Retire(memberships, {k}),
                                 NewRow(o, u, role, memberships[k].version + 1, a))
    BY <1>9 DEF ChangeOrganisationMemberRole
  <2>2. memberships[k].version + 1 \in Nat \ {0}
    <3>1. memberships[k] \in RowOf(Organisation, User, OrgRole)
      BY <1>0 DEF Current
    <3>2. memberships[k].version \in Nat
      BY <3>1 DEF RowOf
    <3> QED BY <3>2
  <2>3. NewRow(o, u, role, memberships[k].version + 1, a) \in RowOf(Organisation, User, OrgRole)
    BY <2>2, NewRowFacts
  <2> QED BY <1>4, <2>1, <2>3
<1>10. ASSUME NEW a \in User, NEW o \in Organisation, NEW u \in User,
              DeactivateOrganisationMember(a, o, u)
       PROVE  Goal
  <2>1. PICK k \in Current(memberships, o, u) : memberships' = Retire(memberships, {k})
    BY <1>10 DEF DeactivateOrganisationMember
  <2> QED BY <1>3, <2>1
<1>11. Goal
  BY <1>5, <1>6, <1>7, <1>8, <1>9, <1>10 DEF OrgNext
<1> QED BY <1>11 DEF Goal

\* A step of Organisations leaves the Workspace tables alone and the grants in
\* them justified.
LEMMA OrgStepKeepsWsInv ==
    ASSUME WsInv, OrgNext, UNCHANGED wsVars
    PROVE  WsInv'
<1>1. OrgInv'
  BY OrgNextInv DEF WsInv
<1>2. UNCHANGED <<workspaces, wsMemberships, wsMirror>>
  BY DEF wsVars
<1>3. /\ memberships \in Seq(OrgRow) /\ memberships' \in Seq(OrgRow)
      /\ Len(memberships') >= Len(memberships)
      /\ \A i \in 1..Len(memberships) : /\ memberships'[i].scope = memberships[i].scope
                                        /\ memberships'[i].user = memberships[i].user
  BY <1>1, MembershipsPersist DEF WsInv, OrgInv, OrgTypeOK
<1>4. \A j \in 1..Len(memberships) : j \in 1..Len(memberships')
  BY <1>3
<1>5. WsTypeOK' /\ WsMirrorAgrees' /\ AbsentIsBare'
  BY <1>2 DEF WsInv, WsTypeOK, WsMirrorAgrees, AbsentIsBare
<1>6. GrantsStayInOrganisation'
  BY <1>2, <1>3, <1>4 DEF WsInv, GrantsStayInOrganisation
<1> QED BY <1>1, <1>5, <1>6 DEF WsInv

\* What the Workspace mutations have in common.  The old rows keep scope, user
\* and granter and no ended row comes back; a new row is justified and belongs
\* to an active Workspace; an existing Workspace keeps its Organisation.
LEMMA WsTableStepInv ==
    ASSUME WsInv, UNCHANGED orgVars,
           workspaces' \in WsFacts,
           NEW told \in Seq(WsRecord),
           wsMirror' = [workspaces |-> workspaces', memberships |-> told],
           wsMemberships' \in Seq(WsRow),
           Agree(wsMemberships', told),
           Len(wsMemberships') >= Len(wsMemberships),
           \A i \in 1..Len(wsMemberships) :
              /\ wsMemberships'[i].scope = wsMemberships[i].scope
              /\ wsMemberships'[i].user = wsMemberships[i].user
              /\ wsMemberships'[i].by = wsMemberships[i].by
              /\ wsMemberships'[i].active =>
                    wsMemberships[i].active /\ workspaces'[wsMemberships[i].scope].status = "active",
           \A i \in 1..Len(wsMemberships') :
              i > Len(wsMemberships) =>
                 /\ workspaces'[wsMemberships'[i].scope].status = "active"
                 /\ Justified(memberships, workspaces'[wsMemberships'[i].scope].organisation, wsMemberships'[i]),
           \A w \in Workspace :
              workspaces[w].status # "absent" =>
                 /\ workspaces'[w].status # "absent"
                 /\ workspaces'[w].organisation = workspaces[w].organisation
    PROVE  WsInv'
<1> DEFINE n == Len(wsMemberships)
           m == Len(wsMemberships')
<1>1. OrgInv'
  BY OrgNextInv DEF WsInv
<1>2. memberships' = memberships
  BY DEF orgVars
<1>3. wsMirror'.workspaces = workspaces' /\ wsMirror'.memberships = told
  OBVIOUS
<1>4. WsTypeOK'
  BY DEF WsTypeOK
<1>5. WsMirrorAgrees'
  BY <1>3 DEF WsMirrorAgrees
<1>6. /\ n \in Nat /\ m \in Nat
      /\ \A i \in 1..m : i \in 1..n \/ i > n
      /\ \A i \in 1..n : wsMemberships[i].scope \in Workspace
  <2>1. wsMemberships \in Seq(WsRow)
    BY DEF WsInv, WsTypeOK
  <2>2. \A i \in 1..n : wsMemberships[i] \in WsRow
    BY <2>1
  <2> QED BY <2>1, <2>2 DEF WsRow, RowOf
<1>7. AbsentIsBare'
  <2> SUFFICES ASSUME NEW w \in Workspace, workspaces'[w].status = "absent",
                      NEW i \in 1..m
               PROVE  wsMemberships'[i].scope # w
    BY DEF AbsentIsBare
  <2>1. workspaces[w].status = "absent"
    OBVIOUS
  <2>2. CASE i \in 1..n
    BY <2>1, <2>2 DEF WsInv, AbsentIsBare
  <2>3. CASE i > n
    BY <2>3
  <2> QED BY <1>6, <2>2, <2>3
<1>8. ASSUME NEW i \in 1..m
      PROVE  Justified(memberships, workspaces'[wsMemberships'[i].scope].organisation, wsMemberships'[i])
  <2>1. CASE i \in 1..n
    <3>1. workspaces'[wsMemberships[i].scope].organisation = workspaces[wsMemberships[i].scope].organisation
      BY <1>6, <2>1 DEF WsInv, AbsentIsBare
    <3>2. Justified(memberships, workspaces[wsMemberships[i].scope].organisation, wsMemberships[i])
      BY <2>1 DEF WsInv, GrantsStayInOrganisation, Justified
    <3> QED BY <1>2, <2>1, <3>1, <3>2 DEF Justified
  <2>2. CASE i > n
    BY <2>2
  <2> QED BY <1>6, <2>1, <2>2
<1>9. ASSUME NEW w \in Workspace, workspaces'[w].status # "active", NEW i \in 1..m,
             wsMemberships'[i].scope = w
      PROVE  ~wsMemberships'[i].active
  BY <1>6, <1>9
<1>10. GrantsStayInOrganisation'
  BY <1>2, <1>8, <1>9 DEF GrantsStayInOrganisation, Justified, ActiveIn
<1> QED BY <1>1, <1>4, <1>5, <1>7, <1>10 DEF WsInv

\* Whoever has a role in a scope has a row in its table.
LEMMA RoleNeedsRow ==
    ASSUME NEW table, NEW scope, NEW user, RoleIn(table, scope, user) # NoRole
    PROVE  /\ Current(table, scope, user) # {}
           /\ \E j \in 1..Len(table) : table[j].scope = scope /\ table[j].user = user
<1>1. Current(table, scope, user) # {}
  BY DEF RoleIn
<1> QED BY <1>1 DEF Current

\* The rows the Workspace mutations insert.
LEMMA NewWsRowFacts ==
    ASSUME NEW w \in Workspace, NEW u \in User, NEW role \in WsRole,
           NEW version \in Nat \ {0}, NEW by \in User
    PROVE  LET row == NewRow(w, u, role, version, by)
           IN /\ row \in RowOf(Workspace, User, WsRole)
              /\ row.scope = w /\ row.user = u /\ row.by = by /\ row.active
BY DEF NewRow, RowOf

\* What the invariant says of the Workspace tables, in the form the table lemmas
\* ask for.
LEMMA WsTables ==
    ASSUME WsInv
    PROVE  /\ wsMemberships \in Seq(RowOf(Workspace, User, WsRole))
           /\ wsMirror.memberships \in Seq(RecordOf(Workspace, User, WsRole))
           /\ Agree(wsMemberships, wsMirror.memberships)
           /\ Len(wsMemberships) \in Nat
           /\ \A i \in 1..Len(wsMemberships) :
                 /\ wsMemberships[i].scope \in Workspace
                 /\ wsMemberships[i].version \in Nat \ {0}
                 /\ wsMemberships[i].active
                    => workspaces[wsMemberships[i].scope].status = "active"
<1>1. /\ wsMemberships \in Seq(RowOf(Workspace, User, WsRole))
      /\ wsMirror.memberships \in Seq(RecordOf(Workspace, User, WsRole))
      /\ Agree(wsMemberships, wsMirror.memberships)
  BY DEF WsInv, WsTypeOK, WsMirrorAgrees, WsRow, WsRecord
<1>2. \A i \in 1..Len(wsMemberships) : wsMemberships[i] \in RowOf(Workspace, User, WsRole)
  BY <1>1
<1>3. \A i \in 1..Len(wsMemberships) :
         wsMemberships[i].scope \in Workspace /\ wsMemberships[i].version \in Nat \ {0}
  BY <1>2 DEF RowOf
<1> QED BY <1>1, <1>3 DEF WsInv, GrantsStayInOrganisation, ActiveIn

\* The creator of a Workspace administers the Organisation or is a system
\* administrator, so the first membership is justified.
LEMMA CreateWorkspaceInv ==
    ASSUME WsInv, NEW a \in User, NEW o \in Organisation, NEW w \in Workspace,
           CreateWorkspace(a, o, w)
    PROVE  WsInv'
<1> DEFINE n == Len(wsMemberships)
           row == NewRow(w, a, "admin", 1, a)
           told == AnnounceAdded(wsMirror.memberships, row)
           facts == [status |-> "active", organisation |-> o]
<1>1. /\ workspaces[w].status = "absent"
      /\ AuthorisedOrganisationMutation(a, o)
      /\ workspaces' = [workspaces EXCEPT ![w] = facts]
      /\ wsMemberships' = Insert(wsMemberships, row)
      /\ wsMirror' = [wsMirror EXCEPT !.workspaces[w] = facts, !.memberships = AnnounceAdded(@, row)]
      /\ UNCHANGED orgVars
  BY DEF CreateWorkspace
<1>2. /\ row \in RowOf(Workspace, User, WsRole)
      /\ row.scope = w /\ row.user = a /\ row.by = a /\ row.active
  BY NewWsRowFacts DEF WsRole
<1>3. wsMirror' = [workspaces |-> [wsMirror.workspaces EXCEPT ![w] = facts], memberships |-> told]
  BY <1>1 DEF WsInv, WsTypeOK
<1>4. workspaces' \in WsFacts /\ wsMirror' = [workspaces |-> workspaces', memberships |-> told]
  BY <1>1, <1>3 DEF WsInv, WsTypeOK, WsMirrorAgrees, WsFacts, WsStatus
<1>5. \A v \in Workspace : /\ v # w => workspaces'[v] = workspaces[v]
                           /\ v = w => workspaces'[v].status = "active" /\ workspaces'[v].organisation = o
  BY <1>1 DEF WsInv, WsTypeOK, WsFacts
<1> HIDE DEF row, facts
<1>6. Current(wsMemberships, row.scope, row.user) = {}
  BY <1>1, <1>2 DEF WsInv, AbsentIsBare, Current
<1>7. told \in Seq(WsRecord) /\ Agree(wsMemberships', told)
  BY <1>1, <1>2, <1>6, WsTables, InsertKeepsAgreement DEF WsRecord
<1> HIDE DEF told
<1>8. /\ wsMemberships' \in Seq(WsRow)
      /\ n \in Nat /\ Len(wsMemberships') = n + 1
      /\ \A i \in 1..n : wsMemberships'[i] = wsMemberships[i]
      /\ wsMemberships'[n + 1] = row
  BY <1>1, <1>2, WsTables DEF Insert, WsRow
<1>9. Justified(memberships, o, row)
  <2>1. CASE a \in SystemAdmin
    BY <1>2, <2>1 DEF Justified
  <2>2. CASE a \notin SystemAdmin
    <3>1. RoleIn(memberships, o, a) # NoRole
      BY <1>1, <2>2 DEF AuthorisedOrganisationMutation, OrgRoleOf, CanAdminister, NoRole
    <3> QED BY <1>2, <3>1, RoleNeedsRow DEF Justified
  <2> QED BY <2>1, <2>2
<1>10. \A i \in 1..n : /\ wsMemberships[i].scope # w /\ wsMemberships[i].scope \in Workspace
                       /\ wsMemberships[i].active
                          => workspaces'[wsMemberships[i].scope].status = "active"
  BY <1>1, <1>5, WsTables DEF WsInv, AbsentIsBare
<1>11. \A i \in 1..(n + 1) : i > n => i = n + 1
  BY <1>8
<1>12. \A i \in 1..Len(wsMemberships') :
          i > n => /\ workspaces'[wsMemberships'[i].scope].status = "active"
                   /\ Justified(memberships, workspaces'[wsMemberships'[i].scope].organisation, wsMemberships'[i])
  BY <1>2, <1>5, <1>8, <1>9, <1>11
<1>13. /\ Len(wsMemberships') >= n
       /\ \A i \in 1..n : /\ wsMemberships'[i].scope = wsMemberships[i].scope
                          /\ wsMemberships'[i].user = wsMemberships[i].user
                          /\ wsMemberships'[i].by = wsMemberships[i].by
                          /\ wsMemberships'[i].active =>
                                wsMemberships[i].active /\ workspaces'[wsMemberships[i].scope].status = "active"
  BY <1>8, <1>10
<1>14. \A v \in Workspace : workspaces[v].status # "absent"
          => workspaces'[v].status # "absent" /\ workspaces'[v].organisation = workspaces[v].organisation
  BY <1>1, <1>5
<1> QED BY <1>1, <1>4, <1>7, <1>8, <1>12, <1>13, <1>14, WsTableStepInv

\* The target of a grant is, now, a member of the Workspace's Organisation.
LEMMA TargetIsJustified ==
    ASSUME NEW w, NEW u, ActiveWorkspaceTarget(w, u), NEW row, row.user = u
    PROVE  Justified(memberships, workspaces[w].organisation, row)
BY DEF ActiveWorkspaceTarget, Current, Justified

\* A mutation that leaves the Workspaces alone announces its rows only.
LEMMA WsMirrorOfRows ==
    ASSUME WsInv, UNCHANGED workspaces, NEW told,
           wsMirror' = [wsMirror EXCEPT !.memberships = told]
    PROVE  /\ workspaces' \in WsFacts
           /\ wsMirror' = [workspaces |-> workspaces', memberships |-> told]
           /\ \A v \in Workspace : workspaces[v].status # "absent"
                 => workspaces'[v].status # "absent" /\ workspaces'[v].organisation = workspaces[v].organisation
BY DEF WsInv, WsTypeOK, WsMirrorAgrees

LEMMA AddWorkspaceMemberInv ==
    ASSUME WsInv, NEW a \in User, NEW w \in Workspace, NEW u \in User, NEW role \in WsRole,
           AddWorkspaceMember(a, w, u, role)
    PROVE  WsInv'
<1> DEFINE n == Len(wsMemberships)
           row == NewRow(w, u, role, 1, a)
           told == AnnounceAdded(wsMirror.memberships, row)
<1>1. /\ workspaces[w].status = "active"
      /\ ActiveWorkspaceTarget(w, u)
      /\ Current(wsMemberships, w, u) = {}
      /\ wsMemberships' = Insert(wsMemberships, row)
      /\ wsMirror' = [wsMirror EXCEPT !.memberships = told]
      /\ UNCHANGED workspaces /\ UNCHANGED orgVars
  BY DEF AddWorkspaceMember, AuthorisedWorkspaceMutation, ProveWorkspaceScope, LiveScope,
         WsInv, WsTypeOK
<1>2. /\ row \in RowOf(Workspace, User, WsRole)
      /\ row.scope = w /\ row.user = u /\ row.by = a /\ row.active
  BY NewWsRowFacts
<1> HIDE DEF row
<1>3. told \in Seq(WsRecord) /\ Agree(wsMemberships', told)
  BY <1>1, <1>2, WsTables, InsertKeepsAgreement DEF WsRecord
<1> HIDE DEF told
<1>4. /\ wsMemberships' \in Seq(WsRow)
      /\ n \in Nat /\ Len(wsMemberships') = n + 1
      /\ \A i \in 1..n : wsMemberships'[i] = wsMemberships[i]
      /\ wsMemberships'[n + 1] = row
  BY <1>1, <1>2, WsTables DEF Insert, WsRow
<1>5. Justified(memberships, workspaces[w].organisation, row)
  BY <1>1, <1>2, TargetIsJustified
<1>6. \A i \in 1..(n + 1) : i > n => i = n + 1
  BY <1>4
<1>7. \A i \in 1..Len(wsMemberships') :
         i > n => /\ workspaces'[wsMemberships'[i].scope].status = "active"
                  /\ Justified(memberships, workspaces'[wsMemberships'[i].scope].organisation, wsMemberships'[i])
  BY <1>1, <1>2, <1>4, <1>5, <1>6
<1>8. /\ Len(wsMemberships') >= n
      /\ \A i \in 1..n : /\ wsMemberships'[i].scope = wsMemberships[i].scope
                         /\ wsMemberships'[i].user = wsMemberships[i].user
                         /\ wsMemberships'[i].by = wsMemberships[i].by
                         /\ wsMemberships'[i].active =>
                               wsMemberships[i].active /\ workspaces'[wsMemberships[i].scope].status = "active"
  BY <1>1, <1>4, WsTables
<1> QED BY <1>1, <1>3, <1>4, <1>7, <1>8, WsMirrorOfRows, WsTableStepInv

LEMMA ChangeWorkspaceMemberRoleInv ==
    ASSUME WsInv, NEW a \in User, NEW w \in Workspace, NEW u \in User, NEW role \in WsRole,
           ChangeWorkspaceMemberRole(a, w, u, role)
    PROVE  WsInv'
<1> DEFINE n == Len(wsMemberships)
<1>1. /\ workspaces[w].status = "active"
      /\ ActiveWorkspaceTarget(w, u)
      /\ UNCHANGED workspaces /\ UNCHANGED orgVars
  BY DEF ChangeWorkspaceMemberRole, AuthorisedWorkspaceMutation, ProveWorkspaceScope, LiveScope
<1>2. PICK k \in Current(wsMemberships, w, u) :
         /\ wsMemberships' = Insert(Retire(wsMemberships, {k}),
                                    NewRow(w, u, role, wsMemberships[k].version + 1, a))
         /\ wsMirror' = [wsMirror EXCEPT
                           !.memberships = AnnounceAdded(@, NewRow(w, u, role, wsMemberships[k].version + 1, a))]
  BY DEF ChangeWorkspaceMemberRole
<1> DEFINE row == NewRow(w, u, role, wsMemberships[k].version + 1, a)
           cut == Retire(wsMemberships, {k})
           told == AnnounceAdded(wsMirror.memberships, row)
<1>3. wsMirror' = [wsMirror EXCEPT !.memberships = told]
  BY <1>2 DEF WsInv, WsTypeOK
<1>4. wsMemberships[k].version + 1 \in Nat \ {0}
  <2>1. wsMemberships[k].version \in Nat \ {0}
    BY WsTables DEF Current
  <2> QED BY <2>1
<1>5. /\ row \in RowOf(Workspace, User, WsRole)
      /\ row.scope = w /\ row.user = u /\ row.by = a /\ row.active
  BY <1>4, NewWsRowFacts
<1>6. wsMemberships' = Insert(Retire(wsMemberships, {k}), row)
  BY <1>2
<1> HIDE DEF row
<1>7. /\ wsMemberships' \in Seq(WsRow)
      /\ told \in Seq(WsRecord)
      /\ Agree(wsMemberships', told)
  BY <1>5, <1>6, WsTables, ChangeKeepsAgreement DEF WsRow, WsRecord
<1>8. /\ cut \in Seq(RowOf(Workspace, User, WsRole)) /\ Len(cut) = n
      /\ \A i \in 1..n : /\ cut[i].scope = wsMemberships[i].scope
                         /\ cut[i].user = wsMemberships[i].user
                         /\ cut[i].by = wsMemberships[i].by
                         /\ cut[i].active => wsMemberships[i].active
  BY WsTables, RetireFacts
<1>9. wsMemberships' = Append(cut, row) /\ n \in Nat
  BY <1>6, WsTables DEF Insert
<1> HIDE DEF cut, told
<1>10. /\ Len(wsMemberships') = n + 1
       /\ \A i \in 1..n : wsMemberships'[i] = cut[i]
       /\ wsMemberships'[n + 1] = row
  BY <1>5, <1>8, <1>9
<1>11. Justified(memberships, workspaces[w].organisation, row)
  BY <1>1, <1>5, TargetIsJustified
<1>12. \A i \in 1..(n + 1) : i > n => i = n + 1
  BY <1>9
<1>13. \A i \in 1..Len(wsMemberships') :
          i > n => /\ workspaces'[wsMemberships'[i].scope].status = "active"
                   /\ Justified(memberships, workspaces'[wsMemberships'[i].scope].organisation, wsMemberships'[i])
  BY <1>1, <1>5, <1>10, <1>11, <1>12
<1>14. /\ Len(wsMemberships') >= n
       /\ \A i \in 1..n : /\ wsMemberships'[i].scope = wsMemberships[i].scope
                          /\ wsMemberships'[i].user = wsMemberships[i].user
                          /\ wsMemberships'[i].by = wsMemberships[i].by
                          /\ wsMemberships'[i].active =>
                                wsMemberships[i].active /\ workspaces'[wsMemberships[i].scope].status = "active"
  BY <1>1, <1>8, <1>9, <1>10, WsTables
<1> QED BY <1>1, <1>3, <1>7, <1>13, <1>14, WsMirrorOfRows, WsTableStepInv

LEMMA DeactivateWorkspaceMemberInv ==
    ASSUME WsInv, NEW a \in User, NEW w \in Workspace, NEW u \in User,
           DeactivateWorkspaceMember(a, w, u)
    PROVE  WsInv'
<1> DEFINE n == Len(wsMemberships)
           after(k) == Retire(wsMemberships, {k})
           told(k) == AnnounceEnded(wsMirror.memberships, after(k), {k})
<1>1. UNCHANGED workspaces /\ UNCHANGED orgVars
  BY DEF DeactivateWorkspaceMember
<1>2. PICK k \in Current(wsMemberships, w, u) :
         /\ wsMemberships' = after(k)
         /\ wsMirror' = [wsMirror EXCEPT !.memberships = told(k)]
  BY DEF DeactivateWorkspaceMember, WsInv, WsTypeOK
<1>3. told(k) \in Seq(WsRecord) /\ Agree(after(k), told(k))
  BY WsTables, RetireKeepsAgreement DEF WsRecord
<1>4. /\ after(k) \in Seq(WsRow) /\ Len(after(k)) = n /\ n \in Nat
      /\ \A i \in 1..n : /\ after(k)[i].scope = wsMemberships[i].scope
                         /\ after(k)[i].user = wsMemberships[i].user
                         /\ after(k)[i].by = wsMemberships[i].by
                         /\ after(k)[i].active => wsMemberships[i].active
  BY WsTables, RetireFacts DEF WsRow
<1> HIDE DEF after, told
<1>5. \A i \in 1..Len(wsMemberships') : ~(i > n)
  BY <1>2, <1>4
<1>6. /\ wsMemberships' \in Seq(WsRow) /\ Len(wsMemberships') >= n
      /\ Agree(wsMemberships', told(k))
      /\ \A i \in 1..n : /\ wsMemberships'[i].scope = wsMemberships[i].scope
                         /\ wsMemberships'[i].user = wsMemberships[i].user
                         /\ wsMemberships'[i].by = wsMemberships[i].by
                         /\ wsMemberships'[i].active =>
                               wsMemberships[i].active /\ workspaces'[wsMemberships[i].scope].status = "active"
  BY <1>1, <1>2, <1>3, <1>4, WsTables
<1> QED BY <1>1, <1>2, <1>3, <1>5, <1>6, WsMirrorOfRows, WsTableStepInv

LEMMA ArchiveWorkspaceInv ==
    ASSUME WsInv, NEW a \in User, NEW w \in Workspace, ArchiveWorkspace(a, w)
    PROVE  WsInv'
<1> DEFINE n == Len(wsMemberships)
           ended == ActiveIn(wsMemberships, w)
           after == Retire(wsMemberships, ended)
           told == AnnounceEnded(wsMirror.memberships, after, ended)
<1>1. /\ workspaces' = [workspaces EXCEPT ![w].status = "archived"]
      /\ wsMemberships' = after
      /\ wsMirror' = [wsMirror EXCEPT !.workspaces[w].status = "archived", !.memberships = told]
      /\ UNCHANGED orgVars
  BY DEF ArchiveWorkspace, WsInv, WsTypeOK
<1>2. told \in Seq(WsRecord) /\ Agree(after, told)
  BY WsTables, RetireKeepsAgreement DEF WsRecord
<1>3. /\ after \in Seq(WsRow) /\ Len(after) = n /\ n \in Nat
      /\ \A i \in 1..n : /\ after[i].scope = wsMemberships[i].scope
                         /\ after[i].user = wsMemberships[i].user
                         /\ after[i].by = wsMemberships[i].by
                         /\ after[i].active <=> (wsMemberships[i].active /\ i \notin ended)
  BY WsTables, RetireFacts DEF WsRow
<1> HIDE DEF after, told
<1>4. wsMirror' = [workspaces |-> [wsMirror.workspaces EXCEPT ![w].status = "archived"],
                   memberships |-> told]
  BY <1>1 DEF WsInv, WsTypeOK
<1>5. workspaces' \in WsFacts /\ wsMirror' = [workspaces |-> workspaces', memberships |-> told]
  <2>1. workspaces \in WsFacts /\ wsMirror.workspaces = workspaces
    BY DEF WsInv, WsTypeOK, WsMirrorAgrees
  <2>2. workspaces' = [workspaces EXCEPT ![w].status = "archived"]
    BY <1>1
  <2>3. workspaces' \in WsFacts
    BY <2>1, <2>2 DEF WsFacts, WsStatus
  <2> QED BY <1>4, <2>1, <2>2, <2>3
<1>6. \A v \in Workspace : /\ v # w => workspaces'[v] = workspaces[v]
                           /\ v = w => /\ workspaces'[v].status = "archived"
                                       /\ workspaces'[v].organisation = workspaces[v].organisation
  BY <1>1 DEF WsInv, WsTypeOK, WsFacts
<1>7. \A i \in 1..n : wsMemberships[i].scope = w => ~after[i].active
  BY <1>3 DEF ActiveIn
<1>8. \A i \in 1..Len(wsMemberships') : ~(i > n)
  BY <1>1, <1>3
<1>9. /\ wsMemberships' \in Seq(WsRow) /\ Len(wsMemberships') >= n
      /\ Agree(wsMemberships', told)
      /\ \A i \in 1..n : /\ wsMemberships'[i].scope = wsMemberships[i].scope
                         /\ wsMemberships'[i].user = wsMemberships[i].user
                         /\ wsMemberships'[i].by = wsMemberships[i].by
                         /\ wsMemberships'[i].active =>
                               wsMemberships[i].active /\ workspaces'[wsMemberships[i].scope].status = "active"
  BY <1>1, <1>2, <1>3, <1>6, <1>7, WsTables
<1>10. \A v \in Workspace : workspaces[v].status # "absent"
          => workspaces'[v].status # "absent" /\ workspaces'[v].organisation = workspaces[v].organisation
  BY <1>6
<1> QED BY <1>1, <1>2, <1>5, <1>8, <1>9, <1>10, WsTableStepInv

\* Every step keeps the invariant.
LEMMA WsNextInv == WsInv /\ [WsNext]_allWsVars => WsInv'
<1> SUFFICES ASSUME WsInv, [WsNext]_allWsVars PROVE WsInv'
  OBVIOUS
<1>1. CASE UNCHANGED allWsVars
  <2>1. UNCHANGED orgVars /\ UNCHANGED <<workspaces, wsMemberships, wsMirror>>
    BY <1>1 DEF allWsVars, wsVars
  <2>2. OrgInv' /\ memberships' = memberships
    BY <2>1, OrgNextInv DEF WsInv, orgVars
  <2> QED BY <2>1, <2>2 DEF WsInv, WsTypeOK, WsMirrorAgrees, AbsentIsBare, GrantsStayInOrganisation
<1>2. CASE OrgNext /\ UNCHANGED wsVars
  BY <1>2, OrgStepKeepsWsInv
<1>3. ASSUME NEW a \in User, NEW w \in Workspace, NEW o \in Organisation, CreateWorkspace(a, o, w)
      PROVE  WsInv'
  BY <1>3, CreateWorkspaceInv
<1>4. ASSUME NEW a \in User, NEW w \in Workspace, ArchiveWorkspace(a, w)
      PROVE  WsInv'
  BY <1>4, ArchiveWorkspaceInv
<1>5. ASSUME NEW a \in User, NEW w \in Workspace, NEW u \in User, NEW role \in WsRole,
             AddWorkspaceMember(a, w, u, role) \/ ChangeWorkspaceMemberRole(a, w, u, role)
      PROVE  WsInv'
  BY <1>5, AddWorkspaceMemberInv, ChangeWorkspaceMemberRoleInv
<1>6. ASSUME NEW a \in User, NEW w \in Workspace, NEW u \in User, DeactivateWorkspaceMember(a, w, u)
      PROVE  WsInv'
  BY <1>6, DeactivateWorkspaceMemberInv
<1> QED BY <1>1, <1>2, <1>3, <1>4, <1>5, <1>6 DEF WsNext, WsStep

\* The whole invariant, from which the theorems below are read off.
LEMMA WsInvariance == WsSpec => []WsInv
<1>1. WsInit => WsInv
  BY WsInitInv
<1>2. WsInv /\ [WsNext]_allWsVars => WsInv'
  BY WsNextInv
<1> QED BY <1>1, <1>2, PTL DEF WsSpec

\* Seen from Organisations, a Workspace mutation is no step at all.
LEMMA WsStepIsOrgStep ==
    ASSUME WsNext
    PROVE  OrgNext \/ UNCHANGED orgVars
<1>1. ASSUME NEW a, NEW w, NEW o, CreateWorkspace(a, o, w) PROVE UNCHANGED orgVars
  BY <1>1 DEF CreateWorkspace
<1>2. ASSUME NEW a, NEW w, ArchiveWorkspace(a, w) PROVE UNCHANGED orgVars
  BY <1>2 DEF ArchiveWorkspace
<1>3. ASSUME NEW a, NEW w, NEW u, NEW role,
             AddWorkspaceMember(a, w, u, role) \/ ChangeWorkspaceMemberRole(a, w, u, role)
      PROVE  UNCHANGED orgVars
  BY <1>3 DEF AddWorkspaceMember, ChangeWorkspaceMemberRole
<1>4. ASSUME NEW a, NEW w, NEW u, DeactivateWorkspaceMember(a, w, u) PROVE UNCHANGED orgVars
  BY <1>4 DEF DeactivateWorkspaceMember
<1> QED BY <1>1, <1>2, <1>3, <1>4 DEF WsNext, WsStep

\* Workspaces only adds to Organisations: with the Workspace tables hidden, every
\* behaviour is one of Organisations, so what is proved of OrgSpec holds here too.
THEOREM WorkspacesRefineOrganisations == WsSpec => OrgSpec
<1>1. WsInit => OrgInit
  BY DEF WsInit
<1>2. [WsNext]_allWsVars => [OrgNext]_orgVars
  BY WsStepIsOrgStep DEF allWsVars
<1> QED BY <1>1, <1>2, PTL DEF WsSpec, OrgSpec

\* The Workspace tables and the consumer's records of them always have their types
\* (workspace.go).
THEOREM WsTypeCorrect == WsSpec => []WsTypeOK
<1>1. WsInv => WsTypeOK
  BY DEF WsInv
<1> QED BY <1>1, WsInvariance, PTL

\* The events of workspace.go tell a consumer exactly what the Workspace tables
\* say, whatever happens to users and Organisations in between.
THEOREM WsMirrorAgreesAlways == WsSpec => []WsMirrorAgrees
<1>1. WsInv => WsMirrorAgrees
  BY DEF WsInv
<1> QED BY <1>1, WsInvariance, PTL

\* No path of workspace.go hands a Workspace role to somebody who never was a
\* member of the Organisation and did not create the Workspace as a system
\* administrator; an archived Workspace has no active membership.
THEOREM GrantsStayInOrganisationAlways == WsSpec => []GrantsStayInOrganisation
<1>1. WsInv => GrantsStayInOrganisation
  BY DEF WsInv
<1> QED BY <1>1, WsInvariance, PTL

(***************************************************************************)
(* What a step may do to the Workspace tables.                             *)
(***************************************************************************)
\* The Workspace and its Organisation are active.
Live(w) ==
    workspaces[w].status = "active" /\ organisations[workspaces[w].organisation].status = "active"

\* The rows before the step keep their scope, and a row that the step changes is
\* in a live Workspace and either of a reachable target or ended by archiving.
RowsTouched ==
    \A i \in 1..Len(wsMemberships) :
        /\ wsMemberships'[i].scope = wsMemberships[i].scope
        /\ wsMemberships'[i] # wsMemberships[i]
           => /\ Live(wsMemberships[i].scope)
              /\ \/ ActiveWorkspaceTarget(wsMemberships[i].scope, wsMemberships[i].user)
                 \/ workspaces'[wsMemberships[i].scope].status = "archived"

\* A row is added to a Workspace that is live or created by the step.
RowsAdded ==
    \A i \in 1..Len(wsMemberships') :
        i > Len(wsMemberships)
        => \/ workspaces[wsMemberships'[i].scope].status = "absent"
           \/ Live(wsMemberships'[i].scope)

\* A Workspace is created or, live, archived; it never goes away.
WorkspacesTouched ==
    \A w \in Workspace :
        workspaces'[w] # workspaces[w]
        => /\ workspaces[w].status = "absent" \/ Live(w)
           /\ workspaces'[w].status # "absent"

\* Every mutation of workspace.go but the creation proves a live scope first.
LEMMA MutationNeedsLiveScope ==
    ASSUME NEW a, NEW w, NEW allow, AuthorisedWorkspaceMutation(a, w, allow)
    PROVE  Live(w)
BY DEF AuthorisedWorkspaceMutation, ProveWorkspaceScope, LiveScope, Live

\* A row changed by retiring ids is one of ids.
LEMMA RetireTouches ==
    ASSUME WsInv, NEW ids
    PROVE  /\ Retire(wsMemberships, ids) \in Seq(RowOf(Workspace, User, WsRole))
           /\ Len(Retire(wsMemberships, ids)) = Len(wsMemberships)
           /\ \A i \in 1..Len(wsMemberships) :
                 /\ Retire(wsMemberships, ids)[i].scope = wsMemberships[i].scope
                 /\ Retire(wsMemberships, ids)[i] # wsMemberships[i] => i \in ids
BY WsTables, RetireFacts

\* No step touches the tables of a Workspace otherwise.
LEMMA StepTouches ==
    ASSUME WsInv, WsNext
    PROVE  /\ Len(wsMemberships') >= Len(wsMemberships)
           /\ RowsTouched /\ RowsAdded /\ WorkspacesTouched
<1> DEFINE n == Len(wsMemberships)
           Goal == Len(wsMemberships') >= n /\ RowsTouched /\ RowsAdded /\ WorkspacesTouched
<1>0. wsMemberships \in Seq(RowOf(Workspace, User, WsRole)) /\ n \in Nat
  BY WsTables
<1>1. CASE UNCHANGED wsVars
  BY <1>0, <1>1 DEF wsVars, RowsTouched, RowsAdded, WorkspacesTouched
<1>2. ASSUME NEW a \in User, NEW w \in Workspace, NEW o \in Organisation, CreateWorkspace(a, o, w)
      PROVE  Goal
  <2> DEFINE row == NewRow(w, a, "admin", 1, a)
             facts == [status |-> "active", organisation |-> o]
  <2>1. /\ workspaces[w].status = "absent"
        /\ wsMemberships' = Append(wsMemberships, row)
        /\ workspaces' = [workspaces EXCEPT ![w] = facts]
    BY <1>2 DEF CreateWorkspace, Insert
  <2>2. row \in RowOf(Workspace, User, WsRole) /\ row.scope = w
    BY NewWsRowFacts DEF WsRole
  <2> HIDE DEF row, facts
  <2>3. /\ Len(wsMemberships') = n + 1 /\ wsMemberships'[n + 1] = row
        /\ \A i \in 1..n : wsMemberships'[i] = wsMemberships[i]
    BY <1>0, <2>1, <2>2
  <2>4. WorkspacesTouched
    <3>1. \A v \in Workspace : workspaces'[v] # workspaces[v] => v = w /\ workspaces'[v] = facts
      BY <2>1 DEF WsInv, WsTypeOK, WsFacts
    <3>2. facts.status # "absent"
      BY DEF facts
    <3> QED BY <2>1, <3>1, <3>2 DEF WorkspacesTouched
  <2>5. RowsTouched
    BY <2>3 DEF RowsTouched
  <2>6. RowsAdded
    BY <1>0, <2>1, <2>2, <2>3 DEF RowsAdded
  <2> QED BY <1>0, <2>3, <2>4, <2>5, <2>6
<1>3. ASSUME NEW a \in User, NEW w \in Workspace, ArchiveWorkspace(a, w)
      PROVE  Goal
  <2>1. /\ Live(w)
        /\ workspaces' = [workspaces EXCEPT ![w].status = "archived"]
        /\ wsMemberships' = Retire(wsMemberships, ActiveIn(wsMemberships, w))
    BY <1>3, MutationNeedsLiveScope DEF ArchiveWorkspace
  <2>2. /\ \A v \in Workspace : v # w => workspaces'[v] = workspaces[v]
        /\ workspaces'[w].status = "archived"
    BY <2>1 DEF WsInv, WsTypeOK, WsFacts
  <2>3. /\ Len(wsMemberships') = n
        /\ \A i \in 1..n : /\ wsMemberships'[i].scope = wsMemberships[i].scope
                           /\ wsMemberships'[i] # wsMemberships[i] => wsMemberships[i].scope = w
    BY <2>1, RetireTouches DEF ActiveIn
  <2>4. RowsTouched
    BY <2>1, <2>2, <2>3 DEF RowsTouched
  <2>5. RowsAdded
    BY <1>0, <2>3 DEF RowsAdded
  <2>6. WorkspacesTouched
    BY <2>1, <2>2 DEF WorkspacesTouched
  <2> QED BY <1>0, <2>3, <2>4, <2>5, <2>6
<1>4. ASSUME NEW a \in User, NEW w \in Workspace, NEW u \in User, NEW role \in WsRole,
             AddWorkspaceMember(a, w, u, role)
      PROVE  Goal
  <2> DEFINE row == NewRow(w, u, role, 1, a)
  <2>1. Live(w) /\ wsMemberships' = Append(wsMemberships, row) /\ UNCHANGED workspaces
    BY <1>4, MutationNeedsLiveScope DEF AddWorkspaceMember, Insert
  <2>2. row \in RowOf(Workspace, User, WsRole) /\ row.scope = w
    BY NewWsRowFacts
  <2> HIDE DEF row
  <2>3. /\ Len(wsMemberships') = n + 1 /\ wsMemberships'[n + 1] = row
        /\ \A i \in 1..n : wsMemberships'[i] = wsMemberships[i]
    BY <1>0, <2>1, <2>2
  <2>4. RowsTouched /\ WorkspacesTouched
    BY <2>1, <2>3 DEF RowsTouched, WorkspacesTouched
  <2>5. RowsAdded
    BY <1>0, <2>1, <2>2, <2>3 DEF RowsAdded
  <2> QED BY <1>0, <2>3, <2>4, <2>5
<1>5. ASSUME NEW a \in User, NEW w \in Workspace, NEW u \in User, NEW role \in WsRole,
             ChangeWorkspaceMemberRole(a, w, u, role)
      PROVE  Goal
  <2>1. PICK k \in Current(wsMemberships, w, u) :
           wsMemberships' = Append(Retire(wsMemberships, {k}),
                                   NewRow(w, u, role, wsMemberships[k].version + 1, a))
    BY <1>5 DEF ChangeWorkspaceMemberRole, Insert
  <2>2. Live(w) /\ ActiveWorkspaceTarget(w, u) /\ UNCHANGED workspaces
    BY <1>5, MutationNeedsLiveScope DEF ChangeWorkspaceMemberRole
  <2> DEFINE row == NewRow(w, u, role, wsMemberships[k].version + 1, a)
             cut == Retire(wsMemberships, {k})
  <2>3. wsMemberships[k].version + 1 \in Nat \ {0} /\ k \in 1..n
    <3>1. k \in 1..n /\ wsMemberships[k].version \in Nat \ {0}
      BY WsTables DEF Current
    <3> QED BY <3>1
  <2>4. row \in RowOf(Workspace, User, WsRole) /\ row.scope = w
    BY <2>3, NewWsRowFacts
  <2>5. /\ cut \in Seq(RowOf(Workspace, User, WsRole)) /\ Len(cut) = n
        /\ \A i \in 1..n : /\ cut[i].scope = wsMemberships[i].scope
                           /\ cut[i] # wsMemberships[i] => i = k
    BY RetireTouches
  <2>6. wsMemberships' = Append(cut, row)
    BY <2>1
  <2> HIDE DEF row, cut
  <2>7. /\ Len(wsMemberships') = n + 1 /\ wsMemberships'[n + 1] = row
        /\ \A i \in 1..n : wsMemberships'[i] = cut[i]
    BY <1>0, <2>4, <2>5, <2>6
  <2>8. RowsTouched
    BY <2>2, <2>5, <2>7 DEF RowsTouched, Current
  <2>9. RowsAdded
    BY <1>0, <2>2, <2>4, <2>7 DEF RowsAdded
  <2>10. WorkspacesTouched
    BY <2>2 DEF WorkspacesTouched
  <2> QED BY <1>0, <2>7, <2>8, <2>9, <2>10
<1>6. ASSUME NEW a \in User, NEW w \in Workspace, NEW u \in User, DeactivateWorkspaceMember(a, w, u)
      PROVE  Goal
  <2>1. PICK k \in Current(wsMemberships, w, u) : wsMemberships' = Retire(wsMemberships, {k})
    BY <1>6 DEF DeactivateWorkspaceMember
  <2>2. Live(w) /\ ActiveWorkspaceTarget(w, u) /\ UNCHANGED workspaces
    BY <1>6, MutationNeedsLiveScope DEF DeactivateWorkspaceMember
  <2>3. /\ Len(wsMemberships') = n
        /\ \A i \in 1..n : /\ wsMemberships'[i].scope = wsMemberships[i].scope
                           /\ wsMemberships'[i] # wsMemberships[i] => i = k
    BY <2>1, RetireTouches
  <2>4. RowsTouched
    BY <2>2, <2>3 DEF RowsTouched, Current
  <2>5. RowsAdded /\ WorkspacesTouched
    BY <1>0, <2>2, <2>3 DEF RowsAdded, WorkspacesTouched
  <2> QED BY <1>0, <2>3, <2>4, <2>5
<1> QED BY <1>1, <1>2, <1>3, <1>4, <1>5, <1>6 DEF WsNext, WsStep

\* The mutations of workspace.go refuse a target who is inactive or outside the
\* Organisation, so his membership outlives everything but the archiving of the
\* Workspace.
THEOREM DormantMembershipsStayAlways == WsSpec => DormantMembershipsStay
<1> DEFINE Stay ==
      \A i \in 1..Len(wsMemberships) :
          LET row == wsMemberships[i] IN
          (row.active /\ ~ActiveWorkspaceTarget(row.scope, row.user))
          => \/ wsMemberships'[i] = row
             \/ workspaces'[row.scope].status = "archived"
<1>1. WsInv /\ [WsNext]_allWsVars => [Stay]_allWsVars
  BY StepTouches DEF RowsTouched
<1> QED BY <1>1, WsInvariance, PTL DEF WsSpec, DormantMembershipsStay

\* After ArchiveOrganisation no step proves a scope in the Organisation again: the
\* Workspaces it had and all their rows stay exactly as they are.
THEOREM ArchivedOrganisationFreezesWorkspacesAlways ==
    WsSpec => ArchivedOrganisationFreezesWorkspaces
<1> DEFINE Frozen ==
      \A w \in Workspace :
          (/\ workspaces[w].status # "absent"
           /\ organisations[workspaces[w].organisation].status = "archived")
          => /\ workspaces'[w] = workspaces[w]
             /\ \A i \in 1..Len(wsMemberships') :
                   wsMemberships'[i].scope = w
                   => i <= Len(wsMemberships) /\ wsMemberships'[i] = wsMemberships[i]
<1>1. WsInv /\ [WsNext]_allWsVars => [Frozen]_allWsVars
  <2> SUFFICES ASSUME WsInv, WsNext, NEW w \in Workspace,
                      workspaces[w].status # "absent",
                      organisations[workspaces[w].organisation].status = "archived"
               PROVE  /\ workspaces'[w] = workspaces[w]
                      /\ \A i \in 1..Len(wsMemberships') :
                            wsMemberships'[i].scope = w
                            => i <= Len(wsMemberships) /\ wsMemberships'[i] = wsMemberships[i]
    OBVIOUS
  <2>1. ~Live(w)
    BY DEF Live
  <2>2. workspaces'[w] = workspaces[w]
    BY <2>1, StepTouches DEF WorkspacesTouched
  <2>3. ASSUME NEW i \in 1..Len(wsMemberships'), wsMemberships'[i].scope = w
        PROVE  i <= Len(wsMemberships) /\ wsMemberships'[i] = wsMemberships[i]
    <3>1. i \in Nat /\ i >= 1 /\ Len(wsMemberships) \in Nat
      BY WsTables
    <3>2. ~(i > Len(wsMemberships))
      BY <2>1, <2>3, StepTouches DEF RowsAdded
    <3>3. i \in 1..Len(wsMemberships)
      BY <3>1, <3>2
    <3> QED BY <2>1, <2>3, <3>1, <3>2, <3>3, StepTouches DEF RowsTouched
  <2> QED BY <2>2, <2>3
<1> QED BY <1>1, WsInvariance, PTL DEF WsSpec, ArchivedOrganisationFreezesWorkspaces
=============================================================================
