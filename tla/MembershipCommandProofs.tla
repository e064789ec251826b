------------------------ MODULE MembershipCommandProofs ------------------------
(***************************************************************************)
(* Membership commands among browser mutations, for any users, scopes,     *)
(* keys and requests.                                                      *)
(*                                                                         *)
(* A command is a mutation of Workspaces or Organisations, so what is      *)
(* proved of those holds of the whole composition.  The properties of the  *)
(* commands rest on two facts about the membership tables that no mutation *)
(* breaks: rows stay, with their versions (Evolves), and in the history of *)
(* one user in one scope the version grows from row to row except where it *)
(* starts at 1 again (VersionsGrow).                                       *)
(***************************************************************************)
EXTENDS MembershipCommand, WorkspacesProofs

(***************************************************************************)
(* How a membership table evolves                                          *)
(***************************************************************************)
RowsStay(t, u) ==
    /\ Len(t) \in Nat /\ Len(u) \in Nat /\ Len(t) <= Len(u)
    /\ \A i \in 1..Len(t) : /\ u[i].scope = t[i].scope /\ u[i].user = t[i].user
                            /\ u[i].role = t[i].role /\ u[i].version = t[i].version
                            /\ u[i].active => t[i].active

\* A row that is added starts at version 1 or goes on from the current row.
RowsGoOn(t, u) ==
    \A i \in 1..Len(u) :
        i > Len(t) => /\ i = Len(t) + 1
                      /\ \/ u[i].version = 1
                         \/ \E k \in Current(t, u[i].scope, u[i].user) :
                               u[i].version = t[k].version + 1

Evolves(t, u) == RowsStay(t, u) /\ RowsGoOn(t, u)

SameLane(t, i, j) == t[i].scope = t[j].scope /\ t[i].user = t[j].user

\* Between two rows of one user in one scope with no version 1 after the first, the
\* version grows.
VersionsGrow(t) ==
    \A i, j \in 1..Len(t) :
        i < j /\ SameLane(t, i, j)
        => \/ t[i].version < t[j].version
           \/ \E k \in (i + 1)..j : SameLane(t, k, j) /\ t[k].version = 1

\* The active row of a user in a scope is the last one.
ActiveIsLast(t) ==
    \A i, j \in 1..Len(t) : t[i].active /\ SameLane(t, i, j) => j <= i

\* A table evolves by not changing, by an inserted row of version 1, by ended rows
\* and by a row that replaces the current one.
LEMMA TableStays ==
    ASSUME NEW S, NEW U, NEW R, NEW t \in Seq(RowOf(S, U, R))
    PROVE  Evolves(t, t)
BY DEF Evolves, RowsStay, RowsGoOn

LEMMA InsertEvolves ==
    ASSUME NEW S, NEW U, NEW R, NEW t \in Seq(RowOf(S, U, R)),
           NEW row \in RowOf(S, U, R), row.version = 1
    PROVE  Evolves(t, Insert(t, row))
<1> DEFINE u == Insert(t, row)
<1>1. /\ Len(t) \in Nat /\ Len(u) = Len(t) + 1
      /\ \A i \in 1..Len(t) : u[i] = t[i]
      /\ u[Len(t) + 1] = row
  BY DEF Insert
<1> HIDE DEF u
<1>2. RowsStay(t, u)
  BY <1>1 DEF RowsStay
<1>3. RowsGoOn(t, u)
  BY <1>1 DEF RowsGoOn
<1> QED BY <1>2, <1>3 DEF Evolves, u

LEMMA RetireEvolves ==
    ASSUME NEW S, NEW U, NEW R, NEW t \in Seq(RowOf(S, U, R)), NEW ids
    PROVE  Evolves(t, Retire(t, ids))
<1> DEFINE u == Retire(t, ids)
<1>1. /\ Len(t) \in Nat /\ Len(u) = Len(t)
      /\ \A i \in 1..Len(t) :
            /\ u[i].scope = t[i].scope /\ u[i].user = t[i].user /\ u[i].role = t[i].role
            /\ u[i].version = t[i].version
            /\ u[i].active <=> (t[i].active /\ i \notin ids)
  BY RetireFacts
<1> HIDE DEF u
<1> QED BY <1>1 DEF Evolves, RowsStay, RowsGoOn, u

LEMMA ChangeEvolves ==
    ASSUME NEW S, NEW U, NEW R, NEW t \in Seq(RowOf(S, U, R)),
           NEW row \in RowOf(S, U, R), NEW k \in Current(t, row.scope, row.user),
           row.version = t[k].version + 1
    PROVE  /\ Evolves(t, Insert(Retire(t, {k}), row))
           /\ Len(Insert(Retire(t, {k}), row)) = Len(t) + 1
           /\ Insert(Retire(t, {k}), row)[Len(t) + 1] = row
<1> DEFINE cut == Retire(t, {k})
           u == Insert(cut, row)
<1>1. /\ cut \in Seq(RowOf(S, U, R)) /\ Len(t) \in Nat /\ Len(cut) = Len(t)
      /\ \A i \in 1..Len(t) :
            /\ cut[i].scope = t[i].scope /\ cut[i].user = t[i].user /\ cut[i].role = t[i].role
            /\ cut[i].version = t[i].version
            /\ cut[i].active => t[i].active
  BY RetireFacts
<1> HIDE DEF cut
<1>2. /\ Len(u) = Len(t) + 1
      /\ \A i \in 1..Len(t) : u[i] = cut[i]
      /\ u[Len(t) + 1] = row
  BY <1>1 DEF Insert
<1> HIDE DEF u
<1>3. RowsStay(t, u)
  BY <1>1, <1>2 DEF RowsStay
<1>4. RowsGoOn(t, u)
  BY <1>1, <1>2 DEF RowsGoOn
<1> QED BY <1>2, <1>3, <1>4 DEF Evolves, u, cut

\* The consumer's records agree with the table, so an active row is the last of its
\* user in its scope.
LEMMA AgreeingActiveIsLast ==
    ASSUME NEW S, NEW U, NEW R, NEW t \in Seq(RowOf(S, U, R)),
           NEW view \in Seq(RecordOf(S, U, R)), Agree(t, view)
    PROVE  ActiveIsLast(t)
<1> SUFFICES ASSUME NEW i \in 1..Len(t), NEW j \in 1..Len(t), t[i].active, SameLane(t, i, j), ~(j <= i)
             PROVE  FALSE
  BY DEF ActiveIsLast
<1>1. j > i
  OBVIOUS
<1>2. /\ DOMAIN view = 1..Len(t) /\ ~Superseded(view, i)
      /\ view[i].scope = t[i].scope /\ view[i].user = t[i].user
      /\ view[j].scope = t[j].scope /\ view[j].user = t[j].user
  BY DEF Agree
<1> QED BY <1>1, <1>2 DEF Superseded, SameLane

\* Versions go on growing as the table evolves.
LEMMA VersionsGoOnGrowing ==
    ASSUME NEW S, NEW U, NEW R, NEW t \in Seq(RowOf(S, U, R)), NEW u \in Seq(RowOf(S, U, R)),
           Evolves(t, u), VersionsGrow(t), ActiveIsLast(t)
    PROVE  VersionsGrow(u)
<1> SUFFICES ASSUME NEW i \in 1..Len(u), NEW j \in 1..Len(u), i < j, SameLane(u, i, j)
             PROVE  \/ u[i].version < u[j].version
                    \/ \E k \in (i + 1)..j : SameLane(u, k, j) /\ u[k].version = 1
  BY DEF VersionsGrow
<1>1. /\ Len(t) \in Nat /\ Len(u) \in Nat /\ Len(t) <= Len(u)
      /\ \A k \in 1..Len(t) : /\ u[k].scope = t[k].scope /\ u[k].user = t[k].user
                              /\ u[k].version = t[k].version
  BY DEF Evolves, RowsStay
<1>2. \A k \in 1..Len(t) : t[k].version \in Nat
  <2>1. \A k \in 1..Len(t) : t[k] \in RowOf(S, U, R)
    OBVIOUS
  <2> QED BY <2>1 DEF RowOf
<1>3. ASSUME NEW m \in 1..Len(t), i < m, m <= j, SameLane(u, i, m), SameLane(u, m, j)
      PROVE  \/ u[i].version < t[m].version
             \/ \E k \in (i + 1)..j : SameLane(u, k, j) /\ u[k].version = 1
  <2>1. i \in 1..Len(t) /\ SameLane(t, i, m)
    <3>1. i \in 1..Len(t)
      BY <1>1, <1>3
    <3> QED BY <1>1, <1>3, <3>1 DEF SameLane
  <2>2. \/ t[i].version < t[m].version
        \/ \E k \in (i + 1)..m : SameLane(t, k, m) /\ t[k].version = 1
    BY <1>3, <2>1 DEF VersionsGrow
  <2>3. ASSUME NEW k \in (i + 1)..m, SameLane(t, k, m), t[k].version = 1
        PROVE  k \in (i + 1)..j /\ SameLane(u, k, j) /\ u[k].version = 1
    <3>1. k \in 1..Len(t) /\ k \in (i + 1)..j
      BY <1>1, <1>3, <2>1
    <3> QED BY <1>1, <1>3, <2>3, <3>1 DEF SameLane
  <2> QED BY <1>1, <2>1, <2>2, <2>3
<1>4. CASE j \in 1..Len(t)
  BY <1>1, <1>3, <1>4 DEF SameLane
<1>5. CASE j \notin 1..Len(t)
  <2>1. j = Len(t) + 1 /\ i \in 1..Len(t)
    BY <1>1, <1>5 DEF Evolves, RowsGoOn
  <2>2. CASE u[j].version = 1
    BY <2>1, <2>2 DEF SameLane
  <2>3. ASSUME NEW k \in Current(t, u[j].scope, u[j].user), u[j].version = t[k].version + 1
        PROVE  \/ u[i].version < u[j].version
               \/ \E m \in (i + 1)..j : SameLane(u, m, j) /\ u[m].version = 1
    <3>1. k \in 1..Len(t) /\ t[k].active /\ t[k].scope = u[j].scope /\ t[k].user = u[j].user
      BY <2>3 DEF Current
    <3>2. i <= k
      BY <1>1, <2>1, <3>1 DEF ActiveIsLast, SameLane
    <3>3. CASE i = k
      BY <1>1, <1>2, <2>1, <2>3, <3>3
    <3>4. CASE i < k
      <4>1. \/ u[i].version < t[k].version
            \/ \E m \in (i + 1)..j : SameLane(u, m, j) /\ u[m].version = 1
        BY <1>1, <1>3, <2>1, <3>1, <3>4 DEF SameLane
      <4> QED BY <1>1, <1>2, <2>1, <2>3, <3>1, <4>1
    <3> QED BY <2>1, <3>1, <3>2, <3>3, <3>4
  <2> QED BY <1>1, <1>5, <2>1, <2>2, <2>3 DEF Evolves, RowsGoOn
<1> QED BY <1>4, <1>5

(***************************************************************************)
(* The two tables evolve                                                   *)
(***************************************************************************)
\* What the invariant says of the two tables.
LEMMA Tables ==
    ASSUME WsInv
    PROVE  /\ memberships \in Seq(RowOf(Organisation, User, OrgRole))
           /\ wsMemberships \in Seq(RowOf(Workspace, User, WsRole))
           /\ AtMostOneCurrent(memberships) /\ AtMostOneCurrent(wsMemberships)
           /\ ActiveIsLast(memberships) /\ ActiveIsLast(wsMemberships)
<1>1. /\ wsMemberships \in Seq(RowOf(Workspace, User, WsRole))
      /\ wsMirror.memberships \in Seq(RecordOf(Workspace, User, WsRole))
      /\ Agree(wsMemberships, wsMirror.memberships)
  BY WsTables
<1>2. /\ memberships \in Seq(RowOf(Organisation, User, OrgRole))
      /\ mirror.memberships \in Seq(RecordOf(Organisation, User, OrgRole))
      /\ Agree(memberships, mirror.memberships)
  BY DEF WsInv, OrgInv, OrgTypeOK, OrgRow, OrgRecord, MirrorAgrees
<1> QED BY <1>1, <1>2, AgreeFacts, AgreeingActiveIsLast

LEMMA OrgTableEvolves ==
    ASSUME WsInv, OrgNext
    PROVE  Evolves(memberships, memberships')
<1>1. memberships \in Seq(RowOf(Organisation, User, OrgRole))
  BY Tables
<1>2. \A k \in 1..Len(memberships) : memberships[k].version + 1 \in Nat \ {0}
  <2>1. \A k \in 1..Len(memberships) : memberships[k] \in RowOf(Organisation, User, OrgRole)
    BY <1>1
  <2> QED BY <2>1 DEF RowOf
<1>3. ASSUME NEW u \in User, NEW status \in {"active", "inactive"},
             CreateUser(u, status) \/ SetUserActive(u, status)
      PROVE  Evolves(memberships, memberships')
  <2>1. memberships' = memberships
    BY <1>3 DEF CreateUser, SetUserActive
  <2> QED BY <1>1, <2>1, TableStays
<1>4. ASSUME NEW a \in User, NEW o \in Organisation, NEW name \in Name,
             CreateOrganisation(a, o, name)
      PROVE  Evolves(memberships, memberships')
  <2> DEFINE row == NewRow(o, a, "owner", 1, a)
  <2>1. memberships' = Insert(memberships, row)
    BY <1>4 DEF CreateOrganisation
  <2>2. row \in RowOf(Organisation, User, OrgRole) /\ row.version = 1
    BY DEF NewRow, RowOf, OrgRole
  <2> HIDE DEF row
  <2> QED BY <1>1, <2>1, <2>2, InsertEvolves
<1>5. ASSUME NEW a \in User, NEW o \in Organisation, NEW name \in Name,
             RenameOrganisation(a, o, name)
      PROVE  Evolves(memberships, memberships')
  <2>1. memberships' = memberships
    BY <1>5 DEF RenameOrganisation
  <2> QED BY <1>1, <2>1, TableStays
<1>6. ASSUME NEW a \in User, NEW o \in Organisation, ArchiveOrganisation(a, o)
      PROVE  Evolves(memberships, memberships')
  <2>1. memberships' = Retire(memberships, ActiveIn(memberships, o))
    BY <1>6 DEF ArchiveOrganisation
  <2> QED BY <1>1, <2>1, RetireEvolves
<1>7. ASSUME NEW a \in User, NEW o \in Organisation, NEW u \in User, NEW role \in OrgRole,
             AddOrganisationMember(a, o, u, role)
      PROVE  Evolves(memberships, memberships')
  <2> DEFINE row == NewRow(o, u, role, 1, a)
  <2>1. memberships' = Insert(memberships, row)
    BY <1>7 DEF AddOrganisationMember
  <2>2. row \in RowOf(Organisation, User, OrgRole) /\ row.version = 1
    BY DEF NewRow, RowOf
  <2> HIDE DEF row
  <2> QED BY <1>1, <2>1, <2>2, InsertEvolves
<1>8. ASSUME NEW a \in User, NEW o \in Organisation, NEW u \in User, NEW role \in OrgRole,
             ChangeOrganisationMemberRole(a, o, u, role)
      PROVE  Evolves(memberships, memberships')
  <2>1. PICK i \in Current(memberships, o, u) :
           memberships' = Insert(Retire(memberships, {i}),
                                 NewRow(o, u, role, memberships[i].version + 1, a))
    BY <1>8 DEF ChangeOrganisationMemberRole
  <2> DEFINE row == NewRow(o, u, role, memberships[i].version + 1, a)
  <2>2. i \in 1..Len(memberships)
    BY DEF Current
  <2>3. /\ row \in RowOf(Organisation, User, OrgRole) /\ row.scope = o /\ row.user = u
        /\ row.version = memberships[i].version + 1
    BY <1>2, <2>2 DEF NewRow, RowOf
  <2> HIDE DEF row
  <2> QED BY <1>1, <2>1, <2>3, ChangeEvolves DEF row
<1>9. ASSUME NEW a \in User, NEW o \in Organisation, NEW u \in User,
             DeactivateOrganisationMember(a, o, u)
      PROVE  Evolves(memberships, memberships')
  <2>1. PICK i : memberships' = Retire(memberships, {i})
    BY <1>9 DEF DeactivateOrganisationMember
  <2> QED BY <1>1, <2>1, RetireEvolves
<1> QED BY <1>3, <1>4, <1>5, <1>6, <1>7, <1>8, <1>9 DEF OrgNext

LEMMA WsTableEvolves ==
    ASSUME WsInv, WsStep
    PROVE  Evolves(wsMemberships, wsMemberships')
<1>1. wsMemberships \in Seq(RowOf(Workspace, User, WsRole))
  BY Tables
<1>2. \A k \in 1..Len(wsMemberships) : wsMemberships[k].version + 1 \in Nat \ {0}
  <2>1. \A k \in 1..Len(wsMemberships) : wsMemberships[k] \in RowOf(Workspace, User, WsRole)
    BY <1>1
  <2> QED BY <2>1 DEF RowOf
<1>3. ASSUME NEW a \in User, NEW w \in Workspace, NEW o \in Organisation, CreateWorkspace(a, o, w)
      PROVE  Evolves(wsMemberships, wsMemberships')
  <2> DEFINE row == NewRow(w, a, "admin", 1, a)
  <2>1. wsMemberships' = Insert(wsMemberships, row)
    BY <1>3 DEF CreateWorkspace
  <2>2. row \in RowOf(Workspace, User, WsRole) /\ row.version = 1
    BY DEF NewRow, RowOf, WsRole
  <2> HIDE DEF row
  <2> QED BY <1>1, <2>1, <2>2, InsertEvolves
<1>4. ASSUME NEW a \in User, NEW w \in Workspace, ArchiveWorkspace(a, w)
      PROVE  Evolves(wsMemberships, wsMemberships')
  <2>1. wsMemberships' = Retire(wsMemberships, ActiveIn(wsMemberships, w))
    BY <1>4 DEF ArchiveWorkspace
  <2> QED BY <1>1, <2>1, RetireEvolves
<1>5. ASSUME NEW a \in User, NEW w \in Workspace, NEW u \in User, NEW role \in WsRole,
             AddWorkspaceMember(a, w, u, role)
      PROVE  Evolves(wsMemberships, wsMemberships')
  <2> DEFINE row == NewRow(w, u, role, 1, a)
  <2>1. wsMemberships' = Insert(wsMemberships, row)
    BY <1>5 DEF AddWorkspaceMember
  <2>2. row \in RowOf(Workspace, User, WsRole) /\ row.version = 1
    BY DEF NewRow, RowOf
  <2> HIDE DEF row
  <2> QED BY <1>1, <2>1, <2>2, InsertEvolves
<1>6. ASSUME NEW a \in User, NEW w \in Workspace, NEW u \in User, NEW role \in WsRole,
             ChangeWorkspaceMemberRole(a, w, u, role)
      PROVE  Evolves(wsMemberships, wsMemberships')
  <2>1. PICK i \in Current(wsMemberships, w, u) :
           wsMemberships' = Insert(Retire(wsMemberships, {i}),
                                   NewRow(w, u, role, wsMemberships[i].version + 1, a))
    BY <1>6 DEF ChangeWorkspaceMemberRole
  <2> DEFINE row == NewRow(w, u, role, wsMemberships[i].version + 1, a)
  <2>2. i \in 1..Len(wsMemberships)
    BY DEF Current
  <2>3. /\ row \in RowOf(Workspace, User, WsRole) /\ row.scope = w /\ row.user = u
        /\ row.version = wsMemberships[i].version + 1
    BY <1>2, <2>2 DEF NewRow, RowOf
  <2> HIDE DEF row
  <2> QED BY <1>1, <2>1, <2>3, ChangeEvolves DEF row
<1>7. ASSUME NEW a \in User, NEW w \in Workspace, NEW u \in User,
             DeactivateWorkspaceMember(a, w, u)
      PROVE  Evolves(wsMemberships, wsMemberships')
  <2>1. PICK i : wsMemberships' = Retire(wsMemberships, {i})
    BY <1>7 DEF DeactivateWorkspaceMember
  <2> QED BY <1>1, <2>1, RetireEvolves
<1> QED BY <1>3, <1>4, <1>5, <1>6, <1>7 DEF WsStep

\* Every step of the store, for both tables.
LEMMA TablesEvolve ==
    ASSUME WsInv, [WsNext]_allWsVars
    PROVE  Evolves(memberships, memberships') /\ Evolves(wsMemberships, wsMemberships')
<1>1. /\ memberships' = memberships => Evolves(memberships, memberships')
      /\ wsMemberships' = wsMemberships => Evolves(wsMemberships, wsMemberships')
  BY Tables, TableStays
<1>2. Evolves(memberships, memberships')
  <2>1. OrgNext \/ UNCHANGED orgVars
    BY WsStepIsOrgStep DEF allWsVars
  <2> QED BY <1>1, <2>1, OrgTableEvolves DEF orgVars
<1>3. Evolves(wsMemberships, wsMemberships')
  BY <1>1, WsTableEvolves DEF WsNext, allWsVars, wsVars
<1> QED BY <1>2, <1>3

(***************************************************************************)
(* Commands are mutations of the store                                     *)
(***************************************************************************)
\* A request names a scope of its kind, a user and, unless it removes, a role of
\* the scope (ValidateRequest).
InScope(r) ==
    /\ r.user \in User
    /\ \/ /\ r.scope = OrganisationScope /\ r.in \in Organisation
          /\ r.operation # "deactivate" => r.role \in OrgRole
       \/ /\ r.scope = WorkspaceScope /\ r.in \in Workspace
          /\ r.operation # "deactivate" => r.role \in WsRole

Built == [request : [key : Key, scope : {OrganisationScope, WorkspaceScope},
                     operation : Operations, in : Organisation \cup Workspace, user : User,
                     role : OrgRole \cup WsRole \cup {NoRole}, expected : Nat],
          seen : Nat]

RequestsInScope ==
    requests \in Seq(Built) /\ \A n \in 1..Len(requests) : InScope(requests[n].request)

\* A request as a consumer composes it from what it sees.
Composed(key, s, u, request, seen) ==
    \/ \E role \in RolesOf(s[1]) :
          /\ request = Request(key, s[1], "add", s[2], u, role, 0)
          /\ seen = 0
    \/ \E role \in RolesOf(s[1]), i \in Current(TableOf(s[1]), s[2], u) :
          /\ request = Request(key, s[1], "change_role", s[2], u, role, TableOf(s[1])[i].version)
          /\ seen = i
    \/ \E i \in Current(TableOf(s[1]), s[2], u) :
          /\ request = Request(key, s[1], "deactivate", s[2], u, NoRole, TableOf(s[1])[i].version)
          /\ seen = i

\* The consumers build only such requests.
LEMMA BuiltInScope ==
    ASSUME WsInv, RequestsInScope,
           NEW key \in Key, NEW s \in Scopes, NEW u \in User,
           NEW request, NEW seen, Build(request, seen),
           Composed(key, s, u, request, seen)
    PROVE  /\ RequestsInScope'
           /\ InScope(request) /\ request.scope \in {OrganisationScope, WorkspaceScope}
           /\ Len(requests) \in Nat /\ Len(requests') = Len(requests) + 1
           /\ \A n \in 1..Len(requests) : requests'[n] = requests[n]
           /\ requests'[Len(requests) + 1].request = request
           /\ requests'[Len(requests) + 1].seen = seen
           /\ request.operation # "add"
              => /\ seen \in Current(TableOf(request.scope), request.in, request.user)
                 /\ request.expected = TableOf(request.scope)[seen].version
<1> DEFINE entry == [request |-> request, seen |-> seen]
<1>1. \A i \in Current(TableOf(s[1]), s[2], u) : i \in Nat /\ TableOf(s[1])[i].version \in Nat
  <2>1. \A i \in 1..Len(memberships) : memberships[i].version \in Nat
    <3>1. \A i \in 1..Len(memberships) : memberships[i] \in RowOf(Organisation, User, OrgRole)
      BY Tables
    <3> QED BY <3>1 DEF RowOf
  <2>2. \A i \in 1..Len(wsMemberships) : wsMemberships[i].version \in Nat
    <3>1. \A i \in 1..Len(wsMemberships) : wsMemberships[i] \in RowOf(Workspace, User, WsRole)
      BY Tables
    <3> QED BY <3>1 DEF RowOf
  <2> QED BY <2>1, <2>2 DEF Current, TableOf
<1>2. \/ s[1] = OrganisationScope /\ s[2] \in Organisation
      \/ s[1] = WorkspaceScope /\ s[2] \in Workspace
  BY DEF Scopes
<1>3. OrganisationScope # WorkspaceScope
  BY DEF OrganisationScope, WorkspaceScope
<1>4. RolesOf(s[1]) = IF s[1] = OrganisationScope THEN OrgRole ELSE WsRole
  BY DEF RolesOf
<1>5. /\ entry \in Built /\ InScope(request)
      /\ request.scope \in {OrganisationScope, WorkspaceScope}
      /\ request.operation # "add"
         => /\ seen \in Current(TableOf(request.scope), request.in, request.user)
            /\ request.expected = TableOf(request.scope)[seen].version
  <2>1. ASSUME NEW role \in RolesOf(s[1]), seen = 0,
               request = Request(key, s[1], "add", s[2], u, role, 0)
        PROVE  <1>5!:
    BY <1>2, <1>3, <1>4, <2>1 DEF Request, Built, InScope, Operations
  <2>2. ASSUME NEW role \in RolesOf(s[1]), NEW i \in Current(TableOf(s[1]), s[2], u), seen = i,
               request = Request(key, s[1], "change_role", s[2], u, role, TableOf(s[1])[i].version)
        PROVE  <1>5!:
    BY <1>1, <1>2, <1>3, <1>4, <2>2 DEF Request, Built, InScope, Operations
  <2>3. ASSUME NEW i \in Current(TableOf(s[1]), s[2], u), seen = i,
               request = Request(key, s[1], "deactivate", s[2], u, NoRole, TableOf(s[1])[i].version)
        PROVE  <1>5!:
    BY <1>1, <1>2, <1>3, <2>3 DEF Request, Built, InScope, Operations
  <2> QED BY <2>1, <2>2, <2>3 DEF Composed
<1>6. entry.request = request /\ entry.seen = seen
  OBVIOUS
<1>7. requests' = Append(requests, entry) /\ requests \in Seq(Built)
  BY DEF Build, RequestsInScope
<1> HIDE DEF entry
<1>8. /\ Len(requests) \in Nat /\ Len(requests') = Len(requests) + 1 /\ requests' \in Seq(Built)
      /\ \A n \in 1..Len(requests) : requests'[n] = requests[n]
      /\ requests'[Len(requests) + 1] = entry
  BY <1>5, <1>7
<1>9. RequestsInScope'
  <2>1. ASSUME NEW n \in 1..Len(requests') PROVE InScope(requests'[n].request)
    <3>1. CASE n \in 1..Len(requests)
      BY <1>8, <3>1 DEF RequestsInScope
    <3>2. CASE n = Len(requests) + 1
      BY <1>5, <1>6, <1>8, <3>2
    <3> QED BY <1>8, <3>1, <3>2
  <2> QED BY <1>8, <2>1 DEF RequestsInScope
<1> QED BY <1>5, <1>6, <1>8, <1>9

\* A command that takes effect is a mutation of the store.
LEMMA CommandIsMutation ==
    ASSUME RequestsInScope, NEW n \in 1..Len(requests), NEW a \in User, NEW late,
           ExecuteMembershipCommand(n, a, late)
    PROVE  WsNext
<1> DEFINE r == requests[n].request
<1>1. ExecuteOrganisation(r, a) \/ ExecuteWorkspace(r, a)
  BY DEF ExecuteMembershipCommand
<1>2. InScope(r)
  BY DEF RequestsInScope
<1> HIDE DEF r
<1>3. CASE ExecuteOrganisation(r, a)
  <2>1. /\ r.in \in Organisation /\ r.user \in User
        /\ r.operation # "deactivate" => r.role \in OrgRole
    BY <1>2, <1>3 DEF InScope, ExecuteOrganisation, OrganisationScope, WorkspaceScope
  <2>2. UNCHANGED wsVars
    BY <1>3 DEF ExecuteOrganisation
  <2>3. \/ r.role \in OrgRole /\ AddOrganisationMember(a, r.in, r.user, r.role)
        \/ r.role \in OrgRole /\ ChangeOrganisationMemberRole(a, r.in, r.user, r.role)
        \/ DeactivateOrganisationMember(a, r.in, r.user)
    BY <1>3, <2>1 DEF ExecuteOrganisation
  <2> QED BY <2>1, <2>2, <2>3 DEF OrgNext, WsNext
<1>4. CASE ExecuteWorkspace(r, a)
  <2>1. /\ r.in \in Workspace /\ r.user \in User
        /\ r.operation # "deactivate" => r.role \in WsRole
    BY <1>2, <1>4 DEF InScope, ExecuteWorkspace, OrganisationScope, WorkspaceScope
  <2>2. \/ r.role \in WsRole /\ AddWorkspaceMember(a, r.in, r.user, r.role)
        \/ r.role \in WsRole /\ ChangeWorkspaceMemberRole(a, r.in, r.user, r.role)
        \/ DeactivateWorkspaceMember(a, r.in, r.user)
    BY <1>4, <2>1 DEF ExecuteWorkspace
  <2> QED BY <2>1, <2>2 DEF WsStep, WsNext
<1> QED BY <1>1, <1>3, <1>4

(***************************************************************************)
(* What requests, results and executed commands say of a table, and that   *)
(* it stays true as the table evolves                                      *)
(***************************************************************************)
\* A change or removal carries the version of the row its consumer saw.
SeenIn(t, q) ==
    q.request.operation # "add"
    => /\ q.seen \in 1..Len(t)
       /\ t[q.seen].scope = q.request.in /\ t[q.seen].user = q.request.user
       /\ t[q.seen].version = q.request.expected

\* A result names a row and tells its version, its role and its end.
ToldBy(t, x) ==
    /\ x.result.id \in 1..Len(t)
    /\ t[x.result.id].version = x.result.version
    /\ t[x.result.id].role = x.result.role
    /\ ~x.result.active => ~t[x.result.id].active

\* A command acted on the row that was seen, or on one after a new start.
ActedIn(t, q, acted) ==
    q.request.operation # "add"
    => /\ acted \in 1..Len(t)
       /\ acted # q.seen => \E i \in (q.seen + 1)..acted : /\ t[i].user = q.request.user
                                                          /\ t[i].scope = q.request.in
                                                          /\ t[i].version = 1

LEMMA SaidStaysTrue ==
    ASSUME NEW t, NEW u, RowsStay(t, u)
    PROVE  /\ \A q : SeenIn(t, q) => SeenIn(u, q)
           /\ \A x : ToldBy(t, x) => ToldBy(u, x)
           /\ \A q, acted : q.seen \in Nat /\ ActedIn(t, q, acted) => ActedIn(u, q, acted)
<1>1. /\ Len(t) \in Nat /\ Len(u) \in Nat /\ Len(t) <= Len(u)
      /\ \A i \in 1..Len(t) : /\ i \in 1..Len(u)
                              /\ u[i].scope = t[i].scope /\ u[i].user = t[i].user
                              /\ u[i].role = t[i].role /\ u[i].version = t[i].version
                              /\ u[i].active => t[i].active
  BY DEF RowsStay
<1>2. ASSUME NEW q, SeenIn(t, q) PROVE SeenIn(u, q)
  BY <1>1, <1>2 DEF SeenIn
<1>3. ASSUME NEW x, ToldBy(t, x) PROVE ToldBy(u, x)
  BY <1>1, <1>3 DEF ToldBy
<1>4. ASSUME NEW q, NEW acted, q.seen \in Nat, ActedIn(t, q, acted) PROVE ActedIn(u, q, acted)
  <2> SUFFICES ASSUME q.request.operation # "add" PROVE ActedIn(u, q, acted)
    BY DEF ActedIn
  <2>1. acted \in 1..Len(t)
    BY <1>4 DEF ActedIn
  <2>2. acted \in 1..Len(u)
    BY <1>1, <2>1
  <2>3. CASE acted = q.seen
    BY <2>2, <2>3 DEF ActedIn
  <2>4. CASE acted # q.seen
    <3>1. PICK i \in (q.seen + 1)..acted : /\ t[i].user = q.request.user
                                           /\ t[i].scope = q.request.in
                                           /\ t[i].version = 1
      BY <1>4, <2>4 DEF ActedIn
    <3>2. i \in 1..Len(t)
      BY <1>1, <1>4, <2>1
    <3> QED BY <1>1, <2>2, <3>1, <3>2 DEF ActedIn
  <2> QED BY <2>3, <2>4
<1> QED BY <1>2, <1>3, <1>4

\* The last row a change or removal may act on: its version is the one expected, so
\* if it is not the row that was seen, the versions started again in between.
LEMMA OtherRowMeansNewStart ==
    ASSUME NEW S, NEW U, NEW R, NEW t \in Seq(RowOf(S, U, R)),
           VersionsGrow(t), ActiveIsLast(t),
           NEW q, SeenIn(t, q), q.request.operation # "add",
           NEW acted \in Current(t, q.request.in, q.request.user),
           t[acted].version = q.request.expected
    PROVE  ActedIn(t, q, acted)
<1>1. /\ acted \in 1..Len(t) /\ t[acted].active
      /\ t[acted].scope = q.request.in /\ t[acted].user = q.request.user
  BY DEF Current
<1>2. /\ q.seen \in 1..Len(t) /\ t[q.seen].version = t[acted].version
      /\ t[q.seen].scope = q.request.in /\ t[q.seen].user = q.request.user
  BY DEF SeenIn
<1>3. q.seen <= acted
  BY <1>1, <1>2 DEF ActiveIsLast, SameLane
<1>4. t[acted].version \in Nat
  <2>1. t[acted] \in RowOf(S, U, R)
    BY <1>1
  <2> QED BY <2>1 DEF RowOf
<1>5. ASSUME acted # q.seen
      PROVE  \E i \in (q.seen + 1)..acted : /\ t[i].user = q.request.user
                                            /\ t[i].scope = q.request.in
                                            /\ t[i].version = 1
  <2>1. q.seen < acted
    BY <1>1, <1>2, <1>3, <1>5
  <2>2. PICK i \in (q.seen + 1)..acted : SameLane(t, i, acted) /\ t[i].version = 1
    <3>1. SameLane(t, q.seen, acted)
      BY <1>1, <1>2 DEF SameLane
    <3>2. \/ t[q.seen].version < t[acted].version
          \/ \E i \in (q.seen + 1)..acted : SameLane(t, i, acted) /\ t[i].version = 1
      BY <1>1, <1>2, <2>1, <3>1, Zenon DEF VersionsGrow
    <3>3. ~(t[q.seen].version < t[acted].version)
      BY <1>2, <1>4
    <3> QED BY <3>2, <3>3
  <2> QED BY <1>1, <2>2 DEF SameLane
<1> QED BY <1>1, <1>5 DEF ActedIn

\* The three mutations: the row the answer names has the version the answer tells,
\* and the current row is the one that was acted on, at the version expected.
AnswerIsTrue(r, t, u) ==
    LET x == ResultOf(r, t, u) IN
    /\ x.id \in 1..Len(u) /\ u[x.id].version = x.version
    /\ u[x.id].role = x.role /\ (~x.active => ~u[x.id].active)
    /\ r.operation # "add"
       => LET acted == CHOOSE i \in Current(t, r.in, r.user) : TRUE
          IN /\ acted \in Current(t, r.in, r.user)
             /\ t[acted].version = r.expected

LEMMA CurrentIsOne ==
    ASSUME NEW t, AtMostOneCurrent(t), NEW scope, NEW user, NEW i \in Current(t, scope, user)
    PROVE  /\ (CHOOSE k \in Current(t, scope, user) : TRUE) = i
           /\ \A k \in Current(t, scope, user) : k = i
<1>1. \A k \in Current(t, scope, user) : k = i
  BY DEF Current, AtMostOneCurrent
<1> QED BY <1>1

LEMMA ResultFields ==
    ASSUME NEW r, NEW t, NEW u, NEW id,
           id = IF r.operation = "deactivate" THEN CHOOSE i \in Current(t, r.in, r.user) : TRUE
                                              ELSE Len(u)
    PROVE  /\ ResultOf(r, t, u).id = id
           /\ ResultOf(r, t, u).role = u[id].role
           /\ ResultOf(r, t, u).active = u[id].active
           /\ ResultOf(r, t, u).version = ResultVersion(r)
BY DEF ResultOf

LEMMA AddAnswers ==
    ASSUME NEW S, NEW U, NEW R, NEW t \in Seq(RowOf(S, U, R)), NEW r, r.operation = "add",
           NEW row \in RowOf(S, U, R), row.version = 1, NEW u, u = Insert(t, row)
    PROVE  AnswerIsTrue(r, t, u)
<1>1. Len(u) \in 1..Len(u) /\ u[Len(u)] = row
  BY DEF Insert
<1>2. ResultVersion(r) = 1
  BY DEF ResultVersion
<1> QED BY <1>1, <1>2, ResultFields DEF AnswerIsTrue

LEMMA ChangeAnswers ==
    ASSUME NEW S, NEW U, NEW R, NEW t \in Seq(RowOf(S, U, R)), AtMostOneCurrent(t),
           NEW r, r.operation = "change_role", AtExpectedVersion(t, r),
           NEW row \in RowOf(S, U, R), row.scope = r.in, row.user = r.user,
           NEW k \in Current(t, r.in, r.user), row.version = t[k].version + 1,
           NEW u, u = Insert(Retire(t, {k}), row)
    PROVE  AnswerIsTrue(r, t, u)
<1>1. Len(t) \in Nat /\ Len(u) = Len(t) + 1 /\ u[Len(t) + 1] = row
  <2>1. k \in Current(t, row.scope, row.user)
    OBVIOUS
  <2>2. Len(t) \in Nat
    OBVIOUS
  <2> QED BY <2>1, <2>2, ChangeEvolves
<1>2. t[k].version = r.expected
  BY CurrentIsOne DEF AtExpectedVersion
<1>3. ResultVersion(r) = r.expected + 1
  BY DEF ResultVersion
<1>4. (CHOOSE i \in Current(t, r.in, r.user) : TRUE) = k
  BY CurrentIsOne
<1>5. /\ ResultOf(r, t, u).id = Len(t) + 1
      /\ ResultOf(r, t, u).role = u[Len(t) + 1].role
      /\ ResultOf(r, t, u).active = u[Len(t) + 1].active
      /\ ResultOf(r, t, u).version = r.expected + 1
  BY <1>1, <1>3, ResultFields
<1>6. row.version = r.expected + 1 /\ Len(t) + 1 \in 1..Len(u)
  BY <1>1, <1>2
<1>7. LET acted == CHOOSE i \in Current(t, r.in, r.user) : TRUE
      IN acted \in Current(t, r.in, r.user) /\ t[acted].version = r.expected
  BY <1>2, <1>4
<1> QED BY <1>1, <1>5, <1>6, <1>7 DEF AnswerIsTrue

LEMMA DeactivateAnswers ==
    ASSUME NEW S, NEW U, NEW R, NEW t \in Seq(RowOf(S, U, R)), AtMostOneCurrent(t),
           NEW r, r.operation = "deactivate", AtExpectedVersion(t, r),
           NEW k \in Current(t, r.in, r.user),
           NEW u, Len(u) = Len(t), u[k].version = t[k].version
    PROVE  AnswerIsTrue(r, t, u)
<1>1. k \in 1..Len(t)
  BY DEF Current
<1>2. t[k].version = r.expected
  BY CurrentIsOne DEF AtExpectedVersion
<1>3. ResultVersion(r) = r.expected
  BY DEF ResultVersion
<1>4. (CHOOSE i \in Current(t, r.in, r.user) : TRUE) = k
  BY CurrentIsOne
<1>5. /\ ResultOf(r, t, u).id = k
      /\ ResultOf(r, t, u).role = u[k].role
      /\ ResultOf(r, t, u).active = u[k].active
      /\ ResultOf(r, t, u).version = r.expected
  BY <1>3, <1>4 DEF ResultOf
<1> QED BY <1>1, <1>2, <1>4, <1>5 DEF AnswerIsTrue

(***************************************************************************)
(* Text order and time                                                     *)
(***************************************************************************)
\* A time that is not after a cutoff in text order is less than a second after it.
LEMMA TextOrderErrsByLessThanASecond ==
    ASSUME NEW t \in Nat, NEW u \in Nat, NotAfterAsText(t, u)
    PROVE  t < u + TicksPerSecond
<1> DEFINE T == TicksPerSecond
<1>1. T \in Nat /\ T > 0
  BY TicksAssumption
<1>2. CASE t % T = 0
  BY <1>1, <1>2 DEF NotAfterAsText, TextRank
<1>3. CASE t % T # 0 /\ u % T # 0
  BY <1>1, <1>3 DEF NotAfterAsText, TextRank
<1>4. CASE t % T # 0 /\ u % T = 0
  <2>1. t - 1 <= u + T - 1
    BY <1>1, <1>4 DEF NotAfterAsText, TextRank
  <2> DEFINE q == u \div T
             p == t \div T
             m == t % T
  <2>2. /\ q \in Int /\ p \in Int /\ m \in Nat /\ 0 < m /\ m < T
        /\ u = T * q /\ t = T * p + m
    BY <1>1, <1>4
  <2> HIDE DEF q, p, m
  <2>3. ASSUME t = u + T PROVE FALSE
    <3>1. T * p + m = T * (q + 1)
      BY <1>1, <2>2, <2>3
    <3>2. CASE p <= q
      <4>1. T * p <= T * q
        BY <1>1, <2>2, <3>2
      <4> QED BY <1>1, <2>2, <3>1, <4>1
    <3>3. CASE p >= q + 1
      <4>1. T * p >= T * (q + 1)
        BY <1>1, <2>2, <3>3
      <4> QED BY <1>1, <2>2, <3>1, <4>1
    <3> QED BY <2>2, <3>2, <3>3
  <2> QED BY <1>1, <2>1, <2>3
<1> QED BY <1>2, <1>3, <1>4

(***************************************************************************)
(* The inductive invariant                                                 *)
(***************************************************************************)
Executed == [n : Nat, at : Nat, acted : Nat]

CmdTypes ==
    /\ clock \in Nat
    /\ executed \in Seq(Executed)
    /\ \A k \in 1..Len(executed) : executed[k].n \in 1..Len(requests)
    /\ \A x \in results : x.at \in Nat

LanesGrow == VersionsGrow(memberships) /\ VersionsGrow(wsMemberships)

SeenIsKept ==
    \A n \in 1..Len(requests) : SeenIn(TableOf(requests[n].request.scope), requests[n])

ResultsAreTold == \A x \in results : ToldBy(TableOf(x.request.scope), x)

\* The request an executed command came with.
AskedBy(e) == requests[e.n]

ActedIsTraced ==
    \A k \in 1..Len(executed) :
        ActedIn(TableOf(AskedBy(executed[k]).request.scope), AskedBy(executed[k]), executed[k].acted)

OneResultPerKey == \A x, y \in results : x.key = y.key => x = y

\* The result of a command is there or was kept long enough.
Remembered ==
    \A k \in 1..Len(executed) :
        \/ \E x \in results : x.key = KeyOf(executed[k]) /\ x.at = executed[k].at
        \/ clock + TicksPerSecond > executed[k].at + Retention

RepeatedLate ==
    \A i, j \in 1..Len(executed) :
        (i < j /\ KeyOf(executed[i]) = KeyOf(executed[j]))
        => clock + TicksPerSecond > executed[i].at + Retention

CmdInv == /\ WsInv /\ CmdTypes /\ RequestsInScope /\ LanesGrow
          /\ SeenIsKept /\ ResultsAreTold /\ ActedIsTraced
          /\ OneResultPerKey /\ Remembered /\ RepeatedLate

LEMMA CmdInitInv == CmdInit => CmdInv
<1> SUFFICES ASSUME CmdInit PROVE CmdInv
  OBVIOUS
<1>1. /\ clock = Start /\ requests = << >> /\ results = {} /\ executed = << >>
      /\ memberships = << >> /\ wsMemberships = << >>
  BY DEF CmdInit, WsInit, OrgInit, WorkspacesInit
<1>2. WsInv
  BY WsInitInv DEF CmdInit
<1>3. CmdTypes /\ RequestsInScope
  <2>1. << >> \in Seq(Executed) /\ << >> \in Seq(Built)
    OBVIOUS
  <2> QED BY <1>1, <2>1, CommandAssumption DEF CmdTypes, RequestsInScope
<1>4. LanesGrow
  BY <1>1 DEF LanesGrow, VersionsGrow
<1> QED BY <1>1, <1>2, <1>3, <1>4
        DEF CmdInv, SeenIsKept, ResultsAreTold, ActedIsTraced, OneResultPerKey, Remembered,
            RepeatedLate

\* The table of a scope after the step.
After(scope) == IF scope = OrganisationScope THEN memberships' ELSE wsMemberships'

\* What the invariant says of the entries that were there is true of the tables
\* after any step of the store.
LEMMA OldEntries ==
    ASSUME CmdInv, [WsNext]_allWsVars
    PROVE  /\ WsInv' /\ LanesGrow'
           /\ \A n \in 1..Len(requests) : SeenIn(After(requests[n].request.scope), requests[n])
           /\ \A x \in results : ToldBy(After(x.request.scope), x)
           /\ \A k \in 1..Len(executed) :
                 ActedIn(After(AskedBy(executed[k]).request.scope), AskedBy(executed[k]),
                         executed[k].acted)
<1>1. WsInv
  BY DEF CmdInv
<1>2. WsInv'
  BY <1>1, WsNextInv
<1>3. Evolves(memberships, memberships') /\ Evolves(wsMemberships, wsMemberships')
  BY <1>1, TablesEvolve
<1>4. LanesGrow'
  <2>1. /\ memberships' \in Seq(RowOf(Organisation, User, OrgRole))
        /\ wsMemberships' \in Seq(RowOf(Workspace, User, WsRole))
    BY <1>2 DEF WsInv, OrgInv, OrgTypeOK, OrgRow, WsTypeOK, WsRow
  <2>2. VersionsGrow(memberships) /\ VersionsGrow(wsMemberships)
    BY DEF CmdInv, LanesGrow
  <2>3. VersionsGrow(memberships')
    BY <1>1, <1>3, <2>1, <2>2, Tables, VersionsGoOnGrowing
  <2>4. VersionsGrow(wsMemberships')
    BY <1>1, <1>3, <2>1, <2>2, Tables, VersionsGoOnGrowing
  <2> QED BY <2>3, <2>4 DEF LanesGrow
<1>5. \A scope : RowsStay(TableOf(scope), After(scope))
  BY <1>3 DEF Evolves, TableOf, After
<1>6. ASSUME NEW n \in 1..Len(requests)
      PROVE  /\ SeenIn(After(requests[n].request.scope), requests[n])
             /\ requests[n].seen \in Nat
  <2>1. SeenIn(TableOf(requests[n].request.scope), requests[n])
    BY DEF CmdInv, SeenIsKept
  <2>2. requests[n] \in Built
    BY DEF CmdInv, RequestsInScope
  <2> QED BY <1>5, <2>1, <2>2, SaidStaysTrue DEF Built
<1>7. ASSUME NEW x \in results PROVE ToldBy(After(x.request.scope), x)
  <2>1. ToldBy(TableOf(x.request.scope), x)
    BY DEF CmdInv, ResultsAreTold
  <2> QED BY <1>5, <2>1, SaidStaysTrue
<1>8. ASSUME NEW k \in 1..Len(executed)
      PROVE  ActedIn(After(AskedBy(executed[k]).request.scope), AskedBy(executed[k]),
                     executed[k].acted)
  <2>1. ActedIn(TableOf(AskedBy(executed[k]).request.scope), AskedBy(executed[k]), executed[k].acted)
    BY DEF CmdInv, ActedIsTraced
  <2>2. AskedBy(executed[k]).seen \in Nat
    BY <1>6 DEF CmdInv, CmdTypes, AskedBy
  <2> QED BY <1>5, <2>1, <2>2, SaidStaysTrue
<1> QED BY <1>2, <1>4, <1>6, <1>7, <1>8

\* A step of the store, of the clock or of the cleanup: results may go when they are
\* old enough.
LEMMA QuietStep ==
    ASSUME CmdInv, [WsNext]_allWsVars, requests' = requests, executed' = executed,
           clock' \in Nat, clock <= clock', results' \subseteq results,
           \A x \in results \ results' : clock' + TicksPerSecond > x.at + Retention
    PROVE  CmdInv'
<1>1. /\ CmdTypes /\ RequestsInScope /\ OneResultPerKey /\ Remembered /\ RepeatedLate
  BY DEF CmdInv
<1>2. WsInv' /\ LanesGrow'
  BY OldEntries
<1>3. CmdTypes' /\ RequestsInScope' /\ OneResultPerKey'
  BY <1>1 DEF CmdTypes, RequestsInScope, OneResultPerKey
<1>4. SeenIsKept'
  BY OldEntries DEF SeenIsKept, TableOf, After
<1>5. ResultsAreTold'
  BY OldEntries DEF ResultsAreTold, TableOf, After
<1>6. ActedIsTraced'
  <2>1. \A k \in 1..Len(executed) :
           ActedIn(After(AskedBy(executed[k]).request.scope), AskedBy(executed[k]), executed[k].acted)
    BY OldEntries
  <2> QED BY <2>1 DEF ActedIsTraced, AskedBy, TableOf, After
<1>7. /\ TicksPerSecond \in Nat /\ Retention \in Nat /\ clock \in Nat
      /\ \A k \in 1..Len(executed) : executed[k].at \in Nat
  <2>1. \A k \in 1..Len(executed) : executed[k] \in Executed
    BY <1>1 DEF CmdTypes
  <2> QED BY <1>1, <2>1, TicksAssumption, CommandAssumption DEF CmdTypes, Executed
<1>8. Remembered'
  <2> SUFFICES ASSUME NEW k \in 1..Len(executed)
               PROVE  \/ \E x \in results' : x.key = KeyOf(executed[k]) /\ x.at = executed[k].at
                      \/ clock' + TicksPerSecond > executed[k].at + Retention
    BY DEF Remembered, KeyOf
  <2>1. CASE \E x \in results : x.key = KeyOf(executed[k]) /\ x.at = executed[k].at
    BY <2>1
  <2>2. CASE clock + TicksPerSecond > executed[k].at + Retention
    BY <1>7, <2>2
  <2> QED BY <1>1, <2>1, <2>2 DEF Remembered
<1>9. RepeatedLate'
  <2> SUFFICES ASSUME NEW i \in 1..Len(executed), NEW j \in 1..Len(executed), i < j,
                      KeyOf(executed[i]) = KeyOf(executed[j])
               PROVE  clock' + TicksPerSecond > executed[i].at + Retention
    BY DEF RepeatedLate, KeyOf
  <2>1. clock + TicksPerSecond > executed[i].at + Retention
    BY <1>1 DEF RepeatedLate
  <2> QED BY <1>7, <2>1
<1> QED BY <1>2, <1>3, <1>4, <1>5, <1>6, <1>8, <1>9 DEF CmdInv

\* A consumer builds a request from what it sees.
LEMMA BuildStep ==
    ASSUME CmdInv, RequestsInScope', NEW request, NEW seen,
           UNCHANGED <<allWsVars, clock, results, executed>>,
           Len(requests) \in Nat, Len(requests') = Len(requests) + 1,
           \A n \in 1..Len(requests) : requests'[n] = requests[n],
           requests'[Len(requests) + 1].request = request,
           requests'[Len(requests) + 1].seen = seen,
           request.operation # "add"
           => /\ seen \in Current(TableOf(request.scope), request.in, request.user)
              /\ request.expected = TableOf(request.scope)[seen].version
    PROVE  CmdInv'
<1>1. /\ WsInv /\ CmdTypes /\ LanesGrow /\ SeenIsKept /\ ResultsAreTold /\ ActedIsTraced
      /\ OneResultPerKey /\ Remembered /\ RepeatedLate
  BY DEF CmdInv
<1>2. /\ memberships' = memberships /\ wsMemberships' = wsMemberships
      /\ clock' = clock /\ results' = results /\ executed' = executed
      /\ [WsNext]_allWsVars
  BY DEF allWsVars, orgVars, wsVars
<1>3. WsInv'
  BY <1>1, <1>2, WsNextInv
<1>4. /\ \A k \in 1..Len(executed) : executed[k].n \in 1..Len(requests) /\ executed[k].n \in 1..Len(requests')
      /\ \A k \in 1..Len(executed) : requests'[executed[k].n] = requests[executed[k].n]
  BY <1>1 DEF CmdTypes
<1>5. CmdTypes'
  BY <1>1, <1>2, <1>4 DEF CmdTypes
<1>6. LanesGrow' /\ ResultsAreTold' /\ OneResultPerKey'
  BY <1>1, <1>2 DEF LanesGrow, ResultsAreTold, OneResultPerKey, TableOf
<1>7. SeenIsKept'
  <2> SUFFICES ASSUME NEW n \in 1..Len(requests')
               PROVE  SeenIn(TableOf(requests'[n].request.scope), requests'[n])
    BY <1>2 DEF SeenIsKept, TableOf
  <2>1. CASE n \in 1..Len(requests)
    BY <1>1, <2>1 DEF SeenIsKept
  <2>2. CASE n = Len(requests) + 1
    BY <2>2 DEF SeenIn, Current
  <2> QED BY <2>1, <2>2
<1>8. ActedIsTraced'
  <2> SUFFICES ASSUME NEW k \in 1..Len(executed)
               PROVE  ActedIn(TableOf(requests'[executed[k].n].request.scope),
                              requests'[executed[k].n], executed[k].acted)
    BY <1>2 DEF ActedIsTraced, AskedBy, TableOf
  <2>1. ActedIn(TableOf(requests[executed[k].n].request.scope),
                requests[executed[k].n], executed[k].acted)
    BY <1>1 DEF ActedIsTraced, AskedBy
  <2> QED BY <1>4, <2>1
<1>9. \A k \in 1..Len(executed) : KeyOf(executed[k]) = requests'[executed[k].n].request.key
  BY <1>4 DEF KeyOf
<1>10. Remembered'
  <2> SUFFICES ASSUME NEW k \in 1..Len(executed)
               PROVE  \/ \E x \in results : /\ x.key = requests'[executed[k].n].request.key
                                            /\ x.at = executed[k].at
                      \/ clock + TicksPerSecond > executed[k].at + Retention
    BY <1>2 DEF Remembered, KeyOf
  <2> QED BY <1>1, <1>9 DEF Remembered
<1>11. RepeatedLate'
  <2> SUFFICES ASSUME NEW i \in 1..Len(executed), NEW j \in 1..Len(executed), i < j,
                      requests'[executed[i].n].request.key = requests'[executed[j].n].request.key
               PROVE  clock + TicksPerSecond > executed[i].at + Retention
    BY <1>2 DEF RepeatedLate, KeyOf
  <2> QED BY <1>1, <1>9 DEF RepeatedLate
<1> QED BY <1>3, <1>5, <1>6, <1>7, <1>8, <1>10, <1>11 DEF CmdInv

LEMMA ComposedStep ==
    ASSUME CmdInv, NEW key \in Key, NEW s \in Scopes, NEW u \in User,
           NEW request, NEW seen, Composed(key, s, u, request, seen), Build(request, seen)
    PROVE  CmdInv'
<1>1. WsInv /\ RequestsInScope
  BY DEF CmdInv
<1>2. UNCHANGED <<allWsVars, clock, results, executed>>
  BY DEF Build
<1> QED BY <1>1, <1>2, BuiltInScope, BuildStep

\* A command that takes effect answers truly.
LEMMA CommandAnswers ==
    ASSUME WsInv, RequestsInScope, NEW n \in 1..Len(requests), NEW a \in User, NEW late,
           ExecuteMembershipCommand(n, a, late), NEW r, r = requests[n].request
    PROVE  AnswerIsTrue(r, TableOf(r.scope), After(r.scope))
<1>1. ExecuteOrganisation(r, a) \/ ExecuteWorkspace(r, a)
  BY DEF ExecuteMembershipCommand
<1>2. InScope(r)
  BY DEF RequestsInScope
<1>3. /\ memberships \in Seq(RowOf(Organisation, User, OrgRole)) /\ AtMostOneCurrent(memberships)
      /\ wsMemberships \in Seq(RowOf(Workspace, User, WsRole)) /\ AtMostOneCurrent(wsMemberships)
  BY Tables
<1>4. CASE ExecuteOrganisation(r, a)
  <2>1. /\ r.in \in Organisation /\ r.user \in User
        /\ r.operation # "deactivate" => r.role \in OrgRole
    BY <1>2, <1>4 DEF InScope, ExecuteOrganisation, OrganisationScope, WorkspaceScope
  <2>2. TableOf(r.scope) = memberships /\ After(r.scope) = memberships'
    BY <1>4 DEF ExecuteOrganisation, TableOf, After
  <2>3. \A k \in 1..Len(memberships) : memberships[k].version + 1 \in Nat \ {0}
    <3>1. \A k \in 1..Len(memberships) : memberships[k] \in RowOf(Organisation, User, OrgRole)
      BY <1>3
    <3> QED BY <3>1 DEF RowOf
  <2>4. CASE r.operation = "add" /\ AddOrganisationMember(a, r.in, r.user, r.role)
    <3> DEFINE row == NewRow(r.in, r.user, r.role, 1, a)
    <3>1. memberships' = Insert(memberships, row)
      BY <2>4 DEF AddOrganisationMember
    <3>2. row \in RowOf(Organisation, User, OrgRole) /\ row.version = 1
      BY <2>1, <2>4 DEF NewRow, RowOf
    <3> HIDE DEF row
    <3> QED BY <1>3, <2>2, <2>4, <3>1, <3>2, AddAnswers
  <2>5. CASE /\ r.operation = "change_role" /\ AtExpectedVersion(memberships, r)
             /\ ChangeOrganisationMemberRole(a, r.in, r.user, r.role)
    <3>1. PICK k \in Current(memberships, r.in, r.user) :
             memberships' = Insert(Retire(memberships, {k}),
                                   NewRow(r.in, r.user, r.role, memberships[k].version + 1, a))
      BY <2>5 DEF ChangeOrganisationMemberRole
    <3> DEFINE row == NewRow(r.in, r.user, r.role, memberships[k].version + 1, a)
    <3>2. k \in 1..Len(memberships)
      BY DEF Current
    <3>3. /\ row \in RowOf(Organisation, User, OrgRole) /\ row.scope = r.in /\ row.user = r.user
          /\ row.version = memberships[k].version + 1
      BY <2>1, <2>3, <2>5, <3>2 DEF NewRow, RowOf
    <3>4. memberships' = Insert(Retire(memberships, {k}), row)
      BY <3>1
    <3> HIDE DEF row
    <3> QED BY <1>3, <2>2, <2>5, <3>3, <3>4, ChangeAnswers
  <2>6. CASE /\ r.operation = "deactivate" /\ AtExpectedVersion(memberships, r)
             /\ DeactivateOrganisationMember(a, r.in, r.user)
    <3>1. PICK k \in Current(memberships, r.in, r.user) : memberships' = Retire(memberships, {k})
      BY <2>6 DEF DeactivateOrganisationMember
    <3>2. Len(memberships') = Len(memberships) /\ memberships'[k].version = memberships[k].version
      BY <1>3, <3>1, RetireFacts DEF Current
    <3> QED BY <1>3, <2>2, <2>6, <3>2, DeactivateAnswers
  <2> QED BY <1>4, <2>4, <2>5, <2>6 DEF ExecuteOrganisation
<1>5. CASE ExecuteWorkspace(r, a)
  <2>1. /\ r.in \in Workspace /\ r.user \in User
        /\ r.operation # "deactivate" => r.role \in WsRole
    BY <1>2, <1>5 DEF InScope, ExecuteWorkspace, OrganisationScope, WorkspaceScope
  <2>2. TableOf(r.scope) = wsMemberships /\ After(r.scope) = wsMemberships'
    BY <1>5 DEF ExecuteWorkspace, TableOf, After, OrganisationScope, WorkspaceScope
  <2>3. \A k \in 1..Len(wsMemberships) : wsMemberships[k].version + 1 \in Nat \ {0}
    <3>1. \A k \in 1..Len(wsMemberships) : wsMemberships[k] \in RowOf(Workspace, User, WsRole)
      BY <1>3
    <3> QED BY <3>1 DEF RowOf
  <2>4. CASE r.operation = "add" /\ AddWorkspaceMember(a, r.in, r.user, r.role)
    <3> DEFINE row == NewRow(r.in, r.user, r.role, 1, a)
    <3>1. wsMemberships' = Insert(wsMemberships, row)
      BY <2>4 DEF AddWorkspaceMember
    <3>2. row \in RowOf(Workspace, User, WsRole) /\ row.version = 1
      BY <2>1, <2>4 DEF NewRow, RowOf
    <3> HIDE DEF row
    <3> QED BY <1>3, <2>2, <2>4, <3>1, <3>2, AddAnswers
  <2>5. CASE /\ r.operation = "change_role" /\ AtExpectedVersion(wsMemberships, r)
             /\ ChangeWorkspaceMemberRole(a, r.in, r.user, r.role)
    <3>1. PICK k \in Current(wsMemberships, r.in, r.user) :
             wsMemberships' = Insert(Retire(wsMemberships, {k}),
                                     NewRow(r.in, r.user, r.role, wsMemberships[k].version + 1, a))
      BY <2>5 DEF ChangeWorkspaceMemberRole
    <3> DEFINE row == NewRow(r.in, r.user, r.role, wsMemberships[k].version + 1, a)
    <3>2. k \in 1..Len(wsMemberships)
      BY DEF Current
    <3>3. /\ row \in RowOf(Workspace, User, WsRole) /\ row.scope = r.in /\ row.user = r.user
          /\ row.version = wsMemberships[k].version + 1
      BY <2>1, <2>3, <2>5, <3>2 DEF NewRow, RowOf
    <3>4. wsMemberships' = Insert(Retire(wsMemberships, {k}), row)
      BY <3>1
    <3> HIDE DEF row
    <3> QED BY <1>3, <2>2, <2>5, <3>3, <3>4, ChangeAnswers
  <2>6. CASE /\ r.operation = "deactivate" /\ AtExpectedVersion(wsMemberships, r)
             /\ DeactivateWorkspaceMember(a, r.in, r.user)
    <3>1. PICK k \in Current(wsMemberships, r.in, r.user) : wsMemberships' = Retire(wsMemberships, {k})
      BY <2>6 DEF DeactivateWorkspaceMember
    <3>2. Len(wsMemberships') = Len(wsMemberships) /\ wsMemberships'[k].version = wsMemberships[k].version
      BY <1>3, <3>1, RetireFacts DEF Current
    <3> QED BY <1>3, <2>2, <2>6, <3>2, DeactivateAnswers
  <2> QED BY <1>5, <2>4, <2>5, <2>6 DEF ExecuteWorkspace
<1> QED BY <1>1, <1>4, <1>5

\* A command takes effect: one more result and one more entry of the history, and
\* no result under its key before.
LEMMA ExecuteStep ==
    ASSUME CmdInv, NEW n \in 1..Len(requests), NEW a \in User, NEW late \in 0..Stall,
           ExecuteMembershipCommand(n, a, late)
    PROVE  CmdInv'
<1>1. /\ WsInv /\ CmdTypes /\ RequestsInScope /\ LanesGrow /\ SeenIsKept
      /\ OneResultPerKey /\ Remembered /\ RepeatedLate
  BY DEF CmdInv
<1> DEFINE r == requests[n].request
           answer == ResultOf(r, TableOf(r.scope), After(r.scope))
           x == [id |-> NextId, key |-> r.key, request |-> r, at |-> clock - late,
                 result |-> answer]
           acted == IF r.operation = "add" THEN 0
                    ELSE CHOOSE i \in Current(TableOf(r.scope), r.in, r.user) : TRUE
           e == [n |-> n, at |-> clock - late, acted |-> acted]
<1>2. /\ late <= clock /\ Stored(r.key) = {}
      /\ results' = results \cup {x} /\ executed' = Append(executed, e)
      /\ clock' = clock /\ requests' = requests
  BY DEF ExecuteMembershipCommand, After
<1>3. [WsNext]_allWsVars
  BY <1>1, CommandIsMutation
<1>4. /\ WsInv' /\ LanesGrow'
      /\ \A k \in 1..Len(requests) : SeenIn(After(requests[k].request.scope), requests[k])
      /\ \A y \in results : ToldBy(After(y.request.scope), y)
      /\ \A k \in 1..Len(executed) :
            ActedIn(After(AskedBy(executed[k]).request.scope), AskedBy(executed[k]),
                    executed[k].acted)
  BY <1>3, OldEntries
<1>5. AnswerIsTrue(r, TableOf(r.scope), After(r.scope))
  BY <1>1, CommandAnswers
<1>6. /\ x.key = r.key /\ x.request = r /\ x.at = clock - late /\ x.result = answer
      /\ e.n = n /\ e.at = clock - late /\ e.acted = acted
  OBVIOUS
<1>7. /\ clock \in Nat /\ clock - late \in Nat /\ Retention \in Nat /\ TicksPerSecond \in Nat
  BY <1>1, <1>2, TicksAssumption, CommandAssumption DEF CmdTypes
<1>8. /\ memberships \in Seq(RowOf(Organisation, User, OrgRole))
      /\ wsMemberships \in Seq(RowOf(Workspace, User, WsRole))
      /\ ActiveIsLast(memberships) /\ ActiveIsLast(wsMemberships)
  BY <1>1, Tables
<1>9. r.operation # "add"
      => acted \in Current(TableOf(r.scope), r.in, r.user) /\ TableOf(r.scope)[acted].version = r.expected
  BY <1>5 DEF AnswerIsTrue
<1>10. acted \in Nat
  <2>1. Len(TableOf(r.scope)) \in Nat
    BY <1>8 DEF TableOf
  <2>2. r.operation # "add" => acted \in 1..Len(TableOf(r.scope))
    BY <1>9 DEF Current
  <2>3. r.operation = "add" => acted = 0
    OBVIOUS
  <2> HIDE DEF acted
  <2> QED BY <2>1, <2>2, <2>3
<1>11. e \in Executed
  BY <1>1, <1>7, <1>10 DEF Executed, RequestsInScope
<1>12. ToldBy(After(r.scope), x)
  BY <1>5, <1>6 DEF AnswerIsTrue, ToldBy
<1>13. ActedIn(After(r.scope), requests[n], acted)
  <2>1. ActedIn(TableOf(r.scope), requests[n], acted)
    <3>1. CASE r.operation = "add"
      BY <3>1 DEF ActedIn
    <3>2. CASE r.operation # "add"
      <4>1. SeenIn(TableOf(r.scope), requests[n])
        BY <1>1 DEF SeenIsKept
      <4>2. /\ VersionsGrow(TableOf(r.scope)) /\ ActiveIsLast(TableOf(r.scope))
            /\ \/ TableOf(r.scope) \in Seq(RowOf(Organisation, User, OrgRole))
               \/ TableOf(r.scope) \in Seq(RowOf(Workspace, User, WsRole))
        BY <1>1, <1>8 DEF LanesGrow, TableOf
      <4> HIDE DEF acted
      <4> QED BY <1>9, <3>2, <4>1, <4>2, OtherRowMeansNewStart
    <3> QED BY <3>1, <3>2
  <2>2. RowsStay(TableOf(r.scope), After(r.scope))
    BY <1>1, <1>3, TablesEvolve DEF Evolves, TableOf, After
  <2>3. requests[n].seen \in Nat
    <3>1. requests[n] \in Built
      BY <1>1 DEF RequestsInScope
    <3> QED BY <3>1 DEF Built
  <2> HIDE DEF acted
  <2> QED BY <2>1, <2>2, <2>3, SaidStaysTrue
<1> HIDE DEF x, acted, e, answer
<1>14. /\ Len(executed) \in Nat /\ Len(executed') = Len(executed) + 1
       /\ executed' \in Seq(Executed)
       /\ \A k \in 1..Len(executed) : executed'[k] = executed[k]
       /\ executed'[Len(executed) + 1] = e
  BY <1>1, <1>2, <1>11 DEF CmdTypes
<1>15. \A k \in 1..Len(executed') :
          \/ k \in 1..Len(executed) /\ executed'[k] = executed[k]
          \/ k = Len(executed) + 1 /\ executed'[k] = e
  BY <1>14
<1>16. CmdTypes'
  <2>1. ASSUME NEW k \in 1..Len(executed') PROVE executed'[k].n \in 1..Len(requests')
    <3>1. CASE k \in 1..Len(executed) /\ executed'[k] = executed[k]
      BY <1>1, <1>2, <3>1 DEF CmdTypes
    <3>2. CASE executed'[k] = e
      BY <1>2, <1>6, <3>2
    <3> QED BY <1>15, <3>1, <3>2
  <2>2. ASSUME NEW y \in results' PROVE y.at \in Nat
    BY <1>1, <1>2, <1>6, <1>7 DEF CmdTypes
  <2>3. clock' \in Nat
    BY <1>2, <1>7
  <2> QED BY <1>14, <2>1, <2>2, <2>3 DEF CmdTypes
<1>17. RequestsInScope'
  BY <1>1, <1>2 DEF RequestsInScope
<1>18. SeenIsKept'
  BY <1>2, <1>4 DEF SeenIsKept, TableOf, After
<1>19. ResultsAreTold'
  <2> SUFFICES ASSUME NEW y \in results' PROVE ToldBy(After(y.request.scope), y)
    BY DEF ResultsAreTold, TableOf, After
  <2> QED BY <1>2, <1>4, <1>6, <1>12
<1>20. ActedIsTraced'
  <2> SUFFICES ASSUME NEW k \in 1..Len(executed')
               PROVE  ActedIn(After(requests[executed'[k].n].request.scope),
                              requests[executed'[k].n], executed'[k].acted)
    BY <1>2 DEF ActedIsTraced, AskedBy, TableOf, After
  <2>1. CASE k \in 1..Len(executed) /\ executed'[k] = executed[k]
    BY <1>4, <2>1 DEF AskedBy
  <2>2. CASE executed'[k] = e
    BY <1>6, <1>13, <2>2
  <2> QED BY <1>15, <2>1, <2>2
<1>21. \A y \in results : y.key # r.key
  BY <1>2 DEF Stored
<1>22. OneResultPerKey'
  <2> SUFFICES ASSUME NEW y \in results', NEW z \in results', y.key = z.key PROVE y = z
    BY DEF OneResultPerKey
  <2> QED BY <1>1, <1>2, <1>6, <1>21 DEF OneResultPerKey
<1>23. \A k \in 1..Len(executed) : executed[k].at \in Nat
  <2>1. \A k \in 1..Len(executed) : executed[k] \in Executed
    BY <1>1 DEF CmdTypes
  <2> QED BY <2>1 DEF Executed
<1>24. Remembered'
  <2> SUFFICES ASSUME NEW k \in 1..Len(executed')
               PROVE  \/ \E y \in results' : /\ y.key = requests[executed'[k].n].request.key
                                             /\ y.at = executed'[k].at
                      \/ clock + TicksPerSecond > executed'[k].at + Retention
    BY <1>2 DEF Remembered, KeyOf
  <2>1. CASE k \in 1..Len(executed) /\ executed'[k] = executed[k]
    BY <1>1, <1>2, <2>1 DEF Remembered, KeyOf
  <2>2. CASE executed'[k] = e
    BY <1>2, <1>6, <2>2
  <2> QED BY <1>15, <2>1, <2>2
<1>25. RepeatedLate'
  <2> SUFFICES ASSUME NEW i \in 1..Len(executed'), NEW j \in 1..Len(executed'), i < j,
                      requests[executed'[i].n].request.key = requests[executed'[j].n].request.key
               PROVE  clock + TicksPerSecond > executed'[i].at + Retention
    BY <1>2 DEF RepeatedLate, KeyOf
  <2>1. i \in 1..Len(executed) /\ executed'[i] = executed[i]
    BY <1>14, <1>15
  <2>2. CASE j \in 1..Len(executed) /\ executed'[j] = executed[j]
    BY <1>1, <2>1, <2>2 DEF RepeatedLate, KeyOf
  <2>3. CASE executed'[j] = e
    <3>1. KeyOf(executed[i]) = r.key
      BY <1>6, <2>1, <2>3 DEF KeyOf
    <3> QED BY <1>1, <1>21, <2>1, <3>1 DEF Remembered
  <2> QED BY <1>15, <2>2, <2>3
<1> QED BY <1>4, <1>16, <1>17, <1>18, <1>19, <1>20, <1>22, <1>24, <1>25 DEF CmdInv

LEMMA CmdNextInv == CmdInv /\ [CmdNext]_allCmdVars => CmdInv'
<1> SUFFICES ASSUME CmdInv, [CmdNext]_allCmdVars PROVE CmdInv'
  OBVIOUS
<1>1. WsInv /\ CmdTypes /\ RequestsInScope /\ clock \in Nat /\ Retention \in Nat /\ TicksPerSecond \in Nat
  BY CommandAssumption, TicksAssumption DEF CmdInv, CmdTypes
<1>2. CASE UNCHANGED cmdVars /\ [WsNext]_allWsVars
  BY <1>1, <1>2, QuietStep DEF cmdVars
<1>3. CASE Tick
  <2>1. clock' = clock + 1 /\ UNCHANGED <<allWsVars, requests, results, executed>>
    BY <1>3 DEF Tick
  <2> QED BY <1>1, <2>1, QuietStep
<1>4. ASSUME NEW key \in Key, NEW s \in Scopes, NEW u \in User,
             NEW role \in RolesOf(s[1]), BuildAdd(key, s[1], s[2], u, role)
      PROVE  CmdInv'
  <2>1. PICK q : q = Request(key, s[1], "add", s[2], u, role, 0) /\ Build(q, 0)
    BY <1>4 DEF BuildAdd
  <2>2. Composed(key, s, u, q, 0)
    BY <2>1 DEF Composed
  <2> QED BY <2>1, <2>2, ComposedStep
<1>5. ASSUME NEW key \in Key, NEW s \in Scopes, NEW u \in User,
             NEW role \in RolesOf(s[1]), BuildChange(key, s[1], s[2], u, role)
      PROVE  CmdInv'
  <2>1. PICK i \in Current(TableOf(s[1]), s[2], u) :
           Build(Request(key, s[1], "change_role", s[2], u, role, TableOf(s[1])[i].version), i)
    BY <1>5 DEF BuildChange
  <2>2. PICK q : /\ q = Request(key, s[1], "change_role", s[2], u, role, TableOf(s[1])[i].version)
                 /\ Build(q, i)
    BY <2>1
  <2>3. Composed(key, s, u, q, i)
    BY <2>2 DEF Composed
  <2> QED BY <2>2, <2>3, ComposedStep
<1>6. ASSUME NEW key \in Key, NEW s \in Scopes, NEW u \in User,
             BuildDeactivate(key, s[1], s[2], u)
      PROVE  CmdInv'
  <2>1. PICK i \in Current(TableOf(s[1]), s[2], u) :
           Build(Request(key, s[1], "deactivate", s[2], u, NoRole, TableOf(s[1])[i].version), i)
    BY <1>6 DEF BuildDeactivate
  <2>2. PICK q : /\ q = Request(key, s[1], "deactivate", s[2], u, NoRole, TableOf(s[1])[i].version)
                 /\ Build(q, i)
    BY <2>1
  <2>3. Composed(key, s, u, q, i)
    BY <2>2 DEF Composed
  <2> QED BY <2>2, <2>3, ComposedStep
<1>7. ASSUME NEW before \in 0..clock, NEW gone \in SUBSET results,
             CleanupMembershipCommandResults(before, gone)
      PROVE  CmdInv'
  <2>1. /\ before + Retention <= clock /\ results' = results \ gone
        /\ \A x \in gone : NotAfterAsText(x.at, before)
        /\ UNCHANGED <<allWsVars, clock, requests, executed>>
    BY <1>7 DEF CleanupMembershipCommandResults
  <2>2. ASSUME NEW x \in results \ results' PROVE clock' + TicksPerSecond > x.at + Retention
    <3>1. x.at \in Nat /\ before \in Nat /\ NotAfterAsText(x.at, before)
      BY <1>1, <2>1 DEF CmdTypes
    <3>2. x.at < before + TicksPerSecond
      BY <3>1, TextOrderErrsByLessThanASecond
    <3> QED BY <1>1, <2>1, <3>1, <3>2
  <2> QED BY <1>1, <2>1, <2>2, QuietStep
<1>8. CASE CmdStep
  BY <1>3, <1>4, <1>5, <1>6, <1>7, <1>8, ExecuteStep DEF CmdStep
<1> QED BY <1>2, <1>8 DEF CmdNext, allCmdVars

LEMMA CmdInvariance == CmdSpec => []CmdInv
BY CmdInitInv, CmdNextInv, PTL DEF CmdSpec

(***************************************************************************)
(* What holds of the commands among the browser mutations                  *)
(***************************************************************************)
\* A command that executeOrganisationMembershipCommandTx or
\* executeWorkspaceMembershipCommandTx lets through does what a browser mutation
\* does, and everything else of the command interface leaves the membership tables
\* alone: what is proved of the store holds with commands too.
THEOREM CommandsRefineWorkspaces == CmdSpec => WsSpec
<1>1. CmdInit => WsInit
  BY DEF CmdInit
<1>2. CmdInv /\ [CmdNext]_allCmdVars => [WsNext]_allWsVars
  <2> SUFFICES ASSUME CmdInv, [CmdNext]_allCmdVars PROVE [WsNext]_allWsVars
    OBVIOUS
  <2>1. CASE Tick
    BY <2>1 DEF Tick
  <2>2. ASSUME NEW key, NEW s, NEW u, NEW role,
               \/ BuildAdd(key, s[1], s[2], u, role) \/ BuildChange(key, s[1], s[2], u, role)
               \/ BuildDeactivate(key, s[1], s[2], u)
        PROVE  UNCHANGED allWsVars
    BY <2>2 DEF BuildAdd, BuildChange, BuildDeactivate, Build
  <2>3. ASSUME NEW before, NEW gone, CleanupMembershipCommandResults(before, gone)
        PROVE  UNCHANGED allWsVars
    BY <2>3 DEF CleanupMembershipCommandResults
  <2>4. ASSUME NEW n \in 1..Len(requests), NEW a \in User, NEW late,
               ExecuteMembershipCommand(n, a, late)
        PROVE  WsNext
    BY <2>4, CommandIsMutation DEF CmdInv
  <2>5. CASE CmdStep
    BY <2>1, <2>2, <2>3, <2>4, <2>5 DEF CmdStep
  <2> QED BY <2>5 DEF CmdNext, allCmdVars
<1> QED BY <1>1, <1>2, CmdInvariance, PTL DEF CmdSpec, WsSpec

\* The lookup, the mutation and the insert of ExecuteMembershipCommand are one
\* transaction, and CleanupMembershipCommandResults takes only what is old enough up
\* to the second its text comparison may err: a key takes effect again only when its
\* result was kept for the retention less a second.
THEOREM OncePerKeyAlways == CmdSpec => []OncePerKey
<1>1. CmdInv => OncePerKey
  BY DEF CmdInv, OneResultPerKey, RepeatedLate, OncePerKey
<1> QED BY <1>1, CmdInvariance, PTL

\* The version and the role of a stored answer are those of the row it names, as long
\* as the answer is kept (executeOrganisationMembershipCommandTx and
\* executeWorkspaceMembershipCommandTx compute the version from the request).
THEOREM ResultsTellTheRowAlways == CmdSpec => []ResultsTellTheRow
<1>1. CmdInv => ResultsTellTheRow
  BY DEF CmdInv, ResultsAreTold, ToldBy, ResultsTellTheRow
<1> QED BY <1>1, CmdInvariance, PTL

\* The expected_version compare misses a stale request only when the versions of the
\* membership started again at 1 after the consumer looked, for any number of
\* mutations and commands in between.
THEOREM StaleOnlyAfterReAddAlways == CmdSpec => []StaleOnlyAfterReAdd
<1>1. CmdInv => StaleOnlyAfterReAdd
  BY DEF CmdInv, ActedIsTraced, ActedIn, AskedBy, StaleOnlyAfterReAdd
<1> QED BY <1>1, CmdInvariance, PTL
=============================================================================
