------------------------------ MODULE Workspaces ------------------------------
(***************************************************************************)
(* Workspaces and Workspace memberships (db/sqlite/workspace.go) and the   *)
(* scope proof every Workspace operation starts with                       *)
(* (db/sqlite/access_scope.go), composed with Organisations: the authority *)
(* over a Workspace is read from the tables of both.                       *)
(***************************************************************************)
EXTENDS Organisations

CONSTANTS
    Workspace,        \* Workspaces that may be created
    MaxWsMemberships  \* bound: rows the workspace_memberships table may reach

ASSUME WorkspacesAssumption == MaxWsMemberships \in Nat

VARIABLES
    workspaces,       \* workspaces[w].status and the owning .organisation
    wsMemberships,    \* the workspace_memberships table
    wsMirror          \* what the outbox tells: workspaces, memberships

wsVars  == <<workspaces, wsMemberships, wsMirror>>
allWsVars == <<orgVars, wsVars>>

WsStatus == {"absent", "active", "archived"}
WsRole   == {"admin", "member", "viewer"}
Nowhere  == "nowhere"   \* the Organisation of a Workspace that does not exist

(***************************************************************************)
(* Authority                                                               *)
(***************************************************************************)
WsRoleOf(w, u) == RoleIn(wsMemberships, w, u)

\* Mutant of LiveScope: the Organisation's status is not looked at.
LiveInAnyOrganisation(u, w) ==
    ActiveUser(u) /\ workspaces[w].status = "active"

\* The Workspace, its Organisation and the requester are all active.
LiveScope(u, w) ==
    /\ ActiveUser(u)
    /\ workspaces[w].status = "active"
    /\ organisations[workspaces[w].organisation].status = "active"

AdministersOrganisationOf(u, w) ==
    u \in SystemAdmin \/ CanAdminister(OrgRoleOf(workspaces[w].organisation, u))

ProveWorkspaceScope(u, w, adminOnly) ==
    /\ LiveScope(u, w)
    /\ u \in SystemAdmin \/ OrgRoleOf(workspaces[w].organisation, u) # NoRole
    /\ \/ AdministersOrganisationOf(u, w)
       \/ WsRoleOf(w, u) \in IF adminOnly THEN {"admin"} ELSE WsRole

AuthorisedWorkspaceMutation(a, w, allowWorkspaceAdmin) ==
    /\ ProveWorkspaceScope(a, w, TRUE)
    /\ allowWorkspaceAdmin \/ AdministersOrganisationOf(a, w)

\* Mutant of ActiveWorkspaceTarget: membership of the Organisation is not asked.
AnyActiveUser(w, u) == ActiveUser(u)

\* activeWorkspaceTargetUserTx: the target is an active user who is, now, a
\* member of the Workspace's Organisation.
ActiveWorkspaceTarget(w, u) ==
    /\ ActiveUser(u)
    /\ Current(memberships, workspaces[w].organisation, u) # {}

(***************************************************************************)
(* Operations                                                              *)
(***************************************************************************)
NoWorkspace == [status |-> "absent", organisation |-> Nowhere]

WorkspacesInit ==
    /\ workspaces = [w \in Workspace |-> NoWorkspace]
    /\ wsMemberships = << >>
    /\ wsMirror = [workspaces |-> [w \in Workspace |-> NoWorkspace], memberships |-> << >>]

WsInit == OrgInit /\ WorkspacesInit

\* The creator becomes a Workspace admin, also a system administrator who has no
\* membership in the Organisation.
CreateWorkspace(a, o, w) ==
    LET row == NewRow(w, a, "admin", 1, a) IN
    /\ Len(wsMemberships) < MaxWsMemberships
    /\ workspaces[w].status = "absent"
    /\ AuthorisedOrganisationMutation(a, o)
    /\ workspaces' = [workspaces EXCEPT ![w] = [status |-> "active", organisation |-> o]]
    /\ wsMemberships' = Insert(wsMemberships, row)
    /\ wsMirror' = [wsMirror EXCEPT
                      !.workspaces[w] = [status |-> "active", organisation |-> o],
                      !.memberships = AnnounceAdded(@, row)]
    /\ UNCHANGED orgVars

AddWorkspaceMember(a, w, u, role) ==
    LET row == NewRow(w, u, role, 1, a) IN
    /\ Len(wsMemberships) < MaxWsMemberships
    /\ AuthorisedWorkspaceMutation(a, w, TRUE)
    /\ ActiveWorkspaceTarget(w, u)
    /\ Current(wsMemberships, w, u) = {}
    /\ wsMemberships' = Insert(wsMemberships, row)
    /\ wsMirror' = [wsMirror EXCEPT !.memberships = AnnounceAdded(@, row)]
    /\ UNCHANGED <<orgVars, workspaces>>

ChangeWorkspaceMemberRole(a, w, u, role) ==
    /\ Len(wsMemberships) < MaxWsMemberships
    /\ AuthorisedWorkspaceMutation(a, w, TRUE)
    /\ ActiveWorkspaceTarget(w, u)
    /\ \E i \in Current(wsMemberships, w, u) :
          LET row == NewRow(w, u, role, wsMemberships[i].version + 1, a) IN
          /\ wsMemberships[i].role # role
          /\ wsMemberships' = Insert(Retire(wsMemberships, {i}), row)
          /\ wsMirror' = [wsMirror EXCEPT !.memberships = AnnounceAdded(@, row)]
    /\ UNCHANGED <<orgVars, workspaces>>

\* Mutant of DeactivateWorkspaceMember: the target may be anybody.
DeactivateAnyWorkspaceMember(a, w, u) ==
    /\ AuthorisedWorkspaceMutation(a, w, TRUE)
    /\ \E i \in Current(wsMemberships, w, u) :
          /\ wsMemberships' = Retire(wsMemberships, {i})
          /\ wsMirror' = [wsMirror EXCEPT
                            !.memberships = AnnounceEnded(@, wsMemberships', {i})]
    /\ UNCHANGED <<orgVars, workspaces>>

DeactivateWorkspaceMember(a, w, u) ==
    /\ AuthorisedWorkspaceMutation(a, w, TRUE)
    /\ ActiveWorkspaceTarget(w, u)
    /\ \E i \in Current(wsMemberships, w, u) :
          /\ wsMemberships' = Retire(wsMemberships, {i})
          /\ wsMirror' = [wsMirror EXCEPT
                            !.memberships = AnnounceEnded(@, wsMemberships', {i})]
    /\ UNCHANGED <<orgVars, workspaces>>

\* Archiving ends every active membership, also those of users who are inactive
\* or have left the Organisation.
ArchiveWorkspace(a, w) ==
    LET ended == ActiveIn(wsMemberships, w) IN
    /\ AuthorisedWorkspaceMutation(a, w, FALSE)
    /\ workspaces' = [workspaces EXCEPT ![w].status = "archived"]
    /\ wsMemberships' = Retire(wsMemberships, ended)
    /\ wsMirror' = [wsMirror EXCEPT
                      !.workspaces[w].status = "archived",
                      !.memberships = AnnounceEnded(@, wsMemberships', ended)]
    /\ UNCHANGED orgVars

WsStep ==
    \E a \in User, w \in Workspace :
        \/ \E o \in Organisation : CreateWorkspace(a, o, w)
        \/ ArchiveWorkspace(a, w)
        \/ \E u \in User :
              \/ \E role \in WsRole : \/ AddWorkspaceMember(a, w, u, role)
                                      \/ ChangeWorkspaceMemberRole(a, w, u, role)
              \/ DeactivateWorkspaceMember(a, w, u)

WsNext == WsStep \/ (OrgNext /\ UNCHANGED wsVars)

WsSpec == WsInit /\ [][WsNext]_allWsVars

(***************************************************************************)
(* Properties                                                              *)
(***************************************************************************)
WsRow == RowOf(Workspace, User, WsRole)
WsRecord == RecordOf(Workspace, User, WsRole)
WsFacts == [Workspace -> [status : WsStatus, organisation : Organisation \cup {Nowhere}]]

\* The type invariant of the Workspace tables and of the consumer's records.
WsTypeOK ==
    /\ workspaces \in WsFacts
    /\ wsMemberships \in Seq(WsRow)
    /\ wsMirror \in [workspaces : WsFacts, memberships : Seq(WsRecord)]

\* A consumer that has applied every committed outbox event holds the Platform's
\* own Workspaces and Workspace memberships, whatever happened to the users and
\* memberships of the Organisation meanwhile.
WsMirrorAgrees ==
    /\ wsMirror.workspaces = workspaces
    /\ Agree(wsMemberships, wsMirror.memberships)

\* Every Workspace membership ever granted went to somebody who had been made a
\* member of the owning Organisation, or to a system administrator who created
\* the Workspace: no path hands a Workspace role to a stranger.  An archived
\* Workspace keeps none of its memberships active.
GrantsStayInOrganisation ==
    /\ \A i \in 1..Len(wsMemberships) :
          LET row == wsMemberships[i] IN
          \/ row.user \in SystemAdmin /\ row.by = row.user
          \/ \E j \in 1..Len(memberships) :
                /\ memberships[j].scope = workspaces[row.scope].organisation
                /\ memberships[j].user = row.user
    /\ \A w \in Workspace : workspaces[w].status # "active" => ActiveIn(wsMemberships, w) = {}

\* A Workspace membership whose holder is inactive or no longer in the
\* Organisation is dormant: nobody can change or end it (the mutations refuse
\* the target) short of archiving the Workspace, so it is still there, with its
\* old role, when the holder comes back.
DormantMembershipsStay ==
    [][\A i \in 1..Len(wsMemberships) :
          LET row == wsMemberships[i] IN
          (row.active /\ ~ActiveWorkspaceTarget(row.scope, row.user))
          => \/ wsMemberships'[i] = row
             \/ workspaces'[row.scope].status = "archived"]_allWsVars

\* Archiving an Organisation freezes its Workspaces for ever: their status and
\* every membership row stay exactly as they were, since no later step can prove
\* a scope in it.
ArchivedOrganisationFreezesWorkspaces ==
    [][\A w \in Workspace :
          (/\ workspaces[w].status # "absent"
           /\ organisations[workspaces[w].organisation].status = "archived")
          => /\ workspaces'[w] = workspaces[w]
             /\ \A i \in 1..Len(wsMemberships') :
                   wsMemberships'[i].scope = w
                   => i <= Len(wsMemberships) /\ wsMemberships'[i] = wsMemberships[i]]_allWsVars
=============================================================================
