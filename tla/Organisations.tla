----------------------------- MODULE Organisations -----------------------------
(***************************************************************************)
(* Users, Organisations and Organisation memberships: the mutations of     *)
(* db/sqlite/users.go and db/sqlite/organisation.go.                       *)
(*                                                                         *)
(* Every mutation runs in one SQLite transaction over the store's single   *)
(* connection: the authority check, the row changes, the audit row and the *)
(* outbox events commit together or not at all, so a mutation is one       *)
(* atomic action.  A call that returns an error changes nothing and is a   *)
(* stuttering step.                                                        *)
(*                                                                         *)
(* The outbox is represented by what it tells a consumer: mirror holds the *)
(* records of a consumer that has applied every committed event, and each  *)
(* action updates it by the events that the transaction appends.  Order,   *)
(* loss and duplication between outbox and consumer are in Projection.     *)
(***************************************************************************)
EXTENDS MembershipTable, FiniteSets

CONSTANTS
    User,            \* Platform users
    SystemAdmin,     \* users with an active system_admin role; no code of the
                     \* repository writes system_role_assignments
    Organisation,    \* Organisations that may be created
    Name,            \* display names
    MaxMemberships   \* bound: rows the organisation_memberships table may reach

ASSUME OrganisationsAssumption ==
    /\ SystemAdmin \subseteq User
    /\ MaxMemberships \in Nat

VARIABLES
    users,           \* users[u]: "absent", "active" or "inactive"
    organisations,   \* organisations[o].status and .name
    memberships,     \* the organisation_memberships table
    mirror           \* what the outbox tells: users, organisations, memberships

orgVars == <<users, organisations, memberships, mirror>>

UserStatus == {"absent", "active", "inactive"}
OrgStatus  == {"absent", "active", "archived"}
OrgRole    == {"owner", "admin", "member"}
Unnamed    == "unnamed"   \* no event has told a name yet

(***************************************************************************)
(* Authority                                                               *)
(***************************************************************************)
ActiveUser(u) == users[u] = "active"

CanAdminister(role) == role \in {"owner", "admin"}

OrgRoleOf(o, u) == RoleIn(memberships, o, u)

\* Mutant of AuthorisedOrganisationMutation: the Organisation need not be active.
AuthorisedInAnyOrganisation(a, o) ==
    /\ ActiveUser(a)
    /\ a \in SystemAdmin \/ CanAdminister(OrgRoleOf(o, a))

\* authorisedOrganisationMutationTx: an active actor, an active Organisation,
\* and either the system role or an administering membership.
AuthorisedOrganisationMutation(a, o) ==
    /\ ActiveUser(a)
    /\ organisations[o].status = "active"
    /\ a \in SystemAdmin \/ CanAdminister(OrgRoleOf(o, a))

\* The actor's authority is an Organisation admin membership and nothing more.
ActsAsAdmin(a, o) == a \notin SystemAdmin /\ OrgRoleOf(o, a) = "admin"

\* Mutant of Manageable: the owner is not protected.
OwnerIsManageable(a, o, row) == ~(ActsAsAdmin(a, o) /\ row.role # "member")

\* The memberships that may be changed or ended: never the owner's, and by an
\* Organisation admin only those of plain members.
Manageable(a, o, row) ==
    /\ row.role # "owner"
    /\ ~(ActsAsAdmin(a, o) /\ row.role # "member")

(***************************************************************************)
(* Initial state: the migrated, empty database.                            *)
(***************************************************************************)
NoOrganisation == [status |-> "absent", name |-> Unnamed]

OrgInit ==
    /\ users = [u \in User |-> "absent"]
    /\ organisations = [o \in Organisation |-> NoOrganisation]
    /\ memberships = << >>
    /\ mirror = [users         |-> [u \in User |-> "absent"],
                 organisations |-> [o \in Organisation |-> NoOrganisation],
                 memberships   |-> << >>]

(***************************************************************************)
(* Users                                                                   *)
(***************************************************************************)
CreateUser(u, status) ==
    /\ users[u] = "absent"
    /\ users' = [users EXCEPT ![u] = status]
    /\ mirror' = [mirror EXCEPT !.users[u] = status]
    /\ UNCHANGED <<organisations, memberships>>

\* Deactivating a user leaves every membership and assignment in place.
SetUserActive(u, status) ==
    /\ users[u] # "absent"
    /\ users[u] # status
    /\ users' = [users EXCEPT ![u] = status]
    /\ mirror' = [mirror EXCEPT !.users[u] = status]
    /\ UNCHANGED <<organisations, memberships>>

(***************************************************************************)
(* Organisations                                                           *)
(***************************************************************************)
\* The creator becomes the owner.  The created event carries no name.
CreateOrganisation(a, o, name) ==
    LET row == NewRow(o, a, "owner", 1, a) IN
    /\ Len(memberships) < MaxMemberships
    /\ organisations[o].status = "absent"
    /\ ActiveUser(a)
    /\ organisations' = [organisations EXCEPT ![o] = [status |-> "active", name |-> name]]
    /\ memberships' = Insert(memberships, row)
    /\ mirror' = [mirror EXCEPT
                    !.organisations[o].status = "active",
                    !.memberships = AnnounceAdded(@, row)]
    /\ UNCHANGED users

RenameOrganisation(a, o, name) ==
    /\ AuthorisedOrganisationMutation(a, o)
    /\ organisations' = [organisations EXCEPT ![o].name = name]
    /\ mirror' = [mirror EXCEPT !.organisations[o].name = name]
    /\ UNCHANGED <<users, memberships>>

\* All active memberships end first, each with its event, then the Organisation.
\* Workspaces, entitlements and assignments of the Organisation are not touched.
ArchiveOrganisation(a, o) ==
    LET ended == ActiveIn(memberships, o) IN
    /\ AuthorisedOrganisationMutation(a, o)
    /\ a \in SystemAdmin \/ OrgRoleOf(o, a) = "owner"
    /\ organisations' = [organisations EXCEPT ![o].status = "archived"]
    /\ memberships' = Retire(memberships, ended)
    /\ mirror' = [mirror EXCEPT
                    !.organisations[o].status = "archived",
                    !.memberships = AnnounceEnded(@, memberships', ended)]
    /\ UNCHANGED users

(***************************************************************************)
(* Organisation memberships                                                *)
(***************************************************************************)
\* A membership added again after a removal starts at version 1 once more.
AddOrganisationMember(a, o, u, role) ==
    LET row == NewRow(o, u, role, 1, a) IN
    /\ Len(memberships) < MaxMemberships
    /\ role \in {"admin", "member"}
    /\ AuthorisedOrganisationMutation(a, o)
    /\ ~(ActsAsAdmin(a, o) /\ role = "admin")
    /\ ActiveUser(u)
    /\ Current(memberships, o, u) = {}
    /\ memberships' = Insert(memberships, row)
    /\ mirror' = [mirror EXCEPT !.memberships = AnnounceAdded(@, row)]
    /\ UNCHANGED <<users, organisations>>

\* The current row is retired and a new row with the next version inserted; the
\* one event names only the new membership.
ChangeOrganisationMemberRole(a, o, u, role) ==
    /\ Len(memberships) < MaxMemberships
    /\ role \in {"admin", "member"}
    /\ AuthorisedOrganisationMutation(a, o)
    /\ ActiveUser(u)
    /\ \E i \in Current(memberships, o, u) :
          LET row == NewRow(o, u, role, memberships[i].version + 1, a) IN
          /\ Manageable(a, o, memberships[i])
          /\ memberships[i].role # role
          /\ memberships' = Insert(Retire(memberships, {i}), row)
          /\ mirror' = [mirror EXCEPT !.memberships = AnnounceAdded(@, row)]
    /\ UNCHANGED <<users, organisations>>

DeactivateOrganisationMember(a, o, u) ==
    /\ AuthorisedOrganisationMutation(a, o)
    /\ ActiveUser(u)
    /\ \E i \in Current(memberships, o, u) :
          /\ Manageable(a, o, memberships[i])
          /\ memberships' = Retire(memberships, {i})
          /\ mirror' = [mirror EXCEPT
                          !.memberships = AnnounceEnded(@, memberships', {i})]
    /\ UNCHANGED <<users, organisations>>

OrgNext ==
    \/ \E u \in User, status \in {"active", "inactive"} :
          CreateUser(u, status) \/ SetUserActive(u, status)
    \/ \E a \in User, o \in Organisation :
          \/ \E name \in Name : CreateOrganisation(a, o, name) \/ RenameOrganisation(a, o, name)
          \/ ArchiveOrganisation(a, o)
          \/ \E u \in User :
                \/ \E role \in OrgRole : \/ AddOrganisationMember(a, o, u, role)
                                         \/ ChangeOrganisationMemberRole(a, o, u, role)
                \/ DeactivateOrganisationMember(a, o, u)

OrgSpec == OrgInit /\ [][OrgNext]_orgVars

(***************************************************************************)
(* Properties                                                              *)
(***************************************************************************)
OrgRow == RowOf(Organisation, User, OrgRole)
OrgRecord == RecordOf(Organisation, User, OrgRole)
OrgFacts == [Organisation -> [status : OrgStatus, name : Name \cup {Unnamed}]]

\* The type invariant of the store's tables and of the consumer's records.
OrgTypeOK ==
    /\ users \in [User -> UserStatus]
    /\ organisations \in OrgFacts
    /\ memberships \in Seq(OrgRow)
    /\ mirror \in [users : [User -> UserStatus], organisations : OrgFacts,
                   memberships : Seq(OrgRecord)]

Owners(table, o) == {i \in ActiveIn(table, o) : table[i].role = "owner"}

\* An active Organisation has exactly one active owner, through every add, role
\* change, removal and archive; an archived or never created one has no active
\* member at all.  The owner and current-membership unique indexes never fire.
OneOwner ==
    /\ AtMostOneCurrent(memberships)
    /\ \A o \in Organisation :
          /\ organisations[o].status = "active"
             => \E i \in 1..Len(memberships) : Owners(memberships, o) = {i}
          /\ organisations[o].status # "active" => ActiveIn(memberships, o) = {}

\* A consumer that has applied every committed outbox event holds the Platform's
\* own users, Organisations and memberships: no mutation changes a fact without
\* announcing it and none announces what it did not write.  A name is known to
\* the consumer once a rename has told it.
MirrorAgrees ==
    /\ mirror.users = users
    /\ \A o \in Organisation :
          /\ mirror.organisations[o].status = organisations[o].status
          /\ mirror.organisations[o].name \in {Unnamed, organisations[o].name}
    /\ Agree(memberships, mirror.memberships)

\* The owner of an Organisation never changes while it is active (owner transfer
\* is refused by every mutation), and an archived Organisation stays archived
\* with its memberships and its name untouched, whoever acts afterwards.
OwnerAndArchiveStay(o) ==
    /\ (organisations[o].status = "active" /\ organisations'[o].status = "active")
       => \A i \in ActiveIn(memberships, o) :
             memberships[i].role = "owner" => memberships'[i] = memberships[i]
    /\ organisations[o].status = "archived"
       => /\ organisations'[o] = organisations[o]
          /\ ActiveIn(memberships', o) = {}

OwnerAndArchiveAreFinal == [][\A o \in Organisation : OwnerAndArchiveStay(o)]_orgVars

\* Only a system administrator or the owner appoints an Organisation admin, on
\* whichever path the appointment is made.
AdminsAppointedFromAbove ==
    [][\A i \in 1..Len(memberships') :
          (i > Len(memberships) /\ memberships'[i].role = "admin")
          => \/ memberships'[i].by \in SystemAdmin
             \/ OrgRoleOf(memberships'[i].scope, memberships'[i].by) = "owner"]_orgVars
=============================================================================
