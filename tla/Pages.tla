--------------------------------- MODULE Pages ---------------------------------
(***************************************************************************)
(* What the Platform shows: the reads of the store (organisation.go,       *)
(* workspace.go, product.go, product_access.go), the launcher and the      *)
(* administration pages built from them (platform_ui.go, admin_ui.go and   *)
(* the templates they render), and the records a read-authority snapshot   *)
(* is made of (platform_read_authority.go).                                *)
(*                                                                         *)
(* None of them changes state: they are operators on the state of          *)
(* ProductAccess, each with the authority check it makes itself.  A page   *)
(* is taken at one moment; what happens to a page that has become old is   *)
(* the business of the mutations, which check everything again.            *)
(***************************************************************************)
EXTENDS ProductAccess

CONSTANTS
    Audience,       \* the audiences the issuer is configured for, each called by
                    \* the name of the one product that accepts its assertions
    LaunchTarget    \* the products with a configured browser destination

(***************************************************************************)
(* Reads                                                                   *)
(***************************************************************************)
ActiveSystemAdmin(r) == ActiveUser(r) /\ r \in SystemAdmin

\* Active Organisations with the requester's membership, if any; to a system
\* administrator all of them.
ListUserOrganisations(r) ==
    {o \in Organisation :
        /\ organisations[o].status = "active"
        /\ \/ ActiveUser(r) /\ Current(memberships, o, r) # {}
           \/ ActiveSystemAdmin(r)}

GetOrganisation(r, o) ==
    /\ organisations[o].status = "active"
    /\ \/ \E i \in ActiveIn(memberships, o) : memberships[i].user = r /\ ActiveUser(r)
       \/ ActiveSystemAdmin(r)

AuthorisedOrganisationRead(r, o, adminOnly) ==
    /\ organisations[o].status = "active"
    /\ ActiveUser(r)
    /\ \/ r \in SystemAdmin
       \/ /\ OrgRoleOf(o, r) # NoRole
          /\ adminOnly => CanAdminister(OrgRoleOf(o, r))

\* The rows shown to an administrator: current members who are active users.
ListOrganisationMembers(r, o) ==
    {i \in ActiveIn(memberships, o) :
        AuthorisedOrganisationRead(r, o, TRUE) /\ ActiveUser(memberships[i].user)}

\* Mutant of ListOrganisationWorkspaces: administrators see what they joined.
ListJoinedWorkspaces(r, o) ==
    {w \in Workspace :
        /\ AuthorisedOrganisationRead(r, o, FALSE)
        /\ workspaces[w] = [status |-> "active", organisation |-> o]
        /\ Current(wsMemberships, w, r) # {}}

ListOrganisationWorkspaces(r, o) ==
    {w \in Workspace :
        /\ AuthorisedOrganisationRead(r, o, FALSE)
        /\ workspaces[w] = [status |-> "active", organisation |-> o]
        /\ \/ r \in SystemAdmin
           \/ CanAdminister(OrgRoleOf(o, r))
           \/ Current(wsMemberships, w, r) # {}}

GetWorkspace(r, w) == ProveWorkspaceScope(r, w, FALSE)

\* Mutant of ListWorkspaceMembers: inactive users are not left out.
ListAllWorkspaceMembers(r, w) ==
    {i \in ActiveIn(wsMemberships, w) : ProveWorkspaceScope(r, w, TRUE)}

\* Membership of the Organisation is not asked for.
ListWorkspaceMembers(r, w) ==
    {i \in ActiveIn(wsMemberships, w) :
        ProveWorkspaceScope(r, w, TRUE) /\ ActiveUser(wsMemberships[i].user)}

\* The catalogue is for system administrators; anybody else gets an error.
MayListProducts(r) == ActiveSystemAdmin(r)

\* An entitlement is shown as active while its product is, too.
ListActiveEntitlements(r, o) ==
    {e \in 1..Len(entitlements) :
        /\ AuthorisedOrganisationRead(r, o, TRUE)
        /\ entitlements[e].organisation = o
        /\ entitlements[e].active /\ products[entitlements[e].product] = "active"}

\* Mutant of ListActiveAssignments: shown like entitlements, while the product is
\* active.
ListAssignmentsOfActiveProducts(r, o) ==
    {s \in 1..Len(assignments) :
        /\ AuthorisedOrganisationRead(r, o, TRUE)
        /\ assignments[s].organisation = o
        /\ assignments[s].active /\ products[assignments[s].product] = "active"}

ListActiveAssignments(r, o) ==
    {s \in 1..Len(assignments) :
        /\ AuthorisedOrganisationRead(r, o, TRUE)
        /\ assignments[s].organisation = o /\ assignments[s].active}

(***************************************************************************)
(* The launcher, from the list of Organisations to the assertion that is   *)
(* handed to a product.                                                    *)
(***************************************************************************)
LauncherOffers(r) ==
    UNION {UNION {{<<o, w, p>> : p \in ListLaunchableProducts(r, o, w)} :
                     w \in ListOrganisationWorkspaces(r, o)} :
              o \in ListUserOrganisations(r)}

ProductAccessPage(r, o, w, p) ==
    /\ GetOrganisation(r, o)
    /\ GetWorkspace(r, w)
    /\ workspaces[w].organisation = o
    /\ ProveProductAccess(r, o, p, w)
    /\ p \in ListLaunchableProducts(r, o, w)

\* Issuer.Issue asks of the audience only that it is configured.
Issues(a) == a \in Audience

\* The caller names the audience a; it is not compared with the product.
IssueProductAssertion(r, o, w, p, a) == ProveProductAccess(r, o, p, w) /\ Issues(a)

\* The hand-off's audience is that of the product's own launch target.
ProductHandoff(r, o, w, p) ==
    /\ p \in LaunchTarget
    /\ ProveProductAccess(r, o, p, w)
    /\ p \in ListLaunchableProducts(r, o, w)
    /\ Issues(p)

(***************************************************************************)
(* The administration pages: who gets one, and which of its rows come with *)
(* a button.                                                               *)
(***************************************************************************)
\* The pages find out by asking for the catalogue.
IsSystemAdministrator(r) == MayListProducts(r)

OrganisationAdminContext(r, o) ==
    [canAdmin |-> /\ o \in ListUserOrganisations(r)
                  /\ IsSystemAdministrator(r) \/ CanAdminister(OrgRoleOf(o, r)),
     archive  |-> /\ o \in ListUserOrganisations(r)
                  /\ IsSystemAdministrator(r) \/ OrgRoleOf(o, r) = "owner"]

\* The members, products and (for all members) general and workspaces sections.
OrganisationAdminPage(r, o, section) ==
    /\ GetOrganisation(r, o)
    /\ o \in ListUserOrganisations(r)
    /\ section \in {"members", "products"} => OrganisationAdminContext(r, o).canAdmin

MemberButtons(r, o) ==
    {i \in ListOrganisationMembers(r, o) :
        /\ OrganisationAdminPage(r, o, "members")
        /\ memberships[i].role # "owner"}

EntitlementButtons(r, o) ==
    {e \in ListActiveEntitlements(r, o) : OrganisationAdminPage(r, o, "products")}

AssignmentButtons(r, o) ==
    {s \in ListActiveAssignments(r, o) : OrganisationAdminPage(r, o, "products")}

\* The page of a Workspace: the scope proof says whether it has buttons at all,
\* the one that archives the Workspace included.
WorkspaceAdminPage(r, w) ==
    [opens    |-> GetWorkspace(r, w) /\ GetOrganisation(r, workspaces[w].organisation),
     canAdmin |-> /\ ProveWorkspaceScope(r, w, FALSE)
                  /\ AdministersOrganisationOf(r, w) \/ WsRoleOf(w, r) = "admin"]

WorkspaceMemberButtons(r, w) ==
    {i \in ListWorkspaceMembers(r, w) : WorkspaceAdminPage(r, w).canAdmin}

RetireButtons(r) == {p \in Product : MayListProducts(r) /\ products[p] = "active"}

(***************************************************************************)
(* The records of a snapshot, kind by kind: every row, ended ones included.*)
(***************************************************************************)
MaterializeUsers ==
    [u \in {v \in User : users[v] # "absent"} |->
        IF ActiveUser(u) THEN "active" ELSE "archived"]

MaterializeOrganisations ==
    [o \in {q \in Organisation : organisations[q].status # "absent"} |->
        organisations[o].status]

\* Mutant of MaterializeOrganisationMemberships: those of active users only.
MaterializeMembershipsOfActive ==
    [i \in {j \in 1..Len(memberships) : ActiveUser(memberships[j].user)} |->
        RecordFor(memberships[i], memberships[i].active)]

MaterializeOrganisationMemberships ==
    [i \in 1..Len(memberships) |-> RecordFor(memberships[i], memberships[i].active)]

MaterializeWorkspaces ==
    [w \in {v \in Workspace : workspaces[v].status # "absent"} |-> workspaces[w]]

MaterializeWorkspaceMemberships ==
    [i \in 1..Len(wsMemberships) |-> RecordFor(wsMemberships[i], wsMemberships[i].active)]

\* Products no event tells of have the migration that seeded them as provenance.
MaterializeProducts == products

MaterializeEntitlements == entitlements

MaterializeAssignments == assignments

(***************************************************************************)
(* Properties                                                              *)
(***************************************************************************)
\* The launcher's three lists, the product page, the hand-off and the assertion
\* route decide with six queries of their own, and agree in every state that
\* the mutations can produce: the product page opens for exactly what is offered,
\* the hand-off succeeds for exactly what is offered and configured, and the
\* assertion route answers for exactly the offered products.  What it answers with
\* is not tied to the product: a single offer is enough for an assertion to every
\* configured audience, and no offer means none.
LauncherLeadsOn ==
    \A r \in User :
        LET offers == LauncherOffers(r) IN
        \A o \in Organisation, w \in Workspace :
            LET launchable == ListLaunchableProducts(r, o, w) IN
            \A p \in Product :
                LET offered == <<o, w, p>> \in offers IN
                /\ p \in launchable <=> offered
                /\ ProductAccessPage(r, o, w, p) <=> offered
                /\ ProductHandoff(r, o, w, p) <=> offered /\ p \in LaunchTarget \cap Audience
                /\ \A a \in Audience : IssueProductAssertion(r, o, w, p, a) <=> offered

\* A page shows buttons exactly to those whose mutations the store accepts, and a
\* button leads to a mutation that the store accepts, but for three places where
\* the page offers more: an Organisation admin sees buttons on admins, himself
\* included, a Workspace administrator sees buttons on members who have left the
\* Organisation, and may press the one that archives the Workspace.  No removal
\* that would be accepted lacks its button.
OfferedIsAccepted ==
    \A r \in User :
        /\ \A o \in Organisation :
              LET page == OrganisationAdminContext(r, o)
                  buttons == MemberButtons(r, o)
              IN
              /\ page.canAdmin <=> AuthorisedOrganisationMutation(r, o)
              /\ page.archive <=> ENABLED ArchiveOrganisation(r, o)
              /\ \A i \in ActiveIn(memberships, o) :
                    LET row == memberships[i] IN
                    i \in buttons
                    <=> \/ ENABLED DeactivateOrganisationMember(r, o, row.user)
                        \/ /\ page.canAdmin /\ ActsAsAdmin(r, o)
                           /\ row.role = "admin" /\ ActiveUser(row.user)
        /\ \A w \in Workspace :
              LET page == WorkspaceAdminPage(r, w)
                  buttons == WorkspaceMemberButtons(r, w)
              IN
              /\ page.canAdmin => page.opens
              /\ page.canAdmin <=> AuthorisedWorkspaceMutation(r, w, TRUE)
              /\ page.canAdmin
                 => ~AdministersOrganisationOf(r, w) \/ ENABLED ArchiveWorkspace(r, w)
              /\ \A i \in ActiveIn(wsMemberships, w) :
                    LET user == wsMemberships[i].user IN
                    /\ ENABLED DeactivateWorkspaceMember(r, w, user) => i \in buttons
                    /\ i \in buttons
                       => \/ Current(memberships, workspaces[w].organisation, user) = {}
                          \/ ENABLED DeactivateWorkspaceMember(r, w, user)

\* The same of the buttons on grants and products: those on assignments and on
\* the catalogue are exactly what the store accepts, those on entitlements are
\* missing once the product is retired although the store would still revoke.
GrantButtonsAreAccepted ==
    \A r \in User :
        /\ \A e \in 1..Len(entitlements) :
              LET o == entitlements[e].organisation IN
              e \in EntitlementButtons(r, o)
              <=> /\ products[entitlements[e].product] = "active"
                  /\ ENABLED RevokeOrganisationEntitlement(r, o, e)
        /\ \A s \in 1..Len(assignments) :
              LET o == assignments[s].organisation IN
              s \in AssignmentButtons(r, o) <=> ENABLED RevokeUserProduct(r, o, s)
        /\ \A p \in Product : p \in RetireButtons(r) <=> ENABLED RetireProduct(r, p)

\* The two ways to learn the Platform's facts agree at every moment: a snapshot
\* taken now holds, kind by kind, the facts that a consumer of the whole feed
\* holds (of memberships: the same rows, active alike if a later one for the same
\* user and scope supersedes an earlier), and every record of it has been announced by some event, so that its
\* provenance can be found and no snapshot fails for the lack of one.
SnapshotAndFeedAgree ==
    LET people  == MaterializeUsers
        orgs    == MaterializeOrganisations
        members == MaterializeOrganisationMemberships
        wsMembers == MaterializeWorkspaceMemberships
    IN
    /\ \A u \in User :
          /\ u \in DOMAIN people <=> mirror.users[u] # "absent"
          /\ u \in DOMAIN people => (people[u] = "active" <=> mirror.users[u] = "active")
    /\ \A o \in Organisation :
          /\ o \in DOMAIN orgs <=> mirror.organisations[o].status # "absent"
          /\ o \in DOMAIN orgs => orgs[o] = mirror.organisations[o].status
    /\ DOMAIN members = DOMAIN mirror.memberships
    /\ Agree(members, mirror.memberships)
    /\ \A w \in Workspace :
          IF w \in DOMAIN MaterializeWorkspaces
          THEN MaterializeWorkspaces[w] = wsMirror.workspaces[w]
          ELSE wsMirror.workspaces[w] = NoWorkspace
    /\ DOMAIN wsMembers = DOMAIN wsMirror.memberships
    /\ Agree(wsMembers, wsMirror.memberships)
    /\ MaterializeProducts = accessMirror.products
    /\ MaterializeEntitlements = accessMirror.entitlements
    /\ MaterializeAssignments = accessMirror.assignments
=============================================================================
