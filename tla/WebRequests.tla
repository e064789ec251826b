------------------------------ MODULE WebRequests ------------------------------
(***************************************************************************)
(* The requests of signed-in browsers (platform/http/server.go,            *)
(* platform_ui.go, admin_ui.go) among each other.                          *)
(*                                                                         *)
(* A form is one mutation of the store, one transaction.  A page or a JSON *)
(* read is not: its handler asks the store several times and the store     *)
(* itself asks several queries per call, none of them in a transaction, so *)
(* that forms of others come between any two.  The session was found       *)
(* before the first query and is not looked at again.                      *)
(*                                                                         *)
(* Reading changes nothing, so one request stands for all of them.  It     *)
(* asks about one Organisation, Workspace, product and (of an assertion)   *)
(* audience; the answer is whether it gets to see (or is handed) that one. *)
(* Followed are the routes with several queries, and one of the routes     *)
(* that make the same ones; a route with a single query reads one state.   *)
(***************************************************************************)
EXTENDS Pages

CONSTANTS
    Home,         \* an Organisation that exists at the start
    Founder,      \* its owner
    Deputy,       \* another member, whose requests are followed
    Licensed,     \* the product it is entitled to and Deputy is assigned
    Site          \* a Workspace that Deputy may have created

ASSUME WebAssumption ==
    /\ Home \in Organisation /\ Licensed \in Product /\ Site \in Workspace
    /\ {Founder, Deputy} \subseteq User /\ Founder # Deputy

VARIABLES
    request,    \* the request: what it asks for, and what it has read so far
    seen,       \* history: the rights the requester had since it arrived
    answer      \* what it was answered, until the next step

webVars == <<request, seen, answer>>

NoRequest == [route |-> "none"]
NoAnswer == [route |-> "none", shown |-> TRUE, rights |-> {}]

(***************************************************************************)
(* The queries of each route, in order.                                    *)
(***************************************************************************)
\* authorisedOrganisationRead: for members, and for administrators only.
OrganisationRead == <<"status", "reader", "role">>
AdminRead == <<"status", "reader", "adminRole">>

\* ListOrganisationWorkspaces: the role decides which rows are asked for.
WorkspaceList == OrganisationRead \o <<"listingRole", "workspaceRows">>

\* An Organisation with its Workspaces, as a page (workspaceSelector) and as JSON
\* (getOrganisationWorkspaceEntry).
WorkspaceEntry == <<"getOrganisation">> \o WorkspaceList

\* resolveOrganisationAdminContext: the role from the list, the system role from
\* the catalogue.
AdminContext == <<"getOrganisation", "listedRole", "catalogue">>

\* The launcher's pages.
PageQueries ==
    [selector  |-> WorkspaceEntry,
     launcher  |-> <<"listed">> \o WorkspaceList \o <<"launchable">>,
     product   |-> <<"getOrganisation", "scope", "workspaceRow", "access", "launchable">>,
     handoff   |-> <<"target", "access", "launchable", "issueForTarget">>,
     assertion |-> <<"access", "issue">>]

\* The administration pages: the four sections of an Organisation's, of which
\* "general" has its audit for whom the context before said may administer, and a
\* Workspace's, with members and audit for whom the scope proof before said so.
AdminQueries ==
    [general    |-> AdminContext \o <<"notedStatus", "notedReader", "notedRole">>,
     members    |-> AdminContext \o <<"mustAdminister">> \o AdminRead,
     workspaces |-> AdminContext \o WorkspaceList,
     products   |-> AdminContext \o <<"mustAdminister">> \o AdminRead \o AdminRead,
     workspace  |-> <<"scope", "workspaceRow", "getOrganisation", "adminScope",
                      "notedScope", "notedScope">>]

\* JSON: members (likewise audit, entitlements and assignments) and Workspaces of
\* an Organisation; members (likewise audit) of a Workspace, and the Workspace
\* itself, behind requireWorkspaceScope.
OrganisationQueries ==
    [organisationMembers    |-> AdminRead,
     organisationWorkspaces |-> WorkspaceList]
WorkspaceQueries ==
    [workspaceRead    |-> <<"scope", "scope", "workspaceRow">>,
     workspaceMembers |-> <<"mustAdminScope", "mustAdminScope">>]

Route == UNION {DOMAIN PageQueries, DOMAIN AdminQueries, DOMAIN OrganisationQueries,
                DOMAIN WorkspaceQueries}

QueriesOf(route) ==
    CASE route \in DOMAIN PageQueries -> PageQueries[route]
      [] route \in DOMAIN AdminQueries -> AdminQueries[route]
      [] route \in DOMAIN OrganisationQueries -> OrganisationQueries[route]
      [] route \in DOMAIN WorkspaceQueries -> WorkspaceQueries[route]

(***************************************************************************)
(* Does the request go on after query q?  r.admin is what an earlier query *)
(* found out; the queries called noted... are only made if it is TRUE.     *)
(***************************************************************************)
OrganisationPasses(q, r) ==
    CASE q = "getOrganisation" -> GetOrganisation(r.user, r.o)
      [] q \in {"listed", "listedRole"} -> r.o \in ListUserOrganisations(r.user)
      [] q = "status" -> organisations[r.o].status = "active"
      [] q = "reader" -> ActiveUser(r.user)
      [] q = "role" -> r.user \in SystemAdmin \/ OrgRoleOf(r.o, r.user) # NoRole
      [] q = "adminRole" -> r.user \in SystemAdmin \/ CanAdminister(OrgRoleOf(r.o, r.user))
      [] q = "mustAdminister" -> r.admin
      [] q = "notedStatus" -> r.admin => organisations[r.o].status = "active"
      [] q = "notedReader" -> r.admin => ActiveUser(r.user)
      [] q = "notedRole" ->
            r.admin => r.user \in SystemAdmin \/ CanAdminister(OrgRoleOf(r.o, r.user))
      [] OTHER -> TRUE

WorkspacePasses(q, r) ==
    CASE q \in {"scope", "adminScope"} -> ProveWorkspaceScope(r.user, r.w, FALSE)
      [] q = "mustAdminScope" -> ProveWorkspaceScope(r.user, r.w, TRUE)
      [] q = "notedScope" -> r.admin => ProveWorkspaceScope(r.user, r.w, TRUE)
      [] q \in {"workspaceRow", "workspaceRows"} ->
            /\ workspaces[r.w] = [status |-> "active", organisation |-> r.o]
            /\ organisations[r.o].status = "active"
            /\ \/ q = "workspaceRow" \/ r.admin
               \/ ActiveUser(r.user) /\ Current(wsMemberships, r.w, r.user) # {}
      [] OTHER -> TRUE

\* Mutant of ProductPasses: the access proof is only a proof of scope.
ProductPassesOnScope(q, r) ==
    q \in {"access", "launchable"} => ProveWorkspaceScope(r.user, r.w, FALSE)

ProductPasses(q, r) ==
    /\ q = "access" => ProveProductAccess(r.user, r.o, r.p, r.w)
    /\ q = "launchable" => r.p \in ListLaunchableProducts(r.user, r.o, r.w)

\* The configuration: it does not change while the server runs.
ConfigurationPasses(q, r) ==
    /\ q = "target" => r.p \in LaunchTarget
    /\ q = "issueForTarget" => Issues(r.p)
    /\ q = "issue" => Issues(r.a)

Passes(q, r) ==
    /\ OrganisationPasses(q, r) /\ WorkspacePasses(q, r)
    /\ ProductPasses(q, r) /\ ConfigurationPasses(q, r)

\* What the query leaves behind for later ones: may the requester administer?
Noted(q, r) ==
    CASE q = "listingRole" -> r.user \in SystemAdmin \/ CanAdminister(OrgRoleOf(r.o, r.user))
      [] q = "listedRole" -> CanAdminister(OrgRoleOf(r.o, r.user))
      [] q = "catalogue" -> r.admin \/ IsSystemAdministrator(r.user)
      [] q = "adminScope" -> AdministersOrganisationOf(r.user, r.w) \/ WsRoleOf(r.w, r.user) = "admin"
      [] OTHER -> r.admin

(***************************************************************************)
(* What the requester has a right to, taken at one moment.                 *)
(***************************************************************************)
Opens(r) ==
    CASE r.route = "selector" ->
            GetOrganisation(r.user, r.o) /\ r.w \in ListOrganisationWorkspaces(r.user, r.o)
      [] r.route = "launcher" ->
            /\ r.o \in ListUserOrganisations(r.user)
            /\ r.w \in ListOrganisationWorkspaces(r.user, r.o)
            /\ r.p \in ListLaunchableProducts(r.user, r.o, r.w)
      [] r.route = "product" -> ProductAccessPage(r.user, r.o, r.w, r.p)
      [] r.route = "handoff" -> ProductHandoff(r.user, r.o, r.w, r.p)
      [] r.route = "assertion" -> IssueProductAssertion(r.user, r.o, r.w, r.p, r.a)
      [] r.route \in {"general", "members", "products"} ->
            OrganisationAdminPage(r.user, r.o, r.route)
      [] r.route = "workspaces" ->
            /\ OrganisationAdminPage(r.user, r.o, "workspaces")
            /\ r.w \in ListOrganisationWorkspaces(r.user, r.o)
      [] r.route = "organisationWorkspaces" -> r.w \in ListOrganisationWorkspaces(r.user, r.o)
      [] r.route = "organisationMembers" -> AuthorisedOrganisationRead(r.user, r.o, TRUE)
      [] r.route = "workspace" ->
            WorkspaceAdminPage(r.user, r.w).opens /\ workspaces[r.w].organisation = r.o
      [] r.route = "workspaceRead" ->
            GetWorkspace(r.user, r.w) /\ workspaces[r.w].organisation = r.o
      [] r.route = "workspaceMembers" -> ProveWorkspaceScope(r.user, r.w, TRUE)

\* The routes that show a list of Workspaces.
WorkspaceLists == {"selector", "workspaces", "organisationWorkspaces"}

\* The roles are looked at where the answer depends on more than one query of them.
Rights(r) ==
    [opens   |-> Opens(r),
     governs |-> /\ r.route \in WorkspaceLists \cup {"launcher", "general"}
                 /\ OrganisationAdminContext(r.user, r.o).canAdmin,
     admin   |-> r.route = "workspace" /\ WorkspaceAdminPage(r.user, r.w).canAdmin]

(***************************************************************************)
(* A request                                                               *)
(***************************************************************************)
\* Home has an owner and a second member, who has had one role and now has the
\* other; he is assigned the product that Home is entitled to.
Founded(past, role) ==
    LET owner == NewRow(Home, Founder, "owner", 1, Founder)
        first == NewRow(Home, Deputy, past, 1, Founder)
        second == NewRow(Home, Deputy, role, 2, Founder)
    IN
    /\ users = [u \in User |-> "active"]
    /\ organisations = [o \in Organisation |->
                          IF o = Home THEN [NoOrganisation EXCEPT !.status = "active"]
                          ELSE NoOrganisation]
    /\ memberships = Insert(Retire(<<owner, first>>, {2}), second)
    /\ mirror = [users |-> users, organisations |-> organisations,
                 memberships |-> <<RecordFor(owner, TRUE), RecordFor(first, TRUE),
                                   RecordFor(second, TRUE)>>]

\* He may have created a Workspace, when he was an admin.
Settled(w, exists) ==
    LET row == NewRow(w, Deputy, "admin", 1, Deputy) IN
    IF exists
    THEN /\ workspaces = [v \in Workspace |->
                            IF v = w THEN [status |-> "active", organisation |-> Home]
                            ELSE NoWorkspace]
         /\ wsMemberships = <<row>>
         /\ wsMirror = [workspaces |-> workspaces, memberships |-> <<RecordFor(row, TRUE)>>]
    ELSE WorkspacesInit

Equipped(p) ==
    /\ products = [q \in Product |-> "active"]
    /\ entitlements = <<[organisation |-> Home, product |-> p, active |-> TRUE]>>
    /\ assignments = <<[user |-> Deputy, organisation |-> Home, product |-> p, active |-> TRUE]>>
    /\ accessMirror = [products |-> products, entitlements |-> entitlements,
                       assignments |-> assignments]

WebInit ==
    /\ \/ Founded("member", "admin") /\ Settled(Site, FALSE)
       \/ Founded("admin", "member") /\ Settled(Site, TRUE)
    /\ Equipped(Licensed)
    /\ request = NoRequest
    /\ seen = {}
    /\ answer = NoAnswer

\* requireSession finds the session of an active user.
Arrive(route, u, o, w, p, a) ==
    LET r == [route |-> route, user |-> u, o |-> o, w |-> w, p |-> p, a |-> a,
              next |-> 1, admin |-> FALSE]
    IN
    /\ request = NoRequest
    /\ ActiveUser(u)
    /\ request' = r
    /\ seen' = {Rights(r)}
    /\ answer' = NoAnswer
    /\ UNCHANGED allVars

Answered(shown) ==
    /\ answer' = [route |-> request.route, shown |-> shown, rights |-> seen]
    /\ request' = NoRequest
    /\ seen' = {}

Query ==
    LET queries == QueriesOf(request.route)
        q == queries[request.next]
    IN
    /\ request # NoRequest
    /\ \/ ~Passes(q, request) /\ Answered(FALSE)
       \/ /\ Passes(q, request)
          /\ IF request.next = Len(queries)
             THEN Answered(TRUE)
             ELSE /\ request' = [request EXCEPT !.next = @ + 1, !.admin = Noted(q, request)]
                  /\ UNCHANGED <<seen, answer>>
    /\ UNCHANGED allVars

(***************************************************************************)
(* The forms of others, and of the same user in another tab: the session   *)
(* and its CSRF token are checked before the mutation, which checks that   *)
(* the actor is active and has the authority once more.                    *)
(***************************************************************************)
OrganisationForm(a, o) ==
    /\ \/ \E name \in Name : RenameOrganisation(a, o, name)
       \/ ArchiveOrganisation(a, o)
       \/ \E u \in User :
             \/ \E role \in OrgRole : AddOrganisationMember(a, o, u, role)
                                      \/ ChangeOrganisationMemberRole(a, o, u, role)
             \/ DeactivateOrganisationMember(a, o, u)
    /\ UNCHANGED <<wsVars, accessVars>>

WorkspaceForm(a, w) ==
    /\ \/ \E o \in Organisation : CreateWorkspace(a, o, w)
       \/ \E u \in User :
             \/ \E role \in WsRole : AddWorkspaceMember(a, w, u, role)
                                     \/ ChangeWorkspaceMemberRole(a, w, u, role)
             \/ DeactivateWorkspaceMember(a, w, u)
       \/ ArchiveWorkspace(a, w)
    /\ UNCHANGED accessVars

ProductForm(a, o) ==
    \/ \E p \in Product : \/ EntitleOrganisation(a, o, p)
                          \/ \E u \in User : AssignUserProduct(a, o, u, p)
    \/ \E e \in 1..Len(entitlements) : RevokeOrganisationEntitlement(a, o, e)
    \/ \E s \in 1..Len(assignments) : RevokeUserProduct(a, o, s)

\* Users are switched off and on by clients of the store.
UserSwitch ==
    /\ \E u \in User, status \in {"active", "inactive"} : SetUserActive(u, status)
    /\ UNCHANGED <<wsVars, accessVars>>

Mutation ==
    /\ \/ \E a \in User :
             \/ \E o \in Organisation : OrganisationForm(a, o) \/ ProductForm(a, o)
             \/ \E w \in Workspace : WorkspaceForm(a, w)
             \/ \E p \in Product : RetireProduct(a, p)
       \/ UserSwitch
    /\ UNCHANGED request
    /\ seen' = seen \cup {Rights(r)' : r \in {request} \ {NoRequest}}
    /\ answer' = NoAnswer

WebNext ==
    \/ \E route \in Route, o \in Organisation, w \in Workspace, p, a \in Product :
          Arrive(route, Deputy, o, w, p, a)
    \/ Query
    \/ Mutation

WebSpec == WebInit /\ [][WebNext]_<<allVars, webVars>>

(***************************************************************************)
(* Property                                                                *)
(***************************************************************************)
\* Although no route reads one state, an answer is never a mixture that was true
\* of none: what a request gets to see it had a right to at some moment between
\* its arrival and the answer, and it is refused only if at some such moment it
\* had none.  The exceptions are requesters whose own role changes meanwhile: a
\* list of Workspaces is made for the role of an earlier query, so that it may
\* show a Workspace that was created after an administrator lost the role, and
\* (as the launcher) leave out one that a new administrator has just been removed
\* from; and the general page of an Organisation and the page of a Workspace, open
\* to ordinary members, are refused to an administrator who becomes one while the
\* page reads.
AnswersHeldDuringRequest ==
    LET rights == answer.rights IN
    \/ answer = NoAnswer
    \/ \E v \in rights : v.opens <=> answer.shown
    \/ /\ \E v \in rights : v.governs
       /\ \E v \in rights : ~v.governs
       /\ \/ answer.route \in WorkspaceLists
          \/ answer.route \in {"launcher", "general"} /\ ~answer.shown
    \/ /\ \E v \in rights : v.admin
       /\ \E v \in rights : ~v.admin
       /\ answer.route = "workspace" /\ ~answer.shown
=============================================================================
