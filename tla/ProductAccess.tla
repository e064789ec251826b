----------------------------- MODULE ProductAccess -----------------------------
(***************************************************************************)
(* Products, Organisation entitlements and user assignments                *)
(* (db/sqlite/product.go, db/sqlite/product_access.go), composed with      *)
(* Workspaces and Organisations: the decision to let a user open a product *)
(* joins every table of the Platform.                                      *)
(***************************************************************************)
EXTENDS Workspaces

CONSTANTS
    Product,          \* the products the migrations seed
    MaxEntitlements,  \* bound: rows of organisation_product_entitlements
    MaxAssignments    \* bound: rows of user_product_assignments

ASSUME ProductAccessAssumption ==
    MaxEntitlements \in Nat /\ MaxAssignments \in Nat

VARIABLES
    products,         \* products[p]: "active" or "retired"
    entitlements,     \* organisation_product_entitlements: organisation, product, active
    assignments,      \* user_product_assignments: user, organisation, product, active
    accessMirror      \* what the outbox tells: products, entitlements, assignments

accessVars == <<products, entitlements, assignments, accessMirror>>
allVars == <<allWsVars, accessVars>>

\* SELECT ... WHERE organisation_id=? AND product_key=? AND status='active'
ActiveEntitlements(table, o, p) ==
    {i \in DOMAIN table : table[i].organisation = o /\ table[i].product = p /\ table[i].active}

ActiveAssignments(table, u, o, p) ==
    {i \in ActiveEntitlements(table, o, p) : table[i].user = u}

(***************************************************************************)
(* The two access decisions.                                               *)
(***************************************************************************)
ProveProductAccess(u, o, p, w) ==
    /\ ActiveUser(u)
    /\ organisations[o].status = "active"
    /\ products[p] = "active"
    /\ ActiveEntitlements(entitlements, o, p) # {}
    /\ ActiveAssignments(assignments, u, o, p) # {}
    /\ workspaces[w] = [status |-> "active", organisation |-> o]
    /\ \E m \in Current(memberships, o, u) :
          CanAdminister(memberships[m].role) \/ Current(wsMemberships, w, u) # {}

\* The products the launcher offers: joined from the entitlements outwards.
ListLaunchableProducts(u, o, w) ==
    {p \in Product :
        /\ products[p] = "active"
        /\ \E e \in 1..Len(entitlements), a \in 1..Len(assignments), m \in 1..Len(memberships) :
              /\ entitlements[e].product = p /\ entitlements[e].active
              /\ entitlements[e].organisation = o /\ organisations[o].status = "active"
              /\ memberships[m].scope = o /\ memberships[m].active
              /\ memberships[m].user = u /\ ActiveUser(u)
              /\ assignments[a].user = memberships[m].user
              /\ assignments[a].organisation = o
              /\ assignments[a].product = p /\ assignments[a].active
              /\ workspaces[w].organisation = o /\ workspaces[w].status = "active"
              /\ \/ memberships[m].role \in {"owner", "admin"}
                 \/ \E k \in 1..Len(wsMemberships) :
                       /\ wsMemberships[k].scope = w /\ wsMemberships[k].active
                       /\ wsMemberships[k].user = memberships[m].user}

(***************************************************************************)
(* Operations                                                              *)
(***************************************************************************)
AccessInit ==
    /\ WsInit
    /\ products = [p \in Product |-> "active"]
    /\ entitlements = << >>
    /\ assignments = << >>
    /\ accessMirror = [products |-> [p \in Product |-> "active"],
                       entitlements |-> << >>, assignments |-> << >>]

\* Retirement is global and needs the system role; grants of it stay in place.
RetireProduct(a, p) ==
    /\ ActiveUser(a) /\ a \in SystemAdmin
    /\ products[p] = "active"
    /\ products' = [products EXCEPT ![p] = "retired"]
    /\ accessMirror' = [accessMirror EXCEPT !.products[p] = "retired"]
    /\ UNCHANGED <<allWsVars, entitlements, assignments>>

EntitleOrganisation(a, o, p) ==
    LET row == [organisation |-> o, product |-> p, active |-> TRUE] IN
    /\ Len(entitlements) < MaxEntitlements
    /\ AuthorisedOrganisationMutation(a, o)
    /\ products[p] = "active"
    /\ ActiveEntitlements(entitlements, o, p) = {}
    /\ entitlements' = Append(entitlements, row)
    /\ accessMirror' = [accessMirror EXCEPT !.entitlements = Append(@, row)]
    /\ UNCHANGED <<allWsVars, products, assignments>>

RevokeOrganisationEntitlement(a, o, e) ==
    /\ entitlements[e].organisation = o
    /\ AuthorisedOrganisationMutation(a, o)
    /\ entitlements[e].active
    /\ entitlements' = [entitlements EXCEPT ![e].active = FALSE]
    /\ accessMirror' = [accessMirror EXCEPT !.entitlements[e].active = FALSE]
    /\ UNCHANGED <<allWsVars, products, assignments>>

\* Mutant of AssignUserProduct: any active user may be assigned.
AssignAnyUserProduct(a, o, u, p) ==
    LET row == [user |-> u, organisation |-> o, product |-> p, active |-> TRUE] IN
    /\ Len(assignments) < MaxAssignments
    /\ AuthorisedOrganisationMutation(a, o)
    /\ products[p] = "active"
    /\ ActiveUser(u)
    /\ ActiveAssignments(assignments, u, o, p) = {}
    /\ assignments' = Append(assignments, row)
    /\ accessMirror' = [accessMirror EXCEPT !.assignments = Append(@, row)]
    /\ UNCHANGED <<allWsVars, products, entitlements>>

\* An assignment needs a current membership, not an entitlement.
AssignUserProduct(a, o, u, p) ==
    LET row == [user |-> u, organisation |-> o, product |-> p, active |-> TRUE] IN
    /\ Len(assignments) < MaxAssignments
    /\ AuthorisedOrganisationMutation(a, o)
    /\ products[p] = "active"
    /\ ActiveUser(u)
    /\ Current(memberships, o, u) # {}
    /\ ActiveAssignments(assignments, u, o, p) = {}
    /\ assignments' = Append(assignments, row)
    /\ accessMirror' = [accessMirror EXCEPT !.assignments = Append(@, row)]
    /\ UNCHANGED <<allWsVars, products, entitlements>>

\* Mutant of RevokeUserProduct: no event is appended.
RevokeUserProductSilently(a, o, s) ==
    /\ assignments[s].organisation = o
    /\ AuthorisedOrganisationMutation(a, o)
    /\ assignments[s].active
    /\ assignments' = [assignments EXCEPT ![s].active = FALSE]
    /\ UNCHANGED <<allWsVars, products, entitlements, accessMirror>>

RevokeUserProduct(a, o, s) ==
    /\ assignments[s].organisation = o
    /\ AuthorisedOrganisationMutation(a, o)
    /\ assignments[s].active
    /\ assignments' = [assignments EXCEPT ![s].active = FALSE]
    /\ accessMirror' = [accessMirror EXCEPT !.assignments[s].active = FALSE]
    /\ UNCHANGED <<allWsVars, products, entitlements>>

AccessStep ==
    \E a \in User :
        \/ \E p \in Product : RetireProduct(a, p)
        \/ \E o \in Organisation :
              \/ \E p \in Product : \/ EntitleOrganisation(a, o, p)
                                    \/ \E u \in User : AssignUserProduct(a, o, u, p)
              \/ \E e \in 1..Len(entitlements) : RevokeOrganisationEntitlement(a, o, e)
              \/ \E s \in 1..Len(assignments) : RevokeUserProduct(a, o, s)

AccessNext == AccessStep \/ (WsNext /\ UNCHANGED accessVars)

AccessSpec == AccessInit /\ [][AccessNext]_allVars

(***************************************************************************)
(* Properties                                                              *)
(***************************************************************************)
\* The access decision of a consumer that only has the events: the same question
\* asked of its own records.
ConsumerAccess(u, o, p, w) ==
    /\ mirror.users[u] = "active"
    /\ mirror.organisations[o].status = "active"
    /\ accessMirror.products[p] = "active"
    /\ ActiveEntitlements(accessMirror.entitlements, o, p) # {}
    /\ ActiveAssignments(accessMirror.assignments, u, o, p) # {}
    /\ wsMirror.workspaces[w] = [status |-> "active", organisation |-> o]
    /\ LET role == RoleInView(mirror.memberships, o, u) IN
          \/ CanAdminister(role)
          \/ role # NoRole /\ RoleInView(wsMirror.memberships, w, u) # NoRole

\* A product that has applied every committed event reaches, for every user,
\* Organisation, product and Workspace, the decision the Platform itself takes:
\* each of the facts that decide access, from a deactivated user to an archived
\* Workspace, reaches the outbox, whatever the order of the mutations.
ConsumerDecidesAlike ==
    \A u \in User, o \in Organisation, p \in Product, w \in Workspace :
        ConsumerAccess(u, o, p, w) <=> ProveProductAccess(u, o, p, w)

\* Nobody is assigned a product of an Organisation he was never made a member
\* of, also when memberships, assignments and the Organisation have ended since.
AssigneesWereMembers ==
    \A s \in 1..Len(assignments) :
        \E m \in 1..Len(memberships) :
            /\ memberships[m].scope = assignments[s].organisation
            /\ memberships[m].user = assignments[s].user
=============================================================================
