-------------------------- MODULE ProductAccessProofs --------------------------
(***************************************************************************)
(* The access decision of product_access.go, the consumers' copy of it and *)
(* the pages that lead to it: they agree, for any users, Organisations,    *)
(* Workspaces, products and table sizes.                                   *)
(*                                                                         *)
(* The decision joins seven tables; each of them must be known to agree    *)
(* with its announced copy (WsInv for users, Organisations and Workspaces, *)
(* AccessMirrorAgrees for products and grants).  The memberships do not    *)
(* agree row by row: a role change retires a row silently, so the roles    *)
(* that a consumer reads are compared (ConsumerReadsRole), and that the    *)
(* Platform's own query finds a single row is AtMostOneCurrent.            *)
(*                                                                         *)
(* The buttons of the administration pages are compared with the           *)
(* conditions of the mutations behind them.  The last part is about pages  *)
(* that are read query by query while the tables change.                   *)
(***************************************************************************)
EXTENDS WebRequests, WorkspacesProofs

EntitlementRow == [organisation : Organisation, product : Product, active : BOOLEAN]
AssignmentRow  == [user : User, organisation : Organisation, product : Product, active : BOOLEAN]

\* The type invariant of the product tables.
AccessTypeOK ==
    /\ products \in [Product -> {"active", "retired"}]
    /\ entitlements \in Seq(EntitlementRow)
    /\ assignments \in Seq(AssignmentRow)

\* Products and grants are announced row by row.
AccessMirrorAgrees ==
    accessMirror = [products |-> products, entitlements |-> entitlements,
                    assignments |-> assignments]

\* A Workspace that does not exist belongs to no Organisation.
AbsentIsNowhere ==
    \A w \in Workspace : workspaces[w].status = "absent" => workspaces[w] = NoWorkspace

AccessInv ==
    /\ WsInv
    /\ AccessTypeOK
    /\ AccessMirrorAgrees
    /\ AbsentIsNowhere
    /\ AssigneesWereMembers

\* The invariant holds in the migrated database.
LEMMA AccessInitInv == AccessInit => AccessInv
<1> SUFFICES ASSUME AccessInit PROVE AccessInv
  OBVIOUS
<1>1. WsInv
  BY WsInitInv DEF AccessInit
<1>2. AccessTypeOK /\ AccessMirrorAgrees
  BY DEF AccessInit, AccessTypeOK, AccessMirrorAgrees
<1>3. AbsentIsNowhere
  BY DEF AccessInit, WsInit, WorkspacesInit, AbsentIsNowhere
<1>4. AssigneesWereMembers
  BY DEF AccessInit, AssigneesWereMembers
<1> QED BY <1>1, <1>2, <1>3, <1>4 DEF AccessInv

\* A step of the lower modules: the product tables stay, and an assignee's
\* membership row is still in the table.
LEMMA WsStepKeepsAccessInv ==
    ASSUME AccessInv, WsNext, UNCHANGED accessVars
    PROVE  AccessInv'
<1>1. WsInv /\ WsInv'
  BY WsNextInv DEF AccessInv
<1>2. UNCHANGED <<products, entitlements, assignments, accessMirror>>
  BY DEF accessVars
<1>3. AccessTypeOK' /\ AccessMirrorAgrees'
  BY <1>2 DEF AccessInv, AccessTypeOK, AccessMirrorAgrees
<1>4. AbsentIsNowhere'
  BY <1>1, StepTouches DEF AccessInv, AbsentIsNowhere, WorkspacesTouched
<1>5. /\ Len(memberships) \in Nat /\ Len(memberships') \in Nat
      /\ Len(memberships') >= Len(memberships)
      /\ \A i \in 1..Len(memberships) : /\ memberships'[i].scope = memberships[i].scope
                                        /\ memberships'[i].user = memberships[i].user
  <2>1. memberships \in Seq(OrgRow) /\ memberships' \in Seq(OrgRow)
    BY <1>1 DEF WsInv, OrgInv, OrgTypeOK
  <2>2. Len(memberships) \in Nat /\ Len(memberships') \in Nat
    BY <2>1
  <2>3. CASE OrgNext
    BY <1>1, <2>2, <2>3, MembershipsPersist DEF WsInv
  <2>4. CASE UNCHANGED orgVars
    BY <2>2, <2>4 DEF orgVars
  <2> QED BY <2>3, <2>4, WsStepIsOrgStep
<1>6. \A m \in 1..Len(memberships) : m \in 1..Len(memberships')
  BY <1>5
<1>7. AssigneesWereMembers'
  BY <1>2, <1>5, <1>6 DEF AccessInv, AssigneesWereMembers
<1> QED BY <1>1, <1>3, <1>4, <1>7 DEF AccessInv

\* The product mutations touch no table of the lower modules.
LEMMA AccessStepKeepsWsInv ==
    ASSUME AccessInv, UNCHANGED allWsVars
    PROVE  WsInv' /\ AbsentIsNowhere' /\ UNCHANGED <<memberships, workspaces>>
<1>1. WsInv'
  BY WsNextInv DEF AccessInv
<1>2. UNCHANGED <<memberships, workspaces>>
  BY DEF allWsVars, orgVars, wsVars
<1>3. AbsentIsNowhere'
  BY <1>2 DEF AccessInv, AbsentIsNowhere
<1> QED BY <1>1, <1>2, <1>3

LEMMA RetireProductInv ==
    ASSUME AccessInv, NEW a \in User, NEW p \in Product, RetireProduct(a, p)
    PROVE  AccessInv'
<1>1. WsInv' /\ AbsentIsNowhere' /\ UNCHANGED <<memberships, workspaces>>
  BY AccessStepKeepsWsInv DEF RetireProduct
<1>2. /\ products' = [products EXCEPT ![p] = "retired"]
      /\ accessMirror' = [accessMirror EXCEPT !.products[p] = "retired"]
      /\ UNCHANGED <<entitlements, assignments>>
  BY DEF RetireProduct
<1>3. AccessTypeOK'
  BY <1>2 DEF AccessInv, AccessTypeOK
<1>4. AccessMirrorAgrees'
  BY <1>2 DEF AccessInv, AccessMirrorAgrees
<1>5. AssigneesWereMembers'
  BY <1>1, <1>2 DEF AccessInv, AssigneesWereMembers
<1> QED BY <1>1, <1>3, <1>4, <1>5 DEF AccessInv

LEMMA EntitlementInv ==
    ASSUME AccessInv, NEW a \in User, NEW o \in Organisation,
           \/ \E p \in Product : EntitleOrganisation(a, o, p)
           \/ \E e \in 1..Len(entitlements) : RevokeOrganisationEntitlement(a, o, e)
    PROVE  AccessInv'
<1>1. UNCHANGED allWsVars /\ UNCHANGED <<products, assignments>>
  BY DEF EntitleOrganisation, RevokeOrganisationEntitlement
<1>2. WsInv' /\ AbsentIsNowhere' /\ UNCHANGED <<memberships, workspaces>>
  BY <1>1, AccessStepKeepsWsInv
<1>3. entitlements \in Seq(EntitlementRow)
  BY DEF AccessInv, AccessTypeOK
<1>4. entitlements' \in Seq(EntitlementRow) /\ AccessMirrorAgrees'
  <2>1. ASSUME NEW p \in Product, EntitleOrganisation(a, o, p)
        PROVE  entitlements' \in Seq(EntitlementRow) /\ AccessMirrorAgrees'
    <3> DEFINE row == [organisation |-> o, product |-> p, active |-> TRUE]
    <3>1. /\ entitlements' = Append(entitlements, row)
          /\ accessMirror' = [accessMirror EXCEPT !.entitlements = Append(@, row)]
      BY <2>1 DEF EntitleOrganisation
    <3>2. row \in EntitlementRow
      BY DEF EntitlementRow
    <3> HIDE DEF row
    <3>3. entitlements' \in Seq(EntitlementRow)
      BY <1>3, <3>1, <3>2
    <3>4. accessMirror.entitlements = entitlements
      BY DEF AccessInv, AccessMirrorAgrees
    <3> DEFINE told == Append(entitlements, row)
    <3>5. entitlements' = told /\ accessMirror' = [accessMirror EXCEPT !.entitlements = told]
      BY <3>1, <3>4
    <3> HIDE DEF told
    <3>6. AccessMirrorAgrees'
      BY <1>1, <3>5 DEF AccessInv, AccessMirrorAgrees
    <3> QED BY <3>3, <3>6
  <2>2. ASSUME NEW e \in 1..Len(entitlements), RevokeOrganisationEntitlement(a, o, e)
        PROVE  entitlements' \in Seq(EntitlementRow) /\ AccessMirrorAgrees'
    <3>1. /\ entitlements' = [entitlements EXCEPT ![e].active = FALSE]
          /\ accessMirror' = [accessMirror EXCEPT !.entitlements[e].active = FALSE]
      BY <2>2 DEF RevokeOrganisationEntitlement
    <3>2. AccessMirrorAgrees'
      <4>1. accessMirror.entitlements = entitlements
        BY DEF AccessInv, AccessMirrorAgrees
      <4> DEFINE told == [entitlements EXCEPT ![e].active = FALSE]
      <4>2. entitlements' = told /\ accessMirror' = [accessMirror EXCEPT !.entitlements = told]
        BY <3>1, <4>1
      <4> HIDE DEF told
      <4> QED BY <1>1, <4>2 DEF AccessInv, AccessMirrorAgrees
    <3>3. [entitlements[e] EXCEPT !.active = FALSE] \in EntitlementRow
      <4>1. entitlements[e] \in EntitlementRow
        BY <1>3
      <4> QED BY <4>1 DEF EntitlementRow
    <3>4. entitlements' \in Seq(EntitlementRow)
      BY <1>3, <3>1, <3>3
    <3> QED BY <3>2, <3>4
  <2> QED BY <2>1, <2>2
<1>5. AccessTypeOK'
  BY <1>1, <1>4 DEF AccessInv, AccessTypeOK
<1>6. AssigneesWereMembers'
  BY <1>1, <1>2 DEF AccessInv, AssigneesWereMembers
<1> QED BY <1>2, <1>4, <1>5, <1>6 DEF AccessInv

\* Ending an assignment leaves its user, Organisation and product.
LEMMA EndedAssignment ==
    ASSUME NEW row \in AssignmentRow, NEW ended, ended = [row EXCEPT !.active = FALSE]
    PROVE  /\ ended \in AssignmentRow
           /\ ended.user = row.user /\ ended.organisation = row.organisation
BY DEF AssignmentRow

LEMMA AssignUserProductInv ==
    ASSUME AccessInv, NEW a \in User, NEW o \in Organisation, NEW u \in User, NEW p \in Product,
           AssignUserProduct(a, o, u, p)
    PROVE  AccessInv'
<1> DEFINE row == [user |-> u, organisation |-> o, product |-> p, active |-> TRUE]
           told == Append(assignments, row)
           n == Len(assignments)
<1>1. /\ Current(memberships, o, u) # {}
      /\ assignments' = told
      /\ accessMirror' = [accessMirror EXCEPT !.assignments = Append(@, row)]
      /\ UNCHANGED allWsVars /\ UNCHANGED <<products, entitlements>>
  BY DEF AssignUserProduct
<1>2. row \in AssignmentRow /\ row.user = u /\ row.organisation = o
  BY DEF AssignmentRow
<1> HIDE DEF row
<1>3. accessMirror.assignments = assignments /\ assignments \in Seq(AssignmentRow)
  BY DEF AccessInv, AccessMirrorAgrees, AccessTypeOK
<1>4. accessMirror' = [accessMirror EXCEPT !.assignments = told]
  BY <1>1, <1>3
<1>5. /\ told \in Seq(AssignmentRow) /\ n \in Nat /\ Len(told) = n + 1
      /\ \A s \in 1..n : told[s] = assignments[s]
      /\ told[n + 1] = row
  BY <1>2, <1>3
<1> HIDE DEF told
<1>6. WsInv' /\ AbsentIsNowhere' /\ UNCHANGED <<memberships, workspaces>>
  BY <1>1, AccessStepKeepsWsInv
<1>7. AccessTypeOK'
  BY <1>1, <1>5 DEF AccessInv, AccessTypeOK
<1>8. AccessMirrorAgrees'
  BY <1>1, <1>4 DEF AccessInv, AccessMirrorAgrees
<1>9. \E m \in 1..Len(memberships) : memberships[m].scope = row.organisation /\ memberships[m].user = row.user
  BY <1>1, <1>2 DEF Current
<1>10. \A s \in 1..(n + 1) : s \in 1..n \/ s = n + 1
  BY <1>5
<1>11. AssigneesWereMembers'
  BY <1>1, <1>5, <1>6, <1>9, <1>10 DEF AccessInv, AssigneesWereMembers
<1> QED BY <1>6, <1>7, <1>8, <1>11 DEF AccessInv

LEMMA RevokeUserProductInv ==
    ASSUME AccessInv, NEW a \in User, NEW o \in Organisation, NEW k \in 1..Len(assignments),
           RevokeUserProduct(a, o, k)
    PROVE  AccessInv'
<1> DEFINE ended == [assignments[k] EXCEPT !.active = FALSE]
           told == [assignments EXCEPT ![k] = ended]
           n == Len(assignments)
<1>1. /\ assignments' = told
      /\ accessMirror' = [accessMirror EXCEPT !.assignments[k].active = FALSE]
      /\ UNCHANGED allWsVars /\ UNCHANGED <<products, entitlements>>
  BY DEF RevokeUserProduct
<1>2. accessMirror.assignments = assignments /\ assignments \in Seq(AssignmentRow)
  BY DEF AccessInv, AccessMirrorAgrees, AccessTypeOK
<1>3. accessMirror' = [accessMirror EXCEPT !.assignments = told]
  BY <1>1, <1>2
<1>4. /\ ended \in AssignmentRow
      /\ ended.user = assignments[k].user /\ ended.organisation = assignments[k].organisation
  BY <1>2, EndedAssignment
<1> HIDE DEF ended
<1>5. /\ told \in Seq(AssignmentRow) /\ Len(told) = n
      /\ \A s \in 1..n : /\ told[s].user = assignments[s].user
                         /\ told[s].organisation = assignments[s].organisation
  BY <1>2, <1>4
<1> HIDE DEF told
<1>6. WsInv' /\ AbsentIsNowhere' /\ UNCHANGED <<memberships, workspaces>>
  BY <1>1, AccessStepKeepsWsInv
<1>7. AccessTypeOK'
  BY <1>1, <1>5 DEF AccessInv, AccessTypeOK
<1>8. AccessMirrorAgrees'
  BY <1>1, <1>3 DEF AccessInv, AccessMirrorAgrees
<1>9. AssigneesWereMembers'
  BY <1>1, <1>5, <1>6 DEF AccessInv, AssigneesWereMembers
<1> QED BY <1>6, <1>7, <1>8, <1>9 DEF AccessInv

\* Every step keeps the invariant.
LEMMA AccessNextInv == AccessInv /\ [AccessNext]_allVars => AccessInv'
<1> SUFFICES ASSUME AccessInv, [AccessNext]_allVars PROVE AccessInv'
  OBVIOUS
<1>1. CASE UNCHANGED allVars
  <2>1. UNCHANGED allWsVars /\ UNCHANGED <<products, entitlements, assignments, accessMirror>>
    BY <1>1 DEF allVars, accessVars
  <2>2. WsInv' /\ AbsentIsNowhere' /\ UNCHANGED <<memberships, workspaces>>
    BY <2>1, AccessStepKeepsWsInv
  <2> QED BY <2>1, <2>2 DEF AccessInv, AccessTypeOK, AccessMirrorAgrees, AssigneesWereMembers
<1>2. CASE WsNext /\ UNCHANGED accessVars
  BY <1>2, WsStepKeepsAccessInv
<1>3. ASSUME NEW a \in User, NEW p \in Product, RetireProduct(a, p)
      PROVE  AccessInv'
  BY <1>3, RetireProductInv
<1>4. ASSUME NEW a \in User, NEW o \in Organisation,
             \/ \E p \in Product : EntitleOrganisation(a, o, p)
             \/ \E e \in 1..Len(entitlements) : RevokeOrganisationEntitlement(a, o, e)
      PROVE  AccessInv'
  BY <1>4, EntitlementInv
<1>5. ASSUME NEW a \in User, NEW o \in Organisation, NEW p \in Product, NEW u \in User,
             AssignUserProduct(a, o, u, p)
      PROVE  AccessInv'
  BY <1>5, AssignUserProductInv
<1>6. ASSUME NEW a \in User, NEW o \in Organisation, NEW s \in 1..Len(assignments),
             RevokeUserProduct(a, o, s)
      PROVE  AccessInv'
  BY <1>6, RevokeUserProductInv
<1> QED BY <1>1, <1>2, <1>3, <1>4, <1>5, <1>6 DEF AccessNext, AccessStep

\* The whole invariant, from which the theorems below are read off.
LEMMA AccessInvariance == AccessSpec => []AccessInv
<1>1. AccessInit => AccessInv
  BY AccessInitInv
<1>2. AccessInv /\ [AccessNext]_allVars => AccessInv'
  BY AccessNextInv
<1> QED BY <1>1, <1>2, PTL DEF AccessSpec

\* Product access only adds to Workspaces: with its tables hidden, every behaviour
\* is one of Workspaces, so that all that is proved of WsSpec, and through it of
\* OrgSpec, holds of the whole store.
THEOREM ProductAccessRefinesWorkspaces == AccessSpec => WsSpec
<1>1. AccessInit => WsInit
  BY DEF AccessInit
<1>2. [AccessNext]_allVars => [WsNext]_allWsVars
  <2>1. ASSUME AccessStep PROVE UNCHANGED allWsVars
    BY <2>1, ZenonT(60) DEF AccessStep, RetireProduct, EntitleOrganisation,
          RevokeOrganisationEntitlement, AssignUserProduct, RevokeUserProduct
  <2>2. WsNext /\ UNCHANGED accessVars => [WsNext]_allWsVars
    OBVIOUS
  <2>3. UNCHANGED allVars => UNCHANGED allWsVars
    BY DEF allVars, allWsVars
  <2> QED BY <2>1, <2>2, <2>3, ZenonT(40) DEF AccessNext
<1> QED BY <1>1, <1>2, PTL DEF AccessSpec, WsSpec

\* product_access.go assigns a product only to somebody who is a member of the
\* Organisation, and the membership row outlives everything that ends it.
THEOREM AssigneesWereMembersAlways == AccessSpec => []AssigneesWereMembers
<1>1. AccessInv => AssigneesWereMembers
  BY DEF AccessInv
<1> QED BY <1>1, AccessInvariance, PTL

(***************************************************************************)
(* The decisions.                                                          *)
(***************************************************************************)
\* The roles the Platform reads, and that a consumer reads the same.
LEMMA Roles ==
    ASSUME AccessInv, NEW o, NEW w, NEW u
    PROVE  /\ OrgRoleOf(o, u) # NoRole <=> Current(memberships, o, u) # {}
           /\ \A m \in Current(memberships, o, u) : OrgRoleOf(o, u) = memberships[m].role
           /\ WsRoleOf(w, u) # NoRole <=> Current(wsMemberships, w, u) # {}
           /\ WsRoleOf(w, u) # NoRole => WsRoleOf(w, u) \in WsRole
           /\ RoleInView(mirror.memberships, o, u) = OrgRoleOf(o, u)
           /\ RoleInView(wsMirror.memberships, w, u) = WsRoleOf(w, u)
<1>1. /\ memberships \in Seq(RowOf(Organisation, User, OrgRole))
      /\ mirror.memberships \in Seq(RecordOf(Organisation, User, OrgRole))
      /\ Agree(memberships, mirror.memberships)
  BY DEF AccessInv, WsInv, OrgInv, OrgTypeOK, MirrorAgrees, OrgRow, OrgRecord
<1>2. /\ wsMemberships \in Seq(RowOf(Workspace, User, WsRole))
      /\ wsMirror.memberships \in Seq(RecordOf(Workspace, User, WsRole))
      /\ Agree(wsMemberships, wsMirror.memberships)
  BY WsTables DEF AccessInv
<1>3. AtMostOneCurrent(memberships) /\ AtMostOneCurrent(wsMemberships)
  BY <1>1, <1>2, AgreeFacts
<1>4. NoRole \notin OrgRole /\ NoRole \notin WsRole
  BY DEF NoRole, OrgRole, WsRole
<1>5. /\ OrgRoleOf(o, u) # NoRole <=> Current(memberships, o, u) # {}
      /\ \A m \in Current(memberships, o, u) : OrgRoleOf(o, u) = memberships[m].role
  BY <1>1, <1>3, <1>4, RoleInFacts DEF OrgRoleOf
<1>6. /\ WsRoleOf(w, u) # NoRole <=> Current(wsMemberships, w, u) # {}
      /\ \A m \in Current(wsMemberships, w, u) : WsRoleOf(w, u) = wsMemberships[m].role
  BY <1>2, <1>3, <1>4, RoleInFacts DEF WsRoleOf
<1>7. \A m \in Current(wsMemberships, w, u) : wsMemberships[m].role \in WsRole
  <2> SUFFICES ASSUME NEW m \in Current(wsMemberships, w, u)
               PROVE  wsMemberships[m].role \in WsRole
    OBVIOUS
  <2>1. wsMemberships[m] \in RowOf(Workspace, User, WsRole)
    BY <1>2 DEF Current
  <2> QED BY <2>1 DEF RowOf
<1>8. WsRoleOf(w, u) # NoRole => WsRoleOf(w, u) \in WsRole
  BY <1>6, <1>7
<1>9. RoleInView(mirror.memberships, o, u) = OrgRoleOf(o, u)
  BY <1>1, ConsumerReadsRole DEF OrgRoleOf
<1>10. RoleInView(wsMirror.memberships, w, u) = WsRoleOf(w, u)
  BY <1>2, ConsumerReadsRole DEF WsRoleOf
<1> QED BY <1>5, <1>6, <1>8, <1>9, <1>10

\* The membership part of the access decision, in terms of roles.
LEMMA MembershipDecides ==
    ASSUME AccessInv, NEW o, NEW w, NEW u
    PROVE  (\E m \in Current(memberships, o, u) :
               CanAdminister(memberships[m].role) \/ Current(wsMemberships, w, u) # {})
           <=> \/ CanAdminister(OrgRoleOf(o, u))
               \/ OrgRoleOf(o, u) # NoRole /\ WsRoleOf(w, u) # NoRole
<1>1. CanAdminister(OrgRoleOf(o, u)) => OrgRoleOf(o, u) # NoRole
  BY DEF CanAdminister, NoRole
<1> QED BY <1>1, Roles

\* Where the tables agree with their announced copies, so do the decisions.
LEMMA ConsumerDecides == AccessInv => ConsumerDecidesAlike
<1> SUFFICES ASSUME AccessInv, NEW u \in User, NEW o \in Organisation,
                    NEW p \in Product, NEW w \in Workspace
             PROVE  ConsumerAccess(u, o, p, w) <=> ProveProductAccess(u, o, p, w)
  BY DEF ConsumerDecidesAlike
<1>1. /\ mirror.users[u] = users[u]
      /\ mirror.organisations[o].status = organisations[o].status
      /\ wsMirror.workspaces[w] = workspaces[w]
  BY DEF AccessInv, WsInv, OrgInv, MirrorAgrees, WsMirrorAgrees
<1>2. /\ accessMirror.products[p] = products[p]
      /\ accessMirror.entitlements = entitlements
      /\ accessMirror.assignments = assignments
  BY DEF AccessInv, AccessMirrorAgrees
<1>3. /\ RoleInView(mirror.memberships, o, u) = OrgRoleOf(o, u)
      /\ RoleInView(wsMirror.memberships, w, u) = WsRoleOf(w, u)
  BY Roles
<1> QED BY <1>1, <1>2, <1>3, MembershipDecides DEF ConsumerAccess, ProveProductAccess, ActiveUser

\* A product that follows the outbox takes the decisions ProveProductAccess takes,
\* whatever mutations of users.go, organisation.go, workspace.go, product.go and
\* product_access.go were interleaved.
THEOREM ConsumerDecidesAlikeAlways == AccessSpec => []ConsumerDecidesAlike
BY ConsumerDecides, AccessInvariance, PTL

\* The launcher's joined query asks what the access proof asks.
LEMMA ListedIsProved ==
    ASSUME AccessInv, NEW u, NEW o, NEW w \in Workspace, NEW p \in Product
    PROVE  p \in ListLaunchableProducts(u, o, w) <=> ProveProductAccess(u, o, p, w)
<1>1. workspaces[w] = [status |-> "active", organisation |-> o]
      <=> workspaces[w].status = "active" /\ workspaces[w].organisation = o
  BY DEF AccessInv, WsInv, WsTypeOK, WsFacts
<1>2. DOMAIN entitlements = 1..Len(entitlements) /\ DOMAIN assignments = 1..Len(assignments)
  BY DEF AccessInv, AccessTypeOK
<1>3. ASSUME p \in ListLaunchableProducts(u, o, w)
      PROVE  ProveProductAccess(u, o, p, w)
  <2>1. products[p] = "active"
    BY <1>3 DEF ListLaunchableProducts
  <2>2. PICK e \in 1..Len(entitlements), a \in 1..Len(assignments), m \in 1..Len(memberships) :
              /\ entitlements[e].product = p /\ entitlements[e].active
              /\ entitlements[e].organisation = o /\ organisations[o].status = "active"
              /\ memberships[m].scope = o /\ memberships[m].active
              /\ memberships[m].user = u /\ ActiveUser(u)
              /\ assignments[a].user = memberships[m].user
              /\ assignments[a].organisation = o
              /\ assignments[a].product = p /\ assignments[a].active
              /\ workspaces[w].organisation = o /\ workspaces[w].status = "active"
              /\ \/ memberships[m].role \in {"owner", "admin"}
                 \/ \E k \in 1..Len(wsMemberships) :
                       /\ wsMemberships[k].scope = w /\ wsMemberships[k].active
                       /\ wsMemberships[k].user = memberships[m].user
    BY <1>3 DEF ListLaunchableProducts
  <2>3. e \in ActiveEntitlements(entitlements, o, p) /\ a \in ActiveAssignments(assignments, u, o, p)
    BY <1>2, <2>2 DEF ActiveEntitlements, ActiveAssignments
  <2>4. m \in Current(memberships, o, u)
    BY <2>2 DEF Current
  <2>5. CanAdminister(memberships[m].role) \/ Current(wsMemberships, w, u) # {}
    BY <2>2 DEF CanAdminister, Current
  <2> QED BY <1>1, <2>1, <2>2, <2>3, <2>4, <2>5 DEF ProveProductAccess
<1>4. ASSUME ProveProductAccess(u, o, p, w)
      PROVE  p \in ListLaunchableProducts(u, o, w)
  <2>1. PICK e \in 1..Len(entitlements) :
           entitlements[e].product = p /\ entitlements[e].active /\ entitlements[e].organisation = o
    BY <1>2, <1>4 DEF ProveProductAccess, ActiveEntitlements
  <2>2. PICK a \in 1..Len(assignments) :
           /\ assignments[a].user = u /\ assignments[a].organisation = o
           /\ assignments[a].product = p /\ assignments[a].active
    BY <1>2, <1>4 DEF ProveProductAccess, ActiveAssignments, ActiveEntitlements
  <2>3. PICK m \in Current(memberships, o, u) :
           CanAdminister(memberships[m].role) \/ Current(wsMemberships, w, u) # {}
    BY <1>4 DEF ProveProductAccess
  <2>4. m \in 1..Len(memberships) /\ memberships[m].scope = o /\ memberships[m].user = u /\ memberships[m].active
    BY <2>3 DEF Current
  <2>5. \/ memberships[m].role \in {"owner", "admin"}
        \/ \E k \in 1..Len(wsMemberships) :
              /\ wsMemberships[k].scope = w /\ wsMemberships[k].active
              /\ wsMemberships[k].user = memberships[m].user
    BY <2>3, <2>4 DEF CanAdminister, Current
  <2>6. /\ products[p] = "active" /\ organisations[o].status = "active" /\ ActiveUser(u)
        /\ workspaces[w].organisation = o /\ workspaces[w].status = "active"
    BY <1>1, <1>4 DEF ProveProductAccess
  <2> QED BY <2>1, <2>2, <2>4, <2>5, <2>6 DEF ListLaunchableProducts
<1> QED BY <1>3, <1>4

\* Whoever passes the access proof passes every check on the way to it: the lists
\* of Organisations and Workspaces and the reads of the product page.
LEMMA ProvedIsReached ==
    ASSUME AccessInv, NEW r \in User, NEW o \in Organisation, NEW w \in Workspace, NEW p \in Product,
           ProveProductAccess(r, o, p, w)
    PROVE  /\ o \in ListUserOrganisations(r) /\ w \in ListOrganisationWorkspaces(r, o)
           /\ GetOrganisation(r, o) /\ GetWorkspace(r, w) /\ workspaces[w].organisation = o
<1>1. /\ ActiveUser(r) /\ organisations[o].status = "active"
      /\ workspaces[w] = [status |-> "active", organisation |-> o]
  BY DEF ProveProductAccess
<1>2. workspaces[w].status = "active" /\ workspaces[w].organisation = o
  BY <1>1
<1>3. PICK m \in Current(memberships, o, r) :
         CanAdminister(memberships[m].role) \/ Current(wsMemberships, w, r) # {}
  BY DEF ProveProductAccess
<1>4. /\ OrgRoleOf(o, r) # NoRole
      /\ CanAdminister(OrgRoleOf(o, r)) \/ Current(wsMemberships, w, r) # {}
      /\ Current(wsMemberships, w, r) # {} => WsRoleOf(w, r) \in WsRole
  BY <1>3, Roles
<1>5. o \in ListUserOrganisations(r)
  BY <1>1, <1>3 DEF ListUserOrganisations
<1>6. w \in ListOrganisationWorkspaces(r, o)
  BY <1>1, <1>4 DEF ListOrganisationWorkspaces, AuthorisedOrganisationRead
<1>7. GetOrganisation(r, o)
  BY <1>1, <1>3 DEF GetOrganisation, Current, ActiveIn
<1>8. GetWorkspace(r, w)
  BY <1>1, <1>2, <1>4 DEF GetWorkspace, ProveWorkspaceScope, LiveScope, AdministersOrganisationOf
<1> QED BY <1>2, <1>5, <1>6, <1>7, <1>8

\* The launcher's list, the product page, the hand-off and the assertion.
LEMMA LauncherLeads == AccessInv => LauncherLeadsOn
<1> DEFINE offered(r, o, w, p) == <<o, w, p>> \in LauncherOffers(r)
           Agrees(r, o, w, p) ==
              /\ p \in ListLaunchableProducts(r, o, w) <=> offered(r, o, w, p)
              /\ ProductAccessPage(r, o, w, p) <=> offered(r, o, w, p)
              /\ ProductHandoff(r, o, w, p)
                 <=> offered(r, o, w, p) /\ p \in LaunchTarget \cap Audience
              /\ \A a \in Audience : IssueProductAssertion(r, o, w, p, a) <=> offered(r, o, w, p)
<1> SUFFICES ASSUME AccessInv, NEW r \in User, NEW o \in Organisation,
                    NEW w \in Workspace, NEW p \in Product
             PROVE  Agrees(r, o, w, p)
  BY Zenon DEF LauncherLeadsOn
<1>1. offered(r, o, w, p)
      <=> /\ o \in ListUserOrganisations(r)
          /\ w \in ListOrganisationWorkspaces(r, o)
          /\ p \in ListLaunchableProducts(r, o, w)
  BY DEF LauncherOffers
<1>2. p \in ListLaunchableProducts(r, o, w) <=> ProveProductAccess(r, o, p, w)
  BY ListedIsProved
<1> HIDE DEF offered
<1>3. CASE ProveProductAccess(r, o, p, w)
  BY <1>1, <1>2, <1>3, ProvedIsReached
     DEF ProductAccessPage, ProductHandoff, IssueProductAssertion, Issues
<1>4. CASE ~ProveProductAccess(r, o, p, w)
  BY <1>1, <1>2, <1>4 DEF ProductAccessPage, ProductHandoff, IssueProductAssertion
<1> QED BY <1>3, <1>4

\* The six queries behind the launcher, the product page, the hand-off and the
\* assertion route decide alike in every reachable state of the store, for any
\* configuration of launch targets and audiences; an assertion is issued for every
\* configured audience as soon as one product is offered, and never before.
THEOREM LauncherLeadsOnAlways == AccessSpec => []LauncherLeadsOn
BY LauncherLeads, AccessInvariance, PTL

\* The membership records of a snapshot agree with what the feed has told.
LEMMA SnapshotRows ==
    ASSUME NEW S, NEW U, NEW R,
           NEW table \in Seq(RowOf(S, U, R)), NEW view \in Seq(RecordOf(S, U, R)),
           Agree(table, view),
           NEW copy, copy = [i \in 1..Len(table) |-> RecordFor(table[i], table[i].active)]
    PROVE  DOMAIN copy = DOMAIN view /\ Agree(copy, view)
<1> DEFINE n == Len(table)
<1>1. n \in Nat /\ DOMAIN view = 1..n /\ DOMAIN copy = 1..n
  BY AgreeFacts
<1>2. \A i \in 1..n : copy[i] = RecordFor(table[i], table[i].active)
  OBVIOUS
<1>3. ASSUME NEW i \in 1..n
      PROVE  /\ copy[i] \in RecordOf(S, U, R)
             /\ copy[i].scope = table[i].scope /\ copy[i].user = table[i].user
             /\ copy[i].role = table[i].role /\ copy[i].active = table[i].active
  <2>1. table[i] \in RowOf(S, U, R)
    OBVIOUS
  <2> QED BY <1>2, <2>1 DEF RecordFor, RowOf, RecordOf
<1>4. Len(copy) = n
  <2>1. copy \in [1..n -> RecordOf(S, U, R)]
    BY <1>3
  <2> QED BY <1>1, <2>1
<1> QED BY <1>1, <1>3, <1>4 DEF Agree

\* A read-authority snapshot taken at any moment says what a consumer of the whole
\* feed holds, and every record of it was announced by some event.
THEOREM SnapshotAndFeedAgreeAlways == AccessSpec => []SnapshotAndFeedAgree
<1>1. AccessInv => SnapshotAndFeedAgree
  <2> SUFFICES ASSUME AccessInv PROVE SnapshotAndFeedAgree
    OBVIOUS
  <2>1. ASSUME NEW u \in User
        PROVE  /\ u \in DOMAIN MaterializeUsers <=> mirror.users[u] # "absent"
               /\ u \in DOMAIN MaterializeUsers
                  => (MaterializeUsers[u] = "active" <=> mirror.users[u] = "active")
    BY DEF AccessInv, WsInv, OrgInv, MirrorAgrees, MaterializeUsers, ActiveUser
  <2>2. ASSUME NEW o \in Organisation
        PROVE  /\ o \in DOMAIN MaterializeOrganisations <=> mirror.organisations[o].status # "absent"
               /\ o \in DOMAIN MaterializeOrganisations
                  => MaterializeOrganisations[o] = mirror.organisations[o].status
    BY DEF AccessInv, WsInv, OrgInv, MirrorAgrees, MaterializeOrganisations
  <2>3. /\ memberships \in Seq(RowOf(Organisation, User, OrgRole))
        /\ mirror.memberships \in Seq(RecordOf(Organisation, User, OrgRole))
        /\ Agree(memberships, mirror.memberships)
    BY DEF AccessInv, WsInv, OrgInv, OrgTypeOK, MirrorAgrees, OrgRow, OrgRecord
  <2>4. /\ DOMAIN MaterializeOrganisationMemberships = DOMAIN mirror.memberships
        /\ Agree(MaterializeOrganisationMemberships, mirror.memberships)
    BY <2>3, SnapshotRows DEF MaterializeOrganisationMemberships
  <2>5. ASSUME NEW w \in Workspace
        PROVE  IF w \in DOMAIN MaterializeWorkspaces
               THEN MaterializeWorkspaces[w] = wsMirror.workspaces[w]
               ELSE wsMirror.workspaces[w] = NoWorkspace
    BY DEF AccessInv, AbsentIsNowhere, WsInv, WsMirrorAgrees, MaterializeWorkspaces
  <2>6. /\ DOMAIN MaterializeWorkspaceMemberships = DOMAIN wsMirror.memberships
        /\ Agree(MaterializeWorkspaceMemberships, wsMirror.memberships)
    BY WsTables, SnapshotRows DEF AccessInv, MaterializeWorkspaceMemberships
  <2>7. /\ MaterializeProducts = accessMirror.products
        /\ MaterializeEntitlements = accessMirror.entitlements
        /\ MaterializeAssignments = accessMirror.assignments
    BY DEF AccessInv, AccessMirrorAgrees, MaterializeProducts, MaterializeEntitlements,
           MaterializeAssignments
  <2> QED BY <2>1, <2>2, <2>4, <2>5, <2>6, <2>7 DEF SnapshotAndFeedAgree
<1> QED BY <1>1, AccessInvariance, PTL

(***************************************************************************)
(* The buttons of the administration pages.  When a mutation is accepted:  *)
(* its conditions, all of it but the changes it makes.                     *)
(***************************************************************************)
AcceptsArchive(a, o) ==
    /\ AuthorisedOrganisationMutation(a, o)
    /\ a \in SystemAdmin \/ OrgRoleOf(o, a) = "owner"

AcceptsRemoval(a, o, u) ==
    /\ AuthorisedOrganisationMutation(a, o)
    /\ ActiveUser(u)
    /\ \E i \in Current(memberships, o, u) : Manageable(a, o, memberships[i])

AcceptsWorkspaceArchive(a, w) == AuthorisedWorkspaceMutation(a, w, FALSE)

AcceptsWorkspaceRemoval(a, w, u) ==
    /\ AuthorisedWorkspaceMutation(a, w, TRUE)
    /\ ActiveWorkspaceTarget(w, u)
    /\ Current(wsMemberships, w, u) # {}

AcceptsRevocation(a, o, e) ==
    /\ entitlements[e].organisation = o
    /\ AuthorisedOrganisationMutation(a, o)
    /\ entitlements[e].active

AcceptsWithdrawal(a, o, s) ==
    /\ assignments[s].organisation = o
    /\ AuthorisedOrganisationMutation(a, o)
    /\ assignments[s].active

AcceptsRetirement(a, p) == ActiveUser(a) /\ a \in SystemAdmin /\ products[p] = "active"

\* The mutations are those conditions with their changes: in a state that satisfies
\* the condition the mutation can be done, because it gives every variable its
\* value; and it is done in no other.
LEMMA MutationsHaveConditions ==
    /\ \A a, o : ArchiveOrganisation(a, o) => AcceptsArchive(a, o)
    /\ \A a, o, u : DeactivateOrganisationMember(a, o, u) => AcceptsRemoval(a, o, u)
    /\ \A a, w : ArchiveWorkspace(a, w) => AcceptsWorkspaceArchive(a, w)
    /\ \A a, w, u : DeactivateWorkspaceMember(a, w, u) => AcceptsWorkspaceRemoval(a, w, u)
    /\ \A a, o, e : RevokeOrganisationEntitlement(a, o, e) => AcceptsRevocation(a, o, e)
    /\ \A a, o, s : RevokeUserProduct(a, o, s) => AcceptsWithdrawal(a, o, s)
    /\ \A a, p : RetireProduct(a, p) => AcceptsRetirement(a, p)
BY DEF ArchiveOrganisation, AcceptsArchive, DeactivateOrganisationMember, AcceptsRemoval,
       ArchiveWorkspace, AcceptsWorkspaceArchive, DeactivateWorkspaceMember, AcceptsWorkspaceRemoval,
       RevokeOrganisationEntitlement, AcceptsRevocation, RevokeUserProduct, AcceptsWithdrawal,
       RetireProduct, AcceptsRetirement

LEMMA OrganisationPage ==
    ASSUME AccessInv, NEW r \in User, NEW o \in Organisation
    PROVE  /\ OrganisationAdminContext(r, o).canAdmin <=> AuthorisedOrganisationMutation(r, o)
           /\ OrganisationAdminContext(r, o).archive <=> AcceptsArchive(r, o)
           /\ AuthorisedOrganisationRead(r, o, TRUE) <=> AuthorisedOrganisationMutation(r, o)
           /\ \A section \in {"members", "products"} :
                 OrganisationAdminPage(r, o, section) <=> AuthorisedOrganisationMutation(r, o)
<1>1. /\ OrgRoleOf(o, r) # NoRole <=> Current(memberships, o, r) # {}
      /\ CanAdminister(OrgRoleOf(o, r)) => OrgRoleOf(o, r) # NoRole
      /\ OrgRoleOf(o, r) = "owner" => CanAdminister(OrgRoleOf(o, r))
  BY Roles DEF CanAdminister, NoRole
<1>2. o \in ListUserOrganisations(r)
      <=> /\ organisations[o].status = "active" /\ ActiveUser(r)
          /\ OrgRoleOf(o, r) # NoRole \/ r \in SystemAdmin
  BY <1>1 DEF ListUserOrganisations, ActiveSystemAdmin
<1>3. GetOrganisation(r, o) <=> o \in ListUserOrganisations(r)
  <2>1. (\E i \in ActiveIn(memberships, o) : memberships[i].user = r)
        <=> Current(memberships, o, r) # {}
    BY DEF ActiveIn, Current
  <2> QED BY <1>1, <1>2, <2>1 DEF GetOrganisation, ActiveSystemAdmin
<1>4. IsSystemAdministrator(r) <=> ActiveUser(r) /\ r \in SystemAdmin
  BY DEF IsSystemAdministrator, MayListProducts, ActiveSystemAdmin
<1>5. OrganisationAdminContext(r, o).canAdmin <=> AuthorisedOrganisationMutation(r, o)
  BY <1>1, <1>2, <1>4 DEF OrganisationAdminContext, AuthorisedOrganisationMutation
<1>6. OrganisationAdminContext(r, o).archive <=> AcceptsArchive(r, o)
  BY <1>1, <1>2, <1>4 DEF OrganisationAdminContext, AuthorisedOrganisationMutation, AcceptsArchive
<1>7. AuthorisedOrganisationRead(r, o, TRUE) <=> AuthorisedOrganisationMutation(r, o)
  BY <1>1 DEF AuthorisedOrganisationRead, AuthorisedOrganisationMutation
<1>8. AuthorisedOrganisationMutation(r, o) => o \in ListUserOrganisations(r)
  BY <1>1, <1>2 DEF AuthorisedOrganisationMutation
<1>9. ASSUME NEW section \in {"members", "products"}
      PROVE  OrganisationAdminPage(r, o, section) <=> AuthorisedOrganisationMutation(r, o)
  BY <1>3, <1>5, <1>8 DEF OrganisationAdminPage
<1> QED BY <1>5, <1>6, <1>7, <1>9

LEMMA MemberButton ==
    ASSUME AccessInv, NEW r \in User, NEW o \in Organisation,
           NEW i \in ActiveIn(memberships, o)
    PROVE  /\ i \in MemberButtons(r, o)
              <=> /\ AuthorisedOrganisationMutation(r, o)
                  /\ ActiveUser(memberships[i].user) /\ memberships[i].role # "owner"
           /\ AcceptsRemoval(r, o, memberships[i].user)
              <=> /\ AuthorisedOrganisationMutation(r, o)
                  /\ ActiveUser(memberships[i].user) /\ Manageable(r, o, memberships[i])
           /\ memberships[i].role \in OrgRole
<1> DEFINE u == memberships[i].user
<1>1. i \in Current(memberships, o, u)
  BY DEF ActiveIn, Current
<1>2. \A j \in Current(memberships, o, u) : memberships[j].role = memberships[i].role
  <2> HIDE DEF u
  <2>1. \A j \in Current(memberships, o, u) : OrgRoleOf(o, u) = memberships[j].role
    BY Roles, Zenon
  <2> QED BY <1>1, <2>1
<1>3. \A j \in Current(memberships, o, u) :
         Manageable(r, o, memberships[j]) <=> Manageable(r, o, memberships[i])
  BY <1>2 DEF Manageable
<1>4. memberships[i].role \in OrgRole
  <2>1. memberships \in Seq(RowOf(Organisation, User, OrgRole)) /\ i \in 1..Len(memberships)
    BY DEF ActiveIn, AccessInv, WsInv, OrgInv, OrgTypeOK, OrgRow
  <2>2. memberships[i] \in RowOf(Organisation, User, OrgRole)
    BY <2>1
  <2> QED BY <2>2 DEF RowOf
<1>5. i \in MemberButtons(r, o)
      <=> AuthorisedOrganisationMutation(r, o) /\ ActiveUser(u) /\ memberships[i].role # "owner"
  BY OrganisationPage DEF MemberButtons, ListOrganisationMembers
<1> HIDE DEF u
<1>6. AcceptsRemoval(r, o, u)
      <=> AuthorisedOrganisationMutation(r, o) /\ ActiveUser(u) /\ Manageable(r, o, memberships[i])
  BY <1>1, <1>3 DEF AcceptsRemoval
<1> QED BY <1>4, <1>5, <1>6 DEF u

LEMMA WorkspacePage ==
    ASSUME AccessInv, NEW r \in User, NEW w \in Workspace
    PROVE  LET page == WorkspaceAdminPage(r, w) IN
           /\ page.canAdmin => page.opens
           /\ page.canAdmin <=> AuthorisedWorkspaceMutation(r, w, TRUE)
           /\ page.canAdmin <=> ProveWorkspaceScope(r, w, TRUE)
           /\ page.canAdmin => ~AdministersOrganisationOf(r, w) \/ AcceptsWorkspaceArchive(r, w)
<1> DEFINE o == workspaces[w].organisation
           page == WorkspaceAdminPage(r, w)
<1>0. "admin" \in WsRole
  BY DEF WsRole
<1>1. OrgRoleOf(o, r) # NoRole <=> Current(memberships, o, r) # {}
  BY Roles
<1>2. ProveWorkspaceScope(r, w, TRUE) => ProveWorkspaceScope(r, w, FALSE)
  BY <1>0 DEF ProveWorkspaceScope
<1>3. page.canAdmin <=> ProveWorkspaceScope(r, w, TRUE)
  BY <1>2 DEF WorkspaceAdminPage, ProveWorkspaceScope
<1>4. AuthorisedWorkspaceMutation(r, w, TRUE) <=> ProveWorkspaceScope(r, w, TRUE)
  BY DEF AuthorisedWorkspaceMutation
<1>5. ProveWorkspaceScope(r, w, FALSE) => GetOrganisation(r, o)
  <2>1. Current(memberships, o, r) # {} => \E i \in ActiveIn(memberships, o) : memberships[i].user = r
    BY DEF ActiveIn, Current
  <2> QED BY <1>1, <2>1 DEF ProveWorkspaceScope, LiveScope, GetOrganisation, ActiveSystemAdmin
<1>6. page.canAdmin => page.opens
  BY <1>2, <1>3, <1>5 DEF WorkspaceAdminPage, GetWorkspace
<1>7. page.canAdmin => ~AdministersOrganisationOf(r, w) \/ AcceptsWorkspaceArchive(r, w)
  BY <1>3 DEF AcceptsWorkspaceArchive, AuthorisedWorkspaceMutation
<1> QED BY <1>3, <1>4, <1>6, <1>7

\* What OfferedIsAccepted and GrantButtonsAreAccepted say, with the conditions in
\* the place of ENABLED.
ButtonsMeetConditions ==
    \A r \in User :
        /\ \A o \in Organisation :
              LET page == OrganisationAdminContext(r, o) IN
              /\ page.canAdmin <=> AuthorisedOrganisationMutation(r, o)
              /\ page.archive <=> AcceptsArchive(r, o)
              /\ \A i \in ActiveIn(memberships, o) :
                    LET row == memberships[i] IN
                    i \in MemberButtons(r, o)
                    <=> \/ AcceptsRemoval(r, o, row.user)
                        \/ /\ page.canAdmin /\ ActsAsAdmin(r, o)
                           /\ row.role = "admin" /\ ActiveUser(row.user)
        /\ \A w \in Workspace :
              LET page == WorkspaceAdminPage(r, w) IN
              /\ page.canAdmin => page.opens
              /\ page.canAdmin <=> AuthorisedWorkspaceMutation(r, w, TRUE)
              /\ page.canAdmin
                 => ~AdministersOrganisationOf(r, w) \/ AcceptsWorkspaceArchive(r, w)
              /\ \A i \in ActiveIn(wsMemberships, w) :
                    LET user == wsMemberships[i].user IN
                    /\ AcceptsWorkspaceRemoval(r, w, user) => i \in WorkspaceMemberButtons(r, w)
                    /\ i \in WorkspaceMemberButtons(r, w)
                       => \/ Current(memberships, workspaces[w].organisation, user) = {}
                          \/ AcceptsWorkspaceRemoval(r, w, user)

GrantButtonsMeetConditions ==
    \A r \in User :
        /\ \A e \in 1..Len(entitlements) :
              LET o == entitlements[e].organisation IN
              e \in EntitlementButtons(r, o)
              <=> products[entitlements[e].product] = "active" /\ AcceptsRevocation(r, o, e)
        /\ \A s \in 1..Len(assignments) :
              LET o == assignments[s].organisation IN
              s \in AssignmentButtons(r, o) <=> AcceptsWithdrawal(r, o, s)
        /\ \A p \in Product : p \in RetireButtons(r) <=> AcceptsRetirement(r, p)

LEMMA WorkspaceMemberButton ==
    ASSUME AccessInv, NEW r \in User, NEW w \in Workspace,
           NEW i \in ActiveIn(wsMemberships, w)
    PROVE  LET user == wsMemberships[i].user IN
           /\ i \in WorkspaceMemberButtons(r, w)
              <=> AuthorisedWorkspaceMutation(r, w, TRUE) /\ ActiveUser(user)
           /\ AcceptsWorkspaceRemoval(r, w, user)
              <=> /\ AuthorisedWorkspaceMutation(r, w, TRUE) /\ ActiveUser(user)
                  /\ Current(memberships, workspaces[w].organisation, user) # {}
<1>1. i \in Current(wsMemberships, w, wsMemberships[i].user)
  BY DEF ActiveIn, Current
<1>2. i \in WorkspaceMemberButtons(r, w)
      <=> AuthorisedWorkspaceMutation(r, w, TRUE) /\ ActiveUser(wsMemberships[i].user)
  BY WorkspacePage DEF WorkspaceMemberButtons, ListWorkspaceMembers
<1> QED BY <1>1, <1>2 DEF AcceptsWorkspaceRemoval, ActiveWorkspaceTarget

LEMMA Buttons == AccessInv => ButtonsMeetConditions
<1> SUFFICES ASSUME AccessInv PROVE ButtonsMeetConditions
  OBVIOUS
<1>1. ASSUME NEW r \in User, NEW o \in Organisation
      PROVE  LET page == OrganisationAdminContext(r, o) IN
             /\ page.canAdmin <=> AuthorisedOrganisationMutation(r, o)
             /\ page.archive <=> AcceptsArchive(r, o)
             /\ \A i \in ActiveIn(memberships, o) :
                   LET row == memberships[i] IN
                   i \in MemberButtons(r, o)
                   <=> \/ AcceptsRemoval(r, o, row.user)
                       \/ /\ page.canAdmin /\ ActsAsAdmin(r, o)
                          /\ row.role = "admin" /\ ActiveUser(row.user)
  <2>1. /\ OrganisationAdminContext(r, o).canAdmin <=> AuthorisedOrganisationMutation(r, o)
        /\ OrganisationAdminContext(r, o).archive <=> AcceptsArchive(r, o)
    BY OrganisationPage
  <2>2. ASSUME NEW i \in ActiveIn(memberships, o)
        PROVE  i \in MemberButtons(r, o)
               <=> \/ AcceptsRemoval(r, o, memberships[i].user)
                   \/ /\ OrganisationAdminContext(r, o).canAdmin /\ ActsAsAdmin(r, o)
                      /\ memberships[i].role = "admin" /\ ActiveUser(memberships[i].user)
    <3>1. memberships[i].role \in {"owner", "admin", "member"}
      BY MemberButton DEF OrgRole
    <3>2. Manageable(r, o, memberships[i])
          <=> /\ memberships[i].role # "owner"
              /\ ~(ActsAsAdmin(r, o) /\ memberships[i].role # "member")
      BY DEF Manageable
    <3> QED BY <2>1, <3>1, <3>2, MemberButton
  <2> QED BY <2>1, <2>2
<1>2. ASSUME NEW r \in User, NEW w \in Workspace
      PROVE  LET page == WorkspaceAdminPage(r, w) IN
             /\ page.canAdmin => page.opens
             /\ page.canAdmin <=> AuthorisedWorkspaceMutation(r, w, TRUE)
             /\ page.canAdmin
                => ~AdministersOrganisationOf(r, w) \/ AcceptsWorkspaceArchive(r, w)
             /\ \A i \in ActiveIn(wsMemberships, w) :
                   LET user == wsMemberships[i].user IN
                   /\ AcceptsWorkspaceRemoval(r, w, user) => i \in WorkspaceMemberButtons(r, w)
                   /\ i \in WorkspaceMemberButtons(r, w)
                      => \/ Current(memberships, workspaces[w].organisation, user) = {}
                         \/ AcceptsWorkspaceRemoval(r, w, user)
  BY WorkspacePage, WorkspaceMemberButton
<1> QED BY <1>1, <1>2 DEF ButtonsMeetConditions

LEMMA GrantButtons == AccessInv => GrantButtonsMeetConditions
<1> SUFFICES ASSUME AccessInv, NEW r \in User
             PROVE  /\ \A e \in 1..Len(entitlements) :
                          LET o == entitlements[e].organisation IN
                          e \in EntitlementButtons(r, o)
                          <=> products[entitlements[e].product] = "active" /\ AcceptsRevocation(r, o, e)
                    /\ \A s \in 1..Len(assignments) :
                          LET o == assignments[s].organisation IN
                          s \in AssignmentButtons(r, o) <=> AcceptsWithdrawal(r, o, s)
                    /\ \A p \in Product : p \in RetireButtons(r) <=> AcceptsRetirement(r, p)
  BY DEF GrantButtonsMeetConditions
<1>1. ASSUME NEW e \in 1..Len(entitlements)
      PROVE  e \in EntitlementButtons(r, entitlements[e].organisation)
             <=> /\ products[entitlements[e].product] = "active"
                 /\ AcceptsRevocation(r, entitlements[e].organisation, e)
  <2> DEFINE o == entitlements[e].organisation
  <2>1. o \in Organisation
    <3>1. entitlements[e] \in EntitlementRow
      BY DEF AccessInv, AccessTypeOK
    <3> QED BY <3>1 DEF EntitlementRow
  <2>2. /\ AuthorisedOrganisationRead(r, o, TRUE) <=> AuthorisedOrganisationMutation(r, o)
        /\ OrganisationAdminPage(r, o, "products") <=> AuthorisedOrganisationMutation(r, o)
    <3> HIDE DEF o
    <3> QED BY <2>1, OrganisationPage
  <2> QED BY <2>2 DEF EntitlementButtons, ListActiveEntitlements, AcceptsRevocation
<1>2. ASSUME NEW s \in 1..Len(assignments)
      PROVE  s \in AssignmentButtons(r, assignments[s].organisation)
             <=> AcceptsWithdrawal(r, assignments[s].organisation, s)
  <2> DEFINE o == assignments[s].organisation
  <2>1. o \in Organisation
    <3>1. assignments[s] \in AssignmentRow
      BY DEF AccessInv, AccessTypeOK
    <3> QED BY <3>1 DEF AssignmentRow
  <2>2. /\ AuthorisedOrganisationRead(r, o, TRUE) <=> AuthorisedOrganisationMutation(r, o)
        /\ OrganisationAdminPage(r, o, "products") <=> AuthorisedOrganisationMutation(r, o)
    <3> HIDE DEF o
    <3> QED BY <2>1, OrganisationPage
  <2> QED BY <2>2 DEF AssignmentButtons, ListActiveAssignments, AcceptsWithdrawal
<1>3. \A p \in Product : p \in RetireButtons(r) <=> AcceptsRetirement(r, p)
  BY DEF RetireButtons, AcceptsRetirement, MayListProducts, ActiveSystemAdmin
<1> QED BY <1>1, <1>2, <1>3

\* Every page of admin_ui.go shows its buttons to those, and on those rows, for
\* which the store's mutation would pass all its checks, but for the places that
\* OfferedIsAccepted and GrantButtonsAreAccepted name: in every reachable state of
\* the store, for any users, Organisations, Workspaces and products.
THEOREM ButtonsMeetConditionsAlways ==
    AccessSpec => [](ButtonsMeetConditions /\ GrantButtonsMeetConditions)
BY Buttons, GrantButtons, AccessInvariance, PTL

\* A step that archives, removes a member, withdraws an assignment or retires a
\* product is one that the page offered to its actor as it stood before the step.
AsOffered(r) ==
    /\ \A o \in Organisation :
          /\ ArchiveOrganisation(r, o) => OrganisationAdminContext(r, o).archive
          /\ \A u \in User : DeactivateOrganisationMember(r, o, u)
                             => \E i \in MemberButtons(r, o) : memberships[i].user = u
          /\ \A s \in 1..Len(assignments) :
                RevokeUserProduct(r, o, s) => s \in AssignmentButtons(r, o)
    /\ \A w \in Workspace :
          /\ ArchiveWorkspace(r, w) => WorkspaceAdminPage(r, w).canAdmin
          /\ \A u \in User : DeactivateWorkspaceMember(r, w, u)
                             => \E i \in WorkspaceMemberButtons(r, w) : wsMemberships[i].user = u
    /\ \A p \in Product : RetireProduct(r, p) => p \in RetireButtons(r)

\* The pages of admin_ui.go leave no mutation out that ends something: whatever the
\* store ends in a step, the page as it stood before offered to the actor.
THEOREM RemovedAsOffered == AccessSpec => [][\A r \in User : AsOffered(r)]_allVars
<1>1. AccessInv => \A r \in User : AsOffered(r)
  <2> SUFFICES ASSUME AccessInv, NEW r \in User PROVE AsOffered(r)
    OBVIOUS
  <2>1. ASSUME NEW o \in Organisation, ArchiveOrganisation(r, o)
        PROVE  OrganisationAdminContext(r, o).archive
    BY <2>1, MutationsHaveConditions, OrganisationPage
  <2>2. ASSUME NEW o \in Organisation, NEW u \in User, DeactivateOrganisationMember(r, o, u)
        PROVE  \E i \in MemberButtons(r, o) : memberships[i].user = u
    <3>1. AcceptsRemoval(r, o, u)
      BY <2>2, MutationsHaveConditions
    <3>2. PICK i \in Current(memberships, o, u) : Manageable(r, o, memberships[i])
      BY <3>1 DEF AcceptsRemoval
    <3>3. i \in ActiveIn(memberships, o) /\ memberships[i].user = u
      BY DEF Current, ActiveIn
    <3>4. memberships[i].role # "owner"
      BY <3>2 DEF Manageable
    <3>5. i \in MemberButtons(r, o)
      BY <3>1, <3>3, <3>4, MemberButton DEF AcceptsRemoval
    <3> QED BY <3>3, <3>5
  <2>3. ASSUME NEW o \in Organisation, NEW s \in 1..Len(assignments), RevokeUserProduct(r, o, s)
        PROVE  s \in AssignmentButtons(r, o)
    <3>1. AcceptsWithdrawal(r, o, s) /\ assignments[s].organisation = o
      BY <2>3, MutationsHaveConditions DEF AcceptsWithdrawal
    <3> QED BY <3>1, GrantButtons DEF GrantButtonsMeetConditions
  <2>4. ASSUME NEW w \in Workspace, ArchiveWorkspace(r, w)
        PROVE  WorkspaceAdminPage(r, w).canAdmin
    <3>1. AcceptsWorkspaceArchive(r, w)
      BY <2>4, MutationsHaveConditions
    <3>2. ProveWorkspaceScope(r, w, TRUE)
      BY <3>1 DEF AcceptsWorkspaceArchive, AuthorisedWorkspaceMutation
    <3> QED BY <3>2, WorkspacePage
  <2>5. ASSUME NEW w \in Workspace, NEW u \in User, DeactivateWorkspaceMember(r, w, u)
        PROVE  \E i \in WorkspaceMemberButtons(r, w) : wsMemberships[i].user = u
    <3>1. AcceptsWorkspaceRemoval(r, w, u)
      BY <2>5, MutationsHaveConditions
    <3>2. PICK i \in Current(wsMemberships, w, u) : TRUE
      BY <3>1 DEF AcceptsWorkspaceRemoval
    <3>3. i \in ActiveIn(wsMemberships, w) /\ wsMemberships[i].user = u
      BY DEF Current, ActiveIn
    <3>4. i \in WorkspaceMemberButtons(r, w)
      BY <3>1, <3>3, WorkspaceMemberButton
    <3> QED BY <3>3, <3>4
  <2>6. ASSUME NEW p \in Product, RetireProduct(r, p) PROVE p \in RetireButtons(r)
    <3>1. AcceptsRetirement(r, p)
      BY <2>6, MutationsHaveConditions
    <3> QED BY <3>1, GrantButtons DEF GrantButtonsMeetConditions
  <2> QED BY <2>1, <2>2, <2>3, <2>4, <2>5, <2>6 DEF AsOffered
<1>2. AccessInv /\ [AccessNext]_allVars => [\A r \in User : AsOffered(r)]_allVars
  BY <1>1
<1> QED BY <1>2, AccessInvariance, PTL DEF AccessSpec

(***************************************************************************)
(* Requests that are read query by query.                                  *)
(***************************************************************************)
\* The routes, and their queries one by one.
LEMMA Routes ==
    Route = {"selector", "launcher", "product", "handoff", "assertion", "general", "members",
             "workspaces", "products", "workspace", "organisationMembers",
             "organisationWorkspaces", "workspaceRead", "workspaceMembers"}
BY DEF Route, PageQueries, AdminQueries, OrganisationQueries, WorkspaceQueries

LEMMA RouteQueries ==
    /\ QueriesOf("selector") = WorkspaceEntry
    /\ QueriesOf("launcher") = <<"listed">> \o WorkspaceList \o <<"launchable">>
    /\ QueriesOf("product") = <<"getOrganisation", "scope", "workspaceRow", "access", "launchable">>
    /\ QueriesOf("handoff") = <<"target", "access", "launchable", "issueForTarget">>
    /\ QueriesOf("assertion") = <<"access", "issue">>
    /\ QueriesOf("general") = AdminContext \o <<"notedStatus", "notedReader", "notedRole">>
    /\ QueriesOf("workspaces") = AdminContext \o WorkspaceList
    /\ QueriesOf("members") = AdminContext \o <<"mustAdminister">> \o AdminRead
    /\ QueriesOf("products") = AdminContext \o <<"mustAdminister">> \o AdminRead \o AdminRead
    /\ QueriesOf("workspace") = <<"scope", "workspaceRow", "getOrganisation", "adminScope",
                                  "notedScope", "notedScope">>
    /\ QueriesOf("organisationMembers") = AdminRead
    /\ QueriesOf("organisationWorkspaces") = WorkspaceList
    /\ QueriesOf("workspaceRead") = <<"scope", "scope", "workspaceRow">>
    /\ QueriesOf("workspaceMembers") = <<"mustAdminScope", "mustAdminScope">>
<1>1. /\ DOMAIN PageQueries = {"selector", "launcher", "product", "handoff", "assertion"}
      /\ DOMAIN AdminQueries = {"general", "members", "workspaces", "products", "workspace"}
      /\ DOMAIN OrganisationQueries = {"organisationMembers", "organisationWorkspaces"}
      /\ DOMAIN WorkspaceQueries = {"workspaceRead", "workspaceMembers"}
  BY DEF PageQueries, AdminQueries, OrganisationQueries, WorkspaceQueries
<1> DEFINE launcher == <<"listed">> \o WorkspaceList \o <<"launchable">>
           general == AdminContext \o <<"notedStatus", "notedReader", "notedRole">>
           members == AdminContext \o <<"mustAdminister">> \o AdminRead
           lists == AdminContext \o WorkspaceList
           grants == AdminContext \o <<"mustAdminister">> \o AdminRead \o AdminRead
<1>2. /\ PageQueries["selector"] = WorkspaceEntry
      /\ PageQueries["launcher"] = launcher
      /\ PageQueries["product"] = <<"getOrganisation", "scope", "workspaceRow", "access", "launchable">>
      /\ PageQueries["handoff"] = <<"target", "access", "launchable", "issueForTarget">>
      /\ PageQueries["assertion"] = <<"access", "issue">>
  <2> HIDE DEF launcher
  <2>1. PageQueries = [selector  |-> WorkspaceEntry,
                       launcher  |-> launcher,
                       product   |-> <<"getOrganisation", "scope", "workspaceRow", "access", "launchable">>,
                       handoff   |-> <<"target", "access", "launchable", "issueForTarget">>,
                       assertion |-> <<"access", "issue">>]
    BY Zenon DEF PageQueries, launcher
  <2> QED BY <2>1
<1>3. /\ AdminQueries["general"] = general
      /\ AdminQueries["members"] = members
      /\ AdminQueries["workspaces"] = lists
      /\ AdminQueries["products"] = grants
      /\ AdminQueries["workspace"] = <<"scope", "workspaceRow", "getOrganisation", "adminScope",
                                       "notedScope", "notedScope">>
  <2> HIDE DEF general, members, lists, grants
  <2>1. AdminQueries = [general    |-> general,
                        members    |-> members,
                        workspaces |-> lists,
                        products   |-> grants,
                        workspace  |-> <<"scope", "workspaceRow", "getOrganisation", "adminScope",
                                         "notedScope", "notedScope">>]
    BY Zenon DEF AdminQueries, general, members, lists, grants
  <2> QED BY <2>1
<1>4. /\ OrganisationQueries["organisationMembers"] = AdminRead
      /\ OrganisationQueries["organisationWorkspaces"] = WorkspaceList
      /\ WorkspaceQueries["workspaceRead"] = <<"scope", "scope", "workspaceRow">>
      /\ WorkspaceQueries["workspaceMembers"] = <<"mustAdminScope", "mustAdminScope">>
  BY DEF OrganisationQueries, WorkspaceQueries
<1> HIDE DEF launcher, general, members, lists, grants
<1>5. /\ \A x \in DOMAIN PageQueries : QueriesOf(x) = PageQueries[x]
      /\ \A x \in DOMAIN AdminQueries : QueriesOf(x) = AdminQueries[x]
      /\ \A x \in DOMAIN OrganisationQueries : QueriesOf(x) = OrganisationQueries[x]
      /\ \A x \in DOMAIN WorkspaceQueries : QueriesOf(x) = WorkspaceQueries[x]
  BY <1>1 DEF QueriesOf
<1>6. /\ QueriesOf("launcher") = launcher
      /\ QueriesOf("general") = general
      /\ QueriesOf("members") = members
      /\ QueriesOf("workspaces") = lists
      /\ QueriesOf("products") = grants
  BY <1>1, <1>2, <1>3, <1>5
<1> QED BY <1>1, <1>2, <1>3, <1>4, <1>5, <1>6
        DEF launcher, general, members, lists, grants

\* q is the query that a request of this route makes at this point.
Asks(route, next, q) ==
    LET queries == QueriesOf(route) IN next \in 1..Len(queries) /\ q = queries[next]

Last(route, next) == next = Len(QueriesOf(route))

\* Where a list of Workspaces asks for the role that decides on its rows; the
\* query before is for the membership, the one after for the rows.
ListedAt(route) ==
    CASE route = "workspaces" -> 7
      [] route = "organisationWorkspaces" -> 4
      [] OTHER -> 5

\* The lists of Workspaces.
LEMMA ListQueries ==
    ASSUME NEW route \in WorkspaceLists \cup {"launcher"}, NEW next, NEW q, Asks(route, next, q)
    PROVE  /\ q \in {"getOrganisation", "listed", "listedRole", "catalogue", "status", "reader",
                     "role", "listingRole", "workspaceRows", "launchable"}
           /\ next \in Nat /\ ListedAt(route) \in Nat
           /\ q = "role" <=> next + 1 = ListedAt(route)
           /\ q = "listingRole" <=> next = ListedAt(route)
           /\ q = "workspaceRows" <=> next = ListedAt(route) + 1
           /\ route = "launcher" => (Last(route, next) <=> q = "launchable")
           /\ route # "launcher" => q # "launchable" /\ (Last(route, next) <=> q = "workspaceRows")
<1> DEFINE s == QueriesOf(route)
<1>1. next \in 1..Len(s) /\ q = s[next] /\ (Last(route, next) <=> next = Len(s))
  BY DEF Asks, Last
<1>2. CASE route = "selector"
  <2>1. s = WorkspaceEntry
    BY <1>2, RouteQueries
  <2> HIDE DEF s
  <2>2. Len(s) = 6 /\ s[1] = "getOrganisation" /\ s[2] = "status" /\ s[3] = "reader" /\ s[4] = "role"
        /\ s[5] = "listingRole" /\ s[6] = "workspaceRows"
    BY <2>1 DEF WorkspaceEntry, WorkspaceList, OrganisationRead
  <2>3. ListedAt(route) = 5
    BY <1>2 DEF ListedAt
  <2> QED BY <1>1, <1>2, <2>2, <2>3
<1>3. CASE route = "launcher"
  <2>1. s = <<"listed">> \o WorkspaceList \o <<"launchable">>
    BY <1>3, RouteQueries
  <2> HIDE DEF s
  <2>2. Len(s) = 7 /\ s[1] = "listed" /\ s[2] = "status" /\ s[3] = "reader" /\ s[4] = "role"
        /\ s[5] = "listingRole" /\ s[6] = "workspaceRows" /\ s[7] = "launchable"
    BY <2>1 DEF WorkspaceList, OrganisationRead
  <2>3. ListedAt(route) = 5
    BY <1>3 DEF ListedAt
  <2> QED BY <1>1, <1>3, <2>2, <2>3
<1>4. CASE route = "workspaces"
  <2>1. s = AdminContext \o WorkspaceList
    BY <1>4, RouteQueries
  <2> HIDE DEF s
  <2>2. Len(s) = 8 /\ s[1] = "getOrganisation" /\ s[2] = "listedRole" /\ s[3] = "catalogue"
        /\ s[4] = "status" /\ s[5] = "reader" /\ s[6] = "role"
        /\ s[7] = "listingRole" /\ s[8] = "workspaceRows"
    BY <2>1 DEF AdminContext, WorkspaceList, OrganisationRead
  <2>3. ListedAt(route) = 7
    BY <1>4 DEF ListedAt
  <2> QED BY <1>1, <1>4, <2>2, <2>3
<1>5. CASE route = "organisationWorkspaces"
  <2>1. s = WorkspaceList
    BY <1>5, RouteQueries
  <2> HIDE DEF s
  <2>2. Len(s) = 5 /\ s[1] = "status" /\ s[2] = "reader" /\ s[3] = "role"
        /\ s[4] = "listingRole" /\ s[5] = "workspaceRows"
    BY <2>1 DEF WorkspaceList, OrganisationRead
  <2>3. ListedAt(route) = 4
    BY <1>5 DEF ListedAt
  <2> QED BY <1>1, <1>5, <2>2, <2>3
<1> QED BY <1>2, <1>3, <1>4, <1>5 DEF WorkspaceLists

\* The first section of an Organisation's administration.
LEMMA GeneralQueries ==
    ASSUME NEW next, NEW q, Asks("general", next, q)
    PROVE  /\ q \in {"getOrganisation", "listedRole", "catalogue",
                     "notedStatus", "notedReader", "notedRole"}
           /\ next \in Nat /\ next >= 1
           /\ q = "getOrganisation" <=> next = 1
           /\ q = "listedRole" <=> next = 2
           /\ q = "catalogue" <=> next = 3
           /\ Last("general", next) => next = 6
<1> DEFINE s == QueriesOf("general")
<1>1. s = AdminContext \o <<"notedStatus", "notedReader", "notedRole">>
  BY RouteQueries
<1>2. next \in 1..Len(s) /\ q = s[next] /\ (Last("general", next) <=> next = Len(s))
  BY DEF Asks, Last
<1> HIDE DEF s
<1>3. Len(s) = 6 /\ s[1] = "getOrganisation" /\ s[2] = "listedRole" /\ s[3] = "catalogue"
      /\ s[4] = "notedStatus" /\ s[5] = "notedReader" /\ s[6] = "notedRole"
  BY <1>1 DEF AdminContext
<1> QED BY <1>2, <1>3

\* The pages and the route that lead to a product.
LEMMA ProductQueries ==
    ASSUME NEW next, NEW q
    PROVE  /\ Asks("product", next, q) =>
                /\ q \in {"getOrganisation", "scope", "workspaceRow", "access", "launchable"}
                /\ Last("product", next) => q = "launchable"
           /\ Asks("handoff", next, q) =>
                /\ next \in 1..4
                /\ q \in {"target", "access", "launchable", "issueForTarget"}
                /\ next = 1 <=> q = "target"
                /\ next = 3 <=> q = "launchable"
                /\ next = 4 <=> q = "issueForTarget"
                /\ Last("handoff", next) => next = 4
           /\ Asks("assertion", next, q) =>
                /\ next \in 1..2
                /\ q \in {"access", "issue"}
                /\ next = 1 <=> q = "access"
                /\ Last("assertion", next) => next = 2
<1> DEFINE s == QueriesOf("product")
           t == QueriesOf("handoff")
           a == QueriesOf("assertion")
<1>1. /\ s = <<"getOrganisation", "scope", "workspaceRow", "access", "launchable">>
      /\ t = <<"target", "access", "launchable", "issueForTarget">>
      /\ a = <<"access", "issue">>
  BY RouteQueries
<1> HIDE DEF s, t, a
<1>2. /\ Len(s) = 5 /\ s[1] = "getOrganisation" /\ s[2] = "scope" /\ s[3] = "workspaceRow"
      /\ s[4] = "access" /\ s[5] = "launchable"
      /\ Len(t) = 4 /\ t[1] = "target" /\ t[2] = "access" /\ t[3] = "launchable"
      /\ t[4] = "issueForTarget"
      /\ Len(a) = 2 /\ a[1] = "access" /\ a[2] = "issue"
  BY <1>1
<1>3. /\ Asks("product", next, q) => next \in 1..5 /\ q = s[next]
      /\ Asks("handoff", next, q) => next \in 1..4 /\ q = t[next]
      /\ Asks("assertion", next, q) => next \in 1..2 /\ q = a[next]
  BY <1>2 DEF Asks, s, t, a
<1>4. /\ Last("product", next) <=> next = 5
      /\ Last("handoff", next) <=> next = 4
      /\ Last("assertion", next) <=> next = 2
  BY <1>2 DEF Last, s, t, a
<1> QED BY <1>2, <1>3, <1>4

\* The administration of an Organisation.
LEMMA AdministrationQueries ==
    ASSUME NEW next, NEW q
    PROVE  /\ Asks("members", next, q) \/ Asks("products", next, q) =>
                /\ q \in {"getOrganisation", "listedRole", "catalogue", "mustAdminister",
                          "status", "reader", "adminRole"}
                /\ next \in Nat /\ next >= 1
                /\ next = 1 => q = "getOrganisation"
                /\ q = "listedRole" <=> next = 2
                /\ q = "catalogue" <=> next = 3
                /\ q = "mustAdminister" <=> next = 4
                /\ Last("members", next) /\ Asks("members", next, q) => q = "adminRole"
                /\ Last("products", next) /\ Asks("products", next, q) => q = "adminRole"
           /\ Asks("organisationMembers", next, q) =>
                /\ q \in {"status", "reader", "adminRole"}
                /\ next \in Nat /\ next >= 1
                /\ next = 1 => q = "status"
                /\ Last("organisationMembers", next) => q = "adminRole"
<1> DEFINE s == QueriesOf("members")
           t == QueriesOf("products")
           a == QueriesOf("organisationMembers")
<1>1. /\ s = AdminContext \o <<"mustAdminister">> \o AdminRead
      /\ t = AdminContext \o <<"mustAdminister">> \o AdminRead \o AdminRead
      /\ a = AdminRead
  BY RouteQueries
<1> HIDE DEF s, t, a
<1>2. Len(s) = 7 /\ s[1] = "getOrganisation" /\ s[2] = "listedRole" /\ s[3] = "catalogue"
      /\ s[4] = "mustAdminister" /\ s[5] = "status" /\ s[6] = "reader" /\ s[7] = "adminRole"
  BY <1>1 DEF AdminContext, AdminRead
<1>3. Len(t) = 10 /\ t[1] = "getOrganisation" /\ t[2] = "listedRole" /\ t[3] = "catalogue"
      /\ t[4] = "mustAdminister" /\ t[5] = "status" /\ t[6] = "reader" /\ t[7] = "adminRole"
      /\ t[8] = "status" /\ t[9] = "reader" /\ t[10] = "adminRole"
  BY <1>1 DEF AdminContext, AdminRead
<1>4. Len(a) = 3 /\ a[1] = "status" /\ a[2] = "reader" /\ a[3] = "adminRole"
  BY <1>1 DEF AdminRead
<1>5. /\ Asks("members", next, q) => next \in 1..7 /\ q = s[next]
      /\ Asks("products", next, q) => next \in 1..10 /\ q = t[next]
      /\ Asks("organisationMembers", next, q) => next \in 1..3 /\ q = a[next]
  BY <1>2, <1>3, <1>4 DEF Asks, s, t, a
<1>6. /\ Last("members", next) <=> next = 7
      /\ Last("products", next) <=> next = 10
      /\ Last("organisationMembers", next) <=> next = 3
  BY <1>2, <1>3, <1>4 DEF Last, s, t, a
<1>7. Asks("members", next, q) =>
                /\ q \in {"getOrganisation", "listedRole", "catalogue", "mustAdminister",
                          "status", "reader", "adminRole"}
                /\ next \in Nat /\ next >= 1
                /\ next = 1 => q = "getOrganisation"
                /\ q = "listedRole" <=> next = 2
                /\ q = "catalogue" <=> next = 3
                /\ q = "mustAdminister" <=> next = 4
                /\ Last("members", next) => q = "adminRole"
  BY <1>2, <1>5, <1>6
<1>8. Asks("products", next, q) =>
                /\ q \in {"getOrganisation", "listedRole", "catalogue", "mustAdminister",
                          "status", "reader", "adminRole"}
                /\ next \in Nat /\ next >= 1
                /\ next = 1 => q = "getOrganisation"
                /\ q = "listedRole" <=> next = 2
                /\ q = "catalogue" <=> next = 3
                /\ q = "mustAdminister" <=> next = 4
                /\ Last("products", next) => q = "adminRole"
  BY <1>3, <1>5, <1>6
<1>9. Asks("organisationMembers", next, q) =>
                /\ q \in {"status", "reader", "adminRole"}
                /\ next \in Nat /\ next >= 1
                /\ next = 1 => q = "status"
                /\ Last("organisationMembers", next) => q = "adminRole"
  BY <1>4, <1>5, <1>6
<1> QED BY <1>7, <1>8, <1>9

\* The routes that are about one Workspace.
LEMMA WorkspaceRouteQueries ==
    ASSUME NEW next, NEW q
    PROVE  /\ Asks("workspace", next, q) =>
                /\ q \in {"scope", "workspaceRow", "getOrganisation", "adminScope", "notedScope"}
                /\ next \in 1..6
                /\ q = "scope" <=> next = 1
                /\ q = "workspaceRow" <=> next = 2
                /\ q = "adminScope" <=> next = 4
                /\ q = "notedScope" <=> next \in {5, 6}
                /\ Last("workspace", next) <=> next = 6
           /\ Asks("workspaceRead", next, q) =>
                /\ next \in 1..3
                /\ q = IF next = 3 THEN "workspaceRow" ELSE "scope"
                /\ Last("workspaceRead", next) <=> next = 3
           /\ Asks("workspaceMembers", next, q) => q = "mustAdminScope"
<1> DEFINE s == QueriesOf("workspace")
           t == QueriesOf("workspaceRead")
           a == QueriesOf("workspaceMembers")
<1>1. /\ s = <<"scope", "workspaceRow", "getOrganisation", "adminScope", "notedScope", "notedScope">>
      /\ t = <<"scope", "scope", "workspaceRow">>
      /\ a = <<"mustAdminScope", "mustAdminScope">>
  BY RouteQueries
<1> HIDE DEF s, t, a
<1>2. /\ Len(s) = 6 /\ s[1] = "scope" /\ s[2] = "workspaceRow" /\ s[3] = "getOrganisation"
      /\ s[4] = "adminScope" /\ s[5] = "notedScope" /\ s[6] = "notedScope"
      /\ Len(t) = 3 /\ t[1] = "scope" /\ t[2] = "scope" /\ t[3] = "workspaceRow"
      /\ Len(a) = 2 /\ a[1] = "mustAdminScope" /\ a[2] = "mustAdminScope"
  BY <1>1
<1>3. /\ Asks("workspace", next, q) => next \in 1..6 /\ q = s[next]
      /\ Asks("workspaceRead", next, q) => next \in 1..3 /\ q = t[next]
      /\ Asks("workspaceMembers", next, q) => next \in 1..2 /\ q = a[next]
  BY <1>2 DEF Asks, s, t, a
<1>4. (Last("workspace", next) <=> next = 6) /\ (Last("workspaceRead", next) <=> next = 3)
  BY <1>2 DEF Last, s, t
<1> QED BY <1>2, <1>3, <1>4

(***************************************************************************)
(* What the routes ask, in terms of six facts about a request.             *)
(***************************************************************************)
Request == [route : Route, user : User, o : Organisation, w : Workspace, p : Product, a : Product,
            next : Nat, admin : BOOLEAN]

\* The requester is active; his Organisation is; he is in it; he administers it.
Awake(r) == ActiveUser(r.user)
Running(r) == organisations[r.o].status = "active"
Inside(r) == r.user \in SystemAdmin \/ OrgRoleOf(r.o, r.user) # NoRole
Runs(r) == r.user \in SystemAdmin \/ CanAdminister(OrgRoleOf(r.o, r.user))

\* The Workspace is an active one of that Organisation, and he has joined it.
Placed(r) == workspaces[r.w].status = "active" /\ workspaces[r.w].organisation = r.o
Joined(r) == Current(wsMemberships, r.w, r.user) # {}

Member(r) == Running(r) /\ Awake(r) /\ Inside(r)
Governs(r) == Running(r) /\ Awake(r) /\ Runs(r)
Reaches(r) == Member(r) /\ Placed(r) /\ (Runs(r) \/ Joined(r))
Launches(r) == ProveProductAccess(r.user, r.o, r.p, r.w)
Manages(r) == ProveWorkspaceScope(r.user, r.w, TRUE)
Scoped(r) == ProveWorkspaceScope(r.user, r.w, FALSE)

\* The launch target and the audience are configured, where they are asked for.
Configured(r) ==
    /\ r.route = "handoff" => r.p \in LaunchTarget /\ Issues(r.p)
    /\ r.route = "assertion" => Issues(r.a)

\* The routes whose answer depends on a role that is read more than once.
RoleRoutes == WorkspaceLists \cup {"launcher", "general"}

ReachRoutes == WorkspaceLists \cup {"workspace", "workspaceRead"}
LaunchRoutes == {"launcher", "product", "handoff", "assertion"}
GovernRoutes == {"members", "products", "organisationMembers"}

\* What a route opens to, and the other two rights.
Meaning(r) ==
    /\ r.route \in ReachRoutes => (Opens(r) <=> Reaches(r))
    /\ r.route \in LaunchRoutes => (Opens(r) <=> Launches(r) /\ Configured(r))
    /\ r.route = "general" => (Opens(r) <=> Member(r))
    /\ r.route \in GovernRoutes => (Opens(r) <=> Governs(r))
    /\ r.route = "workspaceMembers" => (Opens(r) <=> Manages(r))
    /\ OrganisationAdminContext(r.user, r.o).canAdmin <=> Governs(r)
    /\ WorkspaceAdminPage(r.user, r.w).canAdmin <=> Manages(r)

\* How the facts hang together.
Coherent(r) ==
    /\ Runs(r) => Inside(r)
    /\ Inside(r) /\ r.user \notin SystemAdmin => Running(r)
    /\ Joined(r) => workspaces[r.w].status = "active"
    /\ Launches(r) => Reaches(r)
    /\ Manages(r) => Scoped(r)
    /\ Scoped(r) => workspaces[r.w].status = "active"
    /\ Reaches(r) <=> Scoped(r) /\ workspaces[r.w].organisation = r.o

\* The roles of the requester, and what follows when the Organisation has ended.
LEMMA RolesOf ==
    ASSUME AccessInv, NEW r \in Request
    PROVE  /\ OrgRoleOf(r.o, r.user) # NoRole <=> Current(memberships, r.o, r.user) # {}
           /\ Joined(r) <=> WsRoleOf(r.w, r.user) \in WsRole
           /\ CanAdminister(OrgRoleOf(r.o, r.user)) => OrgRoleOf(r.o, r.user) # NoRole
           /\ Current(memberships, r.o, r.user) # {} => organisations[r.o].status = "active"
           /\ Current(memberships, r.o, r.user) # {}
              <=> \E i \in ActiveIn(memberships, r.o) : memberships[i].user = r.user
           /\ Joined(r) => workspaces[r.w].status = "active"
<1>1. r.o \in Organisation /\ r.w \in Workspace /\ r.user \in User
  BY DEF Request
<1>2. OrgRoleOf(r.o, r.user) # NoRole <=> Current(memberships, r.o, r.user) # {}
  BY Roles
<1>3. Joined(r) <=> WsRoleOf(r.w, r.user) \in WsRole
  <2>1. WsRoleOf(r.w, r.user) # NoRole <=> Current(wsMemberships, r.w, r.user) # {}
    BY Roles
  <2>2. WsRoleOf(r.w, r.user) # NoRole => WsRoleOf(r.w, r.user) \in WsRole
    BY Roles
  <2>3. NoRole \notin WsRole
    BY DEF NoRole, WsRole
  <2> QED BY <2>1, <2>2, <2>3 DEF Joined
<1>4. CanAdminister(OrgRoleOf(r.o, r.user)) => OrgRoleOf(r.o, r.user) # NoRole
  BY DEF CanAdminister, NoRole
<1>5. Current(memberships, r.o, r.user) # {}
      <=> \E i \in ActiveIn(memberships, r.o) : memberships[i].user = r.user
  BY DEF Current, ActiveIn
<1>6. organisations[r.o].status # "active" => ActiveIn(memberships, r.o) = {}
  BY <1>1 DEF AccessInv, WsInv, OrgInv, OneOwner
<1>7. workspaces[r.w].status # "active" => ActiveIn(wsMemberships, r.w) = {}
  BY <1>1 DEF AccessInv, WsInv, GrantsStayInOrganisation
<1>8. Joined(r) => ActiveIn(wsMemberships, r.w) # {}
  BY DEF Joined, Current, ActiveIn
<1> QED BY <1>2, <1>3, <1>4, <1>5, <1>6, <1>7, <1>8

\* The reads of an Organisation.
LEMMA OrganisationReads ==
    ASSUME AccessInv, NEW r \in Request
    PROVE  /\ GetOrganisation(r.user, r.o) <=> Member(r)
           /\ r.o \in ListUserOrganisations(r.user) <=> Member(r)
           /\ OrganisationAdminContext(r.user, r.o).canAdmin <=> Governs(r)
           /\ AuthorisedOrganisationRead(r.user, r.o, TRUE) <=> Governs(r)
           /\ AuthorisedOrganisationRead(r.user, r.o, FALSE) <=> Member(r)
<1>1. r.o \in Organisation
  BY DEF Request
<1>2. r.o \in ListUserOrganisations(r.user) <=> Member(r)
  BY <1>1, RolesOf DEF ListUserOrganisations, Member, Running, Awake, Inside, ActiveSystemAdmin
<1>3. GetOrganisation(r.user, r.o) <=> Member(r)
  BY RolesOf DEF GetOrganisation, Member, Running, Awake, Inside, ActiveSystemAdmin
<1>4. OrganisationAdminContext(r.user, r.o).canAdmin
      <=> /\ r.o \in ListUserOrganisations(r.user)
          /\ IsSystemAdministrator(r.user) \/ CanAdminister(OrgRoleOf(r.o, r.user))
  BY DEF OrganisationAdminContext
<1>5. OrganisationAdminContext(r.user, r.o).canAdmin <=> Governs(r)
  BY <1>2, <1>4, RolesOf DEF IsSystemAdministrator, MayListProducts, ActiveSystemAdmin, Member,
                             Governs, Running, Awake, Inside, Runs
<1>6. AuthorisedOrganisationRead(r.user, r.o, TRUE) <=> Governs(r)
  BY RolesOf DEF AuthorisedOrganisationRead, Governs, Running, Awake, Runs
<1>7. AuthorisedOrganisationRead(r.user, r.o, FALSE) <=> Member(r)
  BY DEF AuthorisedOrganisationRead, Member, Running, Awake, Inside
<1> QED BY <1>2, <1>3, <1>5, <1>6, <1>7

\* The scope proofs of a Workspace.
LEMMA WorkspaceReads ==
    ASSUME AccessInv, NEW r \in Request
    PROVE  /\ Reaches(r) <=> Scoped(r) /\ workspaces[r.w].organisation = r.o
           /\ Manages(r) => Scoped(r)
           /\ Scoped(r) => workspaces[r.w].status = "active"
           /\ WorkspaceAdminPage(r.user, r.w).canAdmin <=> Manages(r)
           /\ r.w \in ListOrganisationWorkspaces(r.user, r.o) <=> Reaches(r)
           /\ Scoped(r) <=> GetWorkspace(r.user, r.w)
           /\ Placed(r) <=> workspaces[r.w] = [status |-> "active", organisation |-> r.o]
<1>1. r.o \in Organisation /\ r.w \in Workspace /\ r.user \in User
  BY DEF Request
<1>2. Placed(r) <=> workspaces[r.w] = [status |-> "active", organisation |-> r.o]
  BY <1>1 DEF Placed, AccessInv, WsInv, WsTypeOK, WsFacts
<1>3. Joined(r) <=> WsRoleOf(r.w, r.user) \in WsRole
  BY RolesOf
<1>4. Runs(r) => Inside(r)
  BY RolesOf DEF Runs, Inside
<1>5. Scoped(r)
      <=> /\ LiveScope(r.user, r.w)
          /\ r.user \in SystemAdmin \/ OrgRoleOf(workspaces[r.w].organisation, r.user) # NoRole
          /\ AdministersOrganisationOf(r.user, r.w) \/ Joined(r)
  BY <1>3 DEF Scoped, ProveWorkspaceScope
<1>6. Reaches(r) <=> Scoped(r) /\ workspaces[r.w].organisation = r.o
  BY <1>5 DEF Reaches, Member, Running, Awake, Inside, Placed, Runs, LiveScope, AdministersOrganisationOf
<1>7. "admin" \in WsRole
  BY DEF WsRole
<1>8. Manages(r)
      <=> /\ LiveScope(r.user, r.w)
          /\ r.user \in SystemAdmin \/ OrgRoleOf(workspaces[r.w].organisation, r.user) # NoRole
          /\ AdministersOrganisationOf(r.user, r.w) \/ WsRoleOf(r.w, r.user) = "admin"
  BY DEF Manages, ProveWorkspaceScope
<1>9. Manages(r) => Scoped(r)
  BY <1>3, <1>5, <1>7, <1>8
<1>10. Scoped(r) => workspaces[r.w].status = "active"
  BY <1>5 DEF LiveScope
<1>11. WorkspaceAdminPage(r.user, r.w).canAdmin
       <=> /\ Scoped(r)
           /\ AdministersOrganisationOf(r.user, r.w) \/ WsRoleOf(r.w, r.user) = "admin"
  BY DEF WorkspaceAdminPage, Scoped
<1>12. WorkspaceAdminPage(r.user, r.w).canAdmin <=> Manages(r)
  BY <1>5, <1>8, <1>9, <1>11
<1>13. AuthorisedOrganisationRead(r.user, r.o, FALSE) <=> Member(r)
  BY OrganisationReads
<1>14. r.w \in ListOrganisationWorkspaces(r.user, r.o) <=> Reaches(r)
  BY <1>1, <1>2, <1>13 DEF ListOrganisationWorkspaces, Reaches, Joined, Runs
<1> QED BY <1>2, <1>6, <1>9, <1>10, <1>12, <1>14 DEF Scoped, GetWorkspace

\* The launcher's last list and the access proof.
LEMMA ProductReads ==
    ASSUME AccessInv, NEW r \in Request
    PROVE  /\ r.p \in ListLaunchableProducts(r.user, r.o, r.w) <=> Launches(r)
           /\ Launches(r) => Reaches(r)
<1>1. r.user \in User /\ r.o \in Organisation /\ r.w \in Workspace /\ r.p \in Product
  BY DEF Request
<1>2. r.p \in ListLaunchableProducts(r.user, r.o, r.w) <=> Launches(r)
  BY <1>1, ListedIsProved DEF Launches
<1>3. Launches(r) => r.w \in ListOrganisationWorkspaces(r.user, r.o)
  BY <1>1, ProvedIsReached DEF Launches
<1> QED BY <1>2, <1>3, WorkspaceReads

LEMMA CoherentRequests ==
    ASSUME AccessInv, NEW r \in Request
    PROVE  Coherent(r)
<1>1. Runs(r) => Inside(r)
  BY RolesOf DEF Runs, Inside
<1>2. Inside(r) /\ r.user \notin SystemAdmin => Running(r)
  BY RolesOf DEF Inside, Running
<1>3. Joined(r) => workspaces[r.w].status = "active"
  BY RolesOf
<1>4. Launches(r) => Reaches(r)
  BY ProductReads
<1>5. /\ Manages(r) => Scoped(r)
      /\ Scoped(r) => workspaces[r.w].status = "active"
      /\ Reaches(r) <=> Scoped(r) /\ workspaces[r.w].organisation = r.o
  BY WorkspaceReads
<1> QED BY <1>1, <1>2, <1>3, <1>4, <1>5 DEF Coherent

\* Each route, taken at one moment.
LEMMA RoutesMean ==
    ASSUME AccessInv, NEW r \in Request
    PROVE  Meaning(r)
<1>1. r.user \in User /\ r.o \in Organisation /\ r.w \in Workspace /\ r.p \in Product
  BY DEF Request
<1>2. r.route = "selector" => (Opens(r) <=> Reaches(r))
  <2>1. r.route = "selector"
        => (Opens(r) <=> GetOrganisation(r.user, r.o) /\ r.w \in ListOrganisationWorkspaces(r.user, r.o))
    BY DEF Opens
  <2> QED BY <2>1, OrganisationReads, WorkspaceReads DEF Reaches
<1>3. r.route = "workspace" => (Opens(r) <=> Reaches(r))
  <2>1. r.route = "workspace"
        => (Opens(r) <=> WorkspaceAdminPage(r.user, r.w).opens /\ workspaces[r.w].organisation = r.o)
    BY DEF Opens
  <2>2. WorkspaceAdminPage(r.user, r.w).opens
        <=> GetWorkspace(r.user, r.w) /\ GetOrganisation(r.user, workspaces[r.w].organisation)
    BY DEF WorkspaceAdminPage
  <2> QED BY <2>1, <2>2, OrganisationReads, WorkspaceReads DEF Reaches
<1>4. r.route = "workspaceRead" => (Opens(r) <=> Reaches(r))
  <2>1. r.route = "workspaceRead"
        => (Opens(r) <=> GetWorkspace(r.user, r.w) /\ workspaces[r.w].organisation = r.o)
    BY DEF Opens
  <2> QED BY <2>1, WorkspaceReads
<1>5. r.route = "launcher" => (Opens(r) <=> Launches(r))
  <2>1. r.route = "launcher"
        => (Opens(r) <=> /\ r.o \in ListUserOrganisations(r.user)
                         /\ r.w \in ListOrganisationWorkspaces(r.user, r.o)
                         /\ r.p \in ListLaunchableProducts(r.user, r.o, r.w))
    BY DEF Opens
  <2> QED BY <2>1, OrganisationReads, WorkspaceReads, ProductReads DEF Reaches
<1>6. r.route = "product" => (Opens(r) <=> Launches(r))
  <2>1. r.route = "product" => (Opens(r) <=> ProductAccessPage(r.user, r.o, r.w, r.p))
    BY DEF Opens
  <2> QED BY <2>1, OrganisationReads, WorkspaceReads, ProductReads DEF ProductAccessPage, Reaches, Launches
<1>7. r.route = "handoff" => (Opens(r) <=> Launches(r) /\ Configured(r))
  <2>1. r.route = "handoff" => (Opens(r) <=> ProductHandoff(r.user, r.o, r.w, r.p))
    BY DEF Opens
  <2> QED BY <2>1, ProductReads DEF ProductHandoff, Configured, Launches
<1>8. r.route = "assertion" => (Opens(r) <=> Launches(r) /\ Configured(r))
  BY DEF Opens, IssueProductAssertion, Launches, Configured
<1>9. r.route \in {"members", "products"} => (Opens(r) <=> Governs(r))
  <2>1. r.route \in {"members", "products"}
        => (Opens(r) <=> OrganisationAdminPage(r.user, r.o, r.route))
    BY DEF Opens
  <2>2. Governs(r) => Member(r)
    BY CoherentRequests DEF Coherent, Governs, Member
  <2> QED BY <2>1, <2>2, OrganisationReads DEF OrganisationAdminPage
<1>10. r.route = "organisationMembers" => (Opens(r) <=> Governs(r))
  <2>1. r.route = "organisationMembers"
        => (Opens(r) <=> AuthorisedOrganisationRead(r.user, r.o, TRUE))
    BY DEF Opens
  <2> QED BY <2>1, OrganisationReads
<1>11. r.route = "workspaceMembers" => (Opens(r) <=> Manages(r))
  BY DEF Opens, Manages
<1>12. /\ OrganisationAdminContext(r.user, r.o).canAdmin <=> Governs(r)
       /\ WorkspaceAdminPage(r.user, r.w).canAdmin <=> Manages(r)
  BY OrganisationReads, WorkspaceReads
<1>13. r.route = "general" => (Opens(r) <=> Member(r))
  <2>1. r.route = "general" => (Opens(r) <=> OrganisationAdminPage(r.user, r.o, "general"))
    BY DEF Opens
  <2> QED BY <2>1, OrganisationReads DEF OrganisationAdminPage
<1>14. r.route = "workspaces" => (Opens(r) <=> Reaches(r))
  <2>1. r.route = "workspaces"
        => (Opens(r) <=> /\ OrganisationAdminPage(r.user, r.o, "workspaces")
                         /\ r.w \in ListOrganisationWorkspaces(r.user, r.o))
    BY DEF Opens
  <2>2. OrganisationAdminPage(r.user, r.o, "workspaces") <=> Member(r)
    BY OrganisationReads DEF OrganisationAdminPage
  <2> QED BY <2>1, <2>2, WorkspaceReads DEF Reaches
<1>15. r.route = "organisationWorkspaces" => (Opens(r) <=> Reaches(r))
  <2>1. r.route = "organisationWorkspaces"
        => (Opens(r) <=> r.w \in ListOrganisationWorkspaces(r.user, r.o))
    BY DEF Opens
  <2> QED BY <2>1, WorkspaceReads
<1>16. r.route \in {"launcher", "product"} => Configured(r)
  BY DEF Configured
<1> QED BY <1>2, <1>3, <1>4, <1>5, <1>6, <1>7, <1>8, <1>9, <1>10, <1>11, <1>12, <1>13, <1>14,
           <1>15, <1>16
        DEF Meaning, WorkspaceLists, ReachRoutes, LaunchRoutes, GovernRoutes

\* What a query lets pass, and what it notes.
LEMMA QueriesPass ==
    ASSUME AccessInv, NEW r \in Request
    PROVE  /\ \A q \in {"getOrganisation", "listed", "listedRole"} : Passes(q, r) <=> Member(r)
           /\ Passes("status", r) <=> Running(r)
           /\ Passes("reader", r) <=> Awake(r)
           /\ Passes("role", r) <=> Inside(r)
           /\ Passes("adminRole", r) <=> Runs(r)
           /\ Passes("mustAdminister", r) <=> r.admin
           /\ Passes("listingRole", r) /\ Passes("catalogue", r)
           /\ \A q \in {"scope", "adminScope"} : Passes(q, r) <=> Scoped(r)
           /\ Passes("mustAdminScope", r) <=> Manages(r)
           /\ Passes("notedScope", r) <=> (r.admin => Manages(r))
           /\ Passes("workspaceRow", r) <=> Placed(r) /\ Running(r)
           /\ Passes("workspaceRows", r)
              <=> Placed(r) /\ Running(r) /\ (r.admin \/ (Awake(r) /\ Joined(r)))
           /\ \A q \in {"access", "launchable"} : Passes(q, r) <=> Launches(r)
           /\ Passes("notedStatus", r) <=> (r.admin => Running(r))
           /\ Passes("notedReader", r) <=> (r.admin => Awake(r))
           /\ Passes("notedRole", r) <=> (r.admin => Runs(r))
           /\ Passes("target", r) <=> r.p \in LaunchTarget
           /\ Passes("issueForTarget", r) <=> Issues(r.p)
           /\ Passes("issue", r) <=> Issues(r.a)
<1> DEFINE org == {"getOrganisation", "listed", "listedRole", "status", "reader", "role",
                   "adminRole", "mustAdminister", "notedStatus", "notedReader", "notedRole"}
           ws == {"scope", "adminScope", "mustAdminScope", "notedScope", "workspaceRow", "workspaceRows"}
           pr == {"access", "launchable"}
           cf == {"target", "issueForTarget", "issue"}
<1>1. \A q : q \notin org => OrganisationPasses(q, r)
  BY DEF OrganisationPasses
<1>2. \A q : q \notin ws => WorkspacePasses(q, r)
  BY DEF WorkspacePasses
<1>3. \A q : q \notin pr => ProductPasses(q, r)
  BY DEF ProductPasses
<1>3a. \A q : q \notin cf => ConfigurationPasses(q, r)
  BY DEF ConfigurationPasses
<1>4. /\ \A q \in org : Passes(q, r) <=> OrganisationPasses(q, r)
      /\ \A q \in ws : Passes(q, r) <=> WorkspacePasses(q, r)
      /\ \A q \in pr : Passes(q, r) <=> ProductPasses(q, r)
      /\ \A q \in cf : Passes(q, r) <=> ConfigurationPasses(q, r)
      /\ Passes("listingRole", r) /\ Passes("catalogue", r)
  BY <1>1, <1>2, <1>3, <1>3a DEF Passes
<1>5. /\ OrganisationPasses("getOrganisation", r) <=> GetOrganisation(r.user, r.o)
      /\ OrganisationPasses("listed", r) <=> r.o \in ListUserOrganisations(r.user)
      /\ OrganisationPasses("listedRole", r) <=> r.o \in ListUserOrganisations(r.user)
      /\ OrganisationPasses("status", r) <=> Running(r)
      /\ OrganisationPasses("reader", r) <=> Awake(r)
      /\ OrganisationPasses("role", r) <=> Inside(r)
      /\ OrganisationPasses("adminRole", r) <=> Runs(r)
      /\ OrganisationPasses("mustAdminister", r) <=> r.admin
      /\ OrganisationPasses("notedStatus", r) <=> (r.admin => Running(r))
      /\ OrganisationPasses("notedReader", r) <=> (r.admin => Awake(r))
      /\ OrganisationPasses("notedRole", r) <=> (r.admin => Runs(r))
  BY DEF OrganisationPasses, Running, Awake, Inside, Runs
<1>6. /\ WorkspacePasses("scope", r) <=> Scoped(r)
      /\ WorkspacePasses("adminScope", r) <=> Scoped(r)
      /\ WorkspacePasses("mustAdminScope", r) <=> Manages(r)
      /\ WorkspacePasses("notedScope", r) <=> (r.admin => Manages(r))
  BY DEF WorkspacePasses, Scoped, Manages
<1>7. /\ WorkspacePasses("workspaceRow", r)
         <=> workspaces[r.w] = [status |-> "active", organisation |-> r.o] /\ Running(r)
      /\ WorkspacePasses("workspaceRows", r)
         <=> /\ workspaces[r.w] = [status |-> "active", organisation |-> r.o]
             /\ Running(r) /\ (r.admin \/ (Awake(r) /\ Joined(r)))
  BY DEF WorkspacePasses, Running, Awake, Joined
<1>8. /\ ProductPasses("access", r) <=> Launches(r)
      /\ ProductPasses("launchable", r) <=> r.p \in ListLaunchableProducts(r.user, r.o, r.w)
  BY DEF ProductPasses, Launches
<1>9. /\ GetOrganisation(r.user, r.o) <=> Member(r)
      /\ r.o \in ListUserOrganisations(r.user) <=> Member(r)
  BY OrganisationReads
<1>10. /\ Placed(r) <=> workspaces[r.w] = [status |-> "active", organisation |-> r.o]
       /\ r.p \in ListLaunchableProducts(r.user, r.o, r.w) <=> Launches(r)
  BY WorkspaceReads, ProductReads
<1>11. /\ \A q \in {"getOrganisation", "listed", "listedRole"} : Passes(q, r) <=> Member(r)
       /\ Passes("status", r) <=> Running(r)
       /\ Passes("reader", r) <=> Awake(r)
       /\ Passes("role", r) <=> Inside(r)
       /\ Passes("adminRole", r) <=> Runs(r)
       /\ Passes("mustAdminister", r) <=> r.admin
  BY <1>4, <1>5, <1>9
<1>12. /\ \A q \in {"scope", "adminScope"} : Passes(q, r) <=> Scoped(r)
       /\ Passes("mustAdminScope", r) <=> Manages(r)
       /\ Passes("notedScope", r) <=> (r.admin => Manages(r))
       /\ Passes("workspaceRow", r) <=> Placed(r) /\ Running(r)
       /\ Passes("workspaceRows", r)
          <=> Placed(r) /\ Running(r) /\ (r.admin \/ (Awake(r) /\ Joined(r)))
  BY <1>4, <1>6, <1>7, <1>10
<1>13. \A q \in {"access", "launchable"} : Passes(q, r) <=> Launches(r)
  BY <1>4, <1>8, <1>10
<1>14. /\ Passes("notedStatus", r) <=> (r.admin => Running(r))
       /\ Passes("notedReader", r) <=> (r.admin => Awake(r))
       /\ Passes("notedRole", r) <=> (r.admin => Runs(r))
  BY <1>4, <1>5
<1>15. /\ Passes("target", r) <=> r.p \in LaunchTarget
       /\ Passes("issueForTarget", r) <=> Issues(r.p)
       /\ Passes("issue", r) <=> Issues(r.a)
  BY <1>4 DEF ConfigurationPasses
<1> QED BY <1>4, <1>11, <1>12, <1>13, <1>14, <1>15

LEMMA QueriesNote ==
    ASSUME AccessInv, NEW r \in Request
    PROVE  /\ Noted("listingRole", r) <=> Runs(r)
           /\ r.user \notin SystemAdmin => (Noted("listedRole", r) <=> Runs(r))
           /\ Noted("catalogue", r) <=> (r.admin \/ (Awake(r) /\ r.user \in SystemAdmin))
           /\ Scoped(r) => (Noted("adminScope", r) <=> Manages(r))
           /\ \A q : q \notin {"listingRole", "listedRole", "catalogue", "adminScope"}
                     => Noted(q, r) = r.admin
<1>1. /\ Noted("listingRole", r) <=> Runs(r)
      /\ r.user \notin SystemAdmin => (Noted("listedRole", r) <=> Runs(r))
  BY DEF Noted, Runs
<1>2. Noted("catalogue", r) <=> (r.admin \/ (Awake(r) /\ r.user \in SystemAdmin))
  BY DEF Noted, IsSystemAdministrator, MayListProducts, ActiveSystemAdmin, Awake
<1>3. Noted("adminScope", r)
      <=> AdministersOrganisationOf(r.user, r.w) \/ WsRoleOf(r.w, r.user) = "admin"
  BY DEF Noted
<1>4. Scoped(r) => (Noted("adminScope", r) <=> Manages(r))
  BY <1>3 DEF Scoped, Manages, ProveWorkspaceScope
<1>5. \A q : q \notin {"listingRole", "listedRole", "catalogue", "adminScope"}
             => Noted(q, r) = r.admin
  BY DEF Noted
<1> QED BY <1>1, <1>2, <1>4, <1>5

(***************************************************************************)
(* What a request knows after its first queries.                           *)
(***************************************************************************)
\* The rights the requester has had since the request arrived.
Opened == \E v \in seen : v.opens
Closed == \E v \in seen : ~v.opens
Governed == \E v \in seen : v.governs
Ungoverned == \E v \in seen : ~v.governs
Managed == \E v \in seen : v.admin
Unmanaged == \E v \in seen : ~v.admin

\* Those of this moment are among them.
Present(r) ==
    \E v \in seen : /\ v.opens <=> Opens(r)
                    /\ v.governs <=> r.route \in RoleRoutes /\ Governs(r)
                    /\ v.admin <=> r.route = "workspace" /\ Manages(r)

\* Nobody changes the roles of an inactive user: if he is one now, what he would
\* have a right to he had when he was last active, which he was on arrival.
Slept(r) ==
    ~Awake(r) /\ Running(r)
    => /\ Runs(r) => /\ r.route \in RoleRoutes => Governed
                     /\ r.route \in GovernRoutes => Opened
       /\ (r.route \in WorkspaceLists /\ Inside(r) /\ Placed(r) /\ Joined(r)) => Opened

\* The administration of an Organisation: a system administrator whose first query
\* passed had access then; whoever is not noted as an administrator was none.
GovernLearnt(r) ==
    r.route \in GovernRoutes
    => /\ r.next >= 2 /\ r.user \in SystemAdmin => Opened
       /\ r.route # "organisationMembers"
          => /\ r.next = 3 /\ ~r.admin /\ r.user \notin SystemAdmin => Closed
             /\ r.next = 4 /\ ~r.admin => Closed

\* The lists of Workspaces: once the membership was seen, a Workspace the requester
\* has joined was open to him; the listing role is the one of an earlier moment.
ListLearnt(r) ==
    /\ (r.route \in WorkspaceLists /\ r.next >= ListedAt(r.route) /\ r.user \notin SystemAdmin
        /\ Placed(r) /\ Running(r) /\ Joined(r)) => Opened
    /\ (r.route \in WorkspaceLists /\ r.next = ListedAt(r.route) + 1 /\ r.admin)
       => r.user \in SystemAdmin \/ Governed
    /\ (r.route \in WorkspaceLists \cup {"launcher"} /\ r.next = ListedAt(r.route) + 1 /\ ~r.admin)
       => r.user \notin SystemAdmin /\ Ungoverned

\* The general section: it was open, and who is noted as an administrator was one.
GeneralLearnt(r) ==
    r.route = "general"
    => /\ r.next >= 2 => Opened
       /\ r.next >= 3 /\ r.admin => r.user \in SystemAdmin \/ Governed

\* The routes that end by issuing an assertion, which reads nothing.
LaunchLearnt(r) ==
    /\ r.route = "handoff" => /\ r.next >= 2 => r.p \in LaunchTarget
                              /\ r.next >= 4 /\ Issues(r.p) => Opened
    /\ r.route = "assertion" /\ r.next >= 2 /\ Issues(r.a) => Opened

\* The pages of a Workspace, which stays in its Organisation.
WorkspaceLearnt(r) ==
    /\ (r.route = "workspace" /\ r.next >= 3)
       => workspaces[r.w].status # "absent" /\ workspaces[r.w].organisation = r.o
    /\ (r.route = "workspace" /\ r.next >= 5) => Opened /\ (r.admin => Managed)
    /\ (r.route = "workspaceRead" /\ r.next >= 2)
       => /\ workspaces[r.w].status # "absent"
          /\ workspaces[r.w].organisation = r.o => Opened

Learnt(r) ==
    /\ Present(r) /\ Slept(r)
    /\ GovernLearnt(r) /\ ListLearnt(r) /\ WorkspaceLearnt(r) /\ GeneralLearnt(r) /\ LaunchLearnt(r)

\* What an answer needs.
Refusable(r) ==
    \/ Closed
    \/ r.route \in RoleRoutes /\ Governed /\ Ungoverned
    \/ r.route = "workspace" /\ Managed /\ Unmanaged

Showable(r) ==
    Opened \/ (r.route \in WorkspaceLists /\ Governed /\ Ungoverned)

\* The rights of this moment.
LEMMA PresentRights ==
    ASSUME NEW r, Present(r)
    PROVE  /\ Opens(r) => Opened
           /\ ~Opens(r) => Closed
           /\ r.route \in RoleRoutes /\ Governs(r) => Governed
           /\ ~Governs(r) => Ungoverned
           /\ r.route = "workspace" /\ Manages(r) => Managed
           /\ ~Manages(r) => Unmanaged
<1>1. PICK v \in seen : /\ v.opens <=> Opens(r)
                        /\ v.governs <=> r.route \in RoleRoutes /\ Governs(r)
                        /\ v.admin <=> r.route = "workspace" /\ Manages(r)
  BY DEF Present
<1> QED BY <1>1 DEF Opened, Closed, Governed, Ungoverned, Managed, Unmanaged

\* A query that fails.
LEMMA Refused ==
    ASSUME AccessInv, NEW r \in Request, Learnt(r), NEW q, Asks(r.route, r.next, q), ~Passes(q, r)
    PROVE  Refusable(r)
<1>1. Meaning(r) /\ Coherent(r)
  BY RoutesMean, CoherentRequests
<1>2. /\ Present(r) /\ GovernLearnt(r) /\ ListLearnt(r) /\ WorkspaceLearnt(r)
      /\ GeneralLearnt(r)
  BY DEF Learnt
<1>3. r.route \in {"selector", "launcher", "product", "handoff", "assertion", "general", "members",
                   "workspaces", "products", "workspace", "organisationMembers",
                   "organisationWorkspaces", "workspaceRead", "workspaceMembers"}
  BY Routes DEF Request
<1>4. Reaches(r) => Member(r) /\ Placed(r) /\ Running(r) /\ Awake(r) /\ Inside(r) /\ Scoped(r)
  BY <1>1 DEF Coherent, Reaches, Member
<1>5. Governs(r) => Member(r) /\ Running(r) /\ Awake(r) /\ Runs(r)
  BY <1>1 DEF Coherent, Governs, Member
<1>6. Launches(r) => Reaches(r)
  BY <1>1 DEF Coherent
<1>7. CASE r.route \in WorkspaceLists
  <2>1. q \in {"getOrganisation", "listed", "listedRole", "catalogue", "status", "reader", "role",
               "listingRole", "workspaceRows"}
        /\ (q = "workspaceRows" => r.next = ListedAt(r.route) + 1)
    <3>1. r.route # "launcher"
      BY <1>7 DEF WorkspaceLists
    <3> QED BY <1>7, <3>1, ListQueries
  <2>2. Opens(r) <=> Reaches(r)
    BY <1>1, <1>7 DEF Meaning, ReachRoutes
  <2>3. CASE q # "workspaceRows"
    <3>1. ~Reaches(r)
      BY <1>4, <2>1, <2>3, QueriesPass
    <3> QED BY <1>2, <2>2, <3>1, PresentRights DEF Refusable
  <2>4. CASE q = "workspaceRows" /\ Reaches(r)
    <3>1. ~r.admin /\ ~Joined(r) /\ r.next = ListedAt(r.route) + 1
      BY <1>4, <2>1, <2>4, QueriesPass
    <3>2. Governs(r)
      BY <1>4, <2>4, <3>1 DEF Reaches, Governs
    <3>3. Ungoverned
      BY <1>2, <1>7, <3>1 DEF ListLearnt
    <3> QED BY <1>2, <1>7, <3>2, <3>3, PresentRights DEF Refusable, RoleRoutes
  <2>5. CASE ~Reaches(r)
    BY <1>2, <2>2, <2>5, PresentRights DEF Refusable
  <2> QED BY <2>3, <2>4, <2>5
<1>8. CASE r.route = "launcher"
  <2>1. q \in {"getOrganisation", "listed", "listedRole", "catalogue", "status", "reader", "role",
               "listingRole", "workspaceRows", "launchable"}
        /\ (q = "workspaceRows" => r.next = ListedAt(r.route) + 1)
    BY <1>8, ListQueries
  <2>2. Opens(r) <=> Launches(r)
    BY <1>1, <1>8 DEF Meaning, LaunchRoutes, Configured
  <2>3. CASE q # "workspaceRows"
    <3>1. ~Launches(r)
      BY <1>4, <1>6, <2>1, <2>3, QueriesPass
    <3> QED BY <1>2, <2>2, <3>1, PresentRights DEF Refusable
  <2>4. CASE q = "workspaceRows" /\ Launches(r)
    <3>1. ~r.admin /\ ~Joined(r) /\ r.next = ListedAt(r.route) + 1
      BY <1>4, <1>6, <2>1, <2>4, QueriesPass
    <3>2. Governs(r)
      BY <1>4, <1>6, <2>4, <3>1 DEF Reaches, Governs
    <3>3. Ungoverned
      BY <1>2, <1>8, <3>1 DEF ListLearnt
    <3> QED BY <1>2, <1>8, <3>2, <3>3, PresentRights DEF Refusable, RoleRoutes
  <2>5. CASE ~Launches(r)
    BY <1>2, <2>2, <2>5, PresentRights DEF Refusable
  <2> QED BY <2>3, <2>4, <2>5
<1>9. CASE r.route \in {"product", "handoff", "assertion"}
  <2>1. /\ q \in {"getOrganisation", "scope", "workspaceRow", "access", "launchable",
                  "target", "issueForTarget", "issue"}
        /\ q \in {"target", "issueForTarget"} => r.route = "handoff"
        /\ q = "issue" => r.route = "assertion"
    BY <1>9, ProductQueries
  <2>2. Opens(r) <=> Launches(r) /\ Configured(r)
    BY <1>1, <1>9 DEF Meaning, LaunchRoutes
  <2>3. CASE q \in {"target", "issueForTarget", "issue"}
    <3>1. ~Configured(r)
      BY <2>1, <2>3, QueriesPass DEF Configured
    <3> QED BY <1>2, <2>2, <3>1, PresentRights DEF Refusable
  <2>4. CASE q \notin {"target", "issueForTarget", "issue"}
    <3>1. ~Launches(r)
      BY <1>4, <1>6, <2>1, <2>4, QueriesPass
    <3> QED BY <1>2, <2>2, <3>1, PresentRights DEF Refusable
  <2> QED BY <2>3, <2>4
<1>10. CASE r.route \in {"members", "products"}
  <2>1. q \in {"getOrganisation", "listedRole", "catalogue", "mustAdminister",
               "status", "reader", "adminRole"}
        /\ (q = "mustAdminister" => r.next = 4)
    BY <1>10, AdministrationQueries
  <2>2. Opens(r) <=> Governs(r)
    BY <1>1, <1>10 DEF Meaning, GovernRoutes
  <2>3. CASE q = "mustAdminister"
    <3>1. ~r.admin /\ r.next = 4
      BY <2>1, <2>3, QueriesPass
    <3>2. Closed
      BY <1>2, <1>10, <3>1 DEF GovernLearnt, GovernRoutes
    <3> QED BY <3>2 DEF Refusable
  <2>4. CASE q # "mustAdminister"
    <3>1. ~Governs(r)
      BY <1>5, <2>1, <2>4, QueriesPass
    <3> QED BY <1>2, <2>2, <3>1, PresentRights DEF Refusable
  <2> QED BY <2>3, <2>4
<1>11. CASE r.route = "organisationMembers"
  <2>1. q \in {"status", "reader", "adminRole"}
    BY <1>11, AdministrationQueries
  <2>2. Opens(r) <=> Governs(r)
    BY <1>1, <1>11 DEF Meaning, GovernRoutes
  <2>3. ~Governs(r)
    BY <1>5, <2>1, QueriesPass
  <2> QED BY <1>2, <2>2, <2>3, PresentRights DEF Refusable
<1>12. CASE r.route = "workspace"
  <2>1. q \in {"scope", "workspaceRow", "getOrganisation", "adminScope", "notedScope"}
        /\ (q = "notedScope" => r.next >= 5)
    BY <1>12, WorkspaceRouteQueries
  <2>2. Opens(r) <=> Reaches(r)
    BY <1>1, <1>12 DEF Meaning, ReachRoutes
  <2>3. CASE q = "notedScope"
    <3>1. r.admin /\ ~Manages(r) /\ r.next >= 5
      BY <2>1, <2>3, QueriesPass
    <3>2. Managed
      BY <1>2, <1>12, <3>1 DEF WorkspaceLearnt
    <3> QED BY <1>2, <1>12, <3>1, <3>2, PresentRights DEF Refusable
  <2>4. CASE q # "notedScope"
    <3>1. ~Reaches(r)
      BY <1>4, <2>1, <2>4, QueriesPass
    <3> QED BY <1>2, <2>2, <3>1, PresentRights DEF Refusable
  <2> QED BY <2>3, <2>4
<1>13. CASE r.route = "workspaceRead"
  <2>1. q \in {"scope", "workspaceRow"}
    BY <1>13, WorkspaceRouteQueries
  <2>2. Opens(r) <=> Reaches(r)
    BY <1>1, <1>13 DEF Meaning, ReachRoutes
  <2>3. ~Reaches(r)
    BY <1>4, <2>1, QueriesPass
  <2> QED BY <1>2, <2>2, <2>3, PresentRights DEF Refusable
<1>14. CASE r.route = "workspaceMembers"
  <2>1. q = "mustAdminScope"
    BY <1>14, WorkspaceRouteQueries
  <2>2. Opens(r) <=> Manages(r)
    BY <1>1, <1>14 DEF Meaning
  <2>3. ~Manages(r)
    BY <2>1, QueriesPass
  <2> QED BY <1>2, <2>2, <2>3, PresentRights DEF Refusable
<1>15. CASE r.route = "general"
  <2>1. /\ q \in {"getOrganisation", "listedRole", "catalogue",
                  "notedStatus", "notedReader", "notedRole"}
        /\ q = "notedRole" => r.next >= 3
    <3>1. Asks("general", r.next, q)
      BY <1>15
    <3> QED BY <3>1, GeneralQueries
  <2>2. Opens(r) <=> Member(r)
    BY <1>1, <1>15 DEF Meaning
  <2>3. CASE q = "notedRole"
    <3>1. r.admin /\ ~Runs(r) /\ r.next >= 3
      BY <2>1, <2>3, QueriesPass
    <3>2. Governed
      BY <1>2, <1>15, <3>1 DEF GeneralLearnt, Runs
    <3>3. Ungoverned
      BY <1>2, <3>1, PresentRights DEF Governs
    <3> QED BY <1>15, <3>2, <3>3 DEF Refusable, RoleRoutes
  <2>4. CASE q # "notedRole"
    <3>1. ~Member(r)
      BY <2>1, <2>4, QueriesPass DEF Member
    <3> QED BY <1>2, <2>2, <3>1, PresentRights DEF Refusable
  <2> QED BY <2>3, <2>4
<1> QED BY <1>3, <1>7, <1>8, <1>9, <1>10, <1>11, <1>12, <1>13, <1>14, <1>15 DEF WorkspaceLists

\* The last query passes.
LEMMA Shown ==
    ASSUME AccessInv, NEW r \in Request, Learnt(r), NEW q, Asks(r.route, r.next, q), Passes(q, r),
           Last(r.route, r.next)
    PROVE  Showable(r)
<1>1. Meaning(r) /\ Coherent(r)
  BY RoutesMean, CoherentRequests
<1>2. /\ Present(r) /\ Slept(r) /\ GovernLearnt(r) /\ ListLearnt(r) /\ WorkspaceLearnt(r)
      /\ GeneralLearnt(r) /\ LaunchLearnt(r)
  BY DEF Learnt
<1>3. r.route \in {"selector", "launcher", "product", "handoff", "assertion", "general", "members",
                   "workspaces", "products", "workspace", "organisationMembers",
                   "organisationWorkspaces", "workspaceRead", "workspaceMembers"}
  BY Routes DEF Request
<1>4. CASE r.route \in WorkspaceLists
  <2>1. /\ q = "workspaceRows" /\ r.next = ListedAt(r.route) + 1
        /\ r.next >= ListedAt(r.route)
    <3>1. r.route # "launcher"
      BY <1>4 DEF WorkspaceLists
    <3> QED BY <1>4, <3>1, ListQueries
  <2>2. Placed(r) /\ Running(r) /\ (r.admin \/ (Awake(r) /\ Joined(r)))
    BY <2>1, QueriesPass
  <2>3. Opens(r) <=> Reaches(r)
    BY <1>1, <1>4 DEF Meaning, ReachRoutes
  <2>4. CASE ~r.admin
    <3>1. r.user \notin SystemAdmin
      BY <1>2, <1>4, <2>1, <2>4 DEF ListLearnt
    <3>2. Opened
      BY <1>2, <1>4, <2>1, <2>2, <2>4, <3>1 DEF ListLearnt
    <3> QED BY <3>2 DEF Showable
  <2>5. CASE r.admin /\ Governs(r)
    <3>1. Reaches(r)
      BY <1>1, <2>2, <2>5 DEF Reaches, Governs, Member, Coherent
    <3> QED BY <1>2, <2>3, <3>1, PresentRights DEF Showable
  <2>6. CASE r.admin /\ ~Governs(r)
    <3>1. Ungoverned
      BY <1>2, <2>6, PresentRights
    <3>2. r.user \in SystemAdmin \/ Governed
      BY <1>2, <1>4, <2>1, <2>6 DEF ListLearnt
    <3>3. r.user \in SystemAdmin => Governed
      BY <1>2, <1>4, <2>2, <2>6 DEF Slept, Governs, Runs, RoleRoutes
    <3> QED BY <1>4, <3>1, <3>2, <3>3 DEF Showable
  <2> QED BY <2>4, <2>5, <2>6
<1>5. CASE r.route \in LaunchRoutes
  <2>1. CASE r.route \in {"launcher", "product"}
    <3>1. q = "launchable"
      BY <2>1, ListQueries, ProductQueries
    <3>2. Opens(r)
      BY <1>1, <1>5, <2>1, <3>1, QueriesPass DEF Meaning, Configured
    <3> QED BY <1>2, <3>2, PresentRights DEF Showable
  <2>2. CASE r.route = "handoff"
    <3>1. q = "issueForTarget" /\ r.next = 4
      BY <2>2, ProductQueries
    <3> QED BY <1>2, <2>2, <3>1, QueriesPass DEF LaunchLearnt, Showable
  <2>3. CASE r.route = "assertion"
    <3>1. q = "issue" /\ r.next = 2
      BY <2>3, ProductQueries
    <3> QED BY <1>2, <2>3, <3>1, QueriesPass DEF LaunchLearnt, Showable
  <2> QED BY <1>5, <2>1, <2>2, <2>3 DEF LaunchRoutes
<1>6. CASE r.route \in GovernRoutes
  <2>1. q = "adminRole"
    BY <1>6, AdministrationQueries DEF GovernRoutes
  <2>2. r.next >= 2
    <3>1. r.next \in Nat /\ r.next >= 1 /\ r.next # 1
      BY <1>6, <2>1, AdministrationQueries DEF GovernRoutes
    <3> QED BY <3>1
  <2>3. Runs(r)
    BY <2>1, QueriesPass
  <2>4. CASE r.user \in SystemAdmin
    BY <1>2, <1>6, <2>2, <2>4 DEF GovernLearnt, Showable
  <2>5. CASE r.user \notin SystemAdmin
    <3>1. Running(r)
      BY <1>1, <2>3, <2>5 DEF Coherent
    <3>2. Awake(r) => Opens(r)
      BY <1>1, <1>6, <2>3, <3>1 DEF Meaning, Governs
    <3>3. ~Awake(r) => Opened
      BY <1>2, <1>6, <2>3, <3>1 DEF Slept
    <3> QED BY <1>2, <3>2, <3>3, PresentRights DEF Showable
  <2> QED BY <2>4, <2>5
<1>7. CASE r.route = "workspace"
  <2>1. r.next = 6
    BY <1>7, WorkspaceRouteQueries
  <2> QED BY <1>2, <1>7, <2>1 DEF WorkspaceLearnt, Showable
<1>8. CASE r.route = "workspaceRead"
  <2>1. r.next = 3 /\ q = "workspaceRow"
    BY <1>8, WorkspaceRouteQueries
  <2>2. workspaces[r.w].organisation = r.o
    BY <2>1, QueriesPass DEF Placed
  <2> QED BY <1>2, <1>8, <2>1, <2>2 DEF WorkspaceLearnt, Showable
<1>9. CASE r.route = "workspaceMembers"
  <2>1. q = "mustAdminScope"
    BY <1>9, WorkspaceRouteQueries
  <2>2. Opens(r)
    BY <1>1, <1>9, <2>1, QueriesPass DEF Meaning
  <2> QED BY <1>2, <2>2, PresentRights DEF Showable
<1>10. CASE r.route = "general"
  <2>1. Asks("general", r.next, q) /\ Last("general", r.next)
    BY <1>10
  <2>2. r.next = 6
    BY <2>1, GeneralQueries
  <2> QED BY <1>2, <1>10, <2>2 DEF GeneralLearnt, Showable
<1> QED BY <1>3, <1>4, <1>5, <1>6, <1>7, <1>8, <1>9, <1>10
        DEF WorkspaceLists, LaunchRoutes, GovernRoutes

\* Two requests that ask for the same have the same rights.
LEMMA AskAlike ==
    ASSUME AccessInv, NEW r \in Request, NEW n \in Request,
           n.route = r.route, n.user = r.user, n.o = r.o, n.w = r.w, n.p = r.p,
           n.a = r.a
    PROVE  /\ Awake(n) <=> Awake(r)
           /\ Running(n) <=> Running(r)
           /\ Inside(n) <=> Inside(r)
           /\ Runs(n) <=> Runs(r)
           /\ Placed(n) <=> Placed(r)
           /\ Joined(n) <=> Joined(r)
           /\ Present(n) <=> Present(r)
<1>1. /\ Awake(n) <=> Awake(r)
      /\ Running(n) <=> Running(r)
      /\ Inside(n) <=> Inside(r)
      /\ Runs(n) <=> Runs(r)
      /\ Placed(n) <=> Placed(r)
      /\ Joined(n) <=> Joined(r)
      /\ Launches(n) <=> Launches(r)
      /\ Manages(n) <=> Manages(r)
      /\ Configured(n) <=> Configured(r)
  BY DEF Awake, Running, Inside, Runs, Placed, Joined, Launches, Manages, Configured
<1>2. /\ Governs(n) <=> Governs(r)
      /\ Member(n) <=> Member(r)
      /\ Reaches(n) <=> Reaches(r)
  BY <1>1 DEF Governs, Reaches, Member
<1>3. r.route \in ReachRoutes \cup LaunchRoutes \cup GovernRoutes \cup {"general", "workspaceMembers"}
  <2>1. r.route \in Route
    BY DEF Request
  <2> QED BY <2>1, Routes DEF WorkspaceLists, ReachRoutes, LaunchRoutes, GovernRoutes
<1>4. Opens(n) <=> Opens(r)
  <2>1. Meaning(n) /\ Meaning(r)
    BY RoutesMean
  <2> QED BY <1>1, <1>2, <1>3, <2>1 DEF Meaning
<1>5. Present(n) <=> Present(r)
  BY <1>1, <1>2, <1>4, Zenon DEF Present
<1> QED BY <1>1, <1>5

\* A query passes and another follows: what is known then.
LEMMA GoesOn ==
    ASSUME AccessInv, NEW r \in Request, Learnt(r), NEW q, Asks(r.route, r.next, q), Passes(q, r),
           NEW n \in Request,
           n.route = r.route, n.user = r.user, n.o = r.o, n.w = r.w, n.p = r.p,
           n.a = r.a, n.next = r.next + 1, n.admin <=> Noted(q, r)
    PROVE  Learnt(n)
<1>1. Meaning(r) /\ Coherent(r)
  BY RoutesMean, CoherentRequests
<1>2. /\ Present(r) /\ Slept(r) /\ GovernLearnt(r) /\ ListLearnt(r) /\ WorkspaceLearnt(r)
      /\ GeneralLearnt(r) /\ LaunchLearnt(r)
  BY DEF Learnt
<1>3. r.next \in Nat
  BY DEF Request
<1>4. /\ Awake(n) <=> Awake(r)
      /\ Running(n) <=> Running(r)
      /\ Inside(n) <=> Inside(r)
      /\ Runs(n) <=> Runs(r)
      /\ Placed(n) <=> Placed(r)
      /\ Joined(n) <=> Joined(r)
      /\ Present(n) <=> Present(r)
  BY AskAlike
<1>5. Slept(n)
  BY <1>2, <1>4 DEF Slept
<1>6. GovernLearnt(n)
  <2> SUFFICES ASSUME r.route \in GovernRoutes
               PROVE  /\ n.next >= 2 /\ n.user \in SystemAdmin => Opened
                      /\ n.route # "organisationMembers"
                         => /\ n.next = 3 /\ ~n.admin /\ n.user \notin SystemAdmin => Closed
                            /\ n.next = 4 /\ ~n.admin => Closed
    BY DEF GovernLearnt
  <2>1. Opens(r) <=> Governs(r)
    BY <1>1 DEF Meaning
  <2>2. ASSUME r.user \in SystemAdmin
        PROVE  Opened
    <3>1. Runs(r)
      BY <2>2 DEF Runs
    <3>2. CASE r.next >= 2
      BY <1>2, <2>2, <3>2 DEF GovernLearnt
    <3>3. CASE r.next < 2
      <4>1. r.next = 1
        BY <1>3, <3>3, AdministrationQueries DEF GovernRoutes
      <4>2. q \in {"getOrganisation", "status"}
        BY <4>1, AdministrationQueries DEF GovernRoutes
      <4>3. Running(r)
        BY <4>2, QueriesPass DEF Member
      <4>4. Awake(r) => Opened
        BY <1>2, <2>1, <3>1, <4>3, PresentRights DEF Governs
      <4>5. ~Awake(r) => Opened
        BY <1>2, <3>1, <4>3 DEF Slept
      <4> QED BY <4>4, <4>5
    <3> QED BY <1>3, <3>2, <3>3
  <2>3. ASSUME r.route # "organisationMembers", n.next = 3, ~n.admin, r.user \notin SystemAdmin
        PROVE  Closed
    <3>1. r.next = 2
      BY <1>3, <2>3
    <3>2. q = "listedRole"
      BY <2>3, <3>1, AdministrationQueries DEF GovernRoutes
    <3>3. ~Runs(r)
      BY <2>3, <3>2, QueriesNote
    <3> QED BY <1>2, <2>1, <3>3, PresentRights DEF Governs
  <2>4. ASSUME r.route # "organisationMembers", n.next = 4, ~n.admin
        PROVE  Closed
    <3>1. r.next = 3
      BY <1>3, <2>4
    <3>2. q = "catalogue"
      BY <2>4, <3>1, AdministrationQueries DEF GovernRoutes
    <3>3. ~r.admin /\ (~Awake(r) \/ r.user \notin SystemAdmin)
      BY <2>4, <3>2, QueriesNote
    <3>4. ~Awake(r) => Closed
      BY <1>2, <2>1, PresentRights DEF Governs
    <3>5. r.user \notin SystemAdmin => Closed
      BY <1>2, <2>4, <3>1, <3>3 DEF GovernLearnt
    <3> QED BY <3>3, <3>4, <3>5
  <2> QED BY <2>2, <2>3, <2>4
<1>7. ListLearnt(n)
  <2> DEFINE at == ListedAt(r.route)
  <2>0. at \in Nat
    BY DEF ListedAt
  <2>1. ASSUME r.route \in WorkspaceLists, n.next >= at, r.user \notin SystemAdmin,
               Placed(r), Running(r), Joined(r)
        PROVE  Opened
    <3>1. Opens(r) <=> Reaches(r)
      BY <1>1, <2>1 DEF Meaning, ReachRoutes
    <3>2. CASE r.next >= at
      BY <1>2, <2>1, <3>2 DEF ListLearnt
    <3>3. CASE r.next < at
      <4>1. r.next + 1 = at
        BY <1>3, <2>0, <2>1, <3>3
      <4>2. Inside(r)
        BY <2>1, <4>1, ListQueries, QueriesPass
      <4>3. Awake(r) => Reaches(r)
        BY <2>1, <4>2 DEF Reaches, Member
      <4>4. ~Awake(r) => Opened
        BY <1>2, <2>1, <4>2 DEF Slept
      <4> QED BY <1>2, <3>1, <4>3, <4>4, PresentRights
    <3> QED BY <1>3, <2>0, <3>2, <3>3
  <2>2. ASSUME r.route \in WorkspaceLists \cup {"launcher"}, n.next = at + 1
        PROVE  /\ n.admin => r.user \in SystemAdmin \/ Governed
               /\ ~n.admin => r.user \notin SystemAdmin /\ Ungoverned
    <3>1. r.next = at
      BY <1>3, <2>0, <2>2
    <3>2. q = "listingRole"
      BY <2>2, <3>1, ListQueries
    <3>3. n.admin <=> Runs(r)
      BY <3>2, QueriesNote
    <3>4. Runs(r) => r.user \in SystemAdmin \/ Running(r)
      BY <1>1 DEF Coherent
    <3>5. Runs(r) /\ Running(r) /\ Awake(r) => Governed
      BY <1>2, <2>2, PresentRights DEF Governs, RoleRoutes
    <3>6. Runs(r) /\ Running(r) /\ ~Awake(r) => Governed
      BY <1>2, <2>2 DEF Slept, RoleRoutes
    <3>7. ~Runs(r) => r.user \notin SystemAdmin /\ Ungoverned
      BY <1>2, PresentRights DEF Runs, Governs
    <3> QED BY <3>3, <3>4, <3>5, <3>6, <3>7
  <2> QED BY <1>4, <2>1, <2>2 DEF ListLearnt
<1>8. WorkspaceLearnt(n)
  <2>1. ASSUME r.route = "workspace", n.next >= 3
        PROVE  workspaces[r.w].status # "absent" /\ workspaces[r.w].organisation = r.o
    <3>1. CASE r.next >= 3
      BY <1>2, <2>1, <3>1 DEF WorkspaceLearnt
    <3>2. CASE r.next < 3
      <4>1. r.next = 2
        BY <1>3, <2>1, <3>2
      <4>2. Placed(r)
        BY <2>1, <4>1, WorkspaceRouteQueries, QueriesPass
      <4> QED BY <4>2 DEF Placed
    <3> QED BY <1>3, <3>1, <3>2
  <2>2. ASSUME r.route = "workspace", n.next >= 5
        PROVE  Opened /\ (n.admin => Managed)
    <3>1. CASE r.next >= 5
      <4>1. q = "notedScope"
        BY <2>2, <3>1, WorkspaceRouteQueries
      <4>2. n.admin <=> r.admin
        BY <4>1, QueriesNote
      <4> QED BY <1>2, <2>2, <3>1, <4>2 DEF WorkspaceLearnt
    <3>2. CASE r.next < 5
      <4>1. r.next = 4
        BY <1>3, <2>2, <3>2
      <4>2. q = "adminScope"
        BY <2>2, <4>1, WorkspaceRouteQueries
      <4>3. Scoped(r) /\ workspaces[r.w].organisation = r.o
        BY <1>2, <2>2, <4>1, <4>2, QueriesPass DEF WorkspaceLearnt
      <4>4. Opens(r)
        BY <1>1, <2>2, <4>3 DEF Meaning, ReachRoutes, Coherent
      <4>5. n.admin <=> Manages(r)
        BY <4>2, <4>3, QueriesNote
      <4> QED BY <1>2, <2>2, <4>4, <4>5, PresentRights
    <3> QED BY <1>3, <3>1, <3>2
  <2>3. ASSUME r.route = "workspaceRead", n.next >= 2
        PROVE  /\ workspaces[r.w].status # "absent"
               /\ workspaces[r.w].organisation = r.o => Opened
    <3>1. CASE r.next >= 2
      BY <1>2, <2>3, <3>1 DEF WorkspaceLearnt
    <3>2. CASE r.next < 2
      <4>1. q = "scope"
        BY <2>3, <3>2, WorkspaceRouteQueries
      <4>2. Scoped(r)
        BY <4>1, QueriesPass
      <4>3. workspaces[r.w].status = "active"
        BY <1>1, <4>2 DEF Coherent
      <4>4. workspaces[r.w].organisation = r.o => Opens(r)
        BY <1>1, <2>3, <4>2 DEF Meaning, ReachRoutes, Coherent
      <4> QED BY <1>2, <4>3, <4>4, PresentRights
    <3> QED BY <1>3, <3>1, <3>2
  <2> QED BY <2>1, <2>2, <2>3 DEF WorkspaceLearnt
<1>9. GeneralLearnt(n)
  <2> SUFFICES ASSUME r.route = "general"
               PROVE  /\ Opened
                      /\ n.next >= 3 /\ n.admin => r.user \in SystemAdmin \/ Governed
    BY DEF GeneralLearnt
  <2>1. Asks("general", r.next, q)
    OBVIOUS
  <2>2. /\ r.next = 1 => q = "getOrganisation"
        /\ r.next = 2 => q = "listedRole"
        /\ r.next = 3 => q = "catalogue"
        /\ r.next >= 4 => q \in {"notedStatus", "notedReader", "notedRole"}
        /\ r.next \in Nat /\ r.next >= 1
    BY <2>1, GeneralQueries
  <2>3. CASE r.next = 1
    <3>1. Opens(r)
      BY <1>1, <2>2, <2>3, QueriesPass DEF Meaning
    <3> QED BY <1>2, <2>3, <3>1, PresentRights
  <2>4. CASE r.next = 2
    <3>1. Member(r)
      BY <2>2, <2>4, QueriesPass
    <3>2. r.user \notin SystemAdmin /\ n.admin => Governs(r)
      BY <2>2, <2>4, <3>1, QueriesNote DEF Member, Governs
    <3>3. Opened
      BY <1>2, <2>4 DEF GeneralLearnt
    <3> QED BY <1>2, <3>2, <3>3, PresentRights DEF RoleRoutes
  <2>5. CASE r.next >= 3
    <3>1. n.admin => r.admin \/ r.user \in SystemAdmin
      BY <2>2, <2>5, QueriesNote
    <3> QED BY <1>2, <1>3, <2>5, <3>1 DEF GeneralLearnt
  <2> QED BY <2>2, <2>3, <2>4, <2>5
<1>10. LaunchLearnt(n)
  <2>1. ASSUME r.route = "handoff"
        PROVE  /\ r.p \in LaunchTarget
               /\ n.next >= 4 /\ Issues(r.p) => Opened
    <3>1. /\ r.next \in 1..4
          /\ r.next = 1 => q = "target"
          /\ r.next = 3 => q = "launchable"
      BY <2>1, ProductQueries
    <3>2. r.p \in LaunchTarget
      BY <1>2, <2>1, <3>1, QueriesPass DEF LaunchLearnt
    <3>3. r.next = 3 /\ Issues(r.p) => Opens(r)
      BY <1>1, <2>1, <3>1, <3>2, QueriesPass DEF Meaning, LaunchRoutes, Configured
    <3>4. r.next = 4 /\ Issues(r.p) => Opened
      BY <1>2, <2>1 DEF LaunchLearnt
    <3> QED BY <1>2, <3>1, <3>2, <3>3, <3>4, PresentRights
  <2>2. ASSUME r.route = "assertion", Issues(r.a)
        PROVE  Opened
    <3>1. r.next \in 1..2 /\ (r.next = 1 => q = "access")
      BY <2>2, ProductQueries
    <3>2. r.next = 1 => Opens(r)
      BY <1>1, <2>2, <3>1, QueriesPass DEF Meaning, LaunchRoutes, Configured
    <3>3. r.next = 2 => Opened
      BY <1>2, <2>2 DEF LaunchLearnt
    <3> QED BY <1>2, <3>1, <3>2, <3>3, PresentRights
  <2> QED BY <2>1, <2>2 DEF LaunchLearnt
<1> QED BY <1>2, <1>4, <1>5, <1>6, <1>7, <1>8, <1>9, <1>10 DEF Learnt

(***************************************************************************)
(* What a mutation may do to the facts about a request.                    *)
(***************************************************************************)
\* The rows of this user in this scope that are current afterwards were so before.
Retained(table, after, scope, user) ==
    \A i \in Current(after, scope, user) :
        i \in Current(table, scope, user) /\ after[i].role = table[i].role

LEMMA RetireRetains ==
    ASSUME NEW S, NEW U, NEW R, NEW table \in Seq(RowOf(S, U, R)), NEW ids, NEW scope, NEW user
    PROVE  Retained(table, Retire(table, ids), scope, user)
<1> DEFINE after == Retire(table, ids)
<1>1. /\ after \in Seq(RowOf(S, U, R)) /\ Len(after) = Len(table)
      /\ \A i \in 1..Len(table) : /\ after[i].scope = table[i].scope
                                  /\ after[i].user = table[i].user
                                  /\ after[i].role = table[i].role
                                  /\ after[i].active => table[i].active
  BY RetireFacts
<1> HIDE DEF after
<1>2. Retained(table, after, scope, user)
  BY <1>1 DEF Retained, Current
<1> QED BY <1>2 DEF after

LEMMA InsertRetains ==
    ASSUME NEW S, NEW U, NEW R, NEW table \in Seq(RowOf(S, U, R)), NEW row \in RowOf(S, U, R),
           NEW scope, NEW user, ~(row.scope = scope /\ row.user = user)
    PROVE  Retained(table, Insert(table, row), scope, user)
<1> DEFINE after == Insert(table, row)
           n == Len(table)
<1>1. /\ n \in Nat /\ Len(after) = n + 1 /\ after[n + 1] = row
      /\ \A i \in 1..n : after[i] = table[i]
  BY DEF Insert
<1> HIDE DEF after
<1>2. ASSUME NEW i \in Current(after, scope, user)
      PROVE  i \in Current(table, scope, user) /\ after[i].role = table[i].role
  <2>1. i \in 1..(n + 1) /\ after[i].scope = scope /\ after[i].user = user /\ after[i].active
    BY <1>1, <1>2 DEF Current
  <2>2. i # n + 1
    BY <1>1, <2>1
  <2>3. i \in 1..n
    BY <1>1, <2>1, <2>2
  <2> QED BY <1>1, <2>1, <2>3 DEF Current
<1>3. Retained(table, after, scope, user)
  BY <1>2 DEF Retained
<1> QED BY <1>3 DEF after

\* A change of role is a Retire and an Insert.
LEMMA ChangeRetains ==
    ASSUME NEW S, NEW U, NEW R, NEW table \in Seq(RowOf(S, U, R)), NEW row \in RowOf(S, U, R),
           NEW ids, NEW scope, NEW user, ~(row.scope = scope /\ row.user = user)
    PROVE  Retained(table, Insert(Retire(table, ids), row), scope, user)
<1> DEFINE cut == Retire(table, ids)
<1>1. cut \in Seq(RowOf(S, U, R))
  BY RetireFacts
<1>2. Retained(table, cut, scope, user)
  BY RetireRetains
<1> HIDE DEF cut
<1>3. Retained(cut, Insert(cut, row), scope, user)
  BY <1>1, InsertRetains
<1>4. Retained(table, Insert(cut, row), scope, user)
  BY <1>2, <1>3 DEF Retained
<1> QED BY <1>4 DEF cut

LEMMA SameRetains ==
    ASSUME NEW table, NEW scope, NEW user
    PROVE  Retained(table, table, scope, user)
BY DEF Retained

\* Whoever keeps a row keeps its role.
LEMMA RoleRetained ==
    ASSUME NEW S, NEW U, NEW R, NoRole \notin R,
           NEW table \in Seq(RowOf(S, U, R)), AtMostOneCurrent(table),
           NEW after \in Seq(RowOf(S, U, R)), AtMostOneCurrent(after),
           NEW scope, NEW user, Retained(table, after, scope, user),
           RoleIn(after, scope, user) # NoRole
    PROVE  RoleIn(after, scope, user) = RoleIn(table, scope, user)
<1>1. Current(after, scope, user) # {}
  BY RoleInFacts
<1>2. PICK i \in Current(after, scope, user) : TRUE
  BY <1>1
<1>3. RoleIn(after, scope, user) = after[i].role
  BY RoleInFacts
<1>4. i \in Current(table, scope, user) /\ after[i].role = table[i].role
  BY DEF Retained
<1>5. RoleIn(table, scope, user) = table[i].role
  BY <1>4, RoleInFacts
<1> QED BY <1>3, <1>4, <1>5

\* What a mutation may do: an Organisation never starts again; an inactive user
\* keeps his role or loses it; who is switched off loses nothing else; who joins a
\* Workspace is an active member of its Organisation, which does not change; and a
\* Workspace stays where it is.
Gentle(r) ==
    /\ Running(r)' => Running(r)
    /\ ~Awake(r) /\ OrgRoleOf(r.o, r.user)' # NoRole
       => OrgRoleOf(r.o, r.user)' = OrgRoleOf(r.o, r.user)
    /\ Awake(r) /\ ~Awake(r)' => UNCHANGED <<organisations, memberships, workspaces, wsMemberships>>
    /\ Joined(r)' /\ ~Joined(r) /\ workspaces'[r.w].organisation = r.o
       => Awake(r) /\ Inside(r) /\ UNCHANGED orgVars
    /\ workspaces[r.w].status # "absent"
       => /\ workspaces'[r.w].status # "absent"
          /\ workspaces'[r.w].organisation = workspaces[r.w].organisation

LEMMA Unmoved ==
    ASSUME NEW r, UNCHANGED allWsVars
    PROVE  Gentle(r)
<1>1. UNCHANGED <<users, organisations, memberships, workspaces, wsMemberships>>
  BY DEF allWsVars, orgVars, wsVars
<1>2. Running(r)' <=> Running(r)
  BY <1>1 DEF Running
<1>3. OrgRoleOf(r.o, r.user)' = OrgRoleOf(r.o, r.user)
  BY <1>1 DEF OrgRoleOf
<1>4. Joined(r)' <=> Joined(r)
  BY <1>1 DEF Joined
<1> QED BY <1>1, <1>2, <1>3, <1>4 DEF Gentle

LEMMA SwitchIsGentle ==
    ASSUME NEW r \in Request, UserSwitch
    PROVE  Gentle(r)
<1>1. UNCHANGED <<organisations, memberships, workspaces, wsMemberships>>
  BY DEF UserSwitch, SetUserActive, wsVars
<1>2. Running(r)' <=> Running(r)
  BY <1>1 DEF Running
<1>3. OrgRoleOf(r.o, r.user)' = OrgRoleOf(r.o, r.user)
  BY <1>1 DEF OrgRoleOf
<1>4. Joined(r)' <=> Joined(r)
  BY <1>1 DEF Joined
<1> QED BY <1>1, <1>2, <1>3, <1>4 DEF Gentle

\* The forms of an Organisation.
LEMMA OrganisationFormIsGentle ==
    ASSUME AccessInv, AccessInv', NEW r \in Request, NEW a \in User, NEW o \in Organisation,
           OrganisationForm(a, o)
    PROVE  Gentle(r)
<1>0. r.o \in Organisation /\ r.w \in Workspace /\ r.user \in User
  BY DEF Request
<1>1. /\ memberships \in Seq(RowOf(Organisation, User, OrgRole)) /\ AtMostOneCurrent(memberships)
      /\ organisations \in OrgFacts
  BY DEF AccessInv, WsInv, OrgInv, OrgTypeOK, OneOwner, OrgRow
<1>2. /\ memberships' \in Seq(RowOf(Organisation, User, OrgRole)) /\ AtMostOneCurrent(memberships')
  BY DEF AccessInv, WsInv, OrgInv, OrgTypeOK, OneOwner, OrgRow
<1>3. UNCHANGED <<workspaces, wsMemberships>>
  BY DEF OrganisationForm, wsVars
<1> DEFINE Tame == /\ UNCHANGED users
                   /\ Running(r)' => Running(r)
                   /\ ~Awake(r) => Retained(memberships, memberships', r.o, r.user)
<1>4. ASSUME NEW name \in Name, RenameOrganisation(a, o, name) PROVE Tame
  <2>1. /\ UNCHANGED <<users, memberships>>
        /\ organisations' = [organisations EXCEPT ![o].name = name]
    BY <1>4 DEF RenameOrganisation
  <2>2. organisations'[r.o].status = organisations[r.o].status
    BY <1>0, <1>1, <2>1 DEF OrgFacts
  <2>3. Retained(memberships, memberships', r.o, r.user)
    BY <2>1, SameRetains
  <2> QED BY <2>1, <2>2, <2>3 DEF Running
<1>5. ASSUME ArchiveOrganisation(a, o) PROVE Tame
  <2>1. /\ UNCHANGED users
        /\ memberships' = Retire(memberships, ActiveIn(memberships, o))
        /\ organisations' = [organisations EXCEPT ![o].status = "archived"]
    BY <1>5 DEF ArchiveOrganisation
  <2>2. organisations'[r.o].status \in {organisations[r.o].status, "archived"}
    BY <1>0, <1>1, <2>1 DEF OrgFacts
  <2>3. Retained(memberships, memberships', r.o, r.user)
    BY <1>1, <2>1, RetireRetains
  <2> QED BY <2>1, <2>2, <2>3 DEF Running
<1>6. ASSUME NEW u \in User, NEW role \in OrgRole, AddOrganisationMember(a, o, u, role) PROVE Tame
  <2> DEFINE row == NewRow(o, u, role, 1, a)
  <2>1. /\ UNCHANGED <<users, organisations>> /\ ActiveUser(u)
        /\ memberships' = Insert(memberships, row)
    BY <1>6 DEF AddOrganisationMember
  <2>2. row \in RowOf(Organisation, User, OrgRole) /\ row.user = u
    BY NewRowFacts
  <2> HIDE DEF row
  <2>3. ~Awake(r) => r.user # u
    BY <2>1 DEF Awake
  <2>4. ~Awake(r) => Retained(memberships, memberships', r.o, r.user)
    BY <1>1, <2>1, <2>2, <2>3, InsertRetains
  <2> QED BY <2>1, <2>4 DEF Running
<1>7. ASSUME NEW u \in User, NEW role \in OrgRole, ChangeOrganisationMemberRole(a, o, u, role)
      PROVE  Tame
  <2>1. PICK k \in Current(memberships, o, u) :
           memberships' = Insert(Retire(memberships, {k}),
                                 NewRow(o, u, role, memberships[k].version + 1, a))
    BY <1>7 DEF ChangeOrganisationMemberRole
  <2>2. UNCHANGED <<users, organisations>> /\ ActiveUser(u)
    BY <1>7 DEF ChangeOrganisationMemberRole
  <2> DEFINE row == NewRow(o, u, role, memberships[k].version + 1, a)
  <2>3. memberships[k].version + 1 \in Nat \ {0}
    <3>1. memberships[k] \in RowOf(Organisation, User, OrgRole)
      BY <1>1 DEF Current
    <3>2. memberships[k].version \in Nat
      BY <3>1 DEF RowOf
    <3> QED BY <3>2
  <2>4. row \in RowOf(Organisation, User, OrgRole) /\ row.user = u
    BY <2>3, NewRowFacts
  <2>5. memberships' = Insert(Retire(memberships, {k}), row)
    BY <2>1
  <2> HIDE DEF row
  <2>6. ~Awake(r) => r.user # u
    BY <2>2 DEF Awake
  <2>7. ~Awake(r) => Retained(memberships, memberships', r.o, r.user)
    BY <1>1, <2>4, <2>5, <2>6, ChangeRetains
  <2> QED BY <2>2, <2>7 DEF Running
<1>8. ASSUME NEW u \in User, DeactivateOrganisationMember(a, o, u) PROVE Tame
  <2>1. PICK k \in Current(memberships, o, u) : memberships' = Retire(memberships, {k})
    BY <1>8 DEF DeactivateOrganisationMember
  <2>2. UNCHANGED <<users, organisations>>
    BY <1>8 DEF DeactivateOrganisationMember
  <2>3. Retained(memberships, memberships', r.o, r.user)
    BY <1>1, <2>1, RetireRetains
  <2> QED BY <2>2, <2>3 DEF Running
<1> HIDE DEF Tame
<1>9. Tame
  BY <1>4, <1>5, <1>6, <1>7, <1>8 DEF OrganisationForm
<1>10. /\ UNCHANGED users
       /\ Running(r)' => Running(r)
       /\ ~Awake(r) => Retained(memberships, memberships', r.o, r.user)
  BY <1>9 DEF Tame
<1>11. NoRole \notin OrgRole
  BY DEF NoRole, OrgRole
<1>12. ASSUME ~Awake(r), RoleIn(memberships', r.o, r.user) # NoRole
       PROVE  RoleIn(memberships', r.o, r.user) = RoleIn(memberships, r.o, r.user)
  BY <1>1, <1>2, <1>10, <1>11, <1>12, RoleRetained
<1>13. ~Awake(r) /\ OrgRoleOf(r.o, r.user)' # NoRole
       => OrgRoleOf(r.o, r.user)' = OrgRoleOf(r.o, r.user)
  BY <1>12 DEF OrgRoleOf
<1>14. Awake(r)' <=> Awake(r)
  BY <1>10 DEF Awake, ActiveUser
<1>15. Joined(r)' <=> Joined(r)
  BY <1>3 DEF Joined
<1> QED BY <1>3, <1>10, <1>13, <1>14, <1>15 DEF Gentle

\* The forms of a Workspace.
LEMMA WorkspaceFormIsGentle ==
    ASSUME AccessInv, AccessInv', NEW r \in Request, NEW a \in User, NEW w \in Workspace,
           WorkspaceForm(a, w)
    PROVE  Gentle(r)
<1>0. r.o \in Organisation /\ r.w \in Workspace /\ r.user \in User
  BY DEF Request
<1>1. /\ wsMemberships \in Seq(RowOf(Workspace, User, WsRole))
      /\ workspaces \in WsFacts
  BY DEF AccessInv, WsInv, WsTypeOK, WsRow
<1> DEFINE Tame == /\ UNCHANGED orgVars
                   /\ \/ Retained(wsMemberships, wsMemberships', r.w, r.user)
                      \/ Joined(r)
                      \/ workspaces'[r.w].organisation = r.o => Awake(r) /\ Inside(r)
                   /\ workspaces[r.w].status # "absent"
                      => /\ workspaces'[r.w].status # "absent"
                         /\ workspaces'[r.w].organisation = workspaces[r.w].organisation
<1>2. ASSUME NEW o \in Organisation, CreateWorkspace(a, o, w) PROVE Tame
  <2> DEFINE row == NewRow(w, a, "admin", 1, a)
             facts == [status |-> "active", organisation |-> o]
  <2>1. /\ workspaces[w].status = "absent" /\ AuthorisedOrganisationMutation(a, o)
        /\ workspaces' = [workspaces EXCEPT ![w] = facts]
        /\ wsMemberships' = Insert(wsMemberships, row)
        /\ UNCHANGED orgVars
    BY <1>2 DEF CreateWorkspace
  <2>2. row \in RowOf(Workspace, User, WsRole) /\ row.user = a /\ row.scope = w
    BY NewWsRowFacts DEF WsRole
  <2>3. facts.organisation = o
    OBVIOUS
  <2> HIDE DEF row, facts
  <2>4. /\ r.w # w => workspaces'[r.w] = workspaces[r.w]
        /\ r.w = w => workspaces'[r.w] = facts
    BY <1>0, <1>1, <2>1 DEF WsFacts
  <2>5. CASE r.w = w /\ r.user = a
    <3>1. Awake(r)
      BY <2>1, <2>5 DEF Awake, AuthorisedOrganisationMutation
    <3>2. o = r.o => Runs(r)
      BY <2>1, <2>5 DEF Runs, AuthorisedOrganisationMutation
    <3>3. Runs(r) => Inside(r)
      BY CoherentRequests DEF Coherent
    <3> QED BY <2>1, <2>3, <2>4, <2>5, <3>1, <3>2, <3>3
  <2>6. CASE ~(r.w = w /\ r.user = a)
    <3>1. Retained(wsMemberships, wsMemberships', r.w, r.user)
      BY <1>1, <2>1, <2>2, <2>6, InsertRetains
    <3> QED BY <2>1, <2>4, <3>1
  <2> QED BY <2>5, <2>6
<1>3. ASSUME NEW u \in User, NEW role \in WsRole, AddWorkspaceMember(a, w, u, role) PROVE Tame
  <2> DEFINE row == NewRow(w, u, role, 1, a)
  <2>1. /\ ActiveWorkspaceTarget(w, u)
        /\ wsMemberships' = Insert(wsMemberships, row)
        /\ UNCHANGED <<orgVars, workspaces>>
    BY <1>3 DEF AddWorkspaceMember
  <2>2. row \in RowOf(Workspace, User, WsRole) /\ row.user = u /\ row.scope = w
    <3>1. 1 \in Nat \ {0}
      OBVIOUS
    <3> HIDE DEF Tame
    <3> QED BY <3>1 DEF NewRow, RowOf
  <2> HIDE DEF row
  <2>3. CASE r.w = w /\ r.user = u
    <3>1. Awake(r) /\ Current(memberships, workspaces[r.w].organisation, r.user) # {}
      BY <2>1, <2>3 DEF Awake, ActiveWorkspaceTarget
    <3>2. OrgRoleOf(r.o, r.user) # NoRole <=> Current(memberships, r.o, r.user) # {}
      BY RolesOf
    <3>3. workspaces[r.w].organisation = r.o => Inside(r)
      BY <3>1, <3>2 DEF Inside
    <3> QED BY <2>1, <3>1, <3>3
  <2>4. CASE ~(r.w = w /\ r.user = u)
    <3>1. Retained(wsMemberships, wsMemberships', r.w, r.user)
      BY <1>1, <2>1, <2>2, <2>4, InsertRetains
    <3> QED BY <2>1, <3>1
  <2> QED BY <2>3, <2>4
<1>4. ASSUME NEW u \in User, NEW role \in WsRole, ChangeWorkspaceMemberRole(a, w, u, role) PROVE Tame
  <2>1. PICK k \in Current(wsMemberships, w, u) :
           wsMemberships' = Insert(Retire(wsMemberships, {k}),
                                   NewRow(w, u, role, wsMemberships[k].version + 1, a))
    BY <1>4 DEF ChangeWorkspaceMemberRole
  <2>2. UNCHANGED <<orgVars, workspaces>>
    BY <1>4 DEF ChangeWorkspaceMemberRole
  <2> DEFINE row == NewRow(w, u, role, wsMemberships[k].version + 1, a)
  <2>3. wsMemberships[k].version + 1 \in Nat \ {0}
    <3>1. wsMemberships[k] \in RowOf(Workspace, User, WsRole)
      BY <1>1 DEF Current
    <3>2. wsMemberships[k].version \in Nat
      BY <3>1 DEF RowOf
    <3> QED BY <3>2
  <2>4. row \in RowOf(Workspace, User, WsRole) /\ row.user = u /\ row.scope = w
    BY <2>3, NewWsRowFacts
  <2>5. wsMemberships' = Insert(Retire(wsMemberships, {k}), row)
    BY <2>1
  <2> HIDE DEF row
  <2>6. CASE r.w = w /\ r.user = u
    <3>1. Joined(r)
      BY <2>1, <2>6 DEF Joined
    <3> QED BY <2>2, <3>1
  <2>7. CASE ~(r.w = w /\ r.user = u)
    <3>1. Retained(wsMemberships, wsMemberships', r.w, r.user)
      BY <1>1, <2>4, <2>5, <2>7, ChangeRetains
    <3> QED BY <2>2, <3>1
  <2> QED BY <2>6, <2>7
<1>5. ASSUME NEW u \in User, DeactivateWorkspaceMember(a, w, u) PROVE Tame
  <2>1. PICK k \in Current(wsMemberships, w, u) : wsMemberships' = Retire(wsMemberships, {k})
    BY <1>5 DEF DeactivateWorkspaceMember
  <2>2. UNCHANGED <<orgVars, workspaces>>
    BY <1>5 DEF DeactivateWorkspaceMember
  <2>3. Retained(wsMemberships, wsMemberships', r.w, r.user)
    BY <1>1, <2>1, RetireRetains
  <2> QED BY <2>2, <2>3
<1>6. ASSUME ArchiveWorkspace(a, w) PROVE Tame
  <2>1. /\ UNCHANGED orgVars
        /\ workspaces' = [workspaces EXCEPT ![w].status = "archived"]
        /\ wsMemberships' = Retire(wsMemberships, ActiveIn(wsMemberships, w))
    BY <1>6 DEF ArchiveWorkspace
  <2>2. /\ workspaces'[r.w].status \in {workspaces[r.w].status, "archived"}
        /\ workspaces'[r.w].organisation = workspaces[r.w].organisation
    BY <1>0, <1>1, <2>1 DEF WsFacts
  <2>3. Retained(wsMemberships, wsMemberships', r.w, r.user)
    BY <1>1, <2>1, RetireRetains
  <2> QED BY <2>1, <2>2, <2>3
<1> HIDE DEF Tame
<1>7. Tame
  BY <1>2, <1>3, <1>4, <1>5, <1>6 DEF WorkspaceForm
<1>8. /\ UNCHANGED orgVars
      /\ \/ Retained(wsMemberships, wsMemberships', r.w, r.user)
         \/ Joined(r)
         \/ workspaces'[r.w].organisation = r.o => Awake(r) /\ Inside(r)
      /\ workspaces[r.w].status # "absent"
         => /\ workspaces'[r.w].status # "absent"
            /\ workspaces'[r.w].organisation = workspaces[r.w].organisation
  BY <1>7 DEF Tame
<1>9. Retained(wsMemberships, wsMemberships', r.w, r.user) /\ Joined(r)' => Joined(r)
  BY DEF Retained, Joined
<1>10. UNCHANGED <<users, organisations, memberships>>
  BY <1>8 DEF orgVars
<1>11. (Running(r)' <=> Running(r)) /\ (Awake(r)' <=> Awake(r))
  BY <1>10 DEF Running, Awake, ActiveUser
<1>12. OrgRoleOf(r.o, r.user)' = OrgRoleOf(r.o, r.user)
  BY <1>10 DEF OrgRoleOf
<1> QED BY <1>8, <1>9, <1>11, <1>12 DEF Gentle

\* What the routes mean, now and after the step.
RoutesAreClear == \A r \in Request : Meaning(r) /\ Coherent(r)

LEMMA ClearRoutes == AccessInv => RoutesAreClear
BY RoutesMean, CoherentRequests DEF RoutesAreClear

LEMMA ClearRoutesNext == AccessInv' => RoutesAreClear'
BY ClearRoutes, PTL

\* A step of the store that leaves the request where it is and remembers the
\* requester's rights leaves what the request knows.
LEMMA GentleStepLearns ==
    ASSUME AccessInv, AccessInv', NEW r \in Request, Learnt(r), Gentle(r),
           seen' = seen \cup {Rights(r)'}
    PROVE  Learnt(r)'
<1>1. Meaning(r) /\ Coherent(r)
  BY RoutesMean, CoherentRequests
<1>2. Meaning(r)' /\ Coherent(r)'
  BY ClearRoutesNext DEF RoutesAreClear
<1>3. /\ Present(r) /\ Slept(r) /\ GovernLearnt(r) /\ ListLearnt(r) /\ WorkspaceLearnt(r)
      /\ GeneralLearnt(r) /\ LaunchLearnt(r)
  BY DEF Learnt
<1>4. /\ Running(r)' => Running(r)
      /\ ~Awake(r) /\ OrgRoleOf(r.o, r.user)' # NoRole
         => OrgRoleOf(r.o, r.user)' = OrgRoleOf(r.o, r.user)
      /\ Awake(r) /\ ~Awake(r)' => UNCHANGED <<organisations, memberships, workspaces, wsMemberships>>
      /\ Joined(r)' /\ ~Joined(r) /\ workspaces'[r.w].organisation = r.o
         => Awake(r) /\ Inside(r) /\ UNCHANGED orgVars
      /\ workspaces[r.w].status # "absent"
         => /\ workspaces'[r.w].status # "absent"
            /\ workspaces'[r.w].organisation = workspaces[r.w].organisation
  BY DEF Gentle
<1>5. /\ Opened => Opened'
      /\ Closed => Closed'
      /\ Governed => Governed'
      /\ Ungoverned => Ungoverned'
      /\ Managed => Managed'
  BY DEF Opened, Closed, Governed, Ungoverned, Managed
<1>6. Present(r)'
  <2> DEFINE v == Rights(r)'
  <2>1. /\ v.opens = Opens(r)'
        /\ v.governs = (/\ r.route \in RoleRoutes
                        /\ OrganisationAdminContext(r.user, r.o)'.canAdmin)
        /\ v.admin = (r.route = "workspace" /\ WorkspaceAdminPage(r.user, r.w)'.canAdmin)
    BY DEF Rights, RoleRoutes
  <2>2. /\ OrganisationAdminContext(r.user, r.o)'.canAdmin <=> Governs(r)'
        /\ WorkspaceAdminPage(r.user, r.w)'.canAdmin <=> Manages(r)'
    BY <1>2 DEF Meaning
  <2>3. v \in seen'
    OBVIOUS
  <2> HIDE DEF v
  <2> QED BY <2>1, <2>2, <2>3 DEF Present
<1>7. Opens(r)' => Opened'
  BY <1>6 DEF Present, Opened
<1>8. ~Awake(r) => (Inside(r)' => Inside(r)) /\ (Runs(r)' => Runs(r))
  <2>1. CanAdminister(OrgRoleOf(r.o, r.user)') => OrgRoleOf(r.o, r.user)' # NoRole
    BY DEF CanAdminister, NoRole
  <2> QED BY <1>4, <2>1 DEF Inside, Runs, CanAdminister
<1>9. ASSUME UNCHANGED <<organisations, memberships, workspaces, wsMemberships>>
      PROVE  /\ Running(r)' <=> Running(r)
             /\ Inside(r)' <=> Inside(r)
             /\ Runs(r)' <=> Runs(r)
             /\ Placed(r)' <=> Placed(r)
             /\ Joined(r)' <=> Joined(r)
  <2>1. OrgRoleOf(r.o, r.user)' = OrgRoleOf(r.o, r.user)
    BY <1>9 DEF OrgRoleOf
  <2> QED BY <1>9, <2>1 DEF Running, Inside, Runs, Placed, Joined, CanAdminister
<1>10. Placed(r)' /\ Joined(r) => Placed(r)
  <2>1. Joined(r) => workspaces[r.w].status = "active"
    BY <1>1 DEF Coherent
  <2> QED BY <1>4, <2>1 DEF Placed
<1>11. r.route \in WorkspaceLists => (Opens(r) <=> Reaches(r)) /\ (Opens(r)' <=> Reaches(r)')
  BY <1>1, <1>2 DEF Meaning, ReachRoutes
<1>12. Slept(r)'
  <2>1. ASSUME ~Awake(r)', Running(r)', Runs(r)'
        PROVE  /\ r.route \in RoleRoutes => Governed'
               /\ r.route \in GovernRoutes => Opened'
    <3>1. CASE Awake(r)
      <4>1. Governs(r)
        BY <1>4, <1>9, <2>1, <3>1 DEF Governs
      <4>2. r.route \in GovernRoutes => Opens(r)
        BY <1>1, <4>1 DEF Meaning
      <4> QED BY <1>3, <1>5, <4>1, <4>2, PresentRights
    <3>2. CASE ~Awake(r)
      <4>1. Runs(r) /\ Running(r)
        BY <1>4, <1>8, <2>1, <3>2
      <4> QED BY <1>3, <1>5, <3>2, <4>1 DEF Slept
    <3> QED BY <3>1, <3>2
  <2>2. ASSUME ~Awake(r)', Running(r)', r.route \in WorkspaceLists, Inside(r)', Placed(r)', Joined(r)'
        PROVE  Opened'
    <3>1. CASE Awake(r)
      <4>1. Reaches(r)
        BY <1>4, <1>9, <2>2, <3>1 DEF Reaches, Member
      <4> QED BY <1>3, <1>5, <1>11, <2>2, <4>1, PresentRights
    <3>2. CASE ~Awake(r)
      <4>1. Joined(r)
        BY <1>4, <2>2, <3>2 DEF Placed
      <4>2. Inside(r) /\ Running(r) /\ Placed(r)
        BY <1>4, <1>8, <1>10, <2>2, <3>2, <4>1
      <4> QED BY <1>3, <1>5, <2>2, <3>2, <4>1, <4>2 DEF Slept
    <3> QED BY <3>1, <3>2
  <2> QED BY <2>1, <2>2 DEF Slept
<1>13. GovernLearnt(r)'
  BY <1>3, <1>5 DEF GovernLearnt
<1>14. ListLearnt(r)'
  <2>1. ASSUME r.route \in WorkspaceLists, r.next >= ListedAt(r.route), r.user \notin SystemAdmin,
               Placed(r)', Running(r)', Joined(r)'
        PROVE  Opened'
    <3>1. CASE Joined(r)
      <4>1. Placed(r) /\ Running(r)
        BY <1>4, <1>10, <2>1, <3>1
      <4> QED BY <1>3, <1>5, <2>1, <3>1, <4>1 DEF ListLearnt
    <3>2. CASE ~Joined(r)
      <4>1. Awake(r) /\ Inside(r) /\ UNCHANGED orgVars
        BY <1>4, <2>1, <3>2 DEF Placed
      <4>2. UNCHANGED <<users, memberships>>
        BY <4>1 DEF orgVars
      <4>3. OrgRoleOf(r.o, r.user)' = OrgRoleOf(r.o, r.user)
        BY <4>2 DEF OrgRoleOf
      <4>4. Awake(r)' /\ Inside(r)'
        BY <4>1, <4>2, <4>3 DEF Awake, ActiveUser, Inside
      <4>5. Reaches(r)'
        BY <2>1, <4>4 DEF Reaches, Member
      <4> QED BY <1>7, <1>11, <2>1, <4>5
    <3> QED BY <3>1, <3>2
  <2> QED BY <1>3, <1>5, <2>1 DEF ListLearnt
<1>15. WorkspaceLearnt(r)'
  BY <1>3, <1>4, <1>5 DEF WorkspaceLearnt
<1>16. GeneralLearnt(r)' /\ LaunchLearnt(r)'
  BY <1>3, <1>5 DEF GeneralLearnt, LaunchLearnt, Issues
<1> QED BY <1>6, <1>12, <1>13, <1>14, <1>15, <1>16 DEF Learnt

\* The rows of the product tables are none of Gentle's business.
LEMMA ProductStepsAreGentle ==
    ASSUME NEW r, NEW a \in User,
           \/ \E o \in Organisation : ProductForm(a, o)
           \/ \E p \in Product : RetireProduct(a, p)
    PROVE  Gentle(r) /\ AccessStep
<1>1. AccessStep
  BY Zenon DEF ProductForm, AccessStep
<1>2. UNCHANGED allWsVars
  BY <1>1, ZenonT(60) DEF AccessStep, RetireProduct, EntitleOrganisation,
        RevokeOrganisationEntitlement, AssignUserProduct, RevokeUserProduct
<1> QED BY <1>1, <1>2, Unmoved

\* A mutation is a step of the store, and gentle.
LEMMA FormsAreStoreSteps ==
    ASSUME NEW a \in User
    PROVE  /\ \A o \in Organisation : OrganisationForm(a, o) => AccessNext
           /\ \A w \in Workspace : WorkspaceForm(a, w) => AccessNext
<1>1. ASSUME NEW o \in Organisation, OrganisationForm(a, o) PROVE AccessNext
  <2>1. OrgNext
    BY <1>1, Zenon DEF OrganisationForm, OrgNext
  <2>2. UNCHANGED wsVars /\ UNCHANGED accessVars
    BY <1>1 DEF OrganisationForm
  <2> QED BY <2>1, <2>2 DEF AccessNext, WsNext
<1>2. ASSUME NEW w \in Workspace, WorkspaceForm(a, w) PROVE AccessNext
  <2>1. WsStep
    BY <1>2, Zenon DEF WorkspaceForm, WsStep
  <2>2. UNCHANGED accessVars
    BY <1>2 DEF WorkspaceForm
  <2> QED BY <2>1, <2>2 DEF AccessNext, WsNext
<1> QED BY <1>1, <1>2

LEMMA MutationSteps ==
    ASSUME Mutation
    PROVE  AccessNext
<1>1. CASE UserSwitch
  <2>1. OrgNext
    BY <1>1, Zenon DEF UserSwitch, OrgNext
  <2>2. UNCHANGED wsVars /\ UNCHANGED accessVars
    BY <1>1 DEF UserSwitch
  <2> QED BY <2>1, <2>2 DEF AccessNext, WsNext
<1>2. ASSUME NEW a \in User, NEW o \in Organisation, OrganisationForm(a, o) PROVE AccessNext
  BY <1>2, FormsAreStoreSteps
<1>3. ASSUME NEW a \in User, NEW w \in Workspace, WorkspaceForm(a, w) PROVE AccessNext
  BY <1>3, FormsAreStoreSteps
<1>4. ASSUME NEW a \in User,
             \/ \E o \in Organisation : ProductForm(a, o)
             \/ \E p \in Product : RetireProduct(a, p)
      PROVE  AccessNext
  <2>1. AccessStep
    BY <1>4, ProductStepsAreGentle
  <2> QED BY <2>1 DEF AccessNext
<1> QED BY <1>1, <1>2, <1>3, <1>4 DEF Mutation

LEMMA MutationIsGentle ==
    ASSUME AccessInv, AccessInv', Mutation, NEW r \in Request
    PROVE  Gentle(r)
<1>1. CASE UserSwitch
  BY <1>1, SwitchIsGentle
<1>2. ASSUME NEW a \in User, NEW o \in Organisation, OrganisationForm(a, o) PROVE Gentle(r)
  BY <1>2, OrganisationFormIsGentle
<1>3. ASSUME NEW a \in User, NEW w \in Workspace, WorkspaceForm(a, w) PROVE Gentle(r)
  BY <1>3, WorkspaceFormIsGentle
<1>4. ASSUME NEW a \in User,
             \/ \E o \in Organisation : ProductForm(a, o)
             \/ \E p \in Product : RetireProduct(a, p)
      PROVE  Gentle(r)
  BY <1>4, ProductStepsAreGentle
<1> QED BY <1>1, <1>2, <1>3, <1>4 DEF Mutation

(***************************************************************************)
(* The two starts are states of the store.                                 *)
(***************************************************************************)
\* Three values in a row.
LEMMA Triple ==
    ASSUME NEW S, NEW a \in S, NEW b \in S, NEW c \in S, NEW s, s = <<a, b, c>>
    PROVE  /\ s \in Seq(S) /\ Len(s) = 3 /\ DOMAIN s = 1..3
           /\ s[1] = a /\ s[2] = b /\ s[3] = c
OBVIOUS

LEMMA Appended ==
    ASSUME NEW S, NEW s \in Seq(S), NEW e \in S, NEW t, t = Append(s, e)
    PROVE  /\ t \in Seq(S) /\ Len(t) = Len(s) + 1 /\ t[Len(s) + 1] = e
           /\ \A i \in 1..Len(s) : t[i] = s[i]
OBVIOUS

\* Home with its owner and its second member.
LEMMA FoundedInv ==
    ASSUME NEW past \in {"admin", "member"}, NEW role \in {"admin", "member"}, Founded(past, role)
    PROVE  /\ OrgInv
           /\ Len(memberships) = 3 /\ memberships[3].scope = Home /\ memberships[3].user = Deputy
<1> DEFINE owner == NewRow(Home, Founder, "owner", 1, Founder)
           first == NewRow(Home, Deputy, past, 1, Founder)
           second == NewRow(Home, Deputy, role, 2, Founder)
           live == [NoOrganisation EXCEPT !.status = "active"]
           records == <<RecordFor(owner, TRUE), RecordFor(first, TRUE), RecordFor(second, TRUE)>>
<1>0. /\ Home \in Organisation /\ Founder \in User /\ Deputy \in User /\ Founder # Deputy
      /\ 1 \in Nat \ {0} /\ 2 \in Nat \ {0}
      /\ "owner" \in OrgRole /\ past \in OrgRole /\ role \in OrgRole
      /\ past # "owner" /\ role # "owner"
  BY WebAssumption DEF OrgRole
<1>1. /\ users = [u \in User |-> "active"]
      /\ organisations = [o \in Organisation |-> IF o = Home THEN live ELSE NoOrganisation]
      /\ memberships = Insert(Retire(<<owner, first>>, {2}), second)
      /\ mirror = [users |-> users, organisations |-> organisations, memberships |-> records]
  BY DEF Founded
<1>2. /\ owner \in RowOf(Organisation, User, OrgRole)
      /\ first \in RowOf(Organisation, User, OrgRole)
      /\ second \in RowOf(Organisation, User, OrgRole)
  BY <1>0, NewRowFacts
<1>3. /\ owner.scope = Home /\ owner.user = Founder /\ owner.role = "owner" /\ owner.active
      /\ first.scope = Home /\ first.user = Deputy /\ first.role = past /\ first.active
      /\ second.scope = Home /\ second.user = Deputy /\ second.role = role /\ second.active
  BY DEF NewRow
<1>4. /\ live.status = "active" /\ live.name = Unnamed
      /\ live \in [status : OrgStatus, name : Name \cup {Unnamed}]
      /\ NoOrganisation.status = "absent" /\ NoOrganisation.name = Unnamed
      /\ NoOrganisation \in [status : OrgStatus, name : Name \cup {Unnamed}]
  BY DEF NoOrganisation, OrgStatus
<1>5. /\ Len(records) = 3 /\ DOMAIN records = 1..3
      /\ records \in Seq(OrgRecord)
      /\ records[1].scope = Home /\ records[1].user = Founder /\ records[1].role = "owner" /\ records[1].active
      /\ records[2].scope = Home /\ records[2].user = Deputy /\ records[2].role = past /\ records[2].active
      /\ records[3].scope = Home /\ records[3].user = Deputy /\ records[3].role = role /\ records[3].active
  <2> DEFINE a == RecordFor(owner, TRUE)
             b == RecordFor(first, TRUE)
             c == RecordFor(second, TRUE)
  <2>1. a \in OrgRecord /\ b \in OrgRecord /\ c \in OrgRecord
    BY <1>0 DEF NewRow, OrgRecord, RecordOf, RecordFor
  <2>2. /\ a.scope = Home /\ a.user = Founder /\ a.role = "owner" /\ a.active
        /\ b.scope = Home /\ b.user = Deputy /\ b.role = past /\ b.active
        /\ c.scope = Home /\ c.user = Deputy /\ c.role = role /\ c.active
    BY DEF NewRow, RecordFor
  <2>3. records = <<a, b, c>>
    OBVIOUS
  <2> HIDE DEF a, b, c, records
  <2>4. /\ records \in Seq(OrgRecord) /\ Len(records) = 3 /\ DOMAIN records = 1..3
        /\ records[1] = a /\ records[2] = b /\ records[3] = c
    BY <2>1, <2>3, Triple
  <2> QED BY <2>2, <2>4
<1> HIDE DEF owner, first, second, records, live
<1>6. /\ memberships \in Seq(RowOf(Organisation, User, OrgRole)) /\ Len(memberships) = 3
      /\ memberships[1] = owner /\ memberships[3] = second
      /\ memberships[2].scope = Home /\ memberships[2].user = Deputy /\ memberships[2].role = past
      /\ ~memberships[2].active
  <2> DEFINE table == <<owner, first>>
             cut == Retire(table, {2})
  <2>1. /\ table \in Seq(RowOf(Organisation, User, OrgRole)) /\ Len(table) = 2
        /\ table[1] = owner /\ table[2] = first
    BY <1>2
  <2> HIDE DEF table
  <2>2. /\ cut \in Seq(RowOf(Organisation, User, OrgRole)) /\ Len(cut) = Len(table)
        /\ \A i \in 1..Len(table) : /\ i \notin {2} => cut[i] = table[i]
                                    /\ cut[i].scope = table[i].scope
                                    /\ cut[i].user = table[i].user
                                    /\ cut[i].role = table[i].role
                                    /\ cut[i].active <=> (table[i].active /\ i \notin {2})
    BY <2>1, RetireFacts
  <2>3. memberships = Append(cut, second)
    BY <1>1 DEF Insert, table
  <2> HIDE DEF cut
  <2>4. /\ cut[1] = owner
        /\ cut[2].scope = Home /\ cut[2].user = Deputy /\ cut[2].role = past /\ ~cut[2].active
        /\ Len(cut) = 2
    BY <1>3, <2>1, <2>2
  <2>5. /\ memberships \in Seq(RowOf(Organisation, User, OrgRole)) /\ Len(memberships) = 3
        /\ memberships[3] = second
        /\ memberships[1] = cut[1] /\ memberships[2] = cut[2]
    <3>1. /\ memberships \in Seq(RowOf(Organisation, User, OrgRole))
          /\ Len(memberships) = Len(cut) + 1 /\ memberships[Len(cut) + 1] = second
          /\ \A i \in 1..Len(cut) : memberships[i] = cut[i]
      BY <1>2, <2>2, <2>3, Appended
    <3> QED BY <2>4, <3>1
  <2> QED BY <2>4, <2>5
<1>7. /\ mirror.users = users /\ mirror.organisations = organisations /\ mirror.memberships = records
  BY <1>1
<1>8. /\ organisations \in OrgFacts /\ organisations[Home] = live
      /\ \A o \in Organisation : o # Home => organisations[o] = NoOrganisation
  BY <1>0, <1>1, <1>4 DEF OrgFacts
<1>9. OrgTypeOK
  <2>1. users \in [User -> UserStatus]
    BY <1>1 DEF UserStatus
  <2> QED BY <1>1, <1>5, <1>6, <1>8, <2>1 DEF OrgTypeOK, OrgRow
<1>10. AbsentIsUnnamed
  BY <1>4, <1>8 DEF AbsentIsUnnamed
<1>11. /\ memberships[1].scope = Home /\ memberships[1].user = Founder
       /\ memberships[1].role = "owner" /\ memberships[1].active
       /\ memberships[3].scope = Home /\ memberships[3].user = Deputy
       /\ memberships[3].role = role /\ memberships[3].active
  BY <1>3, <1>6
<1>12. \A i \in 1..Len(memberships) : i = 1 \/ i = 2 \/ i = 3
  BY <1>6
<1>13. OneOwner
  <2>1. AtMostOneCurrent(memberships)
    BY <1>0, <1>6, <1>11, <1>12 DEF AtMostOneCurrent
  <2>2. \A o \in Organisation : o # Home => ActiveIn(memberships, o) = {}
    BY <1>6, <1>11, <1>12 DEF ActiveIn
  <2>3. Owners(memberships, Home) = {1} /\ 1 \in 1..Len(memberships)
    BY <1>0, <1>6, <1>11, <1>12 DEF Owners, ActiveIn
  <2> QED BY <1>4, <1>8, <2>1, <2>2, <2>3 DEF OneOwner
<1>14. Agree(memberships, records)
  <2>1. Superseded(records, 2) /\ ~Superseded(records, 3) /\ ~Superseded(records, 1)
    BY <1>0, <1>5 DEF Superseded
  <2> QED BY <1>5, <1>6, <1>11, <1>12, <2>1 DEF Agree
<1>15. MirrorAgrees
  BY <1>7, <1>14 DEF MirrorAgrees
<1> QED BY <1>6, <1>9, <1>10, <1>11, <1>13, <1>15 DEF OrgInv

\* The Workspace that Deputy has created.
LEMMA SettledInv ==
    ASSUME OrgInv, Len(memberships) = 3, memberships[3].scope = Home, memberships[3].user = Deputy,
           Settled(Site, TRUE)
    PROVE  WsInv /\ AbsentIsNowhere
<1> DEFINE row == NewRow(Site, Deputy, "admin", 1, Deputy)
           record == RecordFor(row, TRUE)
           facts == [status |-> "active", organisation |-> Home]
<1>0. /\ Home \in Organisation /\ Deputy \in User /\ Site \in Workspace
      /\ 1 \in Nat \ {0} /\ "admin" \in WsRole
  BY WebAssumption DEF WsRole
<1>1. /\ workspaces = [v \in Workspace |-> IF v = Site THEN facts ELSE NoWorkspace]
      /\ wsMemberships = <<row>>
      /\ wsMirror = [workspaces |-> workspaces, memberships |-> <<record>>]
  BY DEF Settled
<1>2. row \in RowOf(Workspace, User, WsRole)
  BY <1>0, NewWsRowFacts
<1>3. /\ row.scope = Site /\ row.user = Deputy /\ row.role = "admin" /\ row.active
      /\ record.scope = Site /\ record.user = Deputy /\ record.role = "admin" /\ record.active
  BY DEF NewRow, RecordFor
<1>4. record \in WsRecord
  BY <1>2 DEF RowOf, WsRecord, RecordOf, RecordFor
<1>5. /\ facts.status = "active" /\ facts.organisation = Home
      /\ facts \in [status : WsStatus, organisation : Organisation \cup {Nowhere}]
      /\ NoWorkspace.status = "absent"
      /\ NoWorkspace \in [status : WsStatus, organisation : Organisation \cup {Nowhere}]
  BY <1>0 DEF WsStatus, NoWorkspace
<1> HIDE DEF row, record, facts
<1>6. /\ wsMemberships \in Seq(WsRow) /\ Len(wsMemberships) = 1 /\ wsMemberships[1] = row
  BY <1>1, <1>2 DEF WsRow
<1>7. /\ wsMirror.workspaces = workspaces
      /\ wsMirror.memberships \in Seq(WsRecord) /\ Len(wsMirror.memberships) = 1
      /\ wsMirror.memberships[1] = record
  BY <1>1, <1>4
<1>8. /\ workspaces \in WsFacts /\ workspaces[Site] = facts
      /\ \A w \in Workspace : w # Site => workspaces[w] = NoWorkspace
  BY <1>0, <1>1, <1>5 DEF WsFacts
<1>9. WsTypeOK
  <2>1. wsMirror = [workspaces |-> wsMirror.workspaces, memberships |-> wsMirror.memberships]
    BY <1>1
  <2> QED BY <1>6, <1>7, <1>8, <2>1 DEF WsTypeOK
<1>10. WsMirrorAgrees
  <2>1. \A i \in 1..Len(wsMemberships) : i = 1
    BY <1>6
  <2>2. DOMAIN wsMirror.memberships = 1..1
    BY <1>7
  <2>3. ~Superseded(wsMirror.memberships, 1)
    BY <2>2 DEF Superseded
  <2> QED BY <1>3, <1>6, <1>7, <2>1, <2>2, <2>3 DEF WsMirrorAgrees, Agree
<1>11. AbsentIsBare
  BY <1>3, <1>5, <1>6, <1>8 DEF AbsentIsBare
<1>12. GrantsStayInOrganisation
  <2>1. \A i \in 1..Len(wsMemberships) :
           /\ wsMemberships[i].user = Deputy
           /\ workspaces[wsMemberships[i].scope].organisation = Home
           /\ wsMemberships[i].scope = Site
    BY <1>3, <1>5, <1>6, <1>8
  <2>2. \E j \in 1..Len(memberships) : memberships[j].scope = Home /\ memberships[j].user = Deputy
    <3>1. 3 \in 1..Len(memberships)
      OBVIOUS
    <3> QED BY <3>1
  <2>3. \A w \in Workspace : workspaces[w].status # "active" => ActiveIn(wsMemberships, w) = {}
    BY <1>5, <1>8, <2>1 DEF ActiveIn
  <2> QED BY <2>1, <2>2, <2>3 DEF GrantsStayInOrganisation
<1>13. AbsentIsNowhere
  BY <1>5, <1>8 DEF AbsentIsNowhere
<1> QED BY <1>9, <1>10, <1>11, <1>12, <1>13 DEF WsInv

\* No Workspace yet.
LEMMA UnsettledInv ==
    ASSUME OrgInv, Settled(Site, FALSE)
    PROVE  WsInv /\ AbsentIsNowhere
<1>1. /\ workspaces = [w \in Workspace |-> NoWorkspace]
      /\ wsMemberships = << >>
      /\ wsMirror = [workspaces |-> [w \in Workspace |-> NoWorkspace], memberships |-> << >>]
  BY DEF Settled, WorkspacesInit
<1>2. Len(wsMemberships) = 0 /\ wsMemberships \in Seq(WsRow) /\ << >> \in Seq(WsRecord)
  BY <1>1
<1>3. workspaces \in WsFacts /\ \A w \in Workspace : workspaces[w] = NoWorkspace
  BY <1>1 DEF WsFacts, NoWorkspace, WsStatus
<1>4. wsMirror.workspaces = workspaces /\ wsMirror.memberships = << >>
  BY <1>1
<1>5. WsTypeOK
  BY <1>1, <1>2, <1>3 DEF WsTypeOK
<1>6. WsMirrorAgrees
  BY <1>1, <1>2, <1>4 DEF WsMirrorAgrees, Agree
<1>7. AbsentIsBare /\ GrantsStayInOrganisation
  BY <1>2 DEF AbsentIsBare, GrantsStayInOrganisation, ActiveIn
<1>8. AbsentIsNowhere
  BY <1>3 DEF AbsentIsNowhere
<1> QED BY <1>5, <1>6, <1>7, <1>8 DEF WsInv

LEMMA WebInitInv == WebInit => AccessInv
<1> SUFFICES ASSUME WebInit PROVE AccessInv
  OBVIOUS
<1>1. /\ OrgInv
      /\ Len(memberships) = 3 /\ memberships[3].scope = Home /\ memberships[3].user = Deputy
  BY FoundedInv DEF WebInit
<1>2. WsInv /\ AbsentIsNowhere
  BY <1>1, SettledInv, UnsettledInv DEF WebInit
<1>3. /\ products = [q \in Product |-> "active"]
      /\ entitlements = <<[organisation |-> Home, product |-> Licensed, active |-> TRUE]>>
      /\ assignments = <<[user |-> Deputy, organisation |-> Home, product |-> Licensed, active |-> TRUE]>>
      /\ accessMirror = [products |-> products, entitlements |-> entitlements,
                         assignments |-> assignments]
  BY DEF WebInit, Equipped
<1>4. AccessTypeOK
  <2>1. [organisation |-> Home, product |-> Licensed, active |-> TRUE] \in EntitlementRow
    BY WebAssumption DEF EntitlementRow
  <2>2. [user |-> Deputy, organisation |-> Home, product |-> Licensed, active |-> TRUE] \in AssignmentRow
    BY WebAssumption DEF AssignmentRow
  <2>3. entitlements \in Seq(EntitlementRow)
    BY <1>3, <2>1
  <2>4. assignments \in Seq(AssignmentRow)
    BY <1>3, <2>2
  <2> QED BY <1>3, <2>3, <2>4 DEF AccessTypeOK
<1>5. AccessMirrorAgrees
  BY <1>3 DEF AccessMirrorAgrees
<1>6. AssigneesWereMembers
  <2>1. Len(assignments) = 1 /\ assignments[1].organisation = Home /\ assignments[1].user = Deputy
    BY <1>3
  <2>2. 3 \in 1..Len(memberships)
    BY <1>1
  <2> QED BY <1>1, <2>1, <2>2 DEF AssigneesWereMembers
<1> QED BY <1>2, <1>4, <1>5, <1>6 DEF AccessInv

(***************************************************************************)
(* The steps of a request.                                                 *)
(***************************************************************************)
\* Every route has queries.
LEMMA QueryCounts == \A route \in Route : Len(QueriesOf(route)) \in Nat \ {0}
<1> DEFINE n(route) == Len(QueriesOf(route))
<1>1. n("selector") = 6 /\ n("launcher") = 7
  <2> DEFINE s == QueriesOf("selector")
             t == QueriesOf("launcher")
  <2>1. s = WorkspaceEntry /\ t = <<"listed">> \o WorkspaceList \o <<"launchable">>
    BY RouteQueries
  <2> HIDE DEF s, t
  <2>2. Len(s) = 6
    BY <2>1 DEF WorkspaceEntry, WorkspaceList, OrganisationRead
  <2>3. Len(t) = 7
    BY <2>1 DEF WorkspaceList, OrganisationRead
  <2> QED BY <2>2, <2>3 DEF s, t
<1>2. n("members") = 7 /\ n("products") = 10 /\ n("organisationMembers") = 3
  <2> DEFINE s == QueriesOf("members")
             t == QueriesOf("products")
             a == QueriesOf("organisationMembers")
  <2>1. /\ s = AdminContext \o <<"mustAdminister">> \o AdminRead
        /\ t = AdminContext \o <<"mustAdminister">> \o AdminRead \o AdminRead
        /\ a = AdminRead
    BY RouteQueries
  <2> HIDE DEF s, t, a
  <2>2. Len(s) = 7
    BY <2>1 DEF AdminContext, AdminRead
  <2>3. Len(t) = 10
    BY <2>1 DEF AdminContext, AdminRead
  <2>4. Len(a) = 3
    BY <2>1 DEF AdminRead
  <2> QED BY <2>2, <2>3, <2>4 DEF s, t, a
<1>3. n("product") = 5 /\ n("handoff") = 4 /\ n("assertion") = 2
  BY RouteQueries
<1>4. n("workspace") = 6 /\ n("workspaceRead") = 3 /\ n("workspaceMembers") = 2
  BY RouteQueries
<1>5. n("general") = 6 /\ n("workspaces") = 8 /\ n("organisationWorkspaces") = 5
  <2> DEFINE s == QueriesOf("general")
             t == QueriesOf("workspaces")
             a == QueriesOf("organisationWorkspaces")
  <2>1. /\ s = AdminContext \o <<"notedStatus", "notedReader", "notedRole">>
        /\ t = AdminContext \o WorkspaceList
        /\ a = WorkspaceList
    BY RouteQueries
  <2> HIDE DEF s, t, a
  <2>2. Len(s) = 6
    BY <2>1 DEF AdminContext
  <2>3. Len(t) = 8
    BY <2>1 DEF AdminContext, WorkspaceList, OrganisationRead
  <2>4. Len(a) = 5
    BY <2>1 DEF WorkspaceList, OrganisationRead
  <2> QED BY <2>2, <2>3, <2>4 DEF s, t, a
<1> HIDE DEF n
<1>6. \A route \in Route : n(route) \in Nat \ {0}
  BY <1>1, <1>2, <1>3, <1>4, <1>5, Routes
<1> QED BY <1>6 DEF n

\* What a query notes is a yes or a no.
LEMMA NotedYesOrNo ==
    ASSUME NEW r \in Request, NEW q
    PROVE  Noted(q, r) \in BOOLEAN
<1>1. r.admin \in BOOLEAN
  BY DEF Request
<1>2. /\ Noted("listingRole", r) \in BOOLEAN
      /\ Noted("listedRole", r) \in BOOLEAN
      /\ Noted("adminScope", r) \in BOOLEAN
  BY DEF Noted, CanAdminister
<1>3. Noted("catalogue", r) \in BOOLEAN
  BY DEF Noted
<1>4. q \notin {"listingRole", "listedRole", "catalogue", "adminScope"} => Noted(q, r) = r.admin
  BY DEF Noted
<1> QED BY <1>1, <1>2, <1>3, <1>4

\* Reading changes nothing.
LEMMA ReadingLeaves ==
    ASSUME AccessInv, AccessInv', UNCHANGED allVars, NEW r \in Request
    PROVE  /\ Awake(r)' <=> Awake(r)
           /\ Running(r)' <=> Running(r)
           /\ Inside(r)' <=> Inside(r)
           /\ Runs(r)' <=> Runs(r)
           /\ Placed(r)' <=> Placed(r)
           /\ Joined(r)' <=> Joined(r)
           /\ Opens(r)' <=> Opens(r)
           /\ Governs(r)' <=> Governs(r)
           /\ Manages(r)' <=> Manages(r)
           /\ workspaces'[r.w] = workspaces[r.w]
<1>1. UNCHANGED <<users, organisations, memberships, workspaces, wsMemberships,
                  products, entitlements, assignments>>
  BY DEF allVars, allWsVars, orgVars, wsVars, accessVars
<1>2. OrgRoleOf(r.o, r.user)' = OrgRoleOf(r.o, r.user)
  BY <1>1 DEF OrgRoleOf
<1>3. /\ Awake(r)' <=> Awake(r)
      /\ Running(r)' <=> Running(r)
      /\ Inside(r)' <=> Inside(r)
      /\ Runs(r)' <=> Runs(r)
      /\ Placed(r)' <=> Placed(r)
      /\ Joined(r)' <=> Joined(r)
  BY <1>1, <1>2 DEF Awake, ActiveUser, Running, Inside, Runs, CanAdminister, Placed, Joined
<1>4. Launches(r)' <=> Launches(r)
  BY <1>1 DEF Launches, ProveProductAccess, ActiveUser
<1>5. Manages(r)' <=> Manages(r)
  BY <1>1 DEF Manages, ProveWorkspaceScope, LiveScope, AdministersOrganisationOf, ActiveUser,
              OrgRoleOf, WsRoleOf
<1>6. /\ Governs(r)' <=> Governs(r)
      /\ Member(r)' <=> Member(r)
      /\ Reaches(r)' <=> Reaches(r)
      /\ Configured(r)' <=> Configured(r)
  BY <1>3 DEF Governs, Reaches, Member, Configured, Issues
<1>7. Meaning(r) /\ Meaning(r)'
  BY RoutesMean, ClearRoutesNext DEF RoutesAreClear
<1>8. r.route \in ReachRoutes \cup LaunchRoutes \cup GovernRoutes \cup {"general", "workspaceMembers"}
  <2>1. r.route \in Route
    BY DEF Request
  <2> QED BY <2>1, Routes DEF WorkspaceLists, ReachRoutes, LaunchRoutes, GovernRoutes
<1>9. Opens(r)' <=> Opens(r)
  BY <1>4, <1>5, <1>6, <1>7, <1>8 DEF Meaning
<1> QED BY <1>1, <1>3, <1>5, <1>6, <1>9

\* What is known stays known while nothing changes.
LEMMA KnowledgeStays ==
    ASSUME AccessInv, AccessInv', UNCHANGED allVars, UNCHANGED seen, NEW r \in Request, Learnt(r)
    PROVE  Learnt(r)'
<1>1. /\ Awake(r)' <=> Awake(r)
      /\ Running(r)' <=> Running(r)
      /\ Inside(r)' <=> Inside(r)
      /\ Runs(r)' <=> Runs(r)
      /\ Placed(r)' <=> Placed(r)
      /\ Joined(r)' <=> Joined(r)
      /\ Opens(r)' <=> Opens(r)
      /\ Governs(r)' <=> Governs(r)
      /\ Manages(r)' <=> Manages(r)
      /\ workspaces'[r.w] = workspaces[r.w]
  BY ReadingLeaves
<1>2. /\ Opened' <=> Opened
      /\ Closed' <=> Closed
      /\ Governed' <=> Governed
      /\ Ungoverned' <=> Ungoverned
      /\ Managed' <=> Managed
  BY DEF Opened, Closed, Governed, Ungoverned, Managed
<1>3. /\ Present(r) /\ Slept(r) /\ GovernLearnt(r) /\ ListLearnt(r) /\ WorkspaceLearnt(r)
      /\ GeneralLearnt(r) /\ LaunchLearnt(r)
  BY DEF Learnt
<1>4. Present(r)'
  BY <1>1, <1>3 DEF Present
<1>5. Slept(r)'
  BY <1>1, <1>2, <1>3 DEF Slept
<1>6. GovernLearnt(r)'
  BY <1>2, <1>3 DEF GovernLearnt
<1>7. ListLearnt(r)'
  BY <1>1, <1>2, <1>3 DEF ListLearnt
<1>8. WorkspaceLearnt(r)'
  BY <1>1, <1>2, <1>3 DEF WorkspaceLearnt
<1>9. GeneralLearnt(r)' /\ LaunchLearnt(r)'
  BY <1>2, <1>3 DEF GeneralLearnt, LaunchLearnt, Issues
<1> QED BY <1>4, <1>5, <1>6, <1>7, <1>8, <1>9 DEF Learnt

\* On arrival the requester is active and nothing has been read.
LEMMA ArrivalLearns ==
    ASSUME AccessInv, AccessInv', UNCHANGED allVars, NEW r \in Request, r.next = 1, Awake(r),
           seen' = {Rights(r)}
    PROVE  Learnt(r)'
<1>1. /\ Awake(r)' <=> Awake(r)
      /\ Opens(r)' <=> Opens(r)
      /\ Governs(r)' <=> Governs(r)
      /\ Manages(r)' <=> Manages(r)
  BY ReadingLeaves
<1>2. Present(r)'
  <2> DEFINE v == Rights(r)
  <2>1. /\ v.opens = Opens(r)
        /\ v.governs = (/\ r.route \in RoleRoutes
                        /\ OrganisationAdminContext(r.user, r.o).canAdmin)
        /\ v.admin = (r.route = "workspace" /\ WorkspaceAdminPage(r.user, r.w).canAdmin)
    BY DEF Rights, RoleRoutes
  <2>2. /\ OrganisationAdminContext(r.user, r.o).canAdmin <=> Governs(r)
        /\ WorkspaceAdminPage(r.user, r.w).canAdmin <=> Manages(r)
    BY RoutesMean DEF Meaning
  <2>3. v \in seen'
    OBVIOUS
  <2> HIDE DEF v
  <2> QED BY <1>1, <2>1, <2>2, <2>3 DEF Present
<1>3. Slept(r)'
  BY <1>1 DEF Slept
<1>4. GovernLearnt(r)'
  BY DEF GovernLearnt
<1>5. ListLearnt(r)'
  BY DEF ListLearnt, ListedAt
<1>6. WorkspaceLearnt(r)'
  BY DEF WorkspaceLearnt
<1>7. GeneralLearnt(r)' /\ LaunchLearnt(r)'
  BY DEF GeneralLearnt, LaunchLearnt
<1> QED BY <1>2, <1>3, <1>4, <1>5, <1>6, <1>7 DEF Learnt

\* The answers that the property allows.
LEMMA AnswerFits ==
    ASSUME NEW r, NEW shown \in BOOLEAN,
           answer' = [route |-> r.route, shown |-> shown, rights |-> seen],
           shown => Showable(r), ~shown => Refusable(r)
    PROVE  AnswersHeldDuringRequest'
<1>1. answer'.route = r.route /\ answer'.shown = shown /\ answer'.rights = seen
  OBVIOUS
<1>2. CASE shown
  BY <1>1, <1>2 DEF AnswersHeldDuringRequest, Showable, Opened, Governed, Ungoverned
<1>3. CASE ~shown
  BY <1>1, <1>3 DEF AnswersHeldDuringRequest, Refusable, RoleRoutes, Closed, Governed, Ungoverned,
                   Managed, Unmanaged
<1> QED BY <1>2, <1>3

\* A request has a query to make, knows what Learnt says, and the last answer held.
InProgress(r) == r.next \in 1..Len(QueriesOf(r.route)) /\ Learnt(r)

WebInv ==
    /\ AccessInv
    /\ request = NoRequest \/ \E r \in Request : request = r /\ InProgress(r)
    /\ AnswersHeldDuringRequest

LEMMA ArriveInv ==
    ASSUME WebInv, AccessInv', NEW route \in Route, NEW o \in Organisation, NEW w \in Workspace,
           NEW p \in Product, NEW a \in Product, Arrive(route, Deputy, o, w, p, a)
    PROVE  WebInv'
<1> DEFINE r == [route |-> route, user |-> Deputy, o |-> o, w |-> w, p |-> p, a |-> a,
                 next |-> 1, admin |-> FALSE]
<1>1. /\ ActiveUser(Deputy) /\ request' = r /\ seen' = {Rights(r)} /\ answer' = NoAnswer
      /\ UNCHANGED allVars
  BY DEF Arrive
<1>2. r \in Request
  BY WebAssumption DEF Request
<1>3. r.user = Deputy /\ r.next = 1 /\ r.route = route
  OBVIOUS
<1> HIDE DEF r
<1>4. Awake(r)
  BY <1>1, <1>3 DEF Awake
<1>5. Learnt(r)'
  BY <1>1, <1>2, <1>3, <1>4, ArrivalLearns DEF WebInv
<1>6. r.next \in 1..Len(QueriesOf(r.route))
  BY <1>3, QueryCounts
<1>7. InProgress(r)'
  BY <1>5, <1>6 DEF InProgress
<1>8. AnswersHeldDuringRequest'
  BY <1>1 DEF AnswersHeldDuringRequest
<1> QED BY <1>1, <1>2, <1>7, <1>8 DEF WebInv

\* The request after a query.
Follows(n, r, noted) ==
    /\ n.route = r.route /\ n.user = r.user /\ n.o = r.o /\ n.w = r.w /\ n.p = r.p
    /\ n.a = r.a /\ n.next = r.next + 1 /\ n.admin = noted

LEMMA Advanced ==
    ASSUME NEW r \in Request, NEW noted \in BOOLEAN
    PROVE  \E n \in Request : /\ n = [r EXCEPT !.next = r.next + 1, !.admin = noted]
                              /\ Follows(n, r, noted)
<1>1. r.next + 1 \in Nat
  BY DEF Request
<1>2. PICK k \in Nat : k = r.next + 1
  BY <1>1
<1> DEFINE n == [r EXCEPT !.next = k, !.admin = noted]
<1>3. /\ n \in Request /\ n.route = r.route /\ n.user = r.user /\ n.o = r.o /\ n.w = r.w
      /\ n.p = r.p /\ n.a = r.a /\ n.next = k /\ n.admin = noted
  BY DEF Request
<1>4. n = [r EXCEPT !.next = r.next + 1, !.admin = noted]
  BY <1>2
<1> HIDE DEF n
<1> QED BY <1>2, <1>3, <1>4 DEF Follows

LEMMA QueryInv ==
    ASSUME WebInv, AccessInv', Query
    PROVE  WebInv'
<1>1. request # NoRequest /\ UNCHANGED allVars
  BY DEF Query
<1>2. PICK r \in Request : request = r /\ InProgress(r)
  BY <1>1 DEF WebInv
<1>3. AccessInv /\ Learnt(r) /\ r.next \in 1..Len(QueriesOf(r.route))
  BY <1>2 DEF WebInv, InProgress
<1> DEFINE q == QueriesOf(r.route)[r.next]
<1>4. \/ ~Passes(q, r) /\ Answered(FALSE)
      \/ Passes(q, r) /\ Last(r.route, r.next) /\ Answered(TRUE)
      \/ /\ Passes(q, r) /\ ~Last(r.route, r.next)
         /\ request' = [r EXCEPT !.next = r.next + 1, !.admin = Noted(q, r)]
         /\ UNCHANGED <<seen, answer>>
  BY <1>2 DEF Query, Last
<1>5. Asks(r.route, r.next, q)
  BY <1>3 DEF Asks
<1> HIDE DEF q
<1>6. CASE ~Passes(q, r) /\ Answered(FALSE)
  <2>1. Refusable(r)
    BY <1>3, <1>5, <1>6, Refused
  <2>2. answer' = [route |-> r.route, shown |-> FALSE, rights |-> seen] /\ request' = NoRequest
    BY <1>2, <1>6 DEF Answered
  <2>3. AnswersHeldDuringRequest'
    BY <2>1, <2>2, AnswerFits
  <2> QED BY <2>2, <2>3 DEF WebInv
<1>7. CASE Passes(q, r) /\ Last(r.route, r.next) /\ Answered(TRUE)
  <2>1. Showable(r)
    BY <1>3, <1>5, <1>7, Shown
  <2>2. answer' = [route |-> r.route, shown |-> TRUE, rights |-> seen] /\ request' = NoRequest
    BY <1>2, <1>7 DEF Answered
  <2>3. AnswersHeldDuringRequest'
    BY <2>1, <2>2, AnswerFits
  <2> QED BY <2>2, <2>3 DEF WebInv
<1>8. CASE /\ Passes(q, r) /\ ~Last(r.route, r.next)
           /\ request' = [r EXCEPT !.next = r.next + 1, !.admin = Noted(q, r)]
           /\ UNCHANGED <<seen, answer>>
  <2>1. PICK noted \in BOOLEAN : noted = Noted(q, r)
    BY NotedYesOrNo
  <2>2. PICK n \in Request : /\ n = [r EXCEPT !.next = r.next + 1, !.admin = noted]
                             /\ Follows(n, r, noted)
    BY Advanced
  <2>3. /\ n.route = r.route /\ n.user = r.user /\ n.o = r.o /\ n.w = r.w
        /\ n.p = r.p /\ n.a = r.a /\ n.next = r.next + 1 /\ n.admin = noted
    BY <2>2 DEF Follows
  <2>4. request' = n
    BY <1>8, <2>1, <2>2
  <2>5. Learnt(n)
    BY <1>3, <1>5, <1>8, <2>1, <2>3, GoesOn
  <2>6. Learnt(n)'
    BY <1>1, <1>3, <1>8, <2>3, <2>5, KnowledgeStays
  <2>7. n.next \in 1..Len(QueriesOf(n.route))
    <3>1. Len(QueriesOf(r.route)) \in Nat
      BY QueryCounts DEF Request
    <3> QED BY <1>3, <1>8, <2>3, <3>1 DEF Last
  <2>8. InProgress(n)'
    BY <2>6, <2>7 DEF InProgress
  <2>9. AnswersHeldDuringRequest'
    BY <1>8 DEF WebInv, AnswersHeldDuringRequest
  <2> QED BY <2>3, <2>4, <2>8, <2>9 DEF WebInv
<1> QED BY <1>4, <1>6, <1>7, <1>8

LEMMA MutationInv ==
    ASSUME WebInv, AccessInv', Mutation
    PROVE  WebInv'
<1>1. /\ request' = request /\ answer' = NoAnswer
      /\ seen' = seen \cup {Rights(x)' : x \in {request} \ {NoRequest}}
  BY DEF Mutation
<1>2. AnswersHeldDuringRequest'
  BY <1>1 DEF AnswersHeldDuringRequest
<1>3. CASE request = NoRequest
  BY <1>1, <1>2, <1>3 DEF WebInv
<1>4. CASE request # NoRequest
  <2>1. PICK r \in Request : request = r /\ InProgress(r)
    BY <1>4 DEF WebInv
  <2>2. {request} \ {NoRequest} = {r}
    BY <1>4, <2>1
  <2>3. seen' = seen \cup {Rights(r)'}
    BY <1>1, <2>2
  <2>4. AccessInv /\ Learnt(r) /\ r.next \in 1..Len(QueriesOf(r.route))
    BY <2>1 DEF WebInv, InProgress
  <2>5. Gentle(r)
    BY <2>4, MutationIsGentle
  <2>6. Learnt(r)'
    BY <2>3, <2>4, <2>5, GentleStepLearns
  <2>7. InProgress(r)'
    BY <2>4, <2>6 DEF InProgress
  <2> QED BY <1>1, <1>2, <2>1, <2>7 DEF WebInv
<1> QED BY <1>3, <1>4

LEMMA WebStoreSteps == [WebNext]_<<allVars, webVars>> => [AccessNext]_allVars
<1>1. ASSUME NEW route, NEW o, NEW w, NEW p, NEW a, Arrive(route, Deputy, o, w, p, a)
      PROVE  UNCHANGED allVars
  BY <1>1 DEF Arrive
<1>2. ASSUME Query PROVE UNCHANGED allVars
  BY <1>2 DEF Query
<1>3. ASSUME Mutation PROVE AccessNext
  BY <1>3, MutationSteps
<1> QED BY <1>1, <1>2, <1>3, Zenon DEF WebNext

LEMMA WebNextInv == WebInv /\ [WebNext]_<<allVars, webVars>> => WebInv'
<1> SUFFICES ASSUME WebInv, [WebNext]_<<allVars, webVars>> PROVE WebInv'
  OBVIOUS
<1>1. AccessInv'
  BY WebStoreSteps, AccessNextInv DEF WebInv
<1>2. CASE UNCHANGED <<allVars, webVars>>
  <2>1. UNCHANGED allVars /\ UNCHANGED <<request, seen, answer>>
    BY <1>2 DEF webVars
  <2>2. AnswersHeldDuringRequest'
    BY <2>1 DEF WebInv, AnswersHeldDuringRequest
  <2>3. ASSUME NEW r \in Request, request = r, InProgress(r)
        PROVE  InProgress(r)'
    <3>1. Learnt(r)'
      BY <1>1, <2>1, <2>3, KnowledgeStays DEF WebInv, InProgress
    <3> QED BY <2>3, <3>1 DEF InProgress
  <2> QED BY <1>1, <2>1, <2>2, <2>3 DEF WebInv
<1>3. ASSUME NEW route \in Route, NEW o \in Organisation, NEW w \in Workspace, NEW p \in Product,
             NEW a \in Product, Arrive(route, Deputy, o, w, p, a)
      PROVE  WebInv'
  BY <1>1, <1>3, ArriveInv
<1>4. CASE Query
  BY <1>1, <1>4, QueryInv
<1>5. CASE Mutation
  BY <1>1, <1>5, MutationInv
<1> QED BY <1>2, <1>3, <1>4, <1>5 DEF WebNext

LEMMA WebInvariance == WebSpec => []WebInv
<1>1. WebInit => WebInv
  BY WebInitInv DEF WebInit, WebInv, AnswersHeldDuringRequest
<1>2. WebInv /\ [WebNext]_<<allVars, webVars>> => WebInv'
  BY WebNextInv
<1> QED BY <1>1, <1>2, PTL DEF WebSpec

\* The handlers of server.go, platform_ui.go and admin_ui.go read one query at a
\* time while forms of others commit in between.  For any Organisations, users,
\* Workspaces and products, and any number of mutations between two queries: what
\* a request is shown it had a right to at some moment of the request, and it is
\* refused only if at some moment it had none, but for the four stated exceptions
\* of requesters whose own role changes meanwhile.
THEOREM AnswersHeldDuringRequestAlways == WebSpec => []AnswersHeldDuringRequest
<1>1. WebInv => AnswersHeldDuringRequest
  BY DEF WebInv
<1> QED BY <1>1, WebInvariance, PTL

\* Reading disturbs nothing: with the requests hidden, every step of WebSpec is one
\* of the store's or none, from a start that the store's invariant admits.  The
\* launcher's lists and the consumers' decisions agree under it as well.
THEOREM StoreHoldsDuringRequests ==
    WebSpec => /\ [][AccessNext]_allVars
               /\ [](LauncherLeadsOn /\ ConsumerDecidesAlike)
<1>1. WebInv => AccessInv
  BY DEF WebInv
<1>2. [WebNext]_<<allVars, webVars>> => [AccessNext]_allVars
  BY WebStoreSteps
<1> QED BY <1>1, <1>2, WebInvariance, LauncherLeads, ConsumerDecides, PTL DEF WebSpec
=============================================================================
