---------------------------- MODULE MCProductAccess ----------------------------
(* Model-checking instance of ProductAccess and of the Pages that show it: an
   ordinary user and a system administrator, two Organisations that compete for
   them, for the Workspace and for two products, either of which is configured as
   a launch target and as an audience. *)
EXTENDS Pages, TLC

\* A state with a retired product, or with both grants revoked, is checked but not
\* followed.  What can happen after a retirement can happen before it, and with one
\* row in either grant table a revoked grant is not given again.
FewEnded ==
    /\ \A p \in Product : products[p] = "active"
    /\ \/ \A e \in DOMAIN entitlements : entitlements[e].active
       \/ \A s \in DOMAIN assignments : assignments[s].active

NameSymmetry == Permutations(Organisation) \cup Permutations(Product)
=============================================================================
