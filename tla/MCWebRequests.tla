----------------------------- MODULE MCWebRequests -----------------------------
(* Model-checking instance of WebRequests: an Organisation with an owner, who is
   a system administrator, and either an admin or a member who was one and has
   created a Workspace.  The second one's requests are followed while either of
   them works on the Organisation, its one Workspace and product. *)
EXTENDS WebRequests

\* With one product, and one row in either grant table, nothing that has ended
\* comes back, and a second ending changes no answer.
FewEnded ==
    Cardinality({p \in Product : products[p] = "retired"})
    + Cardinality({e \in DOMAIN entitlements : ~entitlements[e].active})
    + Cardinality({s \in DOMAIN assignments : ~assignments[s].active}) <= 1
=============================================================================
