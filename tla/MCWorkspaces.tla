----------------------------- MODULE MCWorkspaces -----------------------------
(* Model-checking instance of Workspaces and of the administration Pages: an
   ordinary user and a system administrator, either of whom may own the two
   Organisations, one Workspace that may belong to either, and no product. *)
EXTENDS Pages, TLC

OrganisationSymmetry == Permutations(Organisation)
=============================================================================
