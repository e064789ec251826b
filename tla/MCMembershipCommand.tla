-------------------------- MODULE MCMembershipCommand --------------------------
(* Model-checking instance of MembershipCommand: two users, either of whom may
   own the Organisation; the first command falls between two whole seconds. *)
EXTENDS MembershipCommand, TLC

Alike == Permutations(User)
=============================================================================
