---------------------------- MODULE MCOrganisations ----------------------------
(* Model-checking instance of Organisations: one system administrator who can
   also be an ordinary actor, two other users, one Organisation. *)
EXTENDS Organisations
=============================================================================
