--------------------------- MODULE MCReadAuthority ---------------------------
(* Model-checking instance of ReadAuthority: three entities of two kinds. *)
EXTENDS ReadAuthority

MCKindOf == [e \in Entity |-> IF e <= 2 THEN "user" ELSE "organisation"]
=============================================================================
