--------------------------- MODULE MCSignedRequests ---------------------------
(* Model-checking instance of SignedRequests: commands that may carry the
   same proof, reads, two handlers. *)
EXTENDS SignedRequests, TLC

\* Handlers, proofs and commands are interchangeable.
RequestSymmetry ==
    Permutations(Handler) \cup Permutations(Proof) \cup Permutations(Command)
=============================================================================
