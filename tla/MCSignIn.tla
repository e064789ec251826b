------------------------------- MODULE MCSignIn -------------------------------
(* Model-checking instance of SignIn and of LoginLimiter.  They share no state
   and keep different times (steps of 30 s, backoffs of seconds), so each is
   explored while the other has not begun. *)
EXTENDS SignIn, LoginLimiter, TLC

Alike == Permutations(Login)

SignInInit == SIInit /\ LLInit

SignInSpec ==
    /\ SignInInit
    /\ [][\/ LLInit /\ SINext /\ UNCHANGED llVars
          \/ SIInit /\ LLNext /\ UNCHANGED siVars]_<<siVars, llVars>>
=============================================================================
