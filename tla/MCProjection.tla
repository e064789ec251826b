----------------------------- MODULE MCProjection -----------------------------
(* Model-checking instance of Projection: one consumer and two aggregates.
   The first position of the one aggregate is taken by two events (a restored
   source may number two events alike), its second by an unreadable one.  The
   other aggregate has readable events in order, as the outbox numbers them. *)
EXTENDS Projection, TLC

CONSTANTS e1, e1x, e2, f1, f2, ga, gb

Positions == (e1 :> 1) @@ (e1x :> 1) @@ (e2 :> 2) @@ (f1 :> 1) @@ (f2 :> 2)
Owners == [e \in Event |-> IF e \in {f1, f2} THEN gb ELSE ga]
=============================================================================
