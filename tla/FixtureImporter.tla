---------------------------- MODULE FixtureImporter ----------------------------
(***************************************************************************)
(* The rehearsal of an import (platform/reconciliation/migration.go): an   *)
(* importer in memory that takes one manifest for its life, applies it in  *)
(* as many calls as one likes and takes all of it back in one.             *)
(*                                                                         *)
(* It never fails half-way, has no other rows beside it and dies with all  *)
(* it holds, so it says in few words what an import is to look like from   *)
(* outside: ProductionImport is shown to implement it.  There is one       *)
(* importer per manifest.  Signature and checkpoint MAC are valid: a call  *)
(* without them changes nothing.                                           *)
(***************************************************************************)
EXTENDS Naturals

CONSTANTS
    Manifest,
    Length        \* Length[m]: the number of records of m

VARIABLES
    checkpoint,   \* status and next index
    records       \* the records held, by their order

fixtureVars == <<checkpoint, records>>

\* NewFixtureImporter
FixtureInit ==
    /\ checkpoint = [m \in Manifest |-> [status |-> "new", next |-> 0]]
    /\ records = [m \in Manifest |-> {}]

\* n records are applied: the limit or what is left.  A completed or rolled back
\* manifest is not applied again.
Apply(m, n) ==
    LET next == checkpoint[m].next + n IN
    /\ checkpoint[m].status \in {"new", "paused"}
    /\ checkpoint' = [checkpoint EXCEPT ![m] =
                        [status |-> IF next = Length[m] THEN "completed" ELSE "paused",
                         next |-> next]]
    /\ records' = [records EXCEPT ![m] = 1..next]

\* Of a new importer there is nothing to take back.
Rollback(m) ==
    /\ checkpoint[m].status \in {"paused", "completed"}
    /\ checkpoint' = [checkpoint EXCEPT ![m] = [status |-> "rolled_back", next |-> 0]]
    /\ records' = [records EXCEPT ![m] = {}]

FixtureNext ==
    \E m \in Manifest :
        \/ \E n \in 1..(Length[m] - checkpoint[m].next) : Apply(m, n)
        \/ Rollback(m)

FixtureSpec == FixtureInit /\ [][FixtureNext]_fixtureVars
=============================================================================
