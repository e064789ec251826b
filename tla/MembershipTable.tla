---------------------------- MODULE MembershipTable ----------------------------
(***************************************************************************)
(* The history-preserving membership tables of the Platform store          *)
(* (organisation_memberships and workspace_memberships) and the copy of    *)
(* such a table that a consumer builds from the outbox events.             *)
(*                                                                         *)
(* A table is a sequence of rows: SQLite assigns the row number, rows are  *)
(* never deleted by the store's mutations, and the opaque public id        *)
(* (omem_ or wmem_) is identified with the row number.  A row says who      *)
(* (user) has which role in which scope (an Organisation or a Workspace),  *)
(* who assigned it, its membership_version and whether it is active.       *)
(***************************************************************************)
EXTENDS Naturals, Sequences

NoRole == "none"

\* A row of a table over the scopes S, users U and roles R, and the record a
\* consumer keeps of it.
RowOf(S, U, R) == [scope : S, user : U, role : R, version : Nat \ {0},
                   active : BOOLEAN, by : U]
RecordOf(S, U, R) == [scope : S, user : U, role : R, active : BOOLEAN]

\* Mutant of NewRow: the version counts from 0.
NewRowCountedFromZero(scope, user, role, version, by) ==
    [scope |-> scope, user |-> user, role |-> role,
     version |-> version - 1, active |-> TRUE, by |-> by]

\* INSERT of an active membership row.
NewRow(scope, user, role, version, by) ==
    [scope |-> scope, user |-> user, role |-> role,
     version |-> version, active |-> TRUE, by |-> by]

Insert(table, row) == Append(table, row)

\* UPDATE ... SET active=0 for the rows in ids.
Retire(table, ids) ==
    [i \in 1..Len(table) |->
        IF i \in ids THEN [table[i] EXCEPT !.active = FALSE] ELSE table[i]]

\* The rows the queries "scope_id=? AND user_id=? AND active=1" select.
Current(table, scope, user) ==
    {i \in 1..Len(table) : /\ table[i].scope = scope
                           /\ table[i].user = user
                           /\ table[i].active}

\* The rows the queries "scope_id=? AND active=1" select.
ActiveIn(table, scope) ==
    {i \in 1..Len(table) : table[i].scope = scope /\ table[i].active}

RoleIn(table, scope, user) ==
    LET rows == Current(table, scope, user)
    IN IF rows = {} THEN NoRole ELSE table[CHOOSE i \in rows : TRUE].role

(***************************************************************************)
(* The consumer's side.  A membership event carries membership_id, user_id,*)
(* role and active; a consumer that applies it upserts the record with     *)
(* that id.  An added row's event brings a new id, the events of ended rows*)
(* name known ones; their payloads are read from the table.                *)
(***************************************************************************)
RecordFor(row, live) ==
    [scope |-> row.scope, user |-> row.user, role |-> row.role, active |-> live]

AnnounceAdded(view, row) == Append(view, RecordFor(row, TRUE))

\* Mutant of AnnounceEnded: the rows end without their events.
AnnounceNothing(view, table, ids) == view

AnnounceEnded(view, table, ids) ==
    [i \in DOMAIN view |-> IF i \in ids THEN RecordFor(table[i], FALSE) ELSE view[i]]

\* A later record for the same user in the same scope replaces record i.
Superseded(view, i) ==
    \E j \in DOMAIN view : /\ j > i
                           /\ view[j].scope = view[i].scope
                           /\ view[j].user = view[i].user

\* The consumer's records and the table say the same: the same people, the
\* same roles, and a row is active exactly when its record is active and is the
\* last one for that user in that scope.
Agree(table, view) ==
    /\ DOMAIN view = 1..Len(table)
    /\ \A i \in 1..Len(table) :
          /\ view[i].scope = table[i].scope
          /\ view[i].user = table[i].user
          /\ view[i].role = table[i].role
          /\ table[i].active <=> (view[i].active /\ ~Superseded(view, i))

\* The role a consumer reads off its records.
RoleInView(view, scope, user) ==
    LET live == {i \in DOMAIN view : /\ view[i].scope = scope
                                     /\ view[i].user = user
                                     /\ view[i].active
                                     /\ ~Superseded(view, i)}
    IN IF live = {} THEN NoRole ELSE view[CHOOSE i \in live : TRUE].role

\* At most one active row per user and scope (the partial unique index).
AtMostOneCurrent(table) ==
    \A i, j \in 1..Len(table) :
        (/\ table[i].active /\ table[j].active
         /\ table[i].scope = table[j].scope
         /\ table[i].user = table[j].user) => i = j
=============================================================================
