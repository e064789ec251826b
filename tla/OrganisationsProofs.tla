-------------------------- MODULE OrganisationsProofs --------------------------
(***************************************************************************)
(* Organisations is type correct, every active Organisation keeps exactly  *)
(* one owner, and the outbox tells consumers what the tables say: proved   *)
(* for any users, Organisations, names and table sizes.                    *)
(*                                                                         *)
(* The invariants need one another: creating an Organisation may insert an *)
(* owner row only because a never created Organisation has no active       *)
(* member (OneOwner), a role change keeps the consumer's records right     *)
(* only because the retired row was the user's only active one, which      *)
(* agreement with those records implies (AgreeFacts).                      *)
(***************************************************************************)
EXTENDS Organisations, TLAPS

(***************************************************************************)
(* Facts about the membership tables and the consumer's copy of them that  *)
(* the Organisation and Workspace proofs share, for any sets of scopes,    *)
(* users and roles.                                                        *)
(***************************************************************************)
\* A table and a consumer's view that agree have the same length, and the table
\* has at most one active row per user and scope: of two, the earlier one would
\* be superseded in the view.
LEMMA AgreeFacts ==
    ASSUME NEW S, NEW U, NEW R,
           NEW table \in Seq(RowOf(S, U, R)), NEW view \in Seq(RecordOf(S, U, R)),
           Agree(table, view)
    PROVE  /\ Len(view) = Len(table) /\ DOMAIN view = 1..Len(table)
           /\ AtMostOneCurrent(table)
<1>1. Len(view) = Len(table) /\ DOMAIN view = 1..Len(table)
  BY DEF Agree
<1>2. AtMostOneCurrent(table)
  <2> SUFFICES ASSUME NEW i \in 1..Len(table), NEW j \in 1..Len(table),
                      table[i].active, table[j].active,
                      table[i].scope = table[j].scope, table[i].user = table[j].user,
                      i < j
               PROVE  FALSE
    BY DEF AtMostOneCurrent
  <2>1. Superseded(view, i)
    BY <1>1 DEF Agree, Superseded
  <2> QED BY <2>1 DEF Agree
<1> QED BY <1>1, <1>2

\* A retired row differs in active only.
LEMMA RetiredRow ==
    ASSUME NEW S, NEW U, NEW R, NEW row \in RowOf(S, U, R),
           NEW ended, ended = [row EXCEPT !.active = FALSE]
    PROVE  /\ ended \in RowOf(S, U, R)
           /\ ended.scope = row.scope /\ ended.user = row.user /\ ended.role = row.role
           /\ ended.version = row.version /\ ended.by = row.by
           /\ ~ended.active
BY DEF RowOf

\* Retiring rows keeps the table's length and changes nothing but active.
LEMMA RetireFacts ==
    ASSUME NEW S, NEW U, NEW R,
           NEW table \in Seq(RowOf(S, U, R)), NEW ids
    PROVE  /\ Retire(table, ids) \in Seq(RowOf(S, U, R))
           /\ Len(Retire(table, ids)) = Len(table)
           /\ \A i \in 1..Len(table) :
                 /\ i \notin ids => Retire(table, ids)[i] = table[i]
                 /\ Retire(table, ids)[i].scope = table[i].scope
                 /\ Retire(table, ids)[i].user = table[i].user
                 /\ Retire(table, ids)[i].role = table[i].role
                 /\ Retire(table, ids)[i].version = table[i].version
                 /\ Retire(table, ids)[i].by = table[i].by
                 /\ Retire(table, ids)[i].active <=> (table[i].active /\ i \notin ids)
<1> DEFINE after == Retire(table, ids)
           n == Len(table)
<1>1. n \in Nat
  OBVIOUS
<1>2. \A i \in 1..n : table[i] \in RowOf(S, U, R)
  OBVIOUS
<1>3. after = [i \in 1..n |-> IF i \in ids THEN [table[i] EXCEPT !.active = FALSE] ELSE table[i]]
  BY DEF Retire
<1> HIDE DEF after, n
<1>4. \A i \in 1..n : i \in ids => after[i] = [table[i] EXCEPT !.active = FALSE]
  BY <1>3, Zenon
<1>5. \A i \in 1..n : i \notin ids => after[i] = table[i]
  BY <1>3, Zenon
<1>6. ASSUME NEW i \in 1..n
      PROVE  /\ after[i] \in RowOf(S, U, R)
             /\ after[i].scope = table[i].scope
             /\ after[i].user = table[i].user
             /\ after[i].role = table[i].role
             /\ after[i].version = table[i].version
             /\ after[i].by = table[i].by
             /\ after[i].active <=> (table[i].active /\ i \notin ids)
  <2>1. table[i] \in RowOf(S, U, R)
    BY <1>2
  <2>2. CASE i \in ids
    <3>1. after[i] = [table[i] EXCEPT !.active = FALSE]
      BY <1>4, <2>2
    <3> QED BY <2>1, <2>2, <3>1, RetiredRow
  <2>3. CASE i \notin ids
    BY <1>5, <2>1, <2>3
  <2> QED BY <2>2, <2>3
<1>7. after \in Seq(RowOf(S, U, R)) /\ Len(after) = n
  <2>1. after \in [1..n -> RowOf(S, U, R)]
    BY <1>3, <1>6
  <2> QED BY <1>1, <2>1
<1> QED BY <1>5, <1>6, <1>7 DEF after, n

\* What the events that end the rows ids do to a consumer's records.
LEMMA AnnounceEndedFacts ==
    ASSUME NEW S, NEW U, NEW R,
           NEW table \in Seq(RowOf(S, U, R)), NEW view \in Seq(RecordOf(S, U, R)),
           Len(view) = Len(table), NEW ids
    PROVE  /\ AnnounceEnded(view, table, ids) \in Seq(RecordOf(S, U, R))
           /\ Len(AnnounceEnded(view, table, ids)) = Len(view)
           /\ \A i \in 1..Len(view) :
                 /\ i \notin ids => AnnounceEnded(view, table, ids)[i] = view[i]
                 /\ i \in ids => /\ AnnounceEnded(view, table, ids)[i].scope = table[i].scope
                                 /\ AnnounceEnded(view, table, ids)[i].user = table[i].user
                                 /\ AnnounceEnded(view, table, ids)[i].role = table[i].role
                                 /\ ~AnnounceEnded(view, table, ids)[i].active
<1> DEFINE told == AnnounceEnded(view, table, ids)
           n == Len(view)
<1>1. n \in Nat /\ DOMAIN view = 1..n
  OBVIOUS
<1>2. \A i \in 1..n : table[i] \in RowOf(S, U, R) /\ view[i] \in RecordOf(S, U, R)
  OBVIOUS
<1>3. told = [i \in 1..n |-> IF i \in ids THEN RecordFor(table[i], FALSE) ELSE view[i]]
  BY <1>1 DEF AnnounceEnded
<1> HIDE DEF told, n
<1>4. \A i \in 1..n : i \in ids => told[i] = RecordFor(table[i], FALSE)
  BY <1>3, Zenon
<1>5. \A i \in 1..n : i \notin ids => told[i] = view[i]
  BY <1>3, Zenon
<1>6. ASSUME NEW i \in 1..n, i \in ids
      PROVE  /\ told[i] \in RecordOf(S, U, R)
             /\ told[i].scope = table[i].scope
             /\ told[i].user = table[i].user
             /\ told[i].role = table[i].role
             /\ told[i].active = FALSE
  <2>1. told[i] = RecordFor(table[i], FALSE) /\ table[i] \in RowOf(S, U, R)
    BY <1>2, <1>4, <1>6
  <2> QED BY <2>1 DEF RecordFor, RowOf, RecordOf
<1>7. \A i \in 1..n : told[i] \in RecordOf(S, U, R)
  BY <1>2, <1>5, <1>6
<1>8. told \in Seq(RecordOf(S, U, R)) /\ Len(told) = n
  <2>1. told \in [1..n -> RecordOf(S, U, R)]
    BY <1>3, <1>7
  <2> QED BY <1>1, <2>1
<1> QED BY <1>5, <1>6, <1>8 DEF told, n

\* The event that ends rows, told together with them, keeps table and view in
\* agreement.
LEMMA RetireKeepsAgreement ==
    ASSUME NEW S, NEW U, NEW R,
           NEW table \in Seq(RowOf(S, U, R)), NEW view \in Seq(RecordOf(S, U, R)),
           Agree(table, view), NEW ids
    PROVE  LET after == Retire(table, ids)
               told == AnnounceEnded(view, after, ids)
           IN /\ told \in Seq(RecordOf(S, U, R))
              /\ Agree(after, told)
<1> DEFINE after == Retire(table, ids)
           told == AnnounceEnded(view, after, ids)
           n == Len(table)
<1>1. n \in Nat /\ DOMAIN view = 1..n /\ Len(view) = n
  BY AgreeFacts
<1>2. /\ after \in Seq(RowOf(S, U, R)) /\ Len(after) = n
      /\ \A i \in 1..n : /\ after[i].scope = table[i].scope
                         /\ after[i].user = table[i].user
                         /\ after[i].role = table[i].role
                         /\ after[i].active <=> (table[i].active /\ i \notin ids)
  BY RetireFacts
<1> HIDE DEF after
<1>3. /\ told \in Seq(RecordOf(S, U, R)) /\ Len(told) = n
      /\ \A i \in 1..n :
            /\ i \notin ids => told[i] = view[i]
            /\ i \in ids => /\ told[i].scope = after[i].scope
                            /\ told[i].user = after[i].user
                            /\ told[i].role = after[i].role
                            /\ ~told[i].active
  BY <1>1, <1>2, AnnounceEndedFacts
<1>4. \A i \in 1..n : /\ view[i].scope = table[i].scope
                      /\ view[i].user = table[i].user
                      /\ view[i].role = table[i].role
                      /\ table[i].active <=> (view[i].active /\ ~Superseded(view, i))
  BY DEF Agree
<1> HIDE DEF told, n
<1>5. \A i \in 1..n : /\ told[i].scope = view[i].scope
                      /\ told[i].user = view[i].user
                      /\ told[i].role = view[i].role
                      /\ told[i].active <=> (view[i].active /\ i \notin ids)
  BY <1>2, <1>3, <1>4
<1>6. DOMAIN told = 1..n
  BY <1>3
<1>7. \A i \in 1..n : Superseded(told, i) <=> Superseded(view, i)
  BY <1>1, <1>5, <1>6 DEF Superseded
<1>8. Agree(after, told)
  BY <1>2, <1>4, <1>5, <1>6, <1>7 DEF Agree
<1> QED BY <1>3, <1>8 DEF after, told

\* One more row, told by one more record, keeps agreement when the rows before
\* it differ from the old ones at most in that those of the new row's user and
\* scope are not active: the common part of adding a member and changing a role.
LEMMA AddedRowKeepsAgreement ==
    ASSUME NEW S, NEW U, NEW R,
           NEW table \in Seq(RowOf(S, U, R)), NEW view \in Seq(RecordOf(S, U, R)),
           Agree(table, view),
           NEW cut \in Seq(RowOf(S, U, R)), Len(cut) = Len(table),
           NEW row \in RowOf(S, U, R), row.active,
           \A i \in 1..Len(table) :
              /\ cut[i].scope = table[i].scope
              /\ cut[i].user = table[i].user
              /\ cut[i].role = table[i].role
              /\ cut[i].active <=> /\ table[i].active
                                   /\ ~(table[i].scope = row.scope /\ table[i].user = row.user)
    PROVE  /\ AnnounceAdded(view, row) \in Seq(RecordOf(S, U, R))
           /\ Agree(Append(cut, row), AnnounceAdded(view, row))
<1> DEFINE n == Len(table)
           after == Append(cut, row)
           record == RecordFor(row, TRUE)
           told == Append(view, record)
<1>1. n \in Nat /\ DOMAIN view = 1..n /\ Len(view) = n
  BY AgreeFacts
<1>2. /\ record \in RecordOf(S, U, R)
      /\ record.scope = row.scope /\ record.user = row.user /\ record.role = row.role
      /\ record.active
  BY DEF RecordFor, RowOf, RecordOf
<1> HIDE DEF record
<1>3. /\ Len(after) = n + 1
      /\ \A i \in 1..n : after[i] = cut[i]
      /\ after[n + 1] = row
  OBVIOUS
<1>4. /\ told \in Seq(RecordOf(S, U, R)) /\ DOMAIN told = 1..(n + 1)
      /\ \A i \in 1..n : told[i] = view[i]
      /\ told[n + 1] = record
  BY <1>1, <1>2
<1>5. \A i \in 1..n : /\ view[i].scope = table[i].scope
                      /\ view[i].user = table[i].user
                      /\ view[i].role = table[i].role
                      /\ table[i].active <=> (view[i].active /\ ~Superseded(view, i))
  BY DEF Agree
<1>6. \A i \in 1..n : /\ cut[i].scope = table[i].scope
                      /\ cut[i].user = table[i].user
                      /\ cut[i].role = table[i].role
                      /\ cut[i].active <=> /\ table[i].active
                                           /\ ~(table[i].scope = row.scope /\ table[i].user = row.user)
  OBVIOUS
<1> HIDE DEF n, after, told
<1>7. ~Superseded(told, n + 1)
  BY <1>1, <1>4 DEF Superseded
<1>8. ASSUME NEW i \in 1..n
      PROVE  Superseded(told, i)
             <=> Superseded(view, i) \/ (table[i].scope = row.scope /\ table[i].user = row.user)
  <2>1. i \in Nat /\ n + 1 > i /\ n + 1 \in 1..(n + 1) /\ i \in 1..(n + 1)
    BY <1>1
  <2>2. \A j \in 1..(n + 1) : j \in 1..n \/ j = n + 1
    BY <1>1
  <2>3. ASSUME table[i].scope = row.scope, table[i].user = row.user
        PROVE  Superseded(told, i)
    BY <1>2, <1>4, <1>5, <2>1, <2>3 DEF Superseded
  <2>4. ASSUME Superseded(view, i)
        PROVE  Superseded(told, i)
    BY <1>1, <1>4, <2>1, <2>4 DEF Superseded
  <2>5. ASSUME Superseded(told, i)
        PROVE  Superseded(view, i) \/ (table[i].scope = row.scope /\ table[i].user = row.user)
    <3>1. PICK j \in 1..(n + 1) : j > i /\ told[j].scope = told[i].scope /\ told[j].user = told[i].user
      BY <1>4, <2>5 DEF Superseded
    <3>2. CASE j \in 1..n
      BY <1>1, <1>4, <3>1, <3>2 DEF Superseded
    <3>3. CASE j = n + 1
      BY <1>2, <1>4, <1>5, <3>1, <3>3
    <3> QED BY <2>2, <3>2, <3>3
  <2> QED BY <2>3, <2>4, <2>5
<1>9. ASSUME NEW i \in 1..(n + 1)
      PROVE  /\ told[i].scope = after[i].scope
             /\ told[i].user = after[i].user
             /\ told[i].role = after[i].role
             /\ after[i].active <=> (told[i].active /\ ~Superseded(told, i))
  <2>1. CASE i \in 1..n
    BY <1>3, <1>4, <1>5, <1>6, <1>8, <2>1
  <2>2. CASE i = n + 1
    BY <1>2, <1>3, <1>4, <1>7, <2>2
  <2> QED BY <1>1, <2>1, <2>2
<1>10. Agree(after, told)
  BY <1>3, <1>4, <1>9 DEF Agree
<1> QED BY <1>4, <1>10 DEF after, told, record, AnnounceAdded

\* Adding a row for a user who has no current one.
LEMMA InsertKeepsAgreement ==
    ASSUME NEW S, NEW U, NEW R,
           NEW table \in Seq(RowOf(S, U, R)), NEW view \in Seq(RecordOf(S, U, R)),
           Agree(table, view),
           NEW row \in RowOf(S, U, R), row.active,
           Current(table, row.scope, row.user) = {}
    PROVE  /\ AnnounceAdded(view, row) \in Seq(RecordOf(S, U, R))
           /\ Agree(Insert(table, row), AnnounceAdded(view, row))
<1>1. \A i \in 1..Len(table) :
         table[i].active => ~(table[i].scope = row.scope /\ table[i].user = row.user)
  BY DEF Current
<1>2. \A i \in 1..Len(table) :
         table[i].active <=> /\ table[i].active
                             /\ ~(table[i].scope = row.scope /\ table[i].user = row.user)
  BY <1>1
<1> QED BY <1>2, AddedRowKeepsAgreement DEF Insert

\* A role change: the current row is retired without an event of its own, and the
\* new row's event supersedes its record.
LEMMA ChangeKeepsAgreement ==
    ASSUME NEW S, NEW U, NEW R,
           NEW table \in Seq(RowOf(S, U, R)), NEW view \in Seq(RecordOf(S, U, R)),
           Agree(table, view),
           NEW row \in RowOf(S, U, R), row.active,
           NEW k \in Current(table, row.scope, row.user)
    PROVE  /\ Insert(Retire(table, {k}), row) \in Seq(RowOf(S, U, R))
           /\ AnnounceAdded(view, row) \in Seq(RecordOf(S, U, R))
           /\ Agree(Insert(Retire(table, {k}), row), AnnounceAdded(view, row))
<1> DEFINE cut == Retire(table, {k})
<1>1. k \in 1..Len(table) /\ table[k].active /\ table[k].scope = row.scope /\ table[k].user = row.user
  BY DEF Current
<1>2. AtMostOneCurrent(table)
  BY AgreeFacts
<1>3. \A i \in 1..Len(table) :
         (table[i].active /\ table[i].scope = row.scope /\ table[i].user = row.user) => i = k
  BY <1>1, <1>2 DEF AtMostOneCurrent
<1>4. /\ cut \in Seq(RowOf(S, U, R)) /\ Len(cut) = Len(table)
      /\ \A i \in 1..Len(table) : /\ cut[i].scope = table[i].scope
                                  /\ cut[i].user = table[i].user
                                  /\ cut[i].role = table[i].role
                                  /\ cut[i].active <=> (table[i].active /\ i \notin {k})
  BY RetireFacts
<1> HIDE DEF cut
<1>5. \A i \in 1..Len(table) :
         /\ cut[i].scope = table[i].scope
         /\ cut[i].user = table[i].user
         /\ cut[i].role = table[i].role
         /\ cut[i].active <=> /\ table[i].active
                              /\ ~(table[i].scope = row.scope /\ table[i].user = row.user)
  BY <1>1, <1>3, <1>4
<1>6. /\ AnnounceAdded(view, row) \in Seq(RecordOf(S, U, R))
      /\ Agree(Append(cut, row), AnnounceAdded(view, row))
  BY <1>4, <1>5, AddedRowKeepsAgreement
<1>7. Append(cut, row) \in Seq(RowOf(S, U, R))
  BY <1>4
<1> QED BY <1>6, <1>7 DEF cut, Insert

\* The role read from a table that has at most one current row per user and scope:
\* there is one exactly when there is a current row, and it is that row's.
LEMMA RoleInFacts ==
    ASSUME NEW S, NEW U, NEW R, NoRole \notin R,
           NEW table \in Seq(RowOf(S, U, R)), AtMostOneCurrent(table), NEW scope, NEW user
    PROVE  /\ RoleIn(table, scope, user) # NoRole <=> Current(table, scope, user) # {}
           /\ \A i \in Current(table, scope, user) : RoleIn(table, scope, user) = table[i].role
<1>1. \A i, j \in Current(table, scope, user) : i = j
  BY DEF Current, AtMostOneCurrent
<1>2. ASSUME NEW i \in Current(table, scope, user)
      PROVE  RoleIn(table, scope, user) = table[i].role /\ table[i].role # NoRole
  <2>1. (CHOOSE k \in Current(table, scope, user) : TRUE) = i
    BY <1>1
  <2>2. table[i] \in RowOf(S, U, R)
    BY DEF Current
  <2>3. table[i].role \in R
    BY <2>2 DEF RowOf
  <2> QED BY <2>1, <2>3 DEF RoleIn
<1>3. Current(table, scope, user) = {} => RoleIn(table, scope, user) = NoRole
  BY DEF RoleIn
<1> QED BY <1>2, <1>3

\* A consumer whose records agree with the table reads the roles the table has.
LEMMA ConsumerReadsRole ==
    ASSUME NEW S, NEW U, NEW R,
           NEW table \in Seq(RowOf(S, U, R)), NEW view \in Seq(RecordOf(S, U, R)),
           Agree(table, view), NEW scope, NEW user
    PROVE  RoleInView(view, scope, user) = RoleIn(table, scope, user)
<1> DEFINE live == {i \in DOMAIN view : /\ view[i].scope = scope
                                        /\ view[i].user = user
                                        /\ view[i].active
                                        /\ ~Superseded(view, i)}
           rows == Current(table, scope, user)
<1>1. live = rows
  BY DEF Agree, Current
<1>2. \A i \in rows : view[i].role = table[i].role
  BY DEF Agree, Current
<1>3. RoleInView(view, scope, user) = IF live = {} THEN NoRole ELSE view[CHOOSE i \in live : TRUE].role
  BY DEF RoleInView
<1>4. RoleIn(table, scope, user) = IF rows = {} THEN NoRole ELSE table[CHOOSE i \in rows : TRUE].role
  BY DEF RoleIn
<1> HIDE DEF live, rows
<1>5. CASE rows = {}
  BY <1>1, <1>3, <1>4, <1>5
<1>6. CASE rows # {}
  <2>1. (CHOOSE i \in rows : TRUE) \in rows
    BY <1>6
  <2> QED BY <1>1, <1>2, <1>3, <1>4, <1>6, <2>1
<1> QED BY <1>5, <1>6

(***************************************************************************)
(* Organisations                                                           *)
(***************************************************************************)
\* A name is given when the Organisation is created, not before.
AbsentIsUnnamed ==
    \A o \in Organisation : organisations[o].status = "absent" => organisations[o].name = Unnamed

OrgInv == OrgTypeOK /\ AbsentIsUnnamed /\ OneOwner /\ MirrorAgrees

\* The invariant holds in the empty database.
LEMMA OrgInitInv == OrgInit => OrgInv
<1> SUFFICES ASSUME OrgInit PROVE OrgInv
  OBVIOUS
<1> USE DEF OrgInit
<1>1. memberships = << >> /\ mirror.memberships = << >> /\ Len(memberships) = 0
  OBVIOUS
<1>2. OrgTypeOK
  <2>1. organisations \in OrgFacts /\ mirror.organisations \in OrgFacts
    BY DEF OrgFacts, NoOrganisation, OrgStatus
  <2>2. memberships \in Seq(OrgRow) /\ << >> \in Seq(OrgRecord)
    BY <1>1
  <2> QED BY <2>1, <2>2 DEF OrgTypeOK, UserStatus
<1>3. AbsentIsUnnamed
  BY DEF AbsentIsUnnamed, NoOrganisation
<1>4. OneOwner
  BY <1>1 DEF OneOwner, AtMostOneCurrent, ActiveIn, NoOrganisation
<1>5. MirrorAgrees
  BY <1>1 DEF MirrorAgrees, Agree, NoOrganisation
<1> QED BY <1>2, <1>3, <1>4, <1>5 DEF OrgInv

\* Changing a user's status touches no table but users.
LEMMA UserStepInv ==
    ASSUME OrgInv, NEW u \in User, NEW status \in {"active", "inactive"},
           CreateUser(u, status) \/ SetUserActive(u, status)
    PROVE  OrgInv'
<1>1. /\ users' = [users EXCEPT ![u] = status]
      /\ mirror' = [mirror EXCEPT !.users[u] = status]
      /\ UNCHANGED <<organisations, memberships>>
  BY DEF CreateUser, SetUserActive
<1>2. /\ mirror'.users = [mirror.users EXCEPT ![u] = status]
      /\ mirror'.organisations = mirror.organisations
      /\ mirror'.memberships = mirror.memberships
  BY <1>1 DEF OrgInv, OrgTypeOK
<1>3. OrgTypeOK'
  BY <1>1 DEF OrgInv, OrgTypeOK, UserStatus
<1>4. MirrorAgrees'
  BY <1>1, <1>2 DEF OrgInv, MirrorAgrees
<1>5. AbsentIsUnnamed' /\ OneOwner'
  BY <1>1 DEF OrgInv, AbsentIsUnnamed, OneOwner
<1> QED BY <1>3, <1>4, <1>5 DEF OrgInv

LEMMA RenameInv ==
    ASSUME OrgInv, NEW a \in User, NEW o \in Organisation, NEW name \in Name,
           RenameOrganisation(a, o, name)
    PROVE  OrgInv'
<1>1. /\ organisations[o].status = "active"
      /\ organisations' = [organisations EXCEPT ![o].name = name]
      /\ mirror' = [mirror EXCEPT !.organisations[o].name = name]
      /\ UNCHANGED <<users, memberships>>
  BY DEF RenameOrganisation, AuthorisedOrganisationMutation
<1>2. /\ mirror'.users = mirror.users
      /\ mirror'.organisations = [mirror.organisations EXCEPT ![o].name = name]
      /\ mirror'.memberships = mirror.memberships
  BY <1>1 DEF OrgInv, OrgTypeOK
<1>3. organisations' \in OrgFacts /\ mirror'.organisations \in OrgFacts
  BY <1>1, <1>2 DEF OrgInv, OrgTypeOK, OrgFacts
<1>4. \A q \in Organisation : organisations'[q].status = organisations[q].status
  BY <1>1 DEF OrgInv, OrgTypeOK, OrgFacts
<1>5. OrgTypeOK'
  BY <1>1, <1>3 DEF OrgInv, OrgTypeOK
<1>6. MirrorAgrees'
  BY <1>1, <1>2 DEF OrgInv, MirrorAgrees, OrgTypeOK, OrgFacts
<1>7. AbsentIsUnnamed'
  BY <1>1 DEF OrgInv, AbsentIsUnnamed, OrgTypeOK, OrgFacts
<1>8. OneOwner'
  BY <1>1, <1>4 DEF OrgInv, OneOwner
<1> QED BY <1>5, <1>6, <1>7, <1>8 DEF OrgInv
\* Organisations is the set of scopes, users and roles the table lemmas speak of.
LEMMA NewRowFacts ==
    ASSUME NEW o \in Organisation, NEW u \in User, NEW role \in OrgRole,
           NEW version \in Nat \ {0}, NEW by \in User
    PROVE  LET row == NewRow(o, u, role, version, by)
           IN /\ row \in RowOf(Organisation, User, OrgRole)
              /\ row.scope = o /\ row.user = u /\ row.role = role /\ row.active
BY DEF NewRow, RowOf

LEMMA CreateOrganisationInv ==
    ASSUME OrgInv, NEW a \in User, NEW o \in Organisation, NEW name \in Name,
           CreateOrganisation(a, o, name)
    PROVE  OrgInv'
<1> DEFINE row == NewRow(o, a, "owner", 1, a)
           n == Len(memberships)
<1>1. /\ organisations[o].status = "absent"
      /\ organisations' = [organisations EXCEPT ![o] = [status |-> "active", name |-> name]]
      /\ memberships' = Insert(memberships, row)
      /\ mirror' = [mirror EXCEPT !.organisations[o].status = "active",
                                  !.memberships = AnnounceAdded(@, row)]
      /\ UNCHANGED users
  BY DEF CreateOrganisation
<1>2. /\ row \in RowOf(Organisation, User, OrgRole)
      /\ row.scope = o /\ row.user = a /\ row.role = "owner" /\ row.active
  BY NewRowFacts DEF OrgRole
<1> HIDE DEF row
<1>3. /\ memberships \in Seq(RowOf(Organisation, User, OrgRole))
      /\ mirror.memberships \in Seq(RecordOf(Organisation, User, OrgRole))
      /\ Agree(memberships, mirror.memberships)
  BY DEF OrgInv, OrgTypeOK, MirrorAgrees, OrgRow, OrgRecord
<1>4. /\ mirror'.users = mirror.users
      /\ mirror'.organisations = [mirror.organisations EXCEPT ![o].status = "active"]
      /\ mirror'.memberships = AnnounceAdded(mirror.memberships, row)
      /\ mirror' = [users |-> mirror'.users, organisations |-> mirror'.organisations,
                    memberships |-> mirror'.memberships]
  BY <1>1 DEF OrgInv, OrgTypeOK
<1>5. ActiveIn(memberships, o) = {}
  BY <1>1 DEF OrgInv, OneOwner
<1>6. Current(memberships, row.scope, row.user) = {}
  BY <1>2, <1>5 DEF Current, ActiveIn
<1>7. /\ mirror'.memberships \in Seq(RecordOf(Organisation, User, OrgRole))
      /\ Agree(memberships', mirror'.memberships)
  BY <1>1, <1>2, <1>3, <1>4, <1>6, InsertKeepsAgreement
<1>8. /\ memberships' \in Seq(RowOf(Organisation, User, OrgRole))
      /\ n \in Nat /\ Len(memberships') = n + 1
      /\ \A i \in 1..n : memberships'[i] = memberships[i]
      /\ memberships'[n + 1] = row
  BY <1>1, <1>2, <1>3 DEF Insert
<1>9. organisations' \in OrgFacts /\ mirror'.organisations \in OrgFacts
  BY <1>1, <1>4 DEF OrgInv, OrgTypeOK, OrgFacts, OrgStatus
<1>10. OrgTypeOK'
  BY <1>1, <1>4, <1>7, <1>8, <1>9 DEF OrgInv, OrgTypeOK, OrgRow, OrgRecord
<1>11. MirrorAgrees'
  <2>1. mirror.organisations[o].name = Unnamed
    BY <1>1 DEF OrgInv, MirrorAgrees, AbsentIsUnnamed
  <2>2. ASSUME NEW q \in Organisation
        PROVE  /\ mirror'.organisations[q].status = organisations'[q].status
               /\ mirror'.organisations[q].name \in {Unnamed, organisations'[q].name}
    <3>1. CASE q = o
      BY <1>1, <1>4, <2>1, <3>1 DEF OrgInv, OrgTypeOK, OrgFacts
    <3>2. CASE q # o
      BY <1>1, <1>4, <3>2 DEF OrgInv, OrgTypeOK, OrgFacts, MirrorAgrees
    <3> QED BY <3>1, <3>2
  <2> QED BY <1>1, <1>4, <1>7, <2>2 DEF OrgInv, MirrorAgrees
<1>12. AbsentIsUnnamed'
  BY <1>1 DEF OrgInv, AbsentIsUnnamed, OrgTypeOK, OrgFacts
<1>13. OneOwner'
  <2>1. AtMostOneCurrent(memberships')
    BY <1>7, <1>8, AgreeFacts
  <2>2. ASSUME NEW q \in Organisation, q # o
        PROVE  ActiveIn(memberships', q) = ActiveIn(memberships, q)
    BY <1>2, <1>8, <2>2 DEF ActiveIn
  <2>3. ASSUME NEW q \in Organisation, q # o
        PROVE  Owners(memberships', q) = Owners(memberships, q)
    BY <1>8, <2>2, <2>3 DEF Owners, ActiveIn
  <2>4. Owners(memberships', o) = {n + 1}
    BY <1>2, <1>5, <1>8 DEF Owners, ActiveIn
  <2>5. ASSUME NEW q \in Organisation
        PROVE  /\ organisations'[q].status = "active"
                  => \E i \in 1..Len(memberships') : Owners(memberships', q) = {i}
               /\ organisations'[q].status # "active" => ActiveIn(memberships', q) = {}
    <3>1. CASE q = o
      <4>1. organisations'[o].status = "active"
        BY <1>1 DEF OrgInv, OrgTypeOK, OrgFacts
      <4> QED BY <1>8, <2>4, <3>1, <4>1
    <3>2. CASE q # o
      <4>1. organisations'[q].status = organisations[q].status
        BY <1>1, <3>2 DEF OrgInv, OrgTypeOK, OrgFacts
      <4> QED BY <1>8, <2>2, <2>3, <3>2, <4>1 DEF OrgInv, OneOwner
    <3> QED BY <3>1, <3>2
  <2> QED BY <2>1, <2>5 DEF OneOwner
<1> QED BY <1>10, <1>11, <1>12, <1>13 DEF OrgInv
\* What the three membership mutations have in common: only the table and the
\* consumer's copy of it change, they still agree, no owner row is touched and
\* no Organisation that is not active gains an active member.
LEMMA MembershipStepInv ==
    ASSUME OrgInv, UNCHANGED <<users, organisations>>,
           NEW told \in Seq(OrgRecord),
           mirror' = [mirror EXCEPT !.memberships = told],
           memberships' \in Seq(OrgRow),
           Agree(memberships', told),
           Len(memberships') >= Len(memberships),
           \A q \in Organisation : Owners(memberships', q) = Owners(memberships, q),
           \A q \in Organisation : organisations[q].status # "active"
                                   => ActiveIn(memberships', q) = ActiveIn(memberships, q)
    PROVE  OrgInv'
<1>1. /\ mirror'.users = mirror.users
      /\ mirror'.organisations = mirror.organisations
      /\ mirror'.memberships = told
  BY DEF OrgInv, OrgTypeOK
<1>2. OrgTypeOK'
  BY DEF OrgInv, OrgTypeOK
<1>3. AbsentIsUnnamed'
  BY DEF OrgInv, AbsentIsUnnamed
<1>4. MirrorAgrees'
  BY <1>1 DEF OrgInv, MirrorAgrees
<1>5. OneOwner'
  <2>1. AtMostOneCurrent(memberships')
    BY AgreeFacts DEF OrgRow, OrgRecord
  <2>2. \A i \in 1..Len(memberships) : i \in 1..Len(memberships')
    BY DEF OrgInv, OrgTypeOK
  <2> QED BY <2>1, <2>2 DEF OrgInv, OneOwner
<1> QED BY <1>2, <1>3, <1>4, <1>5 DEF OrgInv

LEMMA AddOrganisationMemberInv ==
    ASSUME OrgInv, NEW a \in User, NEW o \in Organisation, NEW u \in User, NEW role \in OrgRole,
           AddOrganisationMember(a, o, u, role)
    PROVE  OrgInv'
<1> DEFINE row == NewRow(o, u, role, 1, a)
           told == AnnounceAdded(mirror.memberships, row)
           n == Len(memberships)
<1>1. /\ role # "owner"
      /\ organisations[o].status = "active"
      /\ Current(memberships, o, u) = {}
      /\ memberships' = Insert(memberships, row)
      /\ mirror' = [mirror EXCEPT !.memberships = told]
      /\ UNCHANGED <<users, organisations>>
  BY DEF AddOrganisationMember, AuthorisedOrganisationMutation, OrgInv, OrgTypeOK
<1>2. /\ row \in RowOf(Organisation, User, OrgRole)
      /\ row.scope = o /\ row.user = u /\ row.role = role /\ row.active
  BY NewRowFacts
<1> HIDE DEF row
<1>3. /\ memberships \in Seq(RowOf(Organisation, User, OrgRole))
      /\ mirror.memberships \in Seq(RecordOf(Organisation, User, OrgRole))
      /\ Agree(memberships, mirror.memberships)
  BY DEF OrgInv, OrgTypeOK, MirrorAgrees, OrgRow, OrgRecord
<1>4. told \in Seq(OrgRecord) /\ Agree(memberships', told)
  BY <1>1, <1>2, <1>3, InsertKeepsAgreement DEF OrgRecord
<1>5. /\ memberships' \in Seq(OrgRow)
      /\ n \in Nat /\ Len(memberships') = n + 1
      /\ \A i \in 1..n : memberships'[i] = memberships[i]
      /\ memberships'[n + 1] = row
  BY <1>1, <1>2, <1>3 DEF Insert, OrgRow
<1> HIDE DEF told
<1>6. \A q \in Organisation : Owners(memberships', q) = Owners(memberships, q)
  BY <1>1, <1>2, <1>5 DEF Owners, ActiveIn
<1>7. ASSUME NEW q \in Organisation, organisations[q].status # "active"
      PROVE  ActiveIn(memberships', q) = ActiveIn(memberships, q)
  <2>1. q # o
    BY <1>1, <1>7
  <2> QED BY <1>2, <1>5, <2>1 DEF ActiveIn
<1>8. Len(memberships') >= Len(memberships)
  BY <1>5
<1> QED BY <1>1, <1>4, <1>5, <1>6, <1>7, <1>8, MembershipStepInv

LEMMA ChangeOrganisationMemberRoleInv ==
    ASSUME OrgInv, NEW a \in User, NEW o \in Organisation, NEW u \in User, NEW role \in OrgRole,
           ChangeOrganisationMemberRole(a, o, u, role)
    PROVE  OrgInv'
<1> DEFINE n == Len(memberships)
<1>1. /\ role # "owner"
      /\ organisations[o].status = "active"
      /\ UNCHANGED <<users, organisations>>
  BY DEF ChangeOrganisationMemberRole, AuthorisedOrganisationMutation
<1>2. PICK k \in Current(memberships, o, u) :
         /\ memberships[k].role # "owner"
         /\ memberships' = Insert(Retire(memberships, {k}),
                                  NewRow(o, u, role, memberships[k].version + 1, a))
         /\ mirror' = [mirror EXCEPT
                         !.memberships = AnnounceAdded(@, NewRow(o, u, role, memberships[k].version + 1, a))]
  BY DEF ChangeOrganisationMemberRole, Manageable
<1> DEFINE row == NewRow(o, u, role, memberships[k].version + 1, a)
           cut == Retire(memberships, {k})
           told == AnnounceAdded(mirror.memberships, row)
<1>3. /\ memberships \in Seq(RowOf(Organisation, User, OrgRole))
      /\ mirror.memberships \in Seq(RecordOf(Organisation, User, OrgRole))
      /\ Agree(memberships, mirror.memberships)
  BY DEF OrgInv, OrgTypeOK, MirrorAgrees, OrgRow, OrgRecord
<1>4. mirror' = [mirror EXCEPT !.memberships = told]
  BY <1>2 DEF OrgInv, OrgTypeOK
<1>5. k \in 1..n /\ memberships[k].version + 1 \in Nat \ {0}
  <2>1. k \in 1..n
    BY DEF Current
  <2>2. memberships[k] \in RowOf(Organisation, User, OrgRole)
    BY <1>3, <2>1
  <2>3. memberships[k].version \in Nat \ {0}
    BY <2>2 DEF RowOf
  <2> QED BY <2>1, <2>3
<1>6. /\ row \in RowOf(Organisation, User, OrgRole)
      /\ row.scope = o /\ row.user = u /\ row.role = role /\ row.active
  BY <1>5, NewRowFacts
<1>7. memberships' = Insert(Retire(memberships, {k}), row)
  BY <1>2
<1> HIDE DEF row
<1>8. /\ memberships' \in Seq(OrgRow)
      /\ told \in Seq(OrgRecord)
      /\ Agree(memberships', told)
  BY <1>3, <1>6, <1>7, ChangeKeepsAgreement DEF OrgRow, OrgRecord
<1>9. /\ cut \in Seq(RowOf(Organisation, User, OrgRole)) /\ Len(cut) = n
      /\ \A i \in 1..n : /\ cut[i].scope = memberships[i].scope
                         /\ cut[i].role = memberships[i].role
                         /\ cut[i].active <=> (memberships[i].active /\ i \notin {k})
  BY <1>3, RetireFacts
<1>10. memberships' = Append(cut, row)
  BY <1>7 DEF Insert
<1> HIDE DEF cut, told
<1>11. /\ n \in Nat /\ Len(memberships') = n + 1
       /\ \A i \in 1..n : memberships'[i] = cut[i]
       /\ memberships'[n + 1] = row
  BY <1>6, <1>9, <1>10
<1>12. ASSUME NEW q \in Organisation
       PROVE  Owners(memberships', q) = Owners(memberships, q)
  <2>1. ASSUME NEW i \in 1..n
        PROVE  /\ memberships'[i].scope = memberships[i].scope
               /\ memberships'[i].role = memberships[i].role
               /\ memberships'[i].active <=> (memberships[i].active /\ i # k)
    BY <1>9, <1>11
  <2>2. memberships'[n + 1].role # "owner"
    BY <1>1, <1>6, <1>11
  <2>3. memberships[k].role # "owner"
    BY <1>2
  <2> QED BY <1>11, <2>1, <2>2, <2>3 DEF Owners, ActiveIn
<1>13. ASSUME NEW q \in Organisation, organisations[q].status # "active"
       PROVE  ActiveIn(memberships', q) = ActiveIn(memberships, q)
  <2>1. q # o /\ memberships[k].scope = o
    BY <1>1, <1>13 DEF Current
  <2> QED BY <1>6, <1>9, <1>11, <2>1 DEF ActiveIn
<1>14. Len(memberships') >= Len(memberships)
  BY <1>11
<1> QED BY <1>1, <1>4, <1>8, <1>12, <1>13, <1>14, MembershipStepInv

LEMMA DeactivateOrganisationMemberInv ==
    ASSUME OrgInv, NEW a \in User, NEW o \in Organisation, NEW u \in User,
           DeactivateOrganisationMember(a, o, u)
    PROVE  OrgInv'
<1> DEFINE n == Len(memberships)
           after(k) == Retire(memberships, {k})
           told(k) == AnnounceEnded(mirror.memberships, after(k), {k})
<1>1. organisations[o].status = "active" /\ UNCHANGED <<users, organisations>>
  BY DEF DeactivateOrganisationMember, AuthorisedOrganisationMutation
<1>2. PICK k \in Current(memberships, o, u) :
         /\ memberships[k].role # "owner"
         /\ memberships' = after(k)
         /\ mirror' = [mirror EXCEPT !.memberships = told(k)]
  BY DEF DeactivateOrganisationMember, Manageable, OrgInv, OrgTypeOK
<1>3. /\ memberships \in Seq(RowOf(Organisation, User, OrgRole))
      /\ mirror.memberships \in Seq(RecordOf(Organisation, User, OrgRole))
      /\ Agree(memberships, mirror.memberships)
  BY DEF OrgInv, OrgTypeOK, MirrorAgrees, OrgRow, OrgRecord
<1>4. told(k) \in Seq(OrgRecord) /\ Agree(after(k), told(k))
  BY <1>3, RetireKeepsAgreement DEF OrgRecord
<1>5. /\ after(k) \in Seq(OrgRow) /\ Len(after(k)) = n
      /\ \A i \in 1..n : /\ after(k)[i].scope = memberships[i].scope
                         /\ after(k)[i].role = memberships[i].role
                         /\ after(k)[i].active <=> (memberships[i].active /\ i \notin {k})
  BY <1>3, RetireFacts DEF OrgRow
<1> HIDE DEF after, told
<1>6. /\ memberships' \in Seq(OrgRow) /\ Len(memberships') = n /\ n \in Nat
      /\ \A i \in 1..n : /\ memberships'[i].scope = memberships[i].scope
                         /\ memberships'[i].role = memberships[i].role
                         /\ memberships'[i].active <=> (memberships[i].active /\ i \notin {k})
  BY <1>2, <1>3, <1>5
<1>7. \A q \in Organisation : Owners(memberships', q) = Owners(memberships, q)
  BY <1>2, <1>6 DEF Owners, ActiveIn
<1>8. ASSUME NEW q \in Organisation, organisations[q].status # "active"
      PROVE  ActiveIn(memberships', q) = ActiveIn(memberships, q)
  <2>1. q # o /\ memberships[k].scope = o
    BY <1>1, <1>8 DEF Current
  <2> QED BY <1>6, <2>1 DEF ActiveIn
<1>9. Len(memberships') >= Len(memberships) /\ Agree(memberships', told(k))
  BY <1>2, <1>4, <1>6
<1> QED BY <1>1, <1>2, <1>4, <1>6, <1>7, <1>8, <1>9, MembershipStepInv

LEMMA ArchiveOrganisationInv ==
    ASSUME OrgInv, NEW a \in User, NEW o \in Organisation, ArchiveOrganisation(a, o)
    PROVE  OrgInv'
<1> DEFINE n == Len(memberships)
           ended == ActiveIn(memberships, o)
           after == Retire(memberships, ended)
           told == AnnounceEnded(mirror.memberships, after, ended)
<1>1. /\ organisations' = [organisations EXCEPT ![o].status = "archived"]
      /\ memberships' = after
      /\ mirror' = [mirror EXCEPT !.organisations[o].status = "archived",
                                  !.memberships = told]
      /\ UNCHANGED users
  BY DEF ArchiveOrganisation, OrgInv, OrgTypeOK
<1>2. /\ memberships \in Seq(RowOf(Organisation, User, OrgRole))
      /\ mirror.memberships \in Seq(RecordOf(Organisation, User, OrgRole))
      /\ Agree(memberships, mirror.memberships)
  BY DEF OrgInv, OrgTypeOK, MirrorAgrees, OrgRow, OrgRecord
<1>3. told \in Seq(OrgRecord) /\ Agree(after, told)
  BY <1>2, RetireKeepsAgreement DEF OrgRecord
<1>4. /\ after \in Seq(OrgRow) /\ Len(after) = n
      /\ \A i \in 1..n : /\ after[i].scope = memberships[i].scope
                         /\ after[i].role = memberships[i].role
                         /\ after[i].active <=> (memberships[i].active /\ i \notin ended)
  BY <1>2, RetireFacts DEF OrgRow
<1> HIDE DEF after, told
<1>5. /\ mirror'.users = mirror.users
      /\ mirror'.organisations = [mirror.organisations EXCEPT ![o].status = "archived"]
      /\ mirror'.memberships = told
      /\ mirror' = [users |-> mirror'.users, organisations |-> mirror'.organisations,
                    memberships |-> mirror'.memberships]
  BY <1>1 DEF OrgInv, OrgTypeOK
<1>6. organisations' \in OrgFacts /\ mirror'.organisations \in OrgFacts
  <2>1. organisations \in OrgFacts /\ mirror.organisations \in OrgFacts
    BY DEF OrgInv, OrgTypeOK
  <2>2. organisations' \in OrgFacts
    BY <1>1, <2>1 DEF OrgFacts, OrgStatus
  <2>3. mirror'.organisations \in OrgFacts
    BY <1>5, <2>1, SMTT(40) DEF OrgFacts, OrgStatus
  <2> QED BY <2>2, <2>3
<1>7. OrgTypeOK'
  BY <1>1, <1>3, <1>4, <1>5, <1>6 DEF OrgInv, OrgTypeOK
<1>8. AbsentIsUnnamed'
  BY <1>1 DEF OrgInv, AbsentIsUnnamed, OrgTypeOK, OrgFacts
<1>9. MirrorAgrees'
  <2>1. \A q \in Organisation :
           /\ mirror'.organisations[q].status = organisations'[q].status
           /\ mirror'.organisations[q].name \in {Unnamed, organisations'[q].name}
    BY <1>1, <1>5 DEF OrgInv, OrgTypeOK, OrgFacts, MirrorAgrees
  <2> QED BY <1>1, <1>3, <1>5, <2>1 DEF OrgInv, MirrorAgrees
<1>10. OneOwner'
  <2>1. AtMostOneCurrent(memberships')
    BY <1>1, <1>3, <1>4, AgreeFacts DEF OrgRow, OrgRecord
  <2>2. ActiveIn(memberships', o) = {}
    BY <1>1, <1>4 DEF ActiveIn
  <2>3. ASSUME NEW q \in Organisation, q # o
        PROVE  /\ ActiveIn(memberships', q) = ActiveIn(memberships, q)
               /\ Owners(memberships', q) = Owners(memberships, q)
               /\ organisations'[q].status = organisations[q].status
    <3>1. ActiveIn(memberships', q) = ActiveIn(memberships, q)
      BY <1>1, <1>4, <2>3 DEF ActiveIn
    <3>2. Owners(memberships', q) = Owners(memberships, q)
      BY <1>1, <1>4, <3>1 DEF Owners, ActiveIn
    <3>3. organisations'[q].status = organisations[q].status
      BY <1>1, <2>3 DEF OrgInv, OrgTypeOK, OrgFacts
    <3> QED BY <3>1, <3>2, <3>3
  <2>4. organisations'[o].status = "archived"
    BY <1>1 DEF OrgInv, OrgTypeOK, OrgFacts
  <2>5. Len(memberships') = Len(memberships)
    BY <1>1, <1>4
  <2> QED BY <2>1, <2>2, <2>3, <2>4, <2>5 DEF OrgInv, OneOwner
<1> QED BY <1>7, <1>8, <1>9, <1>10 DEF OrgInv

\* Every step keeps the invariant.
LEMMA OrgNextInv == OrgInv /\ [OrgNext]_orgVars => OrgInv'
<1> SUFFICES ASSUME OrgInv, [OrgNext]_orgVars PROVE OrgInv'
  OBVIOUS
<1>1. CASE UNCHANGED orgVars
  BY <1>1 DEF orgVars, OrgInv, OrgTypeOK, AbsentIsUnnamed, OneOwner, MirrorAgrees
<1>2. CASE \E u \in User, status \in {"active", "inactive"} :
              CreateUser(u, status) \/ SetUserActive(u, status)
  BY <1>2, UserStepInv
<1>3. ASSUME NEW a \in User, NEW o \in Organisation, NEW name \in Name,
             CreateOrganisation(a, o, name) \/ RenameOrganisation(a, o, name)
      PROVE  OrgInv'
  BY <1>3, CreateOrganisationInv, RenameInv
<1>4. ASSUME NEW a \in User, NEW o \in Organisation, ArchiveOrganisation(a, o)
      PROVE  OrgInv'
  BY <1>4, ArchiveOrganisationInv
<1>5. ASSUME NEW a \in User, NEW o \in Organisation, NEW u \in User, NEW role \in OrgRole,
             \/ AddOrganisationMember(a, o, u, role)
             \/ ChangeOrganisationMemberRole(a, o, u, role)
      PROVE  OrgInv'
  BY <1>5, AddOrganisationMemberInv, ChangeOrganisationMemberRoleInv
<1>6. ASSUME NEW a \in User, NEW o \in Organisation, NEW u \in User,
             DeactivateOrganisationMember(a, o, u)
      PROVE  OrgInv'
  BY <1>6, DeactivateOrganisationMemberInv
<1> QED BY <1>1, <1>2, <1>3, <1>4, <1>5, <1>6 DEF OrgNext

\* The whole invariant, from which the three theorems below are read off.
LEMMA OrgInvariance == OrgSpec => []OrgInv
<1>1. OrgInit => OrgInv
  BY OrgInitInv
<1>2. OrgInv /\ [OrgNext]_orgVars => OrgInv'
  BY OrgNextInv
<1> QED BY <1>1, <1>2, PTL DEF OrgSpec

\* The tables of users, Organisations and memberships and the consumer's records
\* always have their types (users.go, organisation.go).
THEOREM OrgTypeCorrect == OrgSpec => []OrgTypeOK
<1>1. OrgInv => OrgTypeOK
  BY DEF OrgInv
<1> QED BY <1>1, OrgInvariance, PTL

\* Whatever members are added, promoted, demoted or removed by whomever, an
\* active Organisation has exactly one owner and any other no active member: the
\* unique indexes of organisation_memberships never reject a mutation that
\* passed the checks in organisation.go.
THEOREM OneOwnerAlways == OrgSpec => []OneOwner
<1>1. OrgInv => OneOwner
  BY DEF OrgInv
<1> QED BY <1>1, OrgInvariance, PTL

\* The outbox tells the truth: after every mutation of users.go and
\* organisation.go, the records of a consumer that applied all events agree with
\* the Platform's tables.
THEOREM MirrorAgreesAlways == OrgSpec => []MirrorAgrees
<1>1. OrgInv => MirrorAgrees
  BY DEF OrgInv
<1> QED BY <1>1, OrgInvariance, PTL

\* What a step does to Organisations and rows that were there before it: an
\* archived Organisation is left alone, and so is the row of the owner of an
\* Organisation that stays active.
LEMMA StepLeavesOwners ==
    ASSUME OrgInv, OrgNext, NEW q \in Organisation
    PROVE  /\ organisations[q].status = "archived" => organisations'[q] = organisations[q]
           /\ (organisations[q].status = "active" /\ organisations'[q].status = "active")
              => \A i \in ActiveIn(memberships, q) :
                    memberships[i].role = "owner" => memberships'[i] = memberships[i]
<1> DEFINE Goal ==
             /\ organisations[q].status = "archived" => organisations'[q] = organisations[q]
             /\ (organisations[q].status = "active" /\ organisations'[q].status = "active")
                => \A i \in ActiveIn(memberships, q) :
                      memberships[i].role = "owner" => memberships'[i] = memberships[i]
<1>0. /\ memberships \in Seq(RowOf(Organisation, User, OrgRole))
      /\ organisations \in OrgFacts
  BY DEF OrgInv, OrgTypeOK, OrgRow
<1>1. ASSUME NEW u \in User, NEW status \in {"active", "inactive"},
             CreateUser(u, status) \/ SetUserActive(u, status)
      PROVE  Goal
  BY <1>1 DEF CreateUser, SetUserActive
<1>2. ASSUME NEW a \in User, NEW o \in Organisation, NEW name \in Name,
             CreateOrganisation(a, o, name)
      PROVE  Goal
  <2> DEFINE row == NewRow(o, a, "owner", 1, a)
  <2>1. /\ organisations[o].status = "absent"
        /\ organisations' = [organisations EXCEPT ![o] = [status |-> "active", name |-> name]]
        /\ memberships' = Insert(memberships, row)
    BY <1>2 DEF CreateOrganisation
  <2>2. row \in RowOf(Organisation, User, OrgRole)
    BY NewRowFacts DEF OrgRole
  <2> HIDE DEF row
  <2>3. \A i \in 1..Len(memberships) : memberships'[i] = memberships[i]
    BY <1>0, <2>1, <2>2 DEF Insert
  <2>4. organisations[q].status = "archived" => organisations'[q] = organisations[q]
    BY <1>0, <2>1 DEF OrgFacts
  <2> QED BY <2>3, <2>4 DEF ActiveIn
<1>3. ASSUME NEW a \in User, NEW o \in Organisation, NEW name \in Name,
             RenameOrganisation(a, o, name)
      PROVE  Goal
  <2>1. /\ organisations[o].status = "active"
        /\ organisations' = [organisations EXCEPT ![o].name = name]
        /\ memberships' = memberships
    BY <1>3 DEF RenameOrganisation, AuthorisedOrganisationMutation
  <2>2. organisations[q].status = "archived" => organisations'[q] = organisations[q]
    BY <1>0, <2>1 DEF OrgFacts
  <2> QED BY <2>1, <2>2
<1>4. ASSUME NEW a \in User, NEW o \in Organisation, ArchiveOrganisation(a, o)
      PROVE  Goal
  <2>1. /\ organisations[o].status = "active"
        /\ organisations' = [organisations EXCEPT ![o].status = "archived"]
        /\ memberships' = Retire(memberships, ActiveIn(memberships, o))
    BY <1>4 DEF ArchiveOrganisation, AuthorisedOrganisationMutation
  <2>2. CASE q = o
    BY <1>0, <2>1, <2>2 DEF OrgFacts
  <2>3. CASE q # o
    <3>1. organisations'[q] = organisations[q]
      BY <1>0, <2>1, <2>3 DEF OrgFacts
    <3>2. ASSUME NEW i \in ActiveIn(memberships, q)
          PROVE  memberships'[i] = memberships[i]
      <4>1. i \in 1..Len(memberships) /\ i \notin ActiveIn(memberships, o)
        BY <2>3 DEF ActiveIn
      <4> QED BY <1>0, <2>1, <4>1, RetireFacts
    <3> QED BY <3>1, <3>2
  <2> QED BY <2>2, <2>3
<1>5. ASSUME NEW a \in User, NEW o \in Organisation, NEW u \in User, NEW role \in OrgRole,
             AddOrganisationMember(a, o, u, role)
      PROVE  Goal
  <2> DEFINE row == NewRow(o, u, role, 1, a)
  <2>1. organisations' = organisations /\ memberships' = Insert(memberships, row)
    BY <1>5 DEF AddOrganisationMember
  <2>2. row \in RowOf(Organisation, User, OrgRole)
    BY NewRowFacts
  <2> HIDE DEF row
  <2>3. \A i \in 1..Len(memberships) : memberships'[i] = memberships[i]
    BY <1>0, <2>1, <2>2 DEF Insert
  <2> QED BY <2>1, <2>3 DEF ActiveIn
<1>6. ASSUME NEW a \in User, NEW o \in Organisation, NEW u \in User, NEW role \in OrgRole,
             ChangeOrganisationMemberRole(a, o, u, role)
      PROVE  Goal
  <2>1. PICK k \in Current(memberships, o, u) :
           /\ memberships[k].role # "owner"
           /\ memberships' = Insert(Retire(memberships, {k}),
                                    NewRow(o, u, role, memberships[k].version + 1, a))
    BY <1>6 DEF ChangeOrganisationMemberRole, Manageable
  <2> DEFINE row == NewRow(o, u, role, memberships[k].version + 1, a)
             cut == Retire(memberships, {k})
  <2>2. memberships' = Append(cut, row)
    BY <2>1 DEF Insert
  <2>3. /\ cut \in Seq(RowOf(Organisation, User, OrgRole)) /\ Len(cut) = Len(memberships)
        /\ \A i \in 1..Len(memberships) : i \notin {k} => cut[i] = memberships[i]
    BY <1>0, RetireFacts
  <2> HIDE DEF row, cut
  <2>4. \A i \in 1..Len(memberships) : memberships'[i] = cut[i]
    BY <2>2, <2>3
  <2>5. organisations' = organisations
    BY <1>6 DEF ChangeOrganisationMemberRole
  <2> QED BY <2>1, <2>3, <2>4, <2>5 DEF ActiveIn
<1>7. ASSUME NEW a \in User, NEW o \in Organisation, NEW u \in User,
             DeactivateOrganisationMember(a, o, u)
      PROVE  Goal
  <2>1. PICK k \in Current(memberships, o, u) :
           memberships[k].role # "owner" /\ memberships' = Retire(memberships, {k})
    BY <1>7 DEF DeactivateOrganisationMember, Manageable
  <2>2. \A i \in 1..Len(memberships) : i \notin {k} => memberships'[i] = memberships[i]
    BY <1>0, <2>1, RetireFacts
  <2>3. organisations' = organisations
    BY <1>7 DEF DeactivateOrganisationMember
  <2> QED BY <2>1, <2>2, <2>3 DEF ActiveIn
<1> HIDE DEF Goal
<1>8. Goal
  BY <1>1, <1>2, <1>3, <1>4, <1>5, <1>6, <1>7 DEF OrgNext
<1> QED BY <1>8 DEF Goal

\* No mutation of organisation.go transfers ownership, and none reopens an archived
\* Organisation, renames it or gives it a member: an action property, from the
\* invariant before and after the step.
THEOREM OwnerAndArchiveAreFinalAlways == OrgSpec => OwnerAndArchiveAreFinal
<1>1. OrgInv /\ OrgInv' /\ [OrgNext]_orgVars
      => [\A o \in Organisation : OwnerAndArchiveStay(o)]_orgVars
  <2> SUFFICES ASSUME OrgInv, OrgInv', OrgNext, NEW o \in Organisation
               PROVE  OwnerAndArchiveStay(o)
    OBVIOUS
  <2>1. organisations'[o].status = "archived" => ActiveIn(memberships', o) = {}
    BY DEF OrgInv, OneOwner
  <2> QED BY <2>1, StepLeavesOwners DEF OwnerAndArchiveStay
<1> QED BY <1>1, OrgInvariance, PTL DEF OrgSpec, OwnerAndArchiveAreFinal
=============================================================================
