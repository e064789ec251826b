----------------------------- MODULE ReadAuthority -----------------------------
(***************************************************************************)
(* Read authority: immutable snapshots with paged records                  *)
(* (db/sqlite/platform_read_authority.go), the change feed                 *)
(* (ListPlatformEventsAfter in db/sqlite/events.go) and a consumer that    *)
(* bootstraps from a snapshot and then follows the feed                    *)
(* (platform/http/read_authority.go).                                      *)
(*                                                                         *)
(* The facts are reduced to what the protocol tells apart: a fact is       *)
(* identified by the outbox id of the last event about it, which is also   *)
(* its provenance; that events tell what the tables hold is shown in       *)
(* Organisations, Workspaces and ProductAccess.  Entities are numbered in  *)
(* the canonical order of kinds and ids.  A page request reads the         *)
(* snapshot's metadata and its records in two queries outside of any       *)
(* transaction, so a cleanup may come between them.  No code deletes outbox*)
(* rows; Trim is the retention that feed and status are prepared for.       *)
(***************************************************************************)
EXTENDS TextTime, Integers, Sequences, FiniteSets

CONSTANTS
    Entity,        \* a set of numbers, in canonical order
    KindOf,        \* KindOf[e]: the entity kind of e
    TTL,           \* requested life of a snapshot
    PageSize,      \* records per page
    FeedSize,      \* changes per answer
    MaxRecords,    \* readAuthoritySnapshotMaxRows
    MaxEvents,     \* bound: events the mutations append
    MaxSnapshots,  \* bound: snapshots created
    MaxTrim,       \* bound: events the retention may remove
    MaxClock       \* bound: the clock

ASSUME ReadAuthorityAssumption ==
    /\ Entity \subseteq Nat \ {0} /\ IsFiniteSet(Entity)
    /\ DOMAIN KindOf = Entity
    /\ {TTL, PageSize, FeedSize} \subseteq Nat \ {0}
    /\ {MaxRecords, MaxEvents, MaxSnapshots, MaxTrim, MaxClock} \subseteq Nat

VARIABLES
    clock,
    outbox,      \* platform_outbox: the entity event i is about
    horizon,     \* events 1..horizon are gone
    snapshots,   \* snapshots[s]: cursor, kinds, records, expires, present
    consumer     \* phase, its snapshot, page positions, records staged and installed

raVars == <<clock, outbox, horizon, snapshots, consumer>>

Kinds == {KindOf[e] : e \in Entity}
AnyKind == "any"
Nothing == [e \in Entity |-> 0]

\* The facts after the first n events.
StateAt(n) ==
    [e \in Entity |->
        LET about == {i \in 1..n : outbox[i] = e}
        IN IF about = {} THEN 0 ELSE CHOOSE i \in about : \A j \in about : j <= i]

Current == StateAt(Len(outbox))

RAInit ==
    /\ clock = 0
    /\ outbox = << >>
    /\ horizon = 0
    /\ snapshots = << >>
    /\ consumer = [phase |-> "resync", snapshot |-> 0, kinds |-> {}, left |-> {},
                   after |-> 0, filter |-> AnyKind, staged |-> Nothing,
                   view |-> Nothing, cursor |-> 0]

Tick ==
    /\ clock < MaxClock
    /\ clock' = clock + 1
    /\ UNCHANGED <<outbox, horizon, snapshots, consumer>>

\* One mutation of the store appends its events in one transaction.
Mutate(es) ==
    /\ Len(outbox) + Len(es) <= MaxEvents
    /\ outbox' = outbox \o es
    /\ UNCHANGED <<clock, horizon, snapshots, consumer>>

\* Retention of the outbox, from the front; the last event stays.
Trim(n) ==
    /\ n <= MaxTrim /\ horizon < n /\ n < Len(outbox)
    /\ horizon' = n
    /\ UNCHANGED <<clock, outbox, snapshots, consumer>>

(***************************************************************************)
(* Snapshots                                                               *)
(***************************************************************************)
\* Every fact must have its last event still in the outbox.  (Products alone
\* may fall back on the migration that seeded them; no entity here is one.)
Provenanced(e) == Current[e] > horizon

\* The facts of the wanted kinds in canonical order, each with its provenance.
Materialized(kinds) ==
    LET facts == {e \in Entity : Current[e] # 0 /\ KindOf[e] \in kinds}
    IN [i \in 1..Cardinality(facts) |->
          LET e == CHOOSE f \in facts : Cardinality({g \in facts : g < f}) = i - 1
          IN [entity |-> e, event |-> Current[e]]]

\* Mutant of SourceCursor: the id that the next event will get.
NextSourceCursor(records) == Len(outbox) + 1

\* The id of the last event, read in the transaction that reads the tables.
SourceCursor(records) == Len(outbox)

\* The consumer asks by kind, one after the other, or for everything at once.
CreateReadAuthoritySnapshot(kinds, filters) ==
    LET records == Materialized(kinds) IN
    /\ consumer.phase = "resync"
    /\ Len(snapshots) < MaxSnapshots
    /\ \A e \in Entity : (Current[e] # 0 /\ KindOf[e] \in kinds) => Provenanced(e)
    /\ Len(records) <= MaxRecords
    /\ snapshots' = Append(snapshots, [cursor |-> SourceCursor(records), kinds |-> kinds,
                                       records |-> records, count |-> Len(records),
                                       expires |-> clock + TTL, present |-> TRUE])
    /\ consumer' = [consumer EXCEPT
                      !.phase = "ask", !.snapshot = Len(snapshots) + 1, !.kinds = kinds,
                      !.left = filters, !.after = 0, !.staged = Nothing]
    /\ UNCHANGED <<clock, outbox, horizon>>

\* The expiry is compared as text: a snapshot may go up to a second too early.
\* Its records go with it (ON DELETE CASCADE).
CleanupReadAuthoritySnapshots(s) ==
    /\ snapshots[s].present
    /\ NotAfterAsText(snapshots[s].expires, clock)
    /\ snapshots' = [snapshots EXCEPT ![s].present = FALSE, ![s].records = << >>]
    /\ UNCHANGED <<clock, outbox, horizon, consumer>>

\* The first query of a page request.  A snapshot that is gone or expired sends
\* the consumer back to bootstrap.
ReadMetadata(filter) ==
    LET s == snapshots[consumer.snapshot] IN
    /\ consumer.phase = "ask"
    /\ filter \in consumer.left
    /\ consumer.after # 0 => filter = consumer.filter
    /\ consumer' = IF s.present /\ clock < s.expires
                   THEN [consumer EXCEPT !.phase = "page", !.filter = filter]
                   ELSE [consumer EXCEPT !.phase = "resync"]
    /\ UNCHANGED <<clock, outbox, horizon, snapshots>>

\* The ordinals after the page cursor that pass the filter.
Matching(records, after, filter) ==
    {i \in 1..Len(records) : /\ i > after
                             /\ \/ filter = AnyKind
                                \/ KindOf[records[i].entity] = filter}

\* The first PageSize of them.
PageOf(left) == {i \in left : Cardinality({j \in left : j < i}) < PageSize}

\* Mutant of Verified: the number of records read is not compared.
AnyCount(s) == TRUE

\* The number of records read and their checksum agree with the metadata.
Verified(s) == Len(s.records) = s.count

Last(page) == CHOOSE i \in page : \A j \in page : j <= i

\* The second query: records, count, checksum, page and next cursor.  The
\* consumer stages the page; after the last one it installs what it staged and
\* continues at the snapshot's source cursor.
ListReadAuthoritySnapshotRecords ==
    LET s == snapshots[consumer.snapshot]
        left == Matching(s.records, consumer.after, consumer.filter)
        page == PageOf(left)
        complete == left = page
        staged == [e \in Entity |->
                     IF \E i \in page : s.records[i].entity = e
                     THEN s.records[CHOOSE i \in page : s.records[i].entity = e].event
                     ELSE consumer.staged[e]]
    IN
    /\ consumer.phase = "page"
    /\ consumer' =
         IF ~Verified(s) THEN [consumer EXCEPT !.phase = "resync"]
         ELSE IF ~complete
         THEN [consumer EXCEPT !.phase = "ask", !.staged = staged, !.after = Last(page)]
         ELSE IF consumer.left # {consumer.filter}
         THEN [consumer EXCEPT !.phase = "ask", !.staged = staged, !.after = 0,
                               !.left = @ \ {consumer.filter}]
         ELSE [consumer EXCEPT !.phase = "follow", !.view = staged, !.cursor = s.cursor,
                               !.staged = Nothing, !.left = {}, !.after = 0]
    /\ UNCHANGED <<clock, outbox, horizon, snapshots>>

(***************************************************************************)
(* The feed                                                                *)
(***************************************************************************)
Readable(after) == horizon <= after /\ after <= Len(outbox)

\* One answer of ListPlatformEventsAfter, applied: events after the cursor, in
\* order and without a hole, up to the limit; the consumer's cursor is that of
\* the last change it got, also when next_cursor is null.
ListPlatformEventsAfter ==
    LET after == consumer.cursor
        upTo == IF after + FeedSize < Len(outbox) THEN after + FeedSize ELSE Len(outbox)
    IN
    /\ consumer.phase = "follow"
    /\ consumer' =
         IF ~Readable(after)
         THEN [consumer EXCEPT !.phase = "resync"]
         ELSE [consumer EXCEPT
                 !.cursor = upTo,
                 !.view = [e \in Entity |->
                             LET new == {i \in (after + 1)..upTo : i > horizon /\ outbox[i] = e}
                             IN IF new = {} THEN @[e]
                                ELSE CHOOSE i \in new : \A j \in new : j <= i]]
    /\ UNCHANGED <<clock, outbox, horizon, snapshots>>

Read ==
    \/ \E filter \in Kinds \cup {AnyKind} : ReadMetadata(filter)
    \/ ListReadAuthoritySnapshotRecords
    \/ ListPlatformEventsAfter

Bootstrap ==
    \E kinds \in SUBSET Kinds \ {{}} :
        \E filters \in {{AnyKind}, kinds} : CreateReadAuthoritySnapshot(kinds, filters)

RANext ==
    \/ Tick
    \/ \E e \in Entity : Mutate(<<e>>)
    \/ \E e, f \in Entity : Mutate(<<e, f>>)
    \/ \E n \in 1..MaxTrim : Trim(n)
    \/ \E s \in 1..Len(snapshots) : CleanupReadAuthoritySnapshots(s)
    \/ Bootstrap
    \/ Read

RASpec == RAInit /\ [][RANext]_raVars

\* A consumer that keeps asking.
RAFairSpec == RASpec /\ WF_raVars(Bootstrap) /\ WF_raVars(Read)

(***************************************************************************)
(* Properties                                                              *)
(***************************************************************************)
\* Cursors and provenance name events that were committed.
RATypeOK ==
    /\ clock \in 0..MaxClock
    /\ outbox \in Seq(Entity)
    /\ horizon \in 0..Len(outbox)
    /\ \A s \in 1..Len(snapshots) :
          /\ snapshots[s].cursor \in 0..Len(outbox)
          /\ snapshots[s].records \in Seq([entity : Entity, event : 1..Len(outbox)])
    /\ consumer.phase \in {"resync", "ask", "page", "follow"}
    /\ consumer.view \in [Entity -> 0..Len(outbox)]
    /\ consumer.cursor \in 0..Len(outbox)

\* Whatever was committed while the consumer paged, however the pages were cut,
\* and whichever snapshots expired or were cleaned up meanwhile: a consumer that
\* follows the feed holds exactly the facts of one moment of the Platform, the
\* one its cursor names.
ViewIsTheStateAtItsCursor ==
    consumer.phase = "follow" =>
        \A e \in Entity :
            KindOf[e] \in consumer.kinds => consumer.view[e] = StateAt(consumer.cursor)[e]

\* A consumer that keeps asking, bootstrapping again when its snapshot expires
\* under it, holds in the end what the Platform holds, as long as the outbox is
\* kept from its beginning (a trimmed outbox may lack the provenance of a fact).
BecomesCurrent ==
    <>[](horizon = 0 =>
            /\ consumer.phase = "follow"
            /\ \A e \in Entity :
                  KindOf[e] \in consumer.kinds => consumer.view[e] = Current[e])
=============================================================================
