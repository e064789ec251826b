-------------------------- MODULE ReadAuthorityProofs --------------------------
(***************************************************************************)
(* A consumer that bootstraps from a snapshot and follows the feed holds   *)
(* the facts of the moment its cursor names: for any entities and kinds,   *)
(* page and answer sizes, and whatever is committed, trimmed, expired or   *)
(* cleaned up while it reads.                                              *)
(*                                                                         *)
(* The invariant has one part per stage of the bootstrap.  A snapshot      *)
(* whose number of records is right tells every fact of its kinds at its   *)
(* cursor (Tells).  What a consumer has staged is right, and a record it   *)
(* has not staged is still to come: a filter it has left to ask for finds  *)
(* it after the page cursor (Staging, ToCome).  Once installed, the view   *)
(* is that of the cursor (Following).  Committed events stay, so that the  *)
(* facts at a cursor never change (AtStays).                               *)
(***************************************************************************)
EXTENDS ReadAuthority, FiniteSetTheorems, WellFoundedInduction, TLAPS

\* StateAt of a given outbox.
StateOf(o, n) ==
    [e \in Entity |->
        LET about == {i \in 1..n : o[i] = e}
        IN IF about = {} THEN 0 ELSE CHOOSE i \in about : \A j \in about : j <= i]

At(o, n, e) == StateOf(o, n)[e]

\* v is the last of the first n events that is about e, or 0.
LastAbout(o, n, e, v) ==
    \/ v = 0 /\ \A i \in 1..n : o[i] # e
    \/ v \in 1..n /\ o[v] = e /\ \A i \in 1..n : o[i] = e => i <= v

Filter == Kinds \cup {AnyKind}
Record == [entity : Entity, event : Nat]
Snapshot == [cursor : Nat, kinds : SUBSET Kinds, records : Seq(Record), count : Nat,
             expires : Nat, present : BOOLEAN]
Client == [phase : {"resync", "ask", "page", "follow"}, snapshot : Nat, kinds : SUBSET Kinds,
           left : SUBSET Filter, after : Nat, filter : Filter, staged : [Entity -> Nat],
           view : [Entity -> Nat], cursor : Nat]

RATypes ==
    /\ clock \in Nat
    /\ outbox \in Seq(Entity)
    /\ horizon \in Nat
    /\ snapshots \in Seq(Snapshot)
    /\ consumer \in Client

\* A snapshot tells facts of its cursor, and all of them if none was deleted.
Tells(o, s) ==
    /\ s.cursor <= Len(o)
    /\ s.present => Len(s.records) = s.count
    /\ \A i \in 1..Len(s.records) : /\ s.records[i].event = At(o, s.cursor, s.records[i].entity)
                                    /\ KindOf[s.records[i].entity] \in s.kinds
    /\ Len(s.records) = s.count =>
          \A e \in Entity : (KindOf[e] \in s.kinds /\ At(o, s.cursor, e) # 0)
                               => \E i \in 1..Len(s.records) : s.records[i].entity = e

\* Record i is on a page the consumer has not read yet.
ToCome(c, s, i) ==
    \E f \in c.left : /\ f = AnyKind \/ KindOf[s.records[i].entity] = f
                      /\ f = c.filter => i > c.after

Staging(o, c, s) ==
    /\ c.kinds = s.kinds
    /\ \A e \in Entity : c.staged[e] \in {0, At(o, s.cursor, e)}
    /\ Len(s.records) = s.count =>
          \A i \in 1..Len(s.records) :
              ToCome(c, s, i)
                 \/ c.staged[s.records[i].entity] = At(o, s.cursor, s.records[i].entity)

Following(o, c) ==
    /\ c.cursor <= Len(o)
    /\ \A e \in Entity : KindOf[e] \in c.kinds => c.view[e] = At(o, c.cursor, e)

SnapshotsTell == \A s \in 1..Len(snapshots) : Tells(outbox, snapshots[s])

StagingIsSound ==
    consumer.phase \in {"ask", "page"} =>
        /\ consumer.snapshot \in 1..Len(snapshots)
        /\ Staging(outbox, consumer, snapshots[consumer.snapshot])

FollowingIsSound == consumer.phase = "follow" => Following(outbox, consumer)

RAInv == RATypes /\ SnapshotsTell /\ StagingIsSound /\ FollowingIsSound

(***************************************************************************)
(* Largest elements and cursors                                            *)
(***************************************************************************)
Less == OpToRel(<, Nat)

LEMMA LessIsWellFounded == IsWellFoundedOn(Less, Nat)
BY NatLessThanWellFounded, Zenon DEF Less

LEMMA LeastInLess ==
    ASSUME NEW T, T \subseteq Nat, T # {}
    PROVE  \E k \in T : \A l \in T : ~(<<l, k>> \in Less)
BY LessIsWellFounded, WFMin, Zenon

\* A non-empty set of naturals has a least element,
LEMMA LeastExists ==
    ASSUME NEW T, T \subseteq Nat, T # {}
    PROVE  \E k \in T : \A l \in T : k <= l
<1>1. PICK k \in T : \A l \in T : ~(<<l, k>> \in Less)
  BY LeastInLess
<1>2. ASSUME NEW l \in T PROVE k <= l
  <2>1. k \in Nat /\ l \in Nat /\ ~(<<l, k>> \in Less)
    BY <1>1
  <2>2. l < k => <<l, k>> \in Less
    BY <2>1 DEF Less, OpToRel
  <2> QED BY <2>1, <2>2
<1> QED BY <1>2

\* and, if it is bounded, a largest one.
LEMMA LargestExists ==
    ASSUME NEW n \in Nat, NEW T, T \subseteq 1..n, T # {}
    PROVE  \E i \in T : \A j \in T : j <= i
<1> DEFINE D == {k \in Nat : \E i \in T : k = n - i}
<1>1. D \subseteq Nat /\ D # {}
  <2>1. PICK i \in T : TRUE
    OBVIOUS
  <2>2. n - i \in D
    BY <2>1
  <2> QED BY <2>2
<1>2. PICK k \in D : \A l \in D : k <= l
  <2> HIDE DEF D
  <2> QED BY <1>1, LeastExists
<1>3. PICK i \in T : k = n - i
  BY <1>2
<1>4. ASSUME NEW j \in T PROVE j <= i
  <2>1. n - j \in D
    OBVIOUS
  <2>2. k <= n - j
    BY <1>2, <2>1
  <2> QED BY <1>3, <2>2
<1> QED BY <1>4

LEMMA LastIsLargest ==
    ASSUME NEW n \in Nat, NEW T, T \subseteq 1..n, T # {}
    PROVE  Last(T) \in T /\ \A j \in T : j <= Last(T)
<1>1. \E i \in T : \A j \in T : j <= i
  BY LargestExists
<1> QED BY <1>1, Zenon DEF Last

LEMMA LastAboutUnique ==
    ASSUME NEW o, NEW n \in Nat, NEW e, NEW v, NEW w,
           LastAbout(o, n, e, v), LastAbout(o, n, e, w)
    PROVE  v = w
BY DEF LastAbout

LEMMA AtIsLast ==
    ASSUME NEW o, NEW n \in Nat, NEW e \in Entity
    PROVE  LastAbout(o, n, e, At(o, n, e)) /\ At(o, n, e) \in 0..n
<1> DEFINE about == {i \in 1..n : o[i] = e}
<1>1. At(o, n, e) = IF about = {} THEN 0 ELSE Last(about)
  BY DEF At, StateOf, Last
<1>2. CASE about = {}
  <2>1. At(o, n, e) = 0
    BY <1>1, <1>2
  <2>2. \A i \in 1..n : o[i] # e
    BY <1>2
  <2> QED BY <2>1, <2>2 DEF LastAbout
<1>3. CASE about # {}
  <2>1. At(o, n, e) = Last(about)
    BY <1>1, <1>3
  <2>2. PICK v : v = Last(about)
    OBVIOUS
  <2>3. about \subseteq 1..n
    OBVIOUS
  <2>4. v \in about /\ \A j \in about : j <= v
    <3> HIDE DEF about
    <3> QED BY <1>3, <2>2, <2>3, LastIsLargest
  <2>5. LastAbout(o, n, e, v)
    BY <2>4 DEF LastAbout
  <2> QED BY <2>1, <2>2, <2>4, <2>5
<1> QED BY <1>2, <1>3

\* o is the beginning of p.
Extends(p, o) ==
    /\ o \in Seq(Entity) /\ p \in Seq(Entity)
    /\ Len(o) <= Len(p)
    /\ \A i \in 1..Len(o) : p[i] = o[i]

\* What was committed up to a cursor stays as it was.
LEMMA AtStays ==
    ASSUME NEW o, NEW p, Extends(p, o), NEW n \in Nat, n <= Len(o), NEW e \in Entity
    PROVE  At(p, n, e) = At(o, n, e)
<1>1. Len(o) \in Nat /\ \A i \in 1..n : p[i] = o[i]
  BY DEF Extends
<1>2. PICK v : v = At(p, n, e)
  OBVIOUS
<1>3. LastAbout(p, n, e, v)
  BY <1>2, AtIsLast
<1>4. LastAbout(o, n, e, v)
  BY <1>1, <1>3 DEF LastAbout
<1>5. LastAbout(o, n, e, At(o, n, e))
  BY AtIsLast
<1> QED BY <1>2, <1>4, <1>5, LastAboutUnique

LEMMA RecordFacts ==
    ASSUME NEW s \in Snapshot
    PROVE  /\ s.cursor \in Nat /\ s.count \in Nat /\ s.records \in Seq(Record)
           /\ Len(s.records) \in Nat
           /\ \A i \in 1..Len(s.records) : /\ s.records[i].entity \in Entity
                                           /\ s.records[i].event \in Nat
<1>1. s.cursor \in Nat /\ s.count \in Nat /\ s.records \in Seq(Record)
  BY DEF Snapshot
<1>2. PICK recs \in Seq(Record) : recs = s.records
  BY <1>1
<1>3. Len(recs) \in Nat /\ \A i \in 1..Len(recs) : recs[i] \in Record
  OBVIOUS
<1>4. \A i \in 1..Len(recs) : recs[i].entity \in Entity /\ recs[i].event \in Nat
  BY <1>3 DEF Record
<1> QED BY <1>1, <1>2, <1>3, <1>4

\* So what is said of the facts at a cursor stays true when more is committed.
LEMMA ExtensionKeeps ==
    ASSUME NEW o, NEW p, Extends(p, o)
    PROVE  /\ \A s \in Snapshot : Tells(o, s) => Tells(p, s)
           /\ \A s \in Snapshot, c \in Client :
                 (s.cursor <= Len(o) /\ Staging(o, c, s)) => Staging(p, c, s)
           /\ \A c \in Client : Following(o, c) => Following(p, c)
<1>1. Len(o) \in Nat /\ Len(p) \in Nat /\ Len(o) <= Len(p)
  BY DEF Extends
<1>2. ASSUME NEW s \in Snapshot, s.cursor <= Len(o), NEW e \in Entity
      PROVE  At(p, s.cursor, e) = At(o, s.cursor, e)
  <2>1. PICK n \in Nat : n = s.cursor
    BY DEF Snapshot
  <2> QED BY <1>2, <2>1, AtStays
<1>3. ASSUME NEW s \in Snapshot PROVE \A i \in 1..Len(s.records) : s.records[i].entity \in Entity
  BY RecordFacts
<1>4. ASSUME NEW s \in Snapshot, Tells(o, s) PROVE Tells(p, s)
  <2>1. s.cursor <= Len(o) /\ s.cursor \in Nat
    BY <1>4, RecordFacts DEF Tells
  <2>2. s.cursor <= Len(p)
    BY <1>1, <2>1
  <2> QED BY <1>2, <1>3, <1>4, <2>1, <2>2 DEF Tells
<1>5. ASSUME NEW s \in Snapshot, NEW c \in Client, s.cursor <= Len(o), Staging(o, c, s)
      PROVE  Staging(p, c, s)
  BY <1>2, <1>3, <1>5 DEF Staging
<1>6. ASSUME NEW c \in Client, Following(o, c) PROVE Following(p, c)
  <2>1. PICK n \in Nat : n = c.cursor
    BY DEF Client
  <2>2. n <= Len(p) /\ \A e \in Entity : At(p, n, e) = At(o, n, e)
    BY <1>1, <1>6, <2>1, AtStays DEF Following
  <2> QED BY <1>6, <2>1, <2>2 DEF Following
<1> QED BY <1>4, <1>5, <1>6

(***************************************************************************)
(* Making a snapshot                                                       *)
(***************************************************************************)
\* How many facts come before e.
Rank(F, e) == Cardinality({g \in F : g < e})

LEMMA RankFacts ==
    ASSUME NEW F, F \subseteq Nat, IsFiniteSet(F), NEW e \in F
    PROVE  /\ Rank(F, e) \in 0..(Cardinality(F) - 1)
           /\ \A f \in F : Rank(F, f) = Rank(F, e) => f = e
<1>1. Cardinality(F) \in Nat
  BY FS_CardinalityType
<1>2. ASSUME NEW f \in F
      PROVE  IsFiniteSet({g \in F : g < f}) /\ Rank(F, f) \in Nat /\ Rank(F, f) < Cardinality(F)
  <2> DEFINE S == {g \in F : g < f}
  <2>1. S \in SUBSET F /\ S # F
    BY <1>2
  <2>2. IsFiniteSet(S) /\ Cardinality(S) <= Cardinality(F) /\ Cardinality(F) # Cardinality(S)
    <3> HIDE DEF S
    <3> QED BY <2>1, FS_Subset
  <2>3. Cardinality(S) \in Nat
    <3> HIDE DEF S
    <3> QED BY <2>2, FS_CardinalityType
  <2> QED BY <1>1, <2>2, <2>3 DEF Rank
<1>3. ASSUME NEW f \in F, NEW h \in F, f < h PROVE Rank(F, f) < Rank(F, h)
  <2> DEFINE S == {g \in F : g < f}
             T == {g \in F : g < h}
  <2>1. S \in SUBSET T /\ S # T
    <3>1. f \in T /\ f \notin S
      BY <1>3
    <3>2. \A g \in S : g \in T
      BY <1>3
    <3> QED BY <3>1, <3>2
  <2>2. Cardinality(S) <= Cardinality(T) /\ Cardinality(S) # Cardinality(T)
    <3>1. IsFiniteSet(T)
      BY <1>2, <1>3
    <3> HIDE DEF S, T
    <3> QED BY <2>1, <3>1, FS_Subset
  <2>3. Rank(F, f) = Cardinality(S) /\ Rank(F, h) = Cardinality(T)
    BY DEF Rank
  <2>4. Rank(F, f) \in Nat /\ Rank(F, h) \in Nat
    BY <1>2, <1>3
  <2> QED BY <2>2, <2>3, <2>4
<1>4. ASSUME NEW f \in F, Rank(F, f) = Rank(F, e) PROVE f = e
  <2>1. /\ f < e => Rank(F, f) < Rank(F, e)
        /\ e < f => Rank(F, e) < Rank(F, f)
    BY <1>3
  <2>2. PICK k \in Nat : k = Rank(F, f) /\ k = Rank(F, e)
    BY <1>2, <1>4
  <2>3. ~(f < e) /\ ~(e < f)
    BY <2>1, <2>2
  <2>4. f \in Nat /\ e \in Nat
    OBVIOUS
  <2> QED BY <2>3, <2>4
<1>5. Rank(F, e) \in 0..(Cardinality(F) - 1)
  <2>1. PICK k \in Nat : k = Rank(F, e) /\ k < Cardinality(F)
    BY <1>2
  <2> QED BY <1>1, <2>1
<1> QED BY <1>4, <1>5

\* Every rank up to the number of facts is that of one of them.
LEMMA RanksAreTaken ==
    ASSUME NEW F, F \subseteq Nat, IsFiniteSet(F), NEW i \in 1..Cardinality(F)
    PROVE  \E f \in F : Rank(F, f) = i - 1
<1> DEFINE n == Cardinality(F)
           r == [f \in F |-> Rank(F, f)]
<1>1. n \in Nat
  BY FS_CardinalityType
<1>2. r \in Injection(F, 0..(n - 1))
  <2>1. \A f \in F : Rank(F, f) \in 0..(n - 1)
    BY RankFacts
  <2>2. \A f, g \in F : Rank(F, f) = Rank(F, g) => f = g
    BY RankFacts
  <2>3. r \in [F -> 0..(n - 1)]
    BY <2>1
  <2> QED BY <2>2, <2>3 DEF Injection, IsInjective
<1>3. IsFiniteSet(0..(n - 1)) /\ Cardinality(0..(n - 1)) = n
  <2>1. 0 \in Int /\ n - 1 \in Int
    BY <1>1
  <2>2. PICK m \in Int : m = n - 1
    BY <2>1
  <2>3. IsFiniteSet(0..m) /\ Cardinality(0..m) = IF 0 > m THEN 0 ELSE m - 0 + 1
    BY <2>1, FS_Interval, Zenon
  <2> QED BY <1>1, <2>2, <2>3
<1>4. r \in Surjection(F, 0..(n - 1))
  <2> HIDE DEF r, n
  <2> QED BY <1>2, <1>3, FS_Injection DEF n
<1>5. i - 1 \in 0..(n - 1)
  BY <1>1
<1>6. \E f \in F : r[f] = i - 1
  <2> HIDE DEF r, n
  <2> QED BY <1>4, <1>5 DEF Surjection
<1> QED BY <1>6

\* A snapshot lists the facts of its kinds, every one of them.
LEMMA MaterializedFacts ==
    ASSUME RATypes, NEW kinds \in SUBSET Kinds, NEW recs, recs = Materialized(kinds)
    PROVE  /\ recs \in Seq(Record)
           /\ \A i \in 1..Len(recs) : /\ recs[i].event = At(outbox, Len(outbox), recs[i].entity)
                                      /\ KindOf[recs[i].entity] \in kinds
           /\ \A e \in Entity : (KindOf[e] \in kinds /\ At(outbox, Len(outbox), e) # 0)
                                   => \E i \in 1..Len(recs) : recs[i].entity = e
<1> DEFINE F == {e \in Entity : Current[e] # 0 /\ KindOf[e] \in kinds}
           Of(i) == CHOOSE f \in F : Rank(F, f) = i - 1
<1>1. Len(outbox) \in Nat
  BY DEF RATypes
<1>2. \A e \in Entity : Current[e] = At(outbox, Len(outbox), e) /\ Current[e] \in Nat
  <2>1. \A e \in Entity : Current[e] = At(outbox, Len(outbox), e)
    BY DEF Current, At, StateAt, StateOf
  <2>2. \A e \in Entity : At(outbox, Len(outbox), e) \in Nat
    BY <1>1, AtIsLast
  <2> QED BY <2>1, <2>2
<1>3. F \subseteq Nat /\ F \subseteq Entity /\ IsFiniteSet(F) /\ Cardinality(F) \in Nat
  <2>1. F \in SUBSET Entity /\ Entity \subseteq Nat /\ IsFiniteSet(Entity)
    BY ReadAuthorityAssumption
  <2>2. IsFiniteSet(F)
    <3> HIDE DEF F
    <3> QED BY <2>1, FS_Subset
  <2>3. Cardinality(F) \in Nat
    <3> HIDE DEF F
    <3> QED BY <2>2, FS_CardinalityType
  <2> QED BY <2>1, <2>2, <2>3
<1>4. recs = [i \in 1..Cardinality(F) |-> [entity |-> Of(i), event |-> Current[Of(i)]]]
  BY DEF Materialized, Rank
<1>5. \A f \in F : f \in Entity /\ KindOf[f] \in kinds
  OBVIOUS
<1>6. \A e \in Entity : (KindOf[e] \in kinds /\ At(outbox, Len(outbox), e) # 0) => e \in F
  BY <1>2
<1> HIDE DEF F
<1>7. ASSUME NEW i \in 1..Cardinality(F) PROVE Of(i) \in F /\ Rank(F, Of(i)) = i - 1
  <2>1. \E f \in F : Rank(F, f) = i - 1
    BY <1>3, RanksAreTaken
  <2> QED BY <2>1, Zenon
<1>8. ASSUME NEW e \in F PROVE \E i \in 1..Cardinality(F) : Of(i) = e
  <2>0. PICK k \in 0..(Cardinality(F) - 1) : k = Rank(F, e)
    BY <1>3, RankFacts
  <2>1. PICK i \in Nat : i = k + 1
    BY <2>0
  <2>2. i \in 1..Cardinality(F) /\ Rank(F, e) = i - 1
    BY <1>3, <2>0, <2>1
  <2>3. Of(i) \in F /\ Rank(F, Of(i)) = Rank(F, e)
    BY <1>7, <2>2
  <2>4. \A f \in F : Rank(F, f) = Rank(F, e) => f = e
    BY <1>3, RankFacts
  <2> QED BY <2>2, <2>3, <2>4
<1> HIDE DEF Of
<1>9. Len(recs) = Cardinality(F) /\ recs \in Seq(Record)
  <2>1. \A i \in 1..Cardinality(F) : [entity |-> Of(i), event |-> Current[Of(i)]] \in Record
    BY <1>2, <1>3, <1>7 DEF Record
  <2> QED BY <1>3, <1>4, <2>1
<1>10. ASSUME NEW i \in 1..Len(recs)
       PROVE  recs[i].entity = Of(i) /\ recs[i].event = Current[Of(i)] /\ Of(i) \in F
  <2>1. i \in 1..Cardinality(F)
    BY <1>9
  <2>2. recs[i] = [entity |-> Of(i), event |-> Current[Of(i)]]
    BY <1>4, <2>1
  <2> QED BY <1>7, <2>1, <2>2
<1>11. ASSUME NEW i \in 1..Len(recs)
       PROVE  /\ recs[i].event = At(outbox, Len(outbox), recs[i].entity)
              /\ KindOf[recs[i].entity] \in kinds
  BY <1>2, <1>3, <1>5, <1>10
<1>12. ASSUME NEW e \in Entity, KindOf[e] \in kinds, At(outbox, Len(outbox), e) # 0
       PROVE  \E i \in 1..Len(recs) : recs[i].entity = e
  BY <1>6, <1>8, <1>9, <1>10, <1>12
<1> QED BY <1>9, <1>11, <1>12

(***************************************************************************)
(* Pages and answers of the feed                                           *)
(***************************************************************************)
\* A page that is not the last one leaves nothing out before its last record.
LEMMA PageFacts ==
    ASSUME NEW n \in Nat, NEW left, left \subseteq 1..n, NEW page, page = PageOf(left),
           left # page
    PROVE  Last(page) \in page /\ \A i \in left : i <= Last(page) => i \in page
<1> DEFINE Before(i) == {j \in left : j < i}
<1>1. page = {i \in left : Cardinality(Before(i)) < PageSize}
  BY DEF PageOf
<1>2. PageSize \in Nat /\ PageSize > 0
  BY ReadAuthorityAssumption
<1>3. IsFiniteSet(left)
  <2>1. 1 \in Int /\ n \in Int
    OBVIOUS
  <2>2. IsFiniteSet(1..n)
    BY <2>1, FS_Interval, Zenon
  <2> QED BY <2>2, FS_Subset
<1>4. \A i : IsFiniteSet(Before(i)) /\ Cardinality(Before(i)) \in Nat
  <2> TAKE i
  <2>1. Before(i) \in SUBSET left
    OBVIOUS
  <2>2. IsFiniteSet(Before(i))
    <3> HIDE DEF Before
    <3> QED BY <1>3, <2>1, FS_Subset
  <2>3. Cardinality(Before(i)) \in Nat
    <3> HIDE DEF Before
    <3> QED BY <2>2, FS_CardinalityType
  <2> QED BY <2>2, <2>3
<1>5. page # {}
  <2>1. left # {} /\ left \subseteq Nat
    BY <1>1
  <2>2. PICK k \in left : \A l \in left : k <= l
    BY <2>1, LeastExists
  <2>3. Before(k) = {}
    <3>1. \A l \in left : ~(l < k)
      BY <2>1, <2>2
    <3> QED BY <3>1
  <2>4. Cardinality(Before(k)) = 0
    BY <2>3, FS_EmptySet
  <2> QED BY <1>1, <1>2, <2>2, <2>4
<1>6. page \subseteq 1..n
  BY <1>1
<1>7. PICK l : l = Last(page)
  OBVIOUS
<1>8. l \in page /\ \A j \in page : j <= l
  BY <1>5, <1>6, <1>7, LastIsLargest
<1>9. ASSUME NEW i \in left, i <= l PROVE i \in page
  <2>1. Cardinality(Before(l)) < PageSize /\ l \in Nat /\ i \in Nat
    BY <1>1, <1>6, <1>8
  <2>2. Before(i) \in SUBSET Before(l)
    <3>1. \A j \in left : j \in Nat /\ (j < i => j < l)
      BY <1>9, <2>1
    <3> QED BY <3>1
  <2>3. Cardinality(Before(i)) <= Cardinality(Before(l))
    <3> HIDE DEF Before
    <3> QED BY <1>4, <2>2, FS_Subset
  <2>4. Cardinality(Before(i)) < PageSize
    <3> HIDE DEF Before
    <3> QED BY <1>2, <1>4, <2>1, <2>3
  <2> QED BY <1>1, <2>4
<1> QED BY <1>7, <1>8, <1>9

\* The events about e after cursor a, up to u, that are still there.
NewIn(o, h, a, u, e) == {i \in (a + 1)..u : i > h /\ o[i] = e}

\* The changes between two cursors lead from the facts at the one to those at the other.
LEMMA FeedFacts ==
    ASSUME NEW o, NEW a \in Nat, NEW u \in Nat, a <= u, NEW h \in Nat, h <= a, NEW e \in Entity
    PROVE  /\ NewIn(o, h, a, u, e) = {} => At(o, u, e) = At(o, a, e)
           /\ NewIn(o, h, a, u, e) # {} => At(o, u, e) = Last(NewIn(o, h, a, u, e))
<1>0. PICK new : new = NewIn(o, h, a, u, e)
  OBVIOUS
<1>1. LastAbout(o, u, e, At(o, u, e)) /\ LastAbout(o, a, e, At(o, a, e))
  BY AtIsLast
<1>2. \A i \in 1..u : i \in 1..a \/ o[i] # e \/ i \in new
  BY <1>0 DEF NewIn
<1>3. CASE new = {}
  <2>1. PICK v : v = At(o, a, e)
    OBVIOUS
  <2>2. LastAbout(o, u, e, v)
    <3>1. LastAbout(o, a, e, v) /\ \A i \in 1..u : o[i] = e => i \in 1..a
      BY <1>1, <1>2, <1>3, <2>1
    <3> QED BY <3>1 DEF LastAbout
  <2>3. At(o, u, e) = v
    BY <1>1, <2>2, LastAboutUnique
  <2> QED BY <1>0, <1>3, <2>1, <2>3
<1>4. CASE new # {}
  <2>1. new \subseteq 1..u /\ \A i \in new : i > a /\ o[i] = e
    BY <1>0 DEF NewIn
  <2>2. PICK v : v = Last(new)
    OBVIOUS
  <2>3. v \in new /\ \A j \in new : j <= v
    BY <1>4, <2>1, <2>2, LastIsLargest
  <2>4. LastAbout(o, u, e, v)
    <3>1. v \in 1..u /\ o[v] = e /\ v > a
      BY <2>1, <2>3
    <3>2. \A i \in 1..u : o[i] = e => i <= v
      BY <1>2, <2>3, <3>1
    <3> QED BY <3>1, <3>2 DEF LastAbout
  <2>5. At(o, u, e) = v
    BY <1>1, <2>4, LastAboutUnique
  <2> QED BY <1>0, <1>4, <2>2, <2>5
<1> QED BY <1>3, <1>4

(***************************************************************************)
(* The steps                                                               *)
(***************************************************************************)
LEMMA SnapshotShape ==
    ASSUME RATypes, NEW s \in 1..Len(snapshots)
    PROVE  snapshots[s] \in Snapshot
BY DEF RATypes

\* Nothing is said of the clock and of the horizon.
LEMMA OutsideInv ==
    ASSUME RAInv, clock' \in Nat, horizon' \in Nat, UNCHANGED <<outbox, snapshots, consumer>>
    PROVE  RAInv'
<1>1. RATypes'
  BY DEF RAInv, RATypes
<1>2. SnapshotsTell' /\ StagingIsSound' /\ FollowingIsSound'
  BY DEF RAInv, SnapshotsTell, StagingIsSound, FollowingIsSound
<1> QED BY <1>1, <1>2 DEF RAInv

LEMMA MutateInv ==
    ASSUME RAInv, NEW es \in Seq(Entity), Mutate(es)
    PROVE  RAInv'
<1>1. RATypes /\ SnapshotsTell /\ StagingIsSound /\ FollowingIsSound
  BY DEF RAInv
<1>2. outbox' = outbox \o es /\ UNCHANGED <<clock, horizon, snapshots, consumer>>
  BY DEF Mutate
<1>3. Extends(outbox', outbox)
  <2>1. outbox \in Seq(Entity)
    BY <1>1 DEF RATypes
  <2>2. /\ outbox \o es \in Seq(Entity) /\ Len(outbox) <= Len(outbox \o es)
        /\ \A i \in 1..Len(outbox) : (outbox \o es)[i] = outbox[i]
    BY <2>1
  <2> QED BY <1>2, <2>1, <2>2 DEF Extends
<1>4. RATypes'
  BY <1>1, <1>2, <1>3 DEF RATypes, Extends
<1>5. SnapshotsTell'
  <2> SUFFICES ASSUME NEW s \in 1..Len(snapshots) PROVE Tells(outbox', snapshots[s])
    BY <1>2 DEF SnapshotsTell
  <2>1. snapshots[s] \in Snapshot /\ Tells(outbox, snapshots[s])
    BY <1>1, SnapshotShape DEF SnapshotsTell
  <2> QED BY <1>3, <2>1, ExtensionKeeps
<1>6. StagingIsSound'
  <2> SUFFICES ASSUME consumer.phase \in {"ask", "page"}
               PROVE  /\ consumer.snapshot \in 1..Len(snapshots)
                      /\ Staging(outbox', consumer, snapshots[consumer.snapshot])
    BY <1>2 DEF StagingIsSound
  <2>1. /\ consumer.snapshot \in 1..Len(snapshots)
        /\ Staging(outbox, consumer, snapshots[consumer.snapshot])
    BY <1>1 DEF StagingIsSound
  <2>2. PICK s \in Snapshot : s = snapshots[consumer.snapshot]
    BY <1>1, <2>1, SnapshotShape
  <2>3. consumer \in Client /\ s.cursor <= Len(outbox)
    BY <1>1, <2>1, <2>2 DEF RATypes, SnapshotsTell, Tells
  <2> QED BY <1>3, <2>1, <2>2, <2>3, ExtensionKeeps
<1>7. FollowingIsSound'
  <2> SUFFICES ASSUME consumer.phase = "follow" PROVE Following(outbox', consumer)
    BY <1>2 DEF FollowingIsSound
  <2>1. consumer \in Client /\ Following(outbox, consumer)
    BY <1>1 DEF RATypes, FollowingIsSound
  <2> QED BY <1>3, <2>1, ExtensionKeeps
<1> QED BY <1>4, <1>5, <1>6, <1>7 DEF RAInv

LEMMA CreateInv ==
    ASSUME RAInv, NEW kinds \in SUBSET Kinds, NEW filters \in {{AnyKind}, kinds},
           CreateReadAuthoritySnapshot(kinds, filters)
    PROVE  RAInv'
<1>1. RATypes /\ SnapshotsTell
  BY DEF RAInv
<1>2. PICK recs : recs = Materialized(kinds)
  OBVIOUS
<1>3. /\ recs \in Seq(Record)
      /\ \A i \in 1..Len(recs) : /\ recs[i].event = At(outbox, Len(outbox), recs[i].entity)
                                 /\ KindOf[recs[i].entity] \in kinds
      /\ \A e \in Entity : (KindOf[e] \in kinds /\ At(outbox, Len(outbox), e) # 0)
                              => \E i \in 1..Len(recs) : recs[i].entity = e
  BY <1>1, <1>2, MaterializedFacts
<1>4. PICK n, x, l : n = Len(outbox) /\ x = clock + TTL /\ l = Len(recs)
  OBVIOUS
<1>5. n \in Nat /\ x \in Nat /\ l \in Nat
  BY <1>1, <1>3, <1>4, ReadAuthorityAssumption DEF RATypes
<1>6. PICK new : new = [cursor |-> n, kinds |-> kinds, records |-> recs, count |-> l,
                        expires |-> x, present |-> TRUE]
  OBVIOUS
<1>7. /\ new \in Snapshot /\ new.cursor = n /\ new.kinds = kinds /\ new.records = recs
      /\ new.count = l
  BY <1>3, <1>5, <1>6 DEF Snapshot
<1>8. PICK last : last = Len(snapshots) + 1
  OBVIOUS
<1>9. PICK none : none = Nothing
  OBVIOUS
<1>10. /\ snapshots' = Append(snapshots, new)
       /\ consumer' = [consumer EXCEPT !.phase = "ask", !.snapshot = last, !.kinds = kinds,
                                       !.left = filters, !.after = 0, !.staged = none]
       /\ UNCHANGED <<clock, outbox, horizon>>
  BY <1>2, <1>4, <1>6, <1>8, <1>9 DEF CreateReadAuthoritySnapshot, SourceCursor
<1>11. /\ snapshots \in Seq(Snapshot) /\ Len(snapshots) \in Nat /\ last \in Nat
       /\ consumer \in Client
  BY <1>1, <1>8 DEF RATypes
<1>12. /\ snapshots' \in Seq(Snapshot) /\ Len(snapshots') = last /\ snapshots'[last] = new
       /\ \A s \in 1..Len(snapshots) : snapshots'[s] = snapshots[s]
  BY <1>7, <1>8, <1>10, <1>11
<1>13. none \in [Entity -> Nat] /\ \A e \in Entity : none[e] = 0
  BY <1>9 DEF Nothing
<1>14. filters \in SUBSET Filter
  BY DEF Filter
<1>15. /\ consumer' \in Client /\ consumer'.phase = "ask" /\ consumer'.snapshot = last
       /\ consumer'.kinds = kinds /\ consumer'.left = filters /\ consumer'.after = 0
       /\ consumer'.staged = none
  BY <1>10, <1>11, <1>13, <1>14 DEF Client
<1>16. RATypes'
  BY <1>1, <1>10, <1>12, <1>15 DEF RATypes
<1>17. Tells(outbox, new)
  BY <1>3, <1>4, <1>5, <1>7 DEF Tells
<1>18. SnapshotsTell'
  <2> SUFFICES ASSUME NEW s \in 1..Len(snapshots') PROVE Tells(outbox, snapshots'[s])
    BY <1>10 DEF SnapshotsTell
  <2>1. CASE s = last
    BY <1>12, <1>17, <2>1
  <2>2. CASE s # last
    <3>1. s \in 1..Len(snapshots)
      BY <1>8, <1>11, <1>12, <2>2
    <3> QED BY <1>1, <1>12, <3>1 DEF SnapshotsTell
  <2> QED BY <2>1, <2>2
<1>19. ASSUME NEW i \in 1..Len(recs) PROVE ToCome(consumer', new, i)
  <2>1. PICK f \in filters : f = AnyKind \/ KindOf[new.records[i].entity] = f
    BY <1>3, <1>7
  <2> QED BY <1>5, <1>15, <2>1 DEF ToCome
<1>20. Staging(outbox, consumer', new)
  BY <1>7, <1>13, <1>15, <1>19 DEF Staging
<1>21. StagingIsSound'
  <2>1. last \in 1..Len(snapshots')
    BY <1>8, <1>11, <1>12
  <2> QED BY <1>10, <1>12, <1>15, <1>20, <2>1 DEF StagingIsSound
<1>22. FollowingIsSound'
  BY <1>15 DEF FollowingIsSound
<1> QED BY <1>16, <1>18, <1>21, <1>22 DEF RAInv

LEMMA CleanupInv ==
    ASSUME RAInv, NEW s \in 1..Len(snapshots), CleanupReadAuthoritySnapshots(s)
    PROVE  RAInv'
<1>1. RATypes /\ SnapshotsTell /\ StagingIsSound /\ FollowingIsSound
  BY DEF RAInv
<1>2. /\ snapshots[s].present /\ UNCHANGED <<clock, outbox, horizon, consumer>>
      /\ snapshots' = [snapshots EXCEPT ![s].present = FALSE, ![s].records = << >>]
  BY DEF CleanupReadAuthoritySnapshots
<1>3. PICK old \in Snapshot : old = snapshots[s]
  BY <1>1, SnapshotShape
<1>4. PICK gone : gone = [old EXCEPT !.present = FALSE, !.records = << >>]
  OBVIOUS
<1>5. /\ gone \in Snapshot /\ gone.cursor = old.cursor /\ gone.kinds = old.kinds
      /\ gone.count = old.count /\ gone.records = << >> /\ gone.present = FALSE
  <2>0. << >> \in Seq(Record)
    OBVIOUS
  <2>1. PICK empty \in Seq(Record) : empty = << >>
    BY <2>0, Zenon
  <2>2. gone = [old EXCEPT !.present = FALSE, !.records = empty]
    BY <1>4, <2>1
  <2>3. /\ gone \in Snapshot /\ gone.cursor = old.cursor /\ gone.kinds = old.kinds
        /\ gone.count = old.count /\ gone.records = empty /\ gone.present = FALSE
    BY <2>2 DEF Snapshot
  <2> QED BY <2>1, <2>3
<1>6. snapshots \in Seq(Snapshot)
  BY <1>1 DEF RATypes
<1>7. snapshots' = [snapshots EXCEPT ![s] = gone]
  BY <1>2, <1>3, <1>4, <1>6
<1>8. /\ snapshots' \in Seq(Snapshot) /\ Len(snapshots') = Len(snapshots) /\ snapshots'[s] = gone
      /\ \A t \in 1..Len(snapshots) : t # s => snapshots'[t] = snapshots[t]
  BY <1>5, <1>6, <1>7
<1>9. Len(gone.records) = 0
  BY <1>5
<1>10. Tells(outbox, old)
  BY <1>1, <1>3 DEF SnapshotsTell
<1>11. Tells(outbox, gone)
  <2>1. old.present /\ Len(old.records) = old.count
    BY <1>2, <1>3, <1>10 DEF Tells
  <2>2. ASSUME Len(gone.records) = gone.count, NEW e \in Entity,
               KindOf[e] \in gone.kinds, At(outbox, gone.cursor, e) # 0
        PROVE  FALSE
    <3>1. Len(old.records) = 0
      BY <1>5, <1>9, <2>1, <2>2
    <3>2. \E i \in 1..Len(old.records) : old.records[i].entity = e
      BY <1>5, <1>10, <2>1, <2>2 DEF Tells
    <3> QED BY <3>1, <3>2
  <2>3. gone.cursor <= Len(outbox) /\ ~gone.present
    BY <1>5, <1>10 DEF Tells
  <2> QED BY <1>9, <2>2, <2>3 DEF Tells
<1>12. RATypes'
  BY <1>1, <1>2, <1>8 DEF RATypes
<1>13. SnapshotsTell'
  <2> SUFFICES ASSUME NEW t \in 1..Len(snapshots) PROVE Tells(outbox, snapshots'[t])
    BY <1>2, <1>8 DEF SnapshotsTell
  <2>1. CASE t = s
    BY <1>8, <1>11, <2>1
  <2>2. CASE t # s
    BY <1>1, <1>8, <2>2 DEF SnapshotsTell
  <2> QED BY <2>1, <2>2
<1>14. StagingIsSound'
  <2> SUFFICES ASSUME consumer.phase \in {"ask", "page"}
               PROVE  /\ consumer.snapshot \in 1..Len(snapshots)
                      /\ Staging(outbox, consumer, snapshots'[consumer.snapshot])
    BY <1>2, <1>8 DEF StagingIsSound
  <2>1. /\ consumer.snapshot \in 1..Len(snapshots)
        /\ Staging(outbox, consumer, snapshots[consumer.snapshot])
    BY <1>1 DEF StagingIsSound
  <2>2. CASE consumer.snapshot = s
    <3>1. Staging(outbox, consumer, old)
      BY <1>3, <2>1, <2>2
    <3>2. Staging(outbox, consumer, gone)
      BY <1>5, <1>9, <3>1 DEF Staging
    <3> QED BY <1>8, <2>1, <2>2, <3>2
  <2>3. CASE consumer.snapshot # s
    BY <1>8, <2>1, <2>3
  <2> QED BY <2>2, <2>3
<1>15. FollowingIsSound'
  BY <1>1, <1>2 DEF FollowingIsSound
<1> QED BY <1>12, <1>13, <1>14, <1>15 DEF RAInv

\* Only the consumer moves.
LEMMA ConsumerMoves ==
    ASSUME RAInv, NEW c \in Client, consumer' = c, UNCHANGED <<clock, outbox, horizon, snapshots>>,
           c.phase \in {"ask", "page"} =>
              /\ c.snapshot \in 1..Len(snapshots)
              /\ Staging(outbox, c, snapshots[c.snapshot]),
           c.phase = "follow" => Following(outbox, c)
    PROVE  RAInv'
<1>1. RATypes'
  BY DEF RAInv, RATypes
<1>2. SnapshotsTell'
  BY DEF RAInv, SnapshotsTell
<1>3. StagingIsSound' /\ FollowingIsSound'
  BY DEF StagingIsSound, FollowingIsSound
<1> QED BY <1>1, <1>2, <1>3 DEF RAInv

\* Back to the bootstrap.
LEMMA ResyncInv ==
    ASSUME RAInv, consumer' = [consumer EXCEPT !.phase = "resync"],
           UNCHANGED <<clock, outbox, horizon, snapshots>>
    PROVE  RAInv'
<1>1. PICK c : c = [consumer EXCEPT !.phase = "resync"]
  OBVIOUS
<1>2. c \in Client /\ c.phase = "resync"
  BY <1>1 DEF RAInv, RATypes, Client
<1> QED BY <1>1, <1>2, ConsumerMoves

LEMMA MetadataInv ==
    ASSUME RAInv, NEW filter \in Filter, ReadMetadata(filter)
    PROVE  RAInv'
<1>1. /\ consumer \in Client /\ consumer.phase = "ask"
      /\ consumer.after # 0 => filter = consumer.filter
      /\ UNCHANGED <<clock, outbox, horizon, snapshots>>
  BY DEF ReadMetadata, RAInv, RATypes
<1>2. CASE consumer' = [consumer EXCEPT !.phase = "resync"]
  BY <1>1, <1>2, ResyncInv
<1>3. CASE consumer' = [consumer EXCEPT !.phase = "page", !.filter = filter]
  <2>1. PICK c : c = [consumer EXCEPT !.phase = "page", !.filter = filter]
    OBVIOUS
  <2>2. /\ c \in Client /\ c.phase = "page" /\ c.filter = filter
        /\ c.snapshot = consumer.snapshot /\ c.kinds = consumer.kinds /\ c.left = consumer.left
        /\ c.after = consumer.after /\ c.staged = consumer.staged
    BY <1>1, <2>1 DEF Client
  <2>3. /\ consumer.snapshot \in 1..Len(snapshots)
        /\ Staging(outbox, consumer, snapshots[consumer.snapshot])
    BY <1>1 DEF RAInv, StagingIsSound
  <2>4. PICK s : s = snapshots[consumer.snapshot]
    OBVIOUS
  <2>5. ASSUME NEW i \in 1..Len(s.records), ToCome(consumer, s, i) PROVE ToCome(c, s, i)
    <3>1. PICK f \in consumer.left : /\ f = AnyKind \/ KindOf[s.records[i].entity] = f
                                     /\ f = consumer.filter => i > consumer.after
      BY <2>5 DEF ToCome
    <3>2. f = c.filter => i > c.after
      <4>1. CASE consumer.after = 0
        BY <2>2, <4>1
      <4>2. CASE consumer.after # 0
        BY <1>1, <2>2, <3>1, <4>2
      <4> QED BY <4>1, <4>2
    <3> QED BY <2>2, <3>1, <3>2 DEF ToCome
  <2>6. Staging(outbox, c, s)
    <3>1. Staging(outbox, consumer, s)
      BY <2>3, <2>4
    <3> QED BY <2>2, <2>5, <3>1 DEF Staging
  <2> QED BY <1>1, <1>3, <2>1, <2>2, <2>3, <2>4, <2>6, ConsumerMoves
<1> QED BY <1>2, <1>3 DEF ReadMetadata

\* The page is staged: what is right stays right, and the page's records are right.
StagedWith(c, s, page) ==
    [e \in Entity |-> IF \E i \in page : s.records[i].entity = e
                      THEN s.records[CHOOSE i \in page : s.records[i].entity = e].event
                      ELSE c.staged[e]]

\* What staging a page achieves.
StagedRight(o, c, s, page, staged) ==
    /\ staged \in [Entity -> Nat]
    /\ \A e \in Entity : staged[e] \in {0, At(o, s.cursor, e)}
    /\ \A i \in page : staged[s.records[i].entity] = At(o, s.cursor, s.records[i].entity)
    /\ \A e \in Entity : c.staged[e] = At(o, s.cursor, e) => staged[e] = At(o, s.cursor, e)

LEMMA StagedFacts ==
    ASSUME NEW o, NEW c \in Client, NEW s \in Snapshot, Tells(o, s), Staging(o, c, s),
           NEW page, page \subseteq 1..Len(s.records), NEW staged, staged = StagedWith(c, s, page)
    PROVE  StagedRight(o, c, s, page, staged)
<1>1. /\ c.staged \in [Entity -> Nat] /\ \A e \in Entity : c.staged[e] \in {0, At(o, s.cursor, e)}
  BY DEF Client, Staging
<1>2. \A i \in page : /\ s.records[i].entity \in Entity /\ s.records[i].event \in Nat
                      /\ s.records[i].event = At(o, s.cursor, s.records[i].entity)
  BY RecordFacts DEF Tells
<1>3. ASSUME NEW e \in Entity, \E i \in page : s.records[i].entity = e
      PROVE  staged[e] = At(o, s.cursor, e) /\ staged[e] \in Nat
  <2>1. PICK k : k = CHOOSE i \in page : s.records[i].entity = e
    OBVIOUS
  <2>2. k \in page /\ s.records[k].entity = e
    BY <1>3, <2>1, Zenon
  <2>3. staged[e] = s.records[k].event
    BY <1>3, <2>1 DEF StagedWith
  <2> QED BY <1>2, <2>2, <2>3
<1>4. ASSUME NEW e \in Entity, ~\E i \in page : s.records[i].entity = e
      PROVE  staged[e] = c.staged[e]
  BY <1>4 DEF StagedWith
<1>5. staged \in [Entity -> Nat]
  <2>1. \A e \in Entity : staged[e] \in Nat
    BY <1>1, <1>3, <1>4
  <2>2. staged = [e \in Entity |-> staged[e]]
    BY DEF StagedWith
  <2> QED BY <2>1, <2>2
<1>6. ASSUME NEW e \in Entity
      PROVE  /\ staged[e] \in {0, At(o, s.cursor, e)}
             /\ c.staged[e] = At(o, s.cursor, e) => staged[e] = At(o, s.cursor, e)
  BY <1>1, <1>3, <1>4
<1>7. ASSUME NEW i \in page
      PROVE  staged[s.records[i].entity] = At(o, s.cursor, s.records[i].entity)
  BY <1>2, <1>3
<1> QED BY <1>5, <1>6, <1>7 DEF StagedRight

LEMMA PageInv ==
    ASSUME RAInv, ListReadAuthoritySnapshotRecords
    PROVE  RAInv'
<1>1. RATypes /\ SnapshotsTell /\ StagingIsSound /\ consumer \in Client
  BY DEF RAInv, RATypes
<1>2. consumer.phase = "page" /\ UNCHANGED <<clock, outbox, horizon, snapshots>>
  BY DEF ListReadAuthoritySnapshotRecords
<1>3. /\ consumer.snapshot \in 1..Len(snapshots)
      /\ Staging(outbox, consumer, snapshots[consumer.snapshot])
  BY <1>1, <1>2 DEF StagingIsSound
<1> DEFINE s == snapshots[consumer.snapshot]
           left == Matching(s.records, consumer.after, consumer.filter)
           page == PageOf(left)
           staged == StagedWith(consumer, s, page)
<1>0. consumer' =
         IF ~Verified(s) THEN [consumer EXCEPT !.phase = "resync"]
         ELSE IF ~(left = page)
         THEN [consumer EXCEPT !.phase = "ask", !.staged = staged, !.after = Last(page)]
         ELSE IF consumer.left # {consumer.filter}
         THEN [consumer EXCEPT !.phase = "ask", !.staged = staged, !.after = 0,
                               !.left = @ \ {consumer.filter}]
         ELSE [consumer EXCEPT !.phase = "follow", !.view = staged, !.cursor = s.cursor,
                               !.staged = Nothing, !.left = {}, !.after = 0]
  BY DEF ListReadAuthoritySnapshotRecords, StagedWith
<1>4. s \in Snapshot /\ s = snapshots[consumer.snapshot]
  BY <1>1, <1>3, SnapshotShape
<1>5. Tells(outbox, s) /\ Staging(outbox, consumer, s)
  BY <1>1, <1>3, <1>4 DEF SnapshotsTell
<1>6. left = Matching(s.records, consumer.after, consumer.filter)
  OBVIOUS
<1>7. page = PageOf(left)
  OBVIOUS
<1>8. staged = StagedWith(consumer, s, page)
  OBVIOUS
<1> HIDE DEF s, left, page, staged
<1>9. /\ Len(s.records) \in Nat /\ left \subseteq 1..Len(s.records)
      /\ page \subseteq left
  BY <1>4, <1>6, <1>7, RecordFacts DEF Matching, PageOf
<1>10. /\ staged \in [Entity -> Nat]
       /\ \A e \in Entity : staged[e] \in {0, At(outbox, s.cursor, e)}
       /\ \A i \in page : staged[s.records[i].entity] = At(outbox, s.cursor, s.records[i].entity)
       /\ \A e \in Entity : consumer.staged[e] = At(outbox, s.cursor, e)
                               => staged[e] = At(outbox, s.cursor, e)
  <2>1. page \subseteq 1..Len(s.records)
    BY <1>9
  <2>2. StagedRight(outbox, consumer, s, page, staged)
    BY <1>1, <1>4, <1>5, <1>8, <2>1, StagedFacts, Zenon
  <2> QED BY <2>2 DEF StagedRight
<1>11. \A i \in 1..Len(s.records) : s.records[i].entity \in Entity
  BY <1>4, RecordFacts
<1>12. CASE ~Verified(s)
  <2>1. consumer' = [consumer EXCEPT !.phase = "resync"]
    BY <1>0, <1>12
  <2> QED BY <1>2, <2>1, ResyncInv
<1>13. ASSUME Verified(s), NEW i \in 1..Len(s.records),
              staged[s.records[i].entity] # At(outbox, s.cursor, s.records[i].entity)
       PROVE  /\ i \notin page
              /\ \E f \in consumer.left : /\ f = AnyKind \/ KindOf[s.records[i].entity] = f
                                          /\ f = consumer.filter => i \in left
  <2>1. i \notin page /\ consumer.staged[s.records[i].entity] # At(outbox, s.cursor, s.records[i].entity)
    BY <1>10, <1>11, <1>13
  <2>2. ToCome(consumer, s, i)
    BY <1>5, <1>13, <2>1 DEF Staging, Verified
  <2>3. PICK f \in consumer.left : /\ f = AnyKind \/ KindOf[s.records[i].entity] = f
                                   /\ f = consumer.filter => i > consumer.after
    BY <2>2 DEF ToCome
  <2>4. f = consumer.filter => i \in left
    BY <1>6, <2>3 DEF Matching
  <2> QED BY <2>1, <2>3, <2>4
<1>14. CASE Verified(s) /\ left # page
  <2>1. PICK l : l = Last(page)
    OBVIOUS
  <2>2. l \in page /\ \A i \in left : i <= l => i \in page
    BY <1>7, <1>9, <1>14, <2>1, PageFacts
  <2>3. l \in Nat
    BY <1>9, <2>2
  <2>4. consumer' = [consumer EXCEPT !.phase = "ask", !.staged = staged, !.after = l]
    BY <1>0, <1>14, <2>1
  <2>5. PICK c : c = [consumer EXCEPT !.phase = "ask", !.staged = staged, !.after = l]
    OBVIOUS
  <2>6. /\ c \in Client /\ c.phase = "ask" /\ c.staged = staged /\ c.after = l
        /\ c.snapshot = consumer.snapshot /\ c.kinds = consumer.kinds /\ c.left = consumer.left
        /\ c.filter = consumer.filter
    BY <1>1, <1>10, <2>3, <2>5 DEF Client
  <2>7. ASSUME NEW i \in 1..Len(s.records),
               staged[s.records[i].entity] # At(outbox, s.cursor, s.records[i].entity)
        PROVE  ToCome(c, s, i)
    <3>1. i \notin page
      BY <1>13, <1>14, <2>7
    <3>2. PICK f \in consumer.left : /\ f = AnyKind \/ KindOf[s.records[i].entity] = f
                                     /\ f = consumer.filter => i \in left
      BY <1>13, <1>14, <2>7
    <3>3. f = c.filter => i > c.after
      BY <1>9, <2>2, <2>3, <2>6, <3>1, <3>2
    <3> QED BY <2>6, <3>2, <3>3 DEF ToCome
  <2>8. Staging(outbox, c, s)
    BY <1>5, <1>10, <2>6, <2>7 DEF Staging
  <2> QED BY <1>2, <1>3, <1>4, <2>4, <2>5, <2>6, <2>8, ConsumerMoves
<1>15. CASE Verified(s) /\ left = page /\ consumer.left # {consumer.filter}
  <2>1. PICK rest : rest = consumer.left \ {consumer.filter}
    OBVIOUS
  <2>2. consumer' = [consumer EXCEPT !.phase = "ask", !.staged = staged, !.after = 0,
                                     !.left = rest]
    <3>1. consumer' = [consumer EXCEPT !.phase = "ask", !.staged = staged, !.after = 0,
                                       !.left = @ \ {consumer.filter}]
      BY <1>0, <1>15, Zenon
    <3> QED BY <1>1, <2>1, <3>1 DEF Client
  <2>3. PICK c : c = [consumer EXCEPT !.phase = "ask", !.staged = staged, !.after = 0,
                                      !.left = rest]
    OBVIOUS
  <2>4. rest \in SUBSET Filter
    BY <1>1, <2>1 DEF Client
  <2>5. /\ c \in Client /\ c.phase = "ask" /\ c.staged = staged /\ c.after = 0
        /\ c.snapshot = consumer.snapshot /\ c.kinds = consumer.kinds /\ c.left = rest
    BY <1>1, <1>10, <2>3, <2>4 DEF Client
  <2>6. ASSUME NEW i \in 1..Len(s.records),
               staged[s.records[i].entity] # At(outbox, s.cursor, s.records[i].entity)
        PROVE  ToCome(c, s, i)
    <3>1. i \notin page
      BY <1>13, <1>15, <2>6
    <3>2. PICK f \in consumer.left : /\ f = AnyKind \/ KindOf[s.records[i].entity] = f
                                     /\ f = consumer.filter => i \in left
      BY <1>13, <1>15, <2>6
    <3>3. f \in rest
      BY <1>15, <2>1, <3>1, <3>2
    <3>4. i > c.after
      BY <2>5
    <3> QED BY <2>5, <3>2, <3>3, <3>4 DEF ToCome
  <2>7. Staging(outbox, c, s)
    BY <1>5, <1>10, <2>5, <2>6 DEF Staging
  <2> QED BY <1>2, <1>3, <1>4, <2>2, <2>3, <2>5, <2>7, ConsumerMoves
<1>16. CASE Verified(s) /\ left = page /\ consumer.left = {consumer.filter}
  <2>1. PICK n, none : n = s.cursor /\ none = Nothing
    OBVIOUS
  <2>2. consumer' = [consumer EXCEPT !.phase = "follow", !.view = staged, !.cursor = n,
                                     !.staged = none, !.left = {}, !.after = 0]
    BY <1>0, <1>16, <2>1, Zenon
  <2>3. PICK c : c = [consumer EXCEPT !.phase = "follow", !.view = staged, !.cursor = n,
                                      !.staged = none, !.left = {}, !.after = 0]
    OBVIOUS
  <2>4. n \in Nat /\ none \in [Entity -> Nat] /\ n <= Len(outbox)
    BY <1>4, <1>5, <2>1, RecordFacts DEF Nothing, Tells
  <2>5. /\ c \in Client /\ c.phase = "follow" /\ c.view = staged /\ c.cursor = n
        /\ c.kinds = consumer.kinds
    BY <1>1, <1>10, <2>3, <2>4 DEF Client
  <2>6. ASSUME NEW i \in 1..Len(s.records)
        PROVE  staged[s.records[i].entity] = At(outbox, s.cursor, s.records[i].entity)
    BY <1>13, <1>16
  <2>7. ASSUME NEW e \in Entity, KindOf[e] \in s.kinds PROVE staged[e] = At(outbox, s.cursor, e)
    <3>1. CASE At(outbox, s.cursor, e) = 0
      BY <1>10, <3>1
    <3>2. CASE At(outbox, s.cursor, e) # 0
      <4>1. PICK i \in 1..Len(s.records) : s.records[i].entity = e
        BY <1>5, <1>16, <2>7, <3>2 DEF Tells, Verified
      <4> QED BY <2>6, <4>1
    <3> QED BY <3>1, <3>2
  <2>8. Following(outbox, c)
    BY <1>5, <2>1, <2>4, <2>5, <2>7 DEF Following, Staging
  <2> QED BY <1>2, <2>2, <2>3, <2>5, <2>8, ConsumerMoves
<1> QED BY <1>12, <1>14, <1>15, <1>16

LEMMA FeedInv ==
    ASSUME RAInv, ListPlatformEventsAfter
    PROVE  RAInv'
<1>1. RATypes /\ FollowingIsSound /\ consumer \in Client
  BY DEF RAInv, RATypes
<1>2. consumer.phase = "follow" /\ UNCHANGED <<clock, outbox, horizon, snapshots>>
  BY DEF ListPlatformEventsAfter
<1> DEFINE a == consumer.cursor
           u == IF a + FeedSize < Len(outbox) THEN a + FeedSize ELSE Len(outbox)
<1>3. a \in Nat
  BY <1>1 DEF Client
<1>4. a <= Len(outbox) /\ \A e \in Entity : KindOf[e] \in consumer.kinds
                                               => consumer.view[e] = At(outbox, a, e)
  BY <1>1, <1>2, <1>3 DEF FollowingIsSound, Following
<1>5. CASE ~Readable(a)
  <2>1. consumer' = [consumer EXCEPT !.phase = "resync"]
    BY <1>3, <1>5 DEF ListPlatformEventsAfter
  <2> QED BY <1>2, <2>1, ResyncInv
<1>6. CASE Readable(a)
  <2>2. /\ u \in Nat /\ a <= u /\ u <= Len(outbox) /\ horizon \in Nat /\ horizon <= a
    <3>1. Len(outbox) \in Nat /\ horizon \in Nat /\ horizon <= a
      BY <1>1, <1>6 DEF RATypes, Readable
    <3>2. FeedSize \in Nat /\ a \in Nat /\ a <= Len(outbox)
      BY <1>3, <1>4, ReadAuthorityAssumption
    <3> HIDE DEF a
    <3> QED BY <3>1, <3>2
  <2> DEFINE New(e) == NewIn(outbox, horizon, a, u, e)
  <2>3. PICK view : view = [e \in Entity |-> IF New(e) = {} THEN consumer.view[e] ELSE Last(New(e))]
    OBVIOUS
  <2>4. consumer' = [consumer EXCEPT !.cursor = u, !.view = view]
    <3>1. view = [e \in Entity |->
                    LET new == {i \in (a + 1)..u : i > horizon /\ outbox[i] = e}
                    IN IF new = {} THEN consumer.view[e]
                       ELSE CHOOSE i \in new : \A j \in new : j <= i]
      BY <2>3, Zenon DEF Last, NewIn
    <3>2. consumer' = [consumer EXCEPT
                 !.cursor = u,
                 !.view = [e \in Entity |->
                             LET new == {i \in (a + 1)..u : i > horizon /\ outbox[i] = e}
                             IN IF new = {} THEN @[e]
                                ELSE CHOOSE i \in new : \A j \in new : j <= i]]
      BY <1>6, Zenon DEF ListPlatformEventsAfter
    <3> HIDE DEF a, u
    <3> QED BY <1>1, <3>1, <3>2 DEF Client
  <2> HIDE DEF a, u
  <2>5. ASSUME NEW e \in Entity
        PROVE  /\ New(e) = {} => At(outbox, u, e) = At(outbox, a, e)
               /\ New(e) # {} => At(outbox, u, e) = Last(New(e))
    BY <1>3, <2>2, FeedFacts
  <2>6. ASSUME NEW e \in Entity PROVE New(e) # {} => Last(New(e)) \in Nat
    <3>1. New(e) \subseteq 1..u
      BY <1>3, <2>2 DEF NewIn
    <3> HIDE DEF New
    <3>2. New(e) # {} => Last(New(e)) \in New(e)
      BY <2>2, <3>1, LastIsLargest
    <3> QED BY <2>2, <3>1, <3>2
  <2> HIDE DEF New
  <2>7. view \in [Entity -> Nat]
    <3>1. consumer.view \in [Entity -> Nat]
      BY <1>1 DEF Client
    <3> QED BY <2>3, <2>6, <3>1
  <2>8. PICK c : c = [consumer EXCEPT !.cursor = u, !.view = view]
    OBVIOUS
  <2>9. /\ c \in Client /\ c.phase = consumer.phase /\ c.cursor = u /\ c.view = view
        /\ c.kinds = consumer.kinds
    <3>1. PICK n \in Nat : n = u
      BY <2>2
    <3> QED BY <1>1, <2>7, <2>8, <3>1 DEF Client
  <2>10. ASSUME NEW e \in Entity, KindOf[e] \in consumer.kinds PROVE view[e] = At(outbox, u, e)
    BY <1>4, <2>3, <2>5, <2>10
  <2>11. Following(outbox, c)
    BY <2>2, <2>9, <2>10 DEF Following
  <2> QED BY <1>2, <2>4, <2>8, <2>9, <2>11, ConsumerMoves
<1> QED BY <1>5, <1>6

(***************************************************************************)
(* The invariant and the theorem                                           *)
(***************************************************************************)
LEMMA RAInitInv == RAInit => RAInv
<1> SUFFICES ASSUME RAInit PROVE RAInv
  OBVIOUS
<1>1. PICK none : none = Nothing
  OBVIOUS
<1>2. none \in [Entity -> Nat]
  BY <1>1 DEF Nothing
<1>3. /\ clock = 0 /\ outbox = << >> /\ horizon = 0 /\ snapshots = << >>
      /\ consumer = [phase |-> "resync", snapshot |-> 0, kinds |-> {}, left |-> {},
                     after |-> 0, filter |-> AnyKind, staged |-> none, view |-> none,
                     cursor |-> 0]
  BY <1>1 DEF RAInit
<1>4. consumer \in Client /\ consumer.phase = "resync"
  BY <1>2, <1>3 DEF Client, Filter
<1>5. RATypes
  BY <1>3, <1>4 DEF RATypes
<1>6. SnapshotsTell /\ StagingIsSound /\ FollowingIsSound
  BY <1>3, <1>4 DEF SnapshotsTell, StagingIsSound, FollowingIsSound
<1> QED BY <1>5, <1>6 DEF RAInv

LEMMA RANextInv == RAInv /\ [RANext]_raVars => RAInv'
<1> SUFFICES ASSUME RAInv, [RANext]_raVars PROVE RAInv'
  OBVIOUS
<1>1. clock \in Nat /\ horizon \in Nat
  BY DEF RAInv, RATypes
<1>2. CASE UNCHANGED raVars
  BY <1>1, <1>2, OutsideInv DEF raVars
<1>3. CASE Tick
  BY <1>1, <1>3, OutsideInv DEF Tick
<1>4. ASSUME NEW n \in 1..MaxTrim, Trim(n) PROVE RAInv'
  <2>1. n \in Nat
    BY ReadAuthorityAssumption
  <2> QED BY <1>1, <1>4, <2>1, OutsideInv DEF Trim
<1>5. ASSUME NEW e \in Entity, Mutate(<<e>>) PROVE RAInv'
  <2>1. <<e>> \in Seq(Entity)
    OBVIOUS
  <2> QED BY <1>5, <2>1, MutateInv
<1>6. ASSUME NEW e \in Entity, NEW f \in Entity, Mutate(<<e, f>>) PROVE RAInv'
  <2>1. <<e, f>> \in Seq(Entity)
    OBVIOUS
  <2> QED BY <1>6, <2>1, MutateInv
<1>7. CASE Bootstrap
  BY <1>7, CreateInv DEF Bootstrap
<1>8. CASE Read
  BY <1>8, MetadataInv, PageInv, FeedInv DEF Read, Filter
<1> QED BY <1>2, <1>3, <1>4, <1>5, <1>6, <1>7, <1>8, CleanupInv DEF RANext

\* Whatever is committed, trimmed, expired or cleaned up while a consumer creates its
\* snapshot, pages through it (ListReadAuthoritySnapshotRecords) and follows the feed
\* (ListPlatformEventsAfter): once it follows, it holds the facts of the moment its
\* cursor names.
THEOREM ViewIsTheStateAtItsCursorAlways == RASpec => []ViewIsTheStateAtItsCursor
<1>1. RAInv => ViewIsTheStateAtItsCursor
  <2> SUFFICES ASSUME RAInv, consumer.phase = "follow", NEW e \in Entity,
                      KindOf[e] \in consumer.kinds
               PROVE  consumer.view[e] = StateAt(consumer.cursor)[e]
    BY DEF ViewIsTheStateAtItsCursor
  <2>1. consumer.view[e] = At(outbox, consumer.cursor, e)
    BY DEF RAInv, FollowingIsSound, Following
  <2>2. At(outbox, consumer.cursor, e) = StateAt(consumer.cursor)[e]
    BY DEF At, StateOf, StateAt
  <2> QED BY <2>1, <2>2
<1> QED BY <1>1, RAInitInv, RANextInv, PTL DEF RASpec
=============================================================================
