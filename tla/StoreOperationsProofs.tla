------------------------- MODULE StoreOperationsProofs -------------------------
(***************************************************************************)
(* What happens to the store beside the server: opening the file           *)
(* (StoreFile), publishing the outbox (Publication) and the production     *)
(* import (ProductionImport), for any processes, releases, publishers,     *)
(* batch sizes and manifests.                                              *)
(*                                                                         *)
(* Of the import, what a rollback removes is proved for any number of      *)
(* operators at the same time.  That the checkpoint counts the ledger, and *)
(* what follows from it, holds only while one operator works: the receipt  *)
(* of a second one overwrites the progress of the first.  It is proved     *)
(* under OneOperator.                                                      *)
(***************************************************************************)
EXTENDS ProductionImport, StoreFile, Publication, FiniteSetTheorems,
        WellFoundedInduction, TLAPS

(***************************************************************************)
(* Opening the file                                                        *)
(***************************************************************************)
Migrations == UNION {ToSet(Release[p]) : p \in Process}

\* The first n migrations of p's release are in the ledger t under their versions.
AppliedUpTo(t, p, n) ==
    /\ n \in Nat /\ n <= Len(Release[p]) /\ n <= Len(t)
    /\ \A i \in 1..n : t[i] = Release[p][i]

\* A process that migrates found what precedes its next migration and lost nothing
\* since: only a restore shortens the file, and then nobody is at work.
SFInv ==
    /\ migrated \in Seq(Migrations) /\ (copy = NoCopy \/ copy \in Seq(Migrations))
    /\ proc \in [Process -> [pc : {"down", "reading", "migrating", "open"}, next : Nat]]
    /\ \A p \in Process :
          /\ proc[p].pc = "open" => AppliedUpTo(migrated, p, Len(Release[p]))
          /\ proc[p].pc = "migrating"
             => /\ AppliedUpTo(migrated, p, proc[p].next - 1)
                /\ proc[p].next \in 1..Len(Release[p])

\* A release is a sequence of migrations, and its prefixes are what they agree with
\* place by place.
LEMMA ReleaseTypes ==
    \A p \in Process : Release[p] \in Seq(Migrations) /\ Len(Release[p]) \in Nat \ {0}
<1> SUFFICES ASSUME NEW p \in Process
             PROVE  Release[p] \in Seq(Migrations) /\ Len(Release[p]) \in Nat \ {0}
  OBVIOUS
<1>1. Release[p] \in Seq(ToSet(Release[p])) /\ Len(Release[p]) > 0
  BY StoreFileAssumption
<1>2. ToSet(Release[p]) \subseteq Migrations
  BY DEF Migrations
<1> HIDE DEF Migrations
<1>3. PICK T : T = ToSet(Release[p])
  OBVIOUS
<1> QED BY <1>1, <1>2, <1>3

LEMMA PrefixPointwise ==
    ASSUME NEW S, NEW s \in Seq(S), NEW t \in Seq(S)
    PROVE  IsPrefix(s, t) <=> (Len(s) <= Len(t) /\ \A i \in 1..Len(s) : s[i] = t[i])
<1>1. ASSUME Len(s) <= Len(t)
      PROVE  /\ SubSeq(s, 1, Len(s)) \in Seq(S) /\ SubSeq(t, 1, Len(s)) \in Seq(S)
             /\ Len(SubSeq(s, 1, Len(s))) = Len(s) /\ Len(SubSeq(t, 1, Len(s))) = Len(s)
             /\ \A i \in 1..Len(s) : /\ SubSeq(s, 1, Len(s))[i] = s[i]
                                     /\ SubSeq(t, 1, Len(s))[i] = t[i]
  BY <1>1
<1>2. ASSUME Len(s) <= Len(t), \A i \in 1..Len(s) : s[i] = t[i]
      PROVE  SubSeq(s, 1, Len(s)) = SubSeq(t, 1, Len(s))
  BY <1>2
<1> QED BY <1>1, <1>2 DEF IsPrefix

\* A process goes on after n migrations that are entered.
LEMMA ProceedFacts ==
    ASSUME SFInv, NEW p \in Process, NEW n \in Nat, n <= Len(Release[p]), Proceed(p, n)
    PROVE  /\ proc' \in [Process -> [pc : {"down", "reading", "migrating", "open"}, next : Nat]]
           /\ \A q \in Process : q # p => proc'[q] = proc[q]
           /\ proc'[p].pc = "open" => n = Len(Release[p])
           /\ proc'[p].pc = "migrating" => proc'[p].next = n + 1 /\ n + 1 \in 1..Len(Release[p])
<1>1. proc \in [Process -> [pc : {"down", "reading", "migrating", "open"}, next : Nat]]
  BY DEF SFInv
<1>2. Len(Release[p]) \in Nat
  BY ReleaseTypes
<1>3. CASE n = Len(Release[p])
  BY <1>1, <1>2, <1>3 DEF Proceed, Set
<1>4. CASE n # Len(Release[p])
  BY <1>1, <1>2, <1>4 DEF Proceed, Set
<1> QED BY <1>3, <1>4

LEMMA SFNextInv == SFInv /\ [SFNext]_sfVars => SFInv'
<1> SUFFICES ASSUME SFInv, [SFNext]_sfVars PROVE SFInv'
  OBVIOUS
<1> DEFINE Pr == [pc : {"down", "reading", "migrating", "open"}, next : Nat]
           Ok(q) == /\ proc[q].pc = "open" => AppliedUpTo(migrated, q, Len(Release[q]))
                    /\ proc[q].pc = "migrating"
                       => /\ AppliedUpTo(migrated, q, proc[q].next - 1)
                          /\ proc[q].next \in 1..Len(Release[q])
<1>1. /\ migrated \in Seq(Migrations) /\ (copy = NoCopy \/ copy \in Seq(Migrations))
      /\ proc \in [Process -> Pr] /\ Len(migrated) \in Nat
      /\ \A q \in Process : Ok(q)
      /\ \A q \in Process : Release[q] \in Seq(Migrations) /\ Len(Release[q]) \in Nat \ {0}
  BY ReleaseTypes DEF SFInv
<1> HIDE DEF Migrations
<1>2. ASSUME NEW p \in Process, proc' = [proc EXCEPT ![p] = Down],
             migrated' = migrated, copy' = copy
      PROVE  SFInv'
  <2>1. Down \in Pr /\ Down.pc = "down"
    BY DEF Down
  <2>2. ASSUME NEW q \in Process PROVE Ok(q)'
    BY <1>1, <1>2, <2>1 DEF AppliedUpTo
  <2> QED BY <1>1, <1>2, <2>1, <2>2 DEF SFInv
<1>3. ASSUME NEW p \in Process, OpenFile(p) PROVE SFInv'
  <2>1. /\ proc' = [proc EXCEPT ![p] = [pc |-> "reading", next |-> 0]]
        /\ migrated' = migrated /\ copy' = copy
    BY <1>3 DEF OpenFile, Set
  <2>2. ASSUME NEW q \in Process PROVE Ok(q)'
    BY <1>1, <2>1 DEF AppliedUpTo
  <2> QED BY <1>1, <2>1, <2>2 DEF SFInv
<1>4. ASSUME NEW p \in Process, ReadLedger(p) PROVE SFInv'
  <2>1. migrated' = migrated /\ copy' = copy
    BY <1>4 DEF ReadLedger
  <2>2. CASE ~Agrees(migrated, p)
    BY <1>2, <1>4, <2>1, <2>2 DEF ReadLedger
  <2>3. CASE Agrees(migrated, p)
    <3>1. Proceed(p, Len(migrated))
      BY <1>4, <2>3 DEF ReadLedger
    <3>2. /\ Len(migrated) <= Len(Release[p])
          /\ \A i \in 1..Len(migrated) : migrated[i] = Release[p][i]
      <4>1. IsPrefix(migrated, Release[p]) /\ Release[p] \in Seq(Migrations)
        BY <1>1, <2>3 DEF Agrees
      <4> QED BY <1>1, <4>1, PrefixPointwise
    <3>3. AppliedUpTo(migrated, p, Len(migrated))
      BY <1>1, <3>2 DEF AppliedUpTo
    <3>4. /\ proc' \in [Process -> Pr]
          /\ \A q \in Process : q # p => proc'[q] = proc[q]
          /\ proc'[p].pc = "open" => Len(migrated) = Len(Release[p])
          /\ proc'[p].pc = "migrating" => /\ proc'[p].next = Len(migrated) + 1
                                          /\ Len(migrated) + 1 \in 1..Len(Release[p])
      BY <1>1, <3>1, <3>2, ProceedFacts
    <3>5. ASSUME NEW q \in Process PROVE Ok(q)'
      <4>1. CASE q = p
        BY <1>1, <2>1, <3>3, <3>4, <4>1 DEF AppliedUpTo
      <4>2. CASE q # p
        BY <1>1, <2>1, <3>4, <4>2 DEF AppliedUpTo
      <4> QED BY <4>1, <4>2
    <3> QED BY <1>1, <2>1, <3>4, <3>5 DEF SFInv
  <2> QED BY <2>2, <2>3
<1>5. ASSUME NEW p \in Process, ApplyMigration(p) PROVE SFInv'
  <2> DEFINE v == proc[p].next
  <2>1. copy' = copy /\ proc[p].pc = "migrating"
    BY <1>5 DEF ApplyMigration
  <2>2. /\ v \in 1..Len(Release[p]) /\ v - 1 <= Len(migrated)
        /\ \A i \in 1..(v - 1) : migrated[i] = Release[p][i]
    BY <1>1, <2>1 DEF AppliedUpTo
  <2>3. CASE Entered(v)
    BY <1>2, <1>5, <2>1, <2>3 DEF ApplyMigration
  <2>4. CASE ~Entered(v)
    <3>1. migrated' = Append(migrated, Release[p][v]) /\ Proceed(p, v)
      BY <1>5, <2>4 DEF ApplyMigration
    <3> HIDE DEF v
    <3>2. Len(migrated) = v - 1
      BY <1>1, <2>2, <2>4 DEF Entered
    <3>3. /\ migrated' \in Seq(Migrations) /\ Len(migrated') = v
          /\ \A i \in 1..(v - 1) : migrated'[i] = migrated[i]
          /\ migrated'[v] = Release[p][v]
      BY <1>1, <2>2, <3>1, <3>2
    <3>4. AppliedUpTo(migrated', p, v)
      <4>1. v \in Nat /\ v <= Len(Release[p]) /\ v <= Len(migrated')
        BY <1>1, <2>2, <3>3
      <4>2. ASSUME NEW i \in 1..v PROVE migrated'[i] = Release[p][i]
        <5>1. i \in 1..(v - 1) \/ i = v
          BY <4>1
        <5> QED BY <2>2, <3>3, <5>1
      <4> QED BY <4>1, <4>2 DEF AppliedUpTo
    <3>5. \A q \in Process, n \in Nat : AppliedUpTo(migrated, q, n) => AppliedUpTo(migrated', q, n)
      <4> SUFFICES ASSUME NEW q \in Process, NEW n \in Nat, AppliedUpTo(migrated, q, n)
                   PROVE  AppliedUpTo(migrated', q, n)
        OBVIOUS
      <4>1. /\ n <= Len(Release[q]) /\ n <= v - 1 /\ \A i \in 1..n : migrated[i] = Release[q][i]
        BY <3>2 DEF AppliedUpTo
      <4>2. v \in Nat
        BY <1>1, <2>2
      <4>3. n <= Len(migrated') /\ \A i \in 1..n : migrated'[i] = Release[q][i]
        BY <3>3, <4>1, <4>2
      <4> QED BY <4>1, <4>3 DEF AppliedUpTo
    <3>6. /\ proc' \in [Process -> Pr]
          /\ \A q \in Process : q # p => proc'[q] = proc[q]
          /\ proc'[p].pc = "open" => v = Len(Release[p])
          /\ proc'[p].pc = "migrating" => proc'[p].next = v + 1 /\ v + 1 \in 1..Len(Release[p])
      BY <1>1, <2>2, <3>1, ProceedFacts
    <3>7. ASSUME NEW q \in Process PROVE Ok(q)'
      <4>1. CASE q = p
        <5>1. AppliedUpTo(migrated', p, v) /\ v \in Nat
          BY <1>1, <2>2, <3>4
        <5>2. proc'[p].pc = "migrating" => proc'[p].next - 1 = v
          BY <3>6, <5>1
        <5> QED BY <3>6, <4>1, <5>1, <5>2
      <4>2. CASE q # p
        <5>1. proc'[q] = proc[q] /\ Ok(q)
          BY <1>1, <3>6, <4>2
        <5>2. proc[q].pc = "migrating" => proc[q].next - 1 \in Nat
          BY <1>1, <5>1
        <5> QED BY <1>1, <3>5, <5>1, <5>2
      <4> QED BY <4>1, <4>2
    <3> QED BY <1>1, <2>1, <3>3, <3>6, <3>7 DEF SFInv
  <2> QED BY <2>3, <2>4
<1>6. ASSUME NEW p \in Process, Backup(p) PROVE SFInv'
  <2>1. copy' = migrated /\ migrated' = migrated /\ proc' = proc
    BY <1>6 DEF Backup
  <2>2. ASSUME NEW q \in Process PROVE Ok(q)'
    BY <1>1, <2>1 DEF AppliedUpTo
  <2> QED BY <1>1, <2>1, <2>2 DEF SFInv
<1>7. CASE Restore
  <2>1. /\ \A p \in Process : proc[p].pc = "down"
        /\ migrated' \in Seq(Migrations) /\ copy' = NoCopy /\ proc' = proc
    BY <1>1, <1>7 DEF Restore
  <2> QED BY <1>1, <2>1 DEF SFInv
<1>8. CASE UNCHANGED sfVars
  <2>1. migrated' = migrated /\ copy' = copy /\ proc' = proc
    BY <1>8 DEF sfVars
  <2>2. ASSUME NEW q \in Process PROVE Ok(q)'
    BY <1>1, <2>1 DEF AppliedUpTo
  <2> QED BY <1>1, <2>1, <2>2 DEF SFInv
<1>9. ASSUME NEW p \in Process, Ends(p) PROVE SFInv'
  BY <1>2, <1>9 DEF Ends
<1> QED BY <1>3, <1>4, <1>5, <1>6, <1>7, <1>8, <1>9 DEF SFNext, ProcessNext

\* Whatever releases open the file, race for it, die and restore a copy of it: one
\* that has it open finds exactly its migrations at the beginning of the ledger
\* (migrate and the ledger check of store.go).
THEOREM OpenedIsMigratedAlways == SFSpec => []OpenedIsMigrated
<1>1. SFInit => SFInv
  BY DEF SFInit, SFInv, Down
<1>2. SFInv => OpenedIsMigrated
  <2> SUFFICES ASSUME SFInv, NEW p \in Process, proc[p].pc = "open"
               PROVE  IsPrefix(Release[p], migrated)
    BY DEF OpenedIsMigrated
  <2>1. AppliedUpTo(migrated, p, Len(Release[p])) /\ migrated \in Seq(Migrations)
    BY DEF SFInv
  <2>2. Release[p] \in Seq(Migrations)
    BY ReleaseTypes
  <2> HIDE DEF Migrations
  <2> QED BY <2>1, <2>2, PrefixPointwise DEF AppliedUpTo
<1> QED BY <1>1, <1>2, SFNextInv, PTL DEF SFSpec

(***************************************************************************)
(* Publishing the outbox                                                   *)
(***************************************************************************)
\* The events before one that is left to send are sent or left as well.
PbInv ==
    /\ outbox \in Seq(BOOLEAN)
    /\ \E n \in Nat : sent = 1..n
    /\ publisher \in [Publisher -> [batch : SUBSET Nat, left : SUBSET Nat]]
    /\ \A i \in 1..Len(outbox) : outbox[i] => i \in sent
    /\ \A p \in Publisher :
          /\ publisher[p].batch \subseteq sent \cup publisher[p].left
          /\ 0 \notin publisher[p].left
          /\ \A i \in publisher[p].left : 1..(i - 1) \subseteq sent \cup publisher[p].left

\* The oldest pending events: whatever is pending before one of them is among them.
LEMMA OldestFacts ==
    ASSUME outbox \in Seq(BOOLEAN), NEW limit, NEW i \in Oldest(limit), NEW j \in Pending, j <= i,
           limit \in Nat
    PROVE  j \in Oldest(limit)
<1> DEFINE Upto(k) == {n \in Pending : n <= k}
<1>1. Pending \subseteq 1..Len(outbox) /\ Len(outbox) \in Nat
  BY DEF Pending
<1>2. i \in Pending /\ Cardinality(Upto(i)) <= limit
  BY DEF Oldest
<1>3. Upto(j) \subseteq Upto(i)
  <2>1. i \in Nat /\ j \in Nat /\ Pending \subseteq Nat
    BY <1>1, <1>2
  <2>2. ASSUME NEW n \in Upto(j) PROVE n \in Upto(i)
    <3>1. n \in Pending /\ n <= j
      BY <2>2
    <3>2. n <= i
      BY <2>1, <3>1
    <3> QED BY <3>1, <3>2
  <2> QED BY <2>2
<1>4. IsFiniteSet(Upto(i))
  <2>1. IsFiniteSet(1..Len(outbox))
    BY <1>1, FS_Interval
  <2>2. Upto(i) \in SUBSET (1..Len(outbox))
    BY <1>1
  <2> HIDE DEF Upto
  <2> QED BY <2>1, <2>2, FS_Subset
<1>5. /\ Cardinality(Upto(j)) <= Cardinality(Upto(i))
      /\ Cardinality(Upto(i)) \in Nat /\ Cardinality(Upto(j)) \in Nat
  <2> HIDE DEF Upto
  <2> QED BY <1>3, <1>4, FS_Subset, FS_CardinalityType
<1>6. Cardinality(Upto(j)) <= limit
  BY <1>2, <1>5
<1> QED BY <1>6 DEF Oldest

LEMMA PbNextInv == PbInv /\ [PbNext]_pbVars => PbInv'
<1> SUFFICES ASSUME PbInv, [PbNext]_pbVars PROVE PbInv'
  OBVIOUS
<1> DEFINE Batch == [batch : SUBSET Nat, left : SUBSET Nat]
           Ok(q) == /\ publisher[q].batch \subseteq sent \cup publisher[q].left
                    /\ 0 \notin publisher[q].left
                    /\ \A i \in publisher[q].left : 1..(i - 1) \subseteq sent \cup publisher[q].left
<1>1. /\ outbox \in Seq(BOOLEAN) /\ Len(outbox) \in Nat
      /\ publisher \in [Publisher -> Batch]
      /\ \A i \in 1..Len(outbox) : outbox[i] => i \in sent
      /\ \A q \in Publisher : Ok(q)
      /\ \E n \in Nat : sent = 1..n
  BY DEF PbInv
<1>2. \A q \in Publisher : publisher[q] \in Batch
  BY <1>1
<1>3. NoBatch \in Batch /\ NoBatch.batch = {} /\ NoBatch.left = {}
  BY DEF NoBatch
<1>4. ASSUME NEW p \in Publisher, publisher' = [publisher EXCEPT ![p] = NoBatch], sent' = sent
      PROVE  publisher' \in [Publisher -> Batch] /\ \A q \in Publisher : Ok(q)'
  <2>1. ASSUME NEW q \in Publisher PROVE Ok(q)'
    BY <1>1, <1>3, <1>4
  <2> QED BY <1>1, <1>3, <1>4, <2>1
<1>5. CASE AppendEvent
  <2>1. outbox' = Append(outbox, FALSE) /\ publisher' = publisher /\ sent' = sent
    BY <1>5 DEF AppendEvent
  <2>2. /\ outbox' \in Seq(BOOLEAN) /\ Len(outbox') = Len(outbox) + 1
        /\ \A i \in 1..Len(outbox) : outbox'[i] = outbox[i]
        /\ outbox'[Len(outbox) + 1] = FALSE
    BY <1>1, <2>1
  <2>3. ASSUME NEW i \in 1..Len(outbox'), outbox'[i] PROVE i \in sent'
    BY <1>1, <2>1, <2>2, <2>3
  <2> QED BY <1>1, <2>1, <2>2, <2>3 DEF PbInv
<1>6. ASSUME NEW p \in Publisher, NEW limit \in Limits, ListPendingPlatformEvents(p, limit)
      PROVE  PbInv'
  <2>1. PICK b : b = Oldest(limit)
    OBVIOUS
  <2>2. /\ publisher' = [publisher EXCEPT ![p] = [batch |-> b, left |-> b]]
        /\ outbox' = outbox /\ sent' = sent
    BY <1>6, <2>1 DEF ListPendingPlatformEvents
  <2>3. limit \in Nat
    BY PublicationAssumption
  <2>4. b \subseteq 1..Len(outbox)
    BY <2>1 DEF Oldest, Pending
  <2>5. ASSUME NEW i \in b, NEW j \in 1..(i - 1) PROVE j \in sent \cup b
    <3>1. i \in 1..Len(outbox) /\ j \in 1..Len(outbox) /\ j <= i
      BY <1>1, <2>4
    <3>2. CASE outbox[j]
      BY <1>1, <3>1, <3>2
    <3>3. CASE ~outbox[j]
      BY <1>1, <2>1, <2>3, <3>1, <3>3, OldestFacts DEF Pending
    <3> QED BY <3>2, <3>3
  <2>6. [batch |-> b, left |-> b] \in Batch
    BY <1>1, <2>4
  <2>7. ASSUME NEW q \in Publisher PROVE Ok(q)'
    <3>1. CASE q = p
      <4>1. publisher'[q].batch = b /\ publisher'[q].left = b
        BY <1>1, <2>2, <3>1
      <4>2. 0 \notin b
        BY <1>1, <2>4
      <4>3. \A i \in b : 1..(i - 1) \subseteq sent \cup b
        BY <2>5
      <4> QED BY <2>2, <4>1, <4>2, <4>3
    <3>2. CASE q # p
      BY <1>1, <2>2, <3>2
    <3> QED BY <3>1, <3>2
  <2>8. publisher' \in [Publisher -> Batch]
    BY <1>1, <2>2, <2>6
  <2> QED BY <1>1, <2>2, <2>7, <2>8 DEF PbInv
<1>7. ASSUME NEW p \in Publisher, Send(p) PROVE PbInv'
  <2>1. PICK i \in publisher[p].left :
           /\ \A j \in publisher[p].left : i <= j
           /\ sent' = sent \cup {i}
           /\ publisher' = [publisher EXCEPT ![p].left = @ \ {i}]
           /\ outbox' = outbox
    BY <1>7 DEF Send
  <2>2. publisher[p].left \subseteq Nat /\ i \in Nat \ {0}
    BY <1>1, <1>2
  <2>3. 1..(i - 1) \subseteq sent
    <3>1. ASSUME NEW j \in 1..(i - 1) PROVE j \notin publisher[p].left
      BY <2>1, <2>2
    <3> QED BY <1>1, <3>1
  <2>4. \E n \in Nat : sent' = 1..n
    <3>1. PICK n \in Nat : sent = 1..n
      BY <1>1
    <3>2. CASE i <= n
      <4>1. sent' = 1..n
        BY <2>1, <2>2, <3>1, <3>2
      <4> QED BY <4>1
    <3>3. CASE i > n
      <4>1. i = n + 1
        <5>1. ASSUME i > n + 1 PROVE FALSE
          <6>1. n + 1 \in 1..(i - 1) /\ n + 1 \notin 1..n
            BY <2>2, <5>1
          <6> QED BY <2>3, <3>1, <6>1
        <5> QED BY <2>2, <3>3, <5>1
      <4>2. sent' = 1..(n + 1)
        BY <2>1, <3>1, <4>1
      <4> QED BY <4>2
    <3> QED BY <2>2, <3>2, <3>3
  <2>5. /\ publisher' \in [Publisher -> Batch]
        /\ publisher'[p].batch = publisher[p].batch
        /\ publisher'[p].left = publisher[p].left \ {i}
        /\ \A q \in Publisher : q # p => publisher'[q] = publisher[q]
    BY <1>1, <1>2, <2>1
  <2>6. ASSUME NEW q \in Publisher PROVE Ok(q)'
    <3>1. CASE q = p
      BY <1>1, <2>1, <2>5, <3>1
    <3>2. CASE q # p
      BY <1>1, <2>1, <2>5, <3>2
    <3> QED BY <3>1, <3>2
  <2>7. \A k \in 1..Len(outbox') : outbox'[k] => k \in sent'
    BY <1>1, <2>1
  <2> QED BY <1>1, <2>1, <2>4, <2>5, <2>6, <2>7 DEF PbInv
<1>8. ASSUME NEW p \in Publisher, MarkPlatformEventsPublished(p) PROVE PbInv'
  <2>1. PICK ids : ids = publisher[p].batch
    OBVIOUS
  <2>2. /\ publisher[p].left = {}
        /\ outbox' = IF ids \subseteq Pending
                     THEN [i \in 1..Len(outbox) |-> outbox[i] \/ i \in ids]
                     ELSE outbox
        /\ publisher' = [publisher EXCEPT ![p] = NoBatch] /\ sent' = sent
    BY <1>8, <2>1 DEF MarkPlatformEventsPublished
  <2>3. ids \subseteq sent
    BY <1>1, <2>1, <2>2
  <2>4. /\ outbox' \in Seq(BOOLEAN)
        /\ \A i \in 1..Len(outbox') : outbox'[i] => i \in sent'
    <3>1. CASE ids \subseteq Pending
      <4>1. outbox' = [i \in 1..Len(outbox) |-> outbox[i] \/ i \in ids]
        BY <2>2, <3>1
      <4>2. \A i \in 1..Len(outbox) : (outbox[i] \/ i \in ids) \in BOOLEAN
        OBVIOUS
      <4>3. outbox' \in [1..Len(outbox) -> BOOLEAN]
        BY <4>1, <4>2
      <4>4. outbox' \in Seq(BOOLEAN) /\ Len(outbox') = Len(outbox)
        BY <1>1, <4>3
      <4>5. \A i \in 1..Len(outbox) : outbox'[i] = (outbox[i] \/ i \in ids)
        BY <4>1
      <4> QED BY <1>1, <2>2, <2>3, <4>4, <4>5
    <3>2. CASE ~(ids \subseteq Pending)
      BY <1>1, <2>2, <3>2
    <3> QED BY <3>1, <3>2
  <2> QED BY <1>1, <1>4, <2>2, <2>4 DEF PbInv
<1>9. ASSUME NEW p \in Publisher, PublisherDies(p) PROVE PbInv'
  BY <1>1, <1>4, <1>9 DEF PbInv, PublisherDies
<1>10. CASE UNCHANGED pbVars
  BY <1>10 DEF pbVars, PbInv
<1> QED BY <1>5, <1>6, <1>7, <1>8, <1>9, <1>10 DEF PbNext, PublisherNext

\* However many publishers list, send, die and mark at once, with whatever batch
\* sizes: an event is marked only after it was sent, and none is sent before all
\* earlier ones were (ListPendingPlatformEvents, MarkPlatformEventsPublished).
THEOREM PublishedInOrderAlways == PbSpec => []PublishedInOrder
<1>1. PbInit => PbInv
  <2>1. PbInit => sent = 1..0
    BY DEF PbInit
  <2> QED BY <2>1 DEF PbInit, PbInv, NoBatch
<1>2. PbInv => PublishedInOrder
  <2> SUFFICES ASSUME PbInv PROVE PublishedInOrder
    OBVIOUS
  <2>1. PICK n \in Nat : sent = 1..n
    BY DEF PbInv
  <2>2. Cardinality(sent) = n
    BY <2>1, FS_Interval
  <2> QED BY <2>1, <2>2 DEF PbInv, PublishedInOrder
<1> QED BY <1>1, <1>2, PbNextInv, PTL DEF PbSpec

(***************************************************************************)
(* The import: what holds for any number of operators                      *)
(***************************************************************************)
Run == [status : {"none", "running", "paused", "completed", "rolled_back"},
        next : Nat, created : Nat]
Entry == [created : BOOLEAN, compensated : BOOLEAN]
Row == [by : Manifest \cup {Absent, Platform}, same : BOOLEAN]
Applying == [pc : {"apply"}, m : Manifest, run : Run, limit : Nat]
RollingBack == [pc : {"list", "rollback"}, m : Manifest, run : Run, items : SUBSET Nat]
Op == {Idle} \cup Applying \cup RollingBack

ImTypes ==
    /\ rows \in [Id -> Row]
    /\ run \in [Manifest -> Run]
    /\ ledger \in [Manifest -> Seq(Entry)]
    /\ op \in [Operator -> Op]

\* No run is ahead of its ledger, and no ledger of its manifest.
LedgersFit ==
    \A m \in Manifest : /\ run[m].next <= Len(ledger[m])
                        /\ Len(ledger[m]) <= Len(Records[m])
                        /\ ledger[m] # << >> => ValidManifest(m)

\* What process w knows of the ledgers led: it is not ahead of them and does not
\* reach beyond its manifest, and what it is to take back was created.
Working(w, led) ==
    /\ w.pc # "idle" => w.run.next <= Len(led[w.m])
    /\ w.pc = "apply" => /\ w.run.next + w.limit <= Len(Records[w.m])
                         /\ ValidManifest(w.m)
    /\ w.pc = "rollback" => \A i \in w.items : i \in 1..Len(led[w.m]) /\ led[w.m][i].created

ProcessesFit == \A o \in Operator : Working(op[o], ledger)

\* A record of m is created and not taken back.
Due(m, i) == i \in 1..Len(ledger[m]) /\ ledger[m][i].created /\ ~ledger[m][i].compensated

\* What is due is there, and what an import created and is there is due.
DueIsThere == \A m \in Manifest, i \in Nat : Due(m, i) => rows[Records[m][i]].by = m

ThereIsDue ==
    \A x \in Id, m \in Manifest : rows[x].by = m => \E i \in Nat : Due(m, i) /\ Records[m][i] = x

\* SQLite's foreign keys.
ReferencesHold == \A y \in Id : Present(y) => \A x \in Refs[y] : Present(x)

\* A row does not reference one that its manifest creates later.
ChildrenComeLater ==
    \A m \in Manifest, i, j \in Nat :
        Due(m, i) /\ Due(m, j) /\ j <= i => Records[m][i] \notin Refs[Records[m][j]]

ImInv == /\ ImTypes /\ LedgersFit /\ ProcessesFit
         /\ DueIsThere /\ ThereIsDue /\ ReferencesHold /\ ChildrenComeLater

\* Facts about the constants.
LEMMA RecordTypes ==
    /\ \A m \in Manifest : /\ Records[m] \in Seq(Id) /\ Len(Records[m]) \in Nat
                           /\ \A i \in 1..Len(Records[m]) : Records[m][i] \in Id
                           /\ m # Absent /\ m # Platform
    /\ \A x \in Id : Refs[x] \subseteq Needs[x] /\ Needs[x] \subseteq Id
BY ProductionImportAssumption

\* A valid manifest has every id once.
LEMMA IdsAreDistinct ==
    ASSUME NEW m \in Manifest, ValidManifest(m),
           NEW i \in 1..Len(Records[m]), NEW j \in 1..Len(Records[m]), i # j
    PROVE  Records[m][i] # Records[m][j]
<1>1. Len(Records[m]) \in Nat
  BY RecordTypes
<1>2. CASE i < j
  <2>1. i \in 1..(j - 1)
    BY <1>1, <1>2
  <2> QED BY <2>1 DEF ValidManifest
<1>3. CASE j < i
  <2>1. j \in 1..(i - 1)
    BY <1>1, <1>3
  <2> QED BY <2>1 DEF ValidManifest
<1> QED BY <1>1, <1>2, <1>3

Less == OpToRel(<, Nat)

LEMMA LessIsWellFounded == IsWellFoundedOn(Less, Nat)
BY NatLessThanWellFounded, Zenon DEF Less

\* A non-empty set of naturals has a least element.
LEMMA LeastExists ==
    ASSUME NEW T, T \subseteq Nat, T # {}
    PROVE  \E k \in T : \A l \in T : ~(<<l, k>> \in Less)
BY LessIsWellFounded, WFMin, Zenon

LEMMA LessIsLess ==
    ASSUME NEW k \in Nat, NEW l \in Nat, l < k
    PROVE  <<l, k>> \in Less
BY DEF Less, OpToRel

\* The last of a bounded set of orders exists.
LEMMA NextItemFacts ==
    ASSUME NEW n \in Nat, NEW items, items \subseteq 1..n, items # {}
    PROVE  NextItem(items) \in items /\ \A j \in items : j <= NextItem(items)
<1> DEFINE T == {k \in Nat : \E i \in items : k = n - i}
<1>1. T \subseteq Nat /\ T # {}
  <2>1. PICK i \in items : TRUE
    OBVIOUS
  <2>2. n - i \in T
    BY <2>1
  <2> QED BY <2>2
<1>2. PICK k \in T : \A l \in T : ~(<<l, k>> \in Less)
  <2> HIDE DEF T
  <2> QED BY <1>1, LeastExists
<1>3. PICK i \in items : k = n - i
  OBVIOUS
<1>4. ASSUME NEW j \in items PROVE j <= i
  <2>1. n - j \in T
    OBVIOUS
  <2>2. ~(n - j < k)
    BY <1>1, <1>2, <2>1, LessIsLess
  <2> QED BY <1>3, <2>2
<1> QED BY <1>3, <1>4 DEF NextItem

LEMMA OpShapes ==
    ASSUME NEW w \in Op
    PROVE  /\ w.pc = "apply" => w \in Applying
           /\ w.pc \in {"list", "rollback"} => w \in RollingBack
<1>1. Idle.pc = "idle"
  BY DEF Idle
<1>2. \A v \in Applying : v.pc = "apply"
  BY DEF Applying
<1>3. \A v \in RollingBack : v.pc \in {"list", "rollback"}
  BY DEF RollingBack
<1> QED BY <1>1, <1>2, <1>3 DEF Op

LEMMA IdleFits == Idle \in Op /\ \A led : Working(Idle, led)
BY DEF Op, Working, Idle

\* One process goes on.
LEMMA OneProcessMoves ==
    ASSUME ImInv, NEW o \in Operator, NEW w \in Op, Working(w, ledger),
           op' = [op EXCEPT ![o] = w]
    PROVE  op' \in [Operator -> Op] /\ \A q \in Operator : Working(op'[q], ledger)
<1>1. op \in [Operator -> Op] /\ \A q \in Operator : Working(op[q], ledger)
  BY DEF ImInv, ImTypes, ProcessesFit
<1>2. ASSUME NEW q \in Operator PROVE Working(op'[q], ledger)
  <2>1. op'[q] = w \/ op'[q] = op[q]
    BY <1>1
  <2> QED BY <1>1, <2>1
<1> QED BY <1>1, <1>2

\* A step that leaves the ledgers alone and creates and deletes nothing.
LEMMA QuietImport ==
    ASSUME ImInv, ledger' = ledger,
           rows' \in [Id -> Row], \A x \in Id : rows'[x].by = rows[x].by,
           run' \in [Manifest -> Run], \A m \in Manifest : run'[m].next <= Len(ledger[m]),
           op' \in [Operator -> Op], \A o \in Operator : Working(op'[o], ledger)
    PROVE  ImInv'
<1>1. /\ ImTypes /\ LedgersFit /\ DueIsThere /\ ThereIsDue /\ ReferencesHold /\ ChildrenComeLater
  BY DEF ImInv
<1>2. ImTypes' /\ LedgersFit' /\ ProcessesFit'
  BY <1>1 DEF ImTypes, LedgersFit, ProcessesFit, ValidManifest
<1>3. \A m, i : Due(m, i)' <=> Due(m, i)
  BY DEF Due
<1>4. \A x \in Id : Present(x)' <=> Present(x)
  BY DEF Present
<1>5. DueIsThere'
  <2> SUFFICES ASSUME NEW m \in Manifest, NEW i \in Nat, Due(m, i)
               PROVE  rows'[Records[m][i]].by = m
    BY <1>3 DEF DueIsThere
  <2>1. i \in 1..Len(Records[m])
    BY <1>1, RecordTypes DEF Due, LedgersFit, ImTypes
  <2> QED BY <1>1, <2>1, RecordTypes DEF DueIsThere
<1>6. ThereIsDue'
  BY <1>1, <1>3 DEF ThereIsDue
<1>7. ReferencesHold'
  BY <1>1, <1>4, RecordTypes DEF ReferencesHold
<1>8. ChildrenComeLater'
  BY <1>1, <1>3 DEF ChildrenComeLater
<1> QED BY <1>2, <1>5, <1>6, <1>7, <1>8 DEF ImInv

\* What an apply that commits a record does, in terms of the record.
Recorded(o, m, i, x, created) ==
    /\ o \in Operator /\ m \in Manifest /\ op[o].pc = "apply" /\ op[o].m = m
    /\ i = Len(ledger[m]) + 1 /\ i = op[o].run.next + 1 /\ i \in 1..Len(Records[m])
    /\ op[o].limit > 0
    /\ x = Records[m][i] /\ x \in Id /\ created \in BOOLEAN /\ (created <=> ~Present(x))
    /\ created => \A y \in Needs[x] : Present(y)
    /\ rows' = IF created THEN [rows EXCEPT ![x] = [by |-> m, same |-> TRUE]] ELSE rows
    /\ ledger' = [ledger EXCEPT ![m] =
                    Append(@, [created |-> created, compensated |-> FALSE])]
    /\ run' = [run EXCEPT ![m] = Checkpoint(@, m, i, created)]
    /\ op' = [op EXCEPT ![o].run.next = i,
                        ![o].run.created = IF created THEN @ + 1 ELSE @,
                        ![o].limit = @ - 1]

LEMMA ApplyCases ==
    ASSUME ImInv, NEW o \in Operator, ApplyProductionRecord(o)
    PROVE  \/ /\ op' = [op EXCEPT ![o] = Idle]
              /\ rows' = rows /\ ledger' = ledger /\ run' = run
           \/ \E m, i, x, created : Recorded(o, m, i, x, created)
<1>1. PICK m : m = op[o].m
  OBVIOUS
<1>2. PICK i : i = op[o].run.next + 1
  OBVIOUS
<1>3. PICK x : x = Records[m][i]
  OBVIOUS
<1>4. PICK created \in BOOLEAN : created <=> ~Present(x)
  OBVIOUS
<1>5. op[o].pc = "apply" /\ op[o].limit > 0
  BY DEF ApplyProductionRecord
<1>6. op[o] \in Applying
  BY <1>5, OpShapes DEF ImInv, ImTypes
<1>7. m \in Manifest /\ op[o].limit \in Nat /\ op[o].run \in Run /\ op[o].run.next \in Nat
  BY <1>1, <1>6 DEF Applying, Run
<1>8. CASE Unapplied(m, i) /\ (Reconciles(m, i) \/ Creates(m, i))
  <2>1. i > Len(ledger[m]) /\ op[o].run.next <= Len(ledger[m])
        /\ op[o].run.next + op[o].limit <= Len(Records[m])
    BY <1>1, <1>5, <1>8 DEF Unapplied, ImInv, ProcessesFit, Working
  <2>2. Len(ledger[m]) \in Nat /\ Len(Records[m]) \in Nat
    BY <1>7, RecordTypes DEF ImInv, ImTypes
  <2>3. i = Len(ledger[m]) + 1 /\ i \in 1..Len(Records[m])
    BY <1>2, <1>5, <1>7, <2>1, <2>2, SMTT(40)
  <2>4. x \in Id
    BY <1>3, <1>7, <2>3, RecordTypes
  <2>5. created => \A y \in Needs[x] : Present(y)
    BY <1>3, <1>4, <1>8 DEF Reconciles, Creates
  <2>6. (~Present(Records[m][i])) = created
    BY <1>3, <1>4
  <2>7. /\ rows' = IF created THEN [rows EXCEPT ![x] = [by |-> m, same |-> TRUE]] ELSE rows
        /\ ledger' = [ledger EXCEPT ![m] =
                        Append(@, [created |-> created, compensated |-> FALSE])]
        /\ run' = [run EXCEPT ![m] = Checkpoint(@, m, i, created)]
        /\ op' = [op EXCEPT ![o].run.next = i,
                            ![o].run.created = IF created THEN @ + 1 ELSE @,
                            ![o].limit = @ - 1]
    BY <1>1, <1>2, <1>3, <1>8, <2>6 DEF ApplyProductionRecord
  <2>8. Recorded(o, m, i, x, created)
    BY <1>1, <1>2, <1>3, <1>4, <1>5, <1>7, <2>3, <2>4, <2>5, <2>7 DEF Recorded
  <2> QED BY <2>8
<1>9. CASE ~(Unapplied(m, i) /\ (Reconciles(m, i) \/ Creates(m, i)))
  BY <1>1, <1>2, <1>9 DEF ApplyProductionRecord, Stop
<1> QED BY <1>8, <1>9

\* The tables after a record was applied.
TablesAfter(m, i, x, created) ==
    /\ ledger' \in [Manifest -> Seq(Entry)]
    /\ Len(ledger[m]) \in Nat /\ Len(ledger'[m]) = Len(ledger[m]) + 1
    /\ \A k \in 1..Len(ledger[m]) : ledger'[m][k] = ledger[m][k]
    /\ ledger'[m][i].created = created /\ ledger'[m][i].compensated = FALSE
    /\ \A n \in Manifest : n # m => ledger'[n] = ledger[n]
    /\ rows' \in [Id -> Row]
    /\ \A y \in Id : rows'[y].by = IF created /\ y = x THEN m ELSE rows[y].by
    /\ \A y \in Id : Present(y) => Present(y)'
    /\ \A n \in Manifest, k \in Nat :
          Due(n, k)' <=> (Due(n, k) \/ (n = m /\ k = i /\ created))

LEMMA RecordedFacts ==
    ASSUME ImInv, NEW o, NEW m, NEW i, NEW x, NEW created, Recorded(o, m, i, x, created)
    PROVE  TablesAfter(m, i, x, created)
<1>1. /\ rows \in [Id -> Row] /\ ledger \in [Manifest -> Seq(Entry)]
  BY DEF ImInv, ImTypes
<1>2. PICK e : e = [created |-> created, compensated |-> FALSE]
  OBVIOUS
<1>3. /\ m \in Manifest /\ i = Len(ledger[m]) + 1 /\ x \in Id /\ created \in BOOLEAN
      /\ created <=> ~Present(x)
      /\ rows' = IF created THEN [rows EXCEPT ![x] = [by |-> m, same |-> TRUE]] ELSE rows
      /\ ledger' = [ledger EXCEPT ![m] = Append(@, e)]
  BY <1>2 DEF Recorded
<1>4. e \in Entry /\ e.created = created /\ e.compensated = FALSE
  BY <1>2, <1>3 DEF Entry
<1>5. ledger[m] \in Seq(Entry)
  BY <1>1, <1>3
<1>6. /\ ledger'[m] = Append(ledger[m], e) /\ ledger' \in [Manifest -> Seq(Entry)]
      /\ \A n \in Manifest : n # m => ledger'[n] = ledger[n]
  <2>1. Append(ledger[m], e) \in Seq(Entry)
    BY <1>4, <1>5
  <2> QED BY <1>1, <1>3, <2>1
<1>7. /\ Len(ledger[m]) \in Nat /\ Len(ledger'[m]) = Len(ledger[m]) + 1
      /\ \A k \in 1..Len(ledger[m]) : ledger'[m][k] = ledger[m][k]
      /\ ledger'[m][i] = e
  BY <1>3, <1>4, <1>5, <1>6
<1>8. /\ rows' \in [Id -> Row]
      /\ \A y \in Id : rows'[y].by = IF created /\ y = x THEN m ELSE rows[y].by
  <2>1. [by |-> m, same |-> TRUE] \in Row
    BY <1>3 DEF Row
  <2> QED BY <1>1, <1>3, <2>1
<1>9. \A y \in Id : Present(y) => Present(y)'
  BY <1>3, <1>8, RecordTypes DEF Present
<1>10. ASSUME NEW n \in Manifest, NEW k \in Nat
       PROVE  Due(n, k)' <=> (Due(n, k) \/ (n = m /\ k = i /\ created))
  <2>1. CASE n # m
    BY <1>6, <2>1 DEF Due
  <2>2. CASE n = m /\ k = i
    BY <1>3, <1>4, <1>7, <2>2 DEF Due
  <2>3. CASE n = m /\ k # i
    <3>1. k \in 1..Len(ledger'[m]) <=> k \in 1..Len(ledger[m])
      BY <1>3, <1>7, <2>3
    <3> QED BY <1>7, <2>3, <3>1 DEF Due
  <2> QED BY <2>1, <2>2, <2>3
<1> QED BY <1>4, <1>6, <1>7, <1>8, <1>9, <1>10 DEF TablesAfter

\* The process and the run after a record was applied.
LEMMA RecordedProcess ==
    ASSUME ImInv, NEW o, NEW m, NEW i, NEW x, NEW created, Recorded(o, m, i, x, created)
    PROVE  /\ op' \in [Operator -> Op]
           /\ op'[o].pc = "apply" /\ op'[o].m = m /\ op'[o].run.next = i
           /\ op'[o].run.created = IF created THEN op[o].run.created + 1 ELSE op[o].run.created
           /\ op'[o].limit = op[o].limit - 1
           /\ \A q \in Operator : q # o => op'[q] = op[q]
           /\ run' \in [Manifest -> Run] /\ run'[m] = Checkpoint(run[m], m, i, created)
           /\ \A n \in Manifest : n # m => run'[n] = run[n]
<1>1. run \in [Manifest -> Run] /\ op \in [Operator -> Op]
  BY DEF ImInv, ImTypes
<1>2. /\ o \in Operator /\ m \in Manifest /\ op[o].pc = "apply" /\ op[o].m = m
      /\ i = Len(ledger[m]) + 1 /\ op[o].limit > 0
      /\ run' = [run EXCEPT ![m] = Checkpoint(@, m, i, created)]
      /\ op' = [op EXCEPT ![o].run.next = i,
                          ![o].run.created = IF created THEN @ + 1 ELSE @,
                          ![o].limit = @ - 1]
  BY DEF Recorded
<1>3. op[o] \in Applying /\ i \in Nat
  <2>1. op[o] \in Op
    BY <1>1, <1>2
  <2>2. Len(ledger[m]) \in Nat
    BY <1>2 DEF ImInv, ImTypes
  <2> QED BY <1>2, <2>1, <2>2, OpShapes
<1>4. /\ op[o].limit \in Nat /\ op[o].run \in Run /\ op[o].run.created \in Nat
  BY <1>3 DEF Applying, Run
<1> DEFINE c == IF created THEN op[o].run.created + 1 ELSE op[o].run.created
           r == [op[o].run EXCEPT !.next = i, !.created = c]
           l == op[o].limit - 1
           w == [op[o] EXCEPT !.run = r, !.limit = l]
<1>5. c \in Nat
  BY <1>4
<1>6. op' = [op EXCEPT ![o] = w]
  BY <1>1, <1>2, <1>3, <1>4 DEF Applying, Run
<1>7. /\ w \in Applying /\ w.pc = "apply" /\ w.m = m /\ w.run.next = i
      /\ w.run.created = c /\ w.limit = l
  <2> HIDE DEF c
  <2>1. r \in Run /\ r.next = i /\ r.created = c
    BY <1>3, <1>4, <1>5 DEF Run
  <2> HIDE DEF r
  <2>2. l \in Nat
    BY <1>2, <1>4
  <2> HIDE DEF l
  <2> QED BY <1>2, <1>3, <2>1, <2>2 DEF Applying
<1> HIDE DEF w
<1>8. /\ op' \in [Operator -> Op] /\ op'[o] = w
      /\ \A q \in Operator : q # o => op'[q] = op[q]
  BY <1>1, <1>2, <1>6, <1>7 DEF Op
<1>9. Checkpoint(run[m], m, i, created) \in Run
  <2>1. run[m] \in Run
    BY <1>1, <1>2
  <2>2. run[m].created \in Nat
    BY <2>1 DEF Run
  <2> QED BY <1>3, <2>2 DEF Checkpoint, Run
<1>10. /\ run' \in [Manifest -> Run] /\ run'[m] = Checkpoint(run[m], m, i, created)
       /\ \A n \in Manifest : n # m => run'[n] = run[n]
  BY <1>1, <1>2, <1>9
<1> QED BY <1>7, <1>8, <1>10

\* The ledgers led go on as grown: entries may be added or marked.
GoOn(led, grown) ==
    \A n \in Manifest : /\ Len(led[n]) <= Len(grown[n])
                        /\ \A k \in 1..Len(led[n]) : grown[n][k].created = led[n][k].created

\* What a process knows of the ledgers stays true.
LEMMA StillWorking ==
    ASSUME NEW w \in Op, NEW led \in [Manifest -> Seq(Entry)], NEW grown \in [Manifest -> Seq(Entry)],
           GoOn(led, grown), Working(w, led)
    PROVE  Working(w, grown)
<1>1. \A n \in Manifest :
         /\ Len(led[n]) \in Nat /\ Len(grown[n]) \in Nat /\ Len(led[n]) <= Len(grown[n])
         /\ \A k \in 1..Len(led[n]) : grown[n][k].created = led[n][k].created
  BY DEF GoOn
<1>2. ASSUME w.pc # "idle" PROVE w.run.next <= Len(grown[w.m])
  <2>1. w \in Applying \/ w \in RollingBack
    BY <1>2 DEF Op, Idle
  <2>2. w.m \in Manifest /\ w.run \in Run
    BY <2>1 DEF Applying, RollingBack
  <2>3. w.run.next \in Nat
    BY <2>2 DEF Run
  <2> QED BY <1>1, <1>2, <2>2, <2>3 DEF Working
<1>3. ASSUME w.pc = "rollback", NEW i \in w.items
      PROVE  i \in 1..Len(grown[w.m]) /\ grown[w.m][i].created
  <2>1. w.m \in Manifest
    <3>1. w \in RollingBack
      BY <1>3, OpShapes
    <3> QED BY <3>1 DEF RollingBack
  <2>2. i \in 1..Len(led[w.m]) /\ led[w.m][i].created
    BY <1>3 DEF Working
  <2> QED BY <1>1, <2>1, <2>2
<1> QED BY <1>2, <1>3 DEF Working

\* An apply that commits a record.
LEMMA RecordedStep ==
    ASSUME ImInv, NEW o, NEW m, NEW i, NEW x, NEW created, Recorded(o, m, i, x, created)
    PROVE  ImInv'
<1>1. /\ ImTypes /\ LedgersFit /\ ProcessesFit
      /\ DueIsThere /\ ThereIsDue /\ ReferencesHold /\ ChildrenComeLater
  BY DEF ImInv
<1>2. /\ o \in Operator /\ m \in Manifest /\ op[o].pc = "apply" /\ op[o].m = m
      /\ i = Len(ledger[m]) + 1 /\ i = op[o].run.next + 1 /\ i \in 1..Len(Records[m])
      /\ op[o].limit > 0
      /\ x = Records[m][i] /\ x \in Id /\ created \in BOOLEAN /\ (created <=> ~Present(x))
      /\ created => \A y \in Needs[x] : Present(y)
  BY DEF Recorded
<1>0. TablesAfter(m, i, x, created)
  BY RecordedFacts
<1>3. /\ ledger' \in [Manifest -> Seq(Entry)] /\ ledger \in [Manifest -> Seq(Entry)]
      /\ Len(ledger[m]) \in Nat /\ Len(ledger'[m]) = Len(ledger[m]) + 1
      /\ \A k \in 1..Len(ledger[m]) : ledger'[m][k] = ledger[m][k]
      /\ \A n \in Manifest : n # m => ledger'[n] = ledger[n]
      /\ rows' \in [Id -> Row]
  BY <1>0, <1>1 DEF ImTypes, TablesAfter
<1>4. /\ \A y \in Id : rows'[y].by = IF created /\ y = x THEN m ELSE rows[y].by
      /\ \A y \in Id : Present(y) => Present(y)'
      /\ \A n \in Manifest, k \in Nat :
            Due(n, k)' <=> (Due(n, k) \/ (n = m /\ k = i /\ created))
  BY <1>0 DEF TablesAfter
<1>5. /\ op' \in [Operator -> Op] /\ op \in [Operator -> Op]
      /\ op'[o].pc = "apply" /\ op'[o].m = m /\ op'[o].run.next = i
      /\ op'[o].limit = op[o].limit - 1
      /\ \A q \in Operator : q # o => op'[q] = op[q]
      /\ run' \in [Manifest -> Run] /\ run'[m] = Checkpoint(run[m], m, i, created)
      /\ \A n \in Manifest : n # m => run'[n] = run[n]
  BY <1>1, RecordedProcess DEF ImTypes
<1>6. ImTypes'
  BY <1>3, <1>5 DEF ImTypes
<1>7. ValidManifest(m) /\ op[o].run.next + op[o].limit <= Len(Records[m])
  BY <1>1, <1>2 DEF ProcessesFit, Working
<1>8. op[o].limit \in Nat /\ op[o].run.next \in Nat /\ Len(Records[m]) \in Nat
  <2>1. op[o] \in Applying
    BY <1>2, <1>5, OpShapes
  <2> QED BY <1>2, <2>1, RecordTypes DEF Applying, Run
<1>9. LedgersFit'
  <2> SUFFICES ASSUME NEW n \in Manifest
               PROVE  /\ run'[n].next <= Len(ledger'[n])
                      /\ Len(ledger'[n]) <= Len(Records[n])
                      /\ ledger'[n] # << >> => ValidManifest(n)
    BY DEF LedgersFit, ValidManifest
  <2>1. CASE n # m
    BY <1>1, <1>3, <1>5, <2>1 DEF LedgersFit
  <2>2. CASE n = m
    <3>1. run'[m].next = i
      BY <1>5 DEF Checkpoint
    <3> QED BY <1>2, <1>3, <1>7, <1>8, <2>2, <3>1
  <2> QED BY <2>1, <2>2
<1>10. ProcessesFit'
  <2> SUFFICES ASSUME NEW q \in Operator PROVE Working(op'[q], ledger')
    BY DEF ProcessesFit
  <2>1. CASE q = o
    <3>1. i <= Len(ledger'[m]) /\ i + (op[o].limit - 1) <= Len(Records[m])
      BY <1>2, <1>3, <1>7, <1>8, SMTT(40)
    <3>2. op'[q].run.next <= Len(ledger'[op'[q].m])
      BY <1>5, <2>1, <3>1
    <3>3. op'[q].run.next + op'[q].limit <= Len(Records[op'[q].m]) /\ ValidManifest(op'[q].m)
      BY <1>5, <1>7, <2>1, <3>1
    <3>4. op'[q].pc # "rollback"
      BY <1>5, <2>1
    <3> QED BY <3>2, <3>3, <3>4 DEF Working
  <2>2. CASE q # o
    <3>1. GoOn(ledger, ledger')
      <4> SUFFICES ASSUME NEW n \in Manifest
                   PROVE  /\ Len(ledger[n]) <= Len(ledger'[n])
                          /\ \A k \in 1..Len(ledger[n]) :
                                ledger'[n][k].created = ledger[n][k].created
        BY DEF GoOn
      <4>1. CASE n = m
        BY <1>3, <4>1
      <4>2. CASE n # m
        BY <1>3, <4>2
      <4> QED BY <4>1, <4>2
    <3>2. op'[q] = op[q] /\ op[q] \in Op /\ Working(op[q], ledger)
      BY <1>1, <1>5, <2>2 DEF ProcessesFit
    <3>3. Working(op[q], ledger')
      BY <1>3, <3>1, <3>2, StillWorking
    <3> QED BY <3>2, <3>3
  <2> QED BY <2>1, <2>2
<1>11. \A n \in Manifest, k \in Nat :
          Due(n, k) => /\ k \in 1..Len(ledger[n]) /\ k \in 1..Len(Records[n]) /\ Records[n][k] \in Id
                       /\ rows[Records[n][k]].by = n /\ Present(Records[n][k])
  <2> SUFFICES ASSUME NEW n \in Manifest, NEW k \in Nat, Due(n, k)
               PROVE  /\ k \in 1..Len(ledger[n]) /\ k \in 1..Len(Records[n]) /\ Records[n][k] \in Id
                      /\ rows[Records[n][k]].by = n /\ Present(Records[n][k])
    OBVIOUS
  <2>1. k \in 1..Len(ledger[n]) /\ Len(ledger[n]) \in Nat /\ Len(ledger[n]) <= Len(Records[n])
    BY <1>1, <1>3 DEF Due, LedgersFit
  <2>2. k \in 1..Len(Records[n])
    BY <2>1, RecordTypes
  <2> QED BY <1>1, <2>1, <2>2, RecordTypes DEF DueIsThere, Present
<1>12. DueIsThere'
  <2> SUFFICES ASSUME NEW n \in Manifest, NEW k \in Nat, Due(n, k)'
               PROVE  rows'[Records[n][k]].by = n
    BY DEF DueIsThere
  <2>1. CASE n = m /\ k = i /\ created
    BY <1>2, <1>4, <2>1
  <2>2. CASE Due(n, k)
    <3>1. Records[n][k] \in Id /\ rows[Records[n][k]].by = n /\ Present(Records[n][k])
      BY <1>11, <2>2
    <3>2. ~(created /\ Records[n][k] = x)
      BY <1>2, <3>1
    <3> QED BY <1>4, <3>1, <3>2
  <2> QED BY <1>4, <2>1, <2>2
<1>13. ThereIsDue'
  <2> SUFFICES ASSUME NEW y \in Id, NEW n \in Manifest, rows'[y].by = n
               PROVE  \E k \in Nat : Due(n, k)' /\ Records[n][k] = y
    BY DEF ThereIsDue
  <2>1. CASE created /\ y = x
    <3>1. n = m /\ i \in Nat
      <4>1. rows'[x].by = m
        BY <1>2, <1>4, <2>1
      <4>2. i \in Nat
        BY <1>2, <1>3
      <4> QED BY <2>1, <4>1, <4>2
    <3>2. Due(n, i)'
      BY <1>4, <2>1, <3>1, SMTT(40)
    <3> QED BY <1>2, <2>1, <3>1, <3>2
  <2>2. CASE ~(created /\ y = x)
    <3>1. PICK k \in Nat : Due(n, k) /\ Records[n][k] = y
      BY <1>1, <1>4, <2>2 DEF ThereIsDue
    <3> QED BY <1>4, <3>1
  <2> QED BY <2>1, <2>2
<1>14. ReferencesHold'
  <2> SUFFICES ASSUME NEW y \in Id, Present(y)', NEW z \in Refs[y] PROVE Present(z)'
    BY DEF ReferencesHold
  <2>1. z \in Needs[y] /\ z \in Id
    BY RecordTypes
  <2>2. CASE created /\ y = x
    BY <1>2, <1>4, <2>1, <2>2
  <2>3. CASE ~(created /\ y = x)
    <3>1. Present(y)
      BY <1>4, <2>3 DEF Present
    <3> QED BY <1>1, <1>4, <2>1, <3>1 DEF ReferencesHold
  <2> QED BY <2>2, <2>3
<1>15. ChildrenComeLater'
  <2> SUFFICES ASSUME NEW n \in Manifest, NEW a \in Nat, NEW b \in Nat,
                      Due(n, a)', Due(n, b)', b <= a
               PROVE  Records[n][a] \notin Refs[Records[n][b]]
    BY DEF ChildrenComeLater
  <2>1. CASE Due(n, a) /\ Due(n, b)
    BY <1>1, <2>1 DEF ChildrenComeLater
  <2>2. CASE n = m /\ a = i /\ created /\ b = i
    BY <1>2, <2>2, RecordTypes
  <2>3. CASE n = m /\ a = i /\ created /\ Due(n, b)
    <3>1. Records[n][b] \in Id /\ Present(Records[n][b])
      BY <1>11, <2>3
    <3>2. \A z \in Refs[Records[n][b]] : Present(z)
      BY <1>1, <3>1 DEF ReferencesHold
    <3> QED BY <1>2, <2>3, <3>2
  <2>4. CASE Due(n, a) /\ n = m /\ b = i
    <3>1. a \in 1..Len(ledger[m])
      BY <2>4 DEF Due
    <3> QED BY <1>2, <1>3, <2>4, <3>1
  <2> QED BY <1>4, <2>1, <2>2, <2>3, <2>4
<1> QED BY <1>6, <1>9, <1>10, <1>12, <1>13, <1>14, <1>15 DEF ImInv

\* What a rollback that takes a record back does, in terms of the record.
TakenBack(o, m, i, x) ==
    /\ o \in Operator /\ m \in Manifest /\ op[o].pc = "rollback" /\ op[o].m = m
    /\ i \in op[o].items /\ (\A j \in op[o].items : j <= i)
    /\ i \in Nat /\ Due(m, i) /\ x = Records[m][i] /\ x \in Id /\ rows[x].by = m
    /\ \A y \in Id : Present(y) => x \notin Refs[y]
    /\ rows' = [rows EXCEPT ![x].by = Absent]
    /\ ledger' = [ledger EXCEPT ![m][i].compensated = TRUE]
    /\ op' = [op EXCEPT ![o].items = @ \ {i}]
    /\ run' = run

LEMMA CompensateCases ==
    ASSUME ImInv, NEW o \in Operator, CompensateRecord(o)
    PROVE  \/ /\ op' = [op EXCEPT ![o] = Idle]
              /\ rows' = rows /\ ledger' = ledger /\ run' = run
           \/ \E m, i, x : TakenBack(o, m, i, x)
<1>1. PICK m : m = op[o].m
  OBVIOUS
<1>2. PICK i : i = NextItem(op[o].items)
  OBVIOUS
<1>3. PICK x : x = Records[m][i]
  OBVIOUS
<1>4. op[o].pc = "rollback" /\ op[o].items # {} /\ run' = run
  BY DEF CompensateRecord
<1>5. m \in Manifest /\ Len(ledger[m]) \in Nat
  <2>1. op[o] \in RollingBack
    BY <1>4, OpShapes DEF ImInv, ImTypes
  <2>2. m \in Manifest
    BY <1>1, <2>1 DEF RollingBack
  <2> QED BY <2>2 DEF ImInv, ImTypes
<1>6. \A j \in op[o].items : j \in 1..Len(ledger[m]) /\ ledger[m][j].created
  BY <1>1, <1>4 DEF ImInv, ProcessesFit, Working
<1>7. i \in op[o].items /\ (\A j \in op[o].items : j <= i)
  <2>1. op[o].items \subseteq 1..Len(ledger[m])
    BY <1>6
  <2> QED BY <1>2, <1>4, <1>5, <2>1, NextItemFacts
<1>8. CASE Deletable(x) /\ ~ledger[m][i].compensated
  <2>1. Due(m, i) /\ i \in Nat
    BY <1>5, <1>6, <1>7, <1>8 DEF Due
  <2>2. i \in 1..Len(Records[m])
    BY <1>5, <1>6, <1>7, RecordTypes DEF ImInv, LedgersFit
  <2>3. x \in Id /\ rows[x].by = m
    BY <1>3, <1>5, <2>1, <2>2, RecordTypes DEF ImInv, DueIsThere
  <2>4. /\ rows' = [rows EXCEPT ![x].by = Absent]
        /\ ledger' = [ledger EXCEPT ![m][i].compensated = TRUE]
        /\ op' = [op EXCEPT ![o].items = @ \ {i}]
    BY <1>1, <1>2, <1>3, <1>8 DEF CompensateRecord
  <2>5. \A y \in Id : Present(y) => x \notin Refs[y]
    BY <1>8 DEF Deletable
  <2>6. TakenBack(o, m, i, x)
    BY <1>1, <1>3, <1>4, <1>5, <1>7, <2>1, <2>3, <2>4, <2>5 DEF TakenBack
  <2> QED BY <2>6
<1>9. CASE ~(Deletable(x) /\ ~ledger[m][i].compensated)
  BY <1>1, <1>2, <1>3, <1>4, <1>9 DEF CompensateRecord, Stop
<1> QED BY <1>8, <1>9

\* The tables and the process after a record was taken back.
TablesWithout(o, m, i, x) ==
    /\ ledger' \in [Manifest -> Seq(Entry)]
    /\ \A n \in Manifest : Len(ledger'[n]) = Len(ledger[n])
    /\ \A n \in Manifest, k \in Nat :
          k \in 1..Len(ledger[n]) => ledger'[n][k].created = ledger[n][k].created
    /\ rows' \in [Id -> Row]
    /\ \A y \in Id : rows'[y].by = IF y = x THEN Absent ELSE rows[y].by
    /\ \A n \in Manifest, k \in Nat : Due(n, k)' <=> (Due(n, k) /\ ~(n = m /\ k = i))
    /\ op' \in [Operator -> Op]
    /\ op'[o].pc = "rollback" /\ op'[o].m = m /\ op'[o].items = op[o].items \ {i}
    /\ op'[o].run = op[o].run
    /\ \A q \in Operator : q # o => op'[q] = op[q]

LEMMA TakenBackFacts ==
    ASSUME ImInv, NEW o, NEW m, NEW i, NEW x, TakenBack(o, m, i, x)
    PROVE  TablesWithout(o, m, i, x)
<1>1. /\ rows \in [Id -> Row] /\ ledger \in [Manifest -> Seq(Entry)] /\ op \in [Operator -> Op]
  BY DEF ImInv, ImTypes
<1>2. /\ o \in Operator /\ m \in Manifest /\ op[o].pc = "rollback" /\ op[o].m = m
      /\ i \in Nat /\ x \in Id /\ i \in 1..Len(ledger[m])
      /\ rows' = [rows EXCEPT ![x].by = Absent]
      /\ ledger' = [ledger EXCEPT ![m][i].compensated = TRUE]
      /\ op' = [op EXCEPT ![o].items = @ \ {i}]
  BY DEF TakenBack, Due
<1>3. /\ rows' \in [Id -> Row]
      /\ \A y \in Id : rows'[y].by = IF y = x THEN Absent ELSE rows[y].by
  <2>1. PICK v : v = [rows[x] EXCEPT !.by = Absent]
    OBVIOUS
  <2>2. rows[x] \in Row
    BY <1>1, <1>2
  <2>3. v \in Row /\ v.by = Absent
    BY <2>1, <2>2 DEF Row
  <2>4. rows' = [rows EXCEPT ![x] = v]
    BY <1>1, <1>2, <2>1
  <2> QED BY <1>1, <1>2, <2>3, <2>4
<1>4. PICK e : e = [ledger[m][i] EXCEPT !.compensated = TRUE]
  OBVIOUS
<1>5. ledger[m] \in Seq(Entry) /\ ledger[m][i] \in Entry
  BY <1>1, <1>2
<1>6. e \in Entry /\ e.compensated = TRUE /\ e.created = ledger[m][i].created
  BY <1>4, <1>5 DEF Entry
<1>7. PICK l : l = [ledger[m] EXCEPT ![i] = e]
  OBVIOUS
<1>8. /\ l \in Seq(Entry) /\ Len(l) = Len(ledger[m]) /\ l[i] = e
      /\ \A k \in 1..Len(ledger[m]) : k # i => l[k] = ledger[m][k]
  BY <1>2, <1>5, <1>6, <1>7
<1>9. ledger' = [ledger EXCEPT ![m] = l]
  BY <1>1, <1>2, <1>4, <1>7
<1>10. /\ ledger' \in [Manifest -> Seq(Entry)] /\ ledger'[m] = l
       /\ \A n \in Manifest : n # m => ledger'[n] = ledger[n]
  BY <1>1, <1>2, <1>8, <1>9
<1>11. \A n \in Manifest : Len(ledger'[n]) = Len(ledger[n])
  BY <1>8, <1>10
<1>12. ASSUME NEW n \in Manifest, NEW k \in Nat
       PROVE  /\ k \in 1..Len(ledger[n]) => ledger'[n][k].created = ledger[n][k].created
              /\ Due(n, k)' <=> (Due(n, k) /\ ~(n = m /\ k = i))
  <2>1. CASE n # m
    BY <1>10, <2>1 DEF Due
  <2>2. CASE n = m /\ k = i
    BY <1>6, <1>8, <1>10, <2>2 DEF Due
  <2>3. CASE n = m /\ k # i
    BY <1>8, <1>10, <2>3 DEF Due
  <2> QED BY <2>1, <2>2, <2>3
<1>13. /\ op' \in [Operator -> Op]
       /\ op'[o].pc = "rollback" /\ op'[o].m = m /\ op'[o].items = op[o].items \ {i}
       /\ op'[o].run = op[o].run
       /\ \A q \in Operator : q # o => op'[q] = op[q]
  <2>1. PICK s : s = op[o].items \ {i}
    OBVIOUS
  <2>2. PICK w : w = [op[o] EXCEPT !.items = s]
    OBVIOUS
  <2>3. op[o] \in RollingBack
    BY <1>1, <1>2, OpShapes
  <2>4. s \in SUBSET Nat
    BY <2>1, <2>3 DEF RollingBack
  <2>5. /\ w \in RollingBack /\ w.pc = "rollback" /\ w.m = m /\ w.items = s /\ w.run = op[o].run
    BY <1>2, <2>2, <2>3, <2>4 DEF RollingBack
  <2>6. op' = [op EXCEPT ![o] = w]
    BY <1>1, <1>2, <2>1, <2>2
  <2>7. op' \in [Operator -> Op] /\ op'[o] = w /\ \A q \in Operator : q # o => op'[q] = op[q]
    BY <1>1, <1>2, <2>5, <2>6 DEF Op
  <2> QED BY <2>1, <2>5, <2>7
<1> QED BY <1>3, <1>10, <1>11, <1>12, <1>13 DEF TablesWithout

LEMMA TakenBackStep ==
    ASSUME ImInv, NEW o, NEW m, NEW i, NEW x, TakenBack(o, m, i, x)
    PROVE  ImInv'
<1>1. /\ ImTypes /\ LedgersFit /\ ProcessesFit
      /\ DueIsThere /\ ThereIsDue /\ ReferencesHold /\ ChildrenComeLater
  BY DEF ImInv
<1>2. /\ o \in Operator /\ m \in Manifest /\ op[o].pc = "rollback" /\ op[o].m = m
      /\ i \in Nat /\ Due(m, i) /\ x = Records[m][i] /\ x \in Id /\ rows[x].by = m
      /\ \A y \in Id : Present(y) => x \notin Refs[y]
      /\ run' = run
  BY DEF TakenBack
<1>3. TablesWithout(o, m, i, x)
  BY TakenBackFacts
<1>4. /\ ledger' \in [Manifest -> Seq(Entry)] /\ ledger \in [Manifest -> Seq(Entry)]
      /\ \A n \in Manifest : Len(ledger'[n]) = Len(ledger[n]) /\ Len(ledger[n]) \in Nat
      /\ \A n \in Manifest, k \in Nat :
            k \in 1..Len(ledger[n]) => ledger'[n][k].created = ledger[n][k].created
      /\ rows' \in [Id -> Row]
  BY <1>1, <1>3 DEF TablesWithout, ImTypes
<1>5. /\ \A y \in Id : rows'[y].by = IF y = x THEN Absent ELSE rows[y].by
      /\ \A n \in Manifest, k \in Nat : Due(n, k)' <=> (Due(n, k) /\ ~(n = m /\ k = i))
  BY <1>3 DEF TablesWithout
<1>6. /\ op' \in [Operator -> Op] /\ op \in [Operator -> Op]
      /\ op'[o].pc = "rollback" /\ op'[o].m = m /\ op'[o].items = op[o].items \ {i}
      /\ op'[o].run = op[o].run
      /\ \A q \in Operator : q # o => op'[q] = op[q]
  BY <1>1, <1>3 DEF TablesWithout, ImTypes
<1>7. ImTypes'
  BY <1>1, <1>2, <1>4, <1>6 DEF ImTypes
<1>8. LedgersFit'
  <2> SUFFICES ASSUME NEW n \in Manifest
               PROVE  /\ run[n].next <= Len(ledger'[n])
                      /\ Len(ledger'[n]) <= Len(Records[n])
                      /\ ledger'[n] # << >> => ValidManifest(n)
    BY <1>2 DEF LedgersFit, ValidManifest
  <2>1. ledger'[n] \in Seq(Entry) /\ ledger[n] \in Seq(Entry) /\ Len(ledger'[n]) = Len(ledger[n])
    BY <1>4
  <2>2. ledger'[n] # << >> => ledger[n] # << >>
    BY <2>1
  <2> QED BY <1>1, <2>1, <2>2 DEF LedgersFit
<1>9. ProcessesFit'
  <2> SUFFICES ASSUME NEW q \in Operator PROVE Working(op'[q], ledger')
    BY DEF ProcessesFit
  <2>1. GoOn(ledger, ledger')
    <3> SUFFICES ASSUME NEW n \in Manifest
                 PROVE  /\ Len(ledger[n]) <= Len(ledger'[n])
                        /\ \A k \in 1..Len(ledger[n]) :
                              ledger'[n][k].created = ledger[n][k].created
      BY DEF GoOn
    <3> QED BY <1>4
  <2>2. op[q] \in Op /\ Working(op[q], ledger)
    BY <1>1, <1>6 DEF ProcessesFit
  <2>3. Working(op[q], ledger')
    BY <1>4, <2>1, <2>2, StillWorking
  <2>4. CASE q = o
    BY <1>2, <1>6, <2>3, <2>4 DEF Working
  <2>5. CASE q # o
    BY <1>6, <2>3, <2>5
  <2> QED BY <2>4, <2>5
<1>10. DueIsThere'
  <2> SUFFICES ASSUME NEW n \in Manifest, NEW k \in Nat, Due(n, k), ~(n = m /\ k = i)
               PROVE  rows'[Records[n][k]].by = n
    BY <1>5 DEF DueIsThere
  <2>1. /\ k \in 1..Len(Records[n]) /\ i \in 1..Len(Records[m])
        /\ Len(ledger[n]) # 0 /\ ledger[n] \in Seq(Entry)
    BY <1>1, <1>2, <1>4, RecordTypes DEF Due, LedgersFit
  <2>2. Records[n][k] \in Id /\ rows[Records[n][k]].by = n
    BY <1>1, <2>1, RecordTypes DEF DueIsThere
  <2>3. Records[n][k] # x
    <3>1. CASE n = m
      <4>1. ValidManifest(m)
        BY <1>1, <1>2, <2>1, <3>1 DEF LedgersFit
      <4> QED BY <1>2, <2>1, <3>1, <4>1, IdsAreDistinct
    <3>2. CASE n # m
      BY <1>2, <2>2, <3>2
    <3> QED BY <3>1, <3>2
  <2> QED BY <1>5, <2>2, <2>3
<1>11. ThereIsDue'
  <2> SUFFICES ASSUME NEW y \in Id, NEW n \in Manifest, rows'[y].by = n
               PROVE  \E k \in Nat : Due(n, k)' /\ Records[n][k] = y
    BY DEF ThereIsDue
  <2>1. y # x /\ rows[y].by = n
    BY <1>5, RecordTypes
  <2>2. PICK k \in Nat : Due(n, k) /\ Records[n][k] = y
    BY <1>1, <2>1 DEF ThereIsDue
  <2>3. ~(n = m /\ k = i)
    BY <1>2, <2>1, <2>2
  <2> QED BY <1>5, <2>2, <2>3
<1>12. ReferencesHold'
  <2> SUFFICES ASSUME NEW y \in Id, Present(y)', NEW z \in Refs[y] PROVE Present(z)'
    BY DEF ReferencesHold
  <2>1. z \in Id
    BY RecordTypes
  <2>2. Present(y)
    BY <1>5 DEF Present
  <2>3. Present(z) /\ z # x
    BY <1>1, <1>2, <2>2 DEF ReferencesHold
  <2> QED BY <1>5, <2>1, <2>3 DEF Present
<1>13. ChildrenComeLater'
  BY <1>1, <1>5 DEF ChildrenComeLater
<1> QED BY <1>7, <1>8, <1>9, <1>10, <1>11, <1>12, <1>13 DEF ImInv

\* What an operation finds when it starts.
LEMMA LoadFacts ==
    ASSUME ImInv, NEW m \in Manifest
    PROVE  /\ LoadOrCreate(m) \in Run /\ LoadOrCreate(m).next \in Nat
           /\ LoadOrCreate(m).next <= Len(ledger[m])
           /\ LoadOrCreate(m).next = run[m].next /\ LoadOrCreate(m).created = run[m].created
           /\ run[m] # NoRun => LoadOrCreate(m) = run[m]
           /\ run[m] = NoRun => LoadOrCreate(m).status = "running"
<1>1. run[m] \in Run /\ run[m].next <= Len(ledger[m])
  BY DEF ImInv, ImTypes, LedgersFit
<1>2. run[m].next \in Nat
  BY <1>1 DEF Run
<1>3. CASE run[m] = NoRun
  BY <1>1, <1>2, <1>3 DEF LoadOrCreate, NoRun, Run
<1>4. CASE run[m] # NoRun
  BY <1>1, <1>2, <1>4 DEF LoadOrCreate
<1> QED BY <1>3, <1>4

\* The process of an apply that starts.
StartedApply(m, limit) ==
    LET r == LoadOrCreate(m)
        left == Len(Records[m]) - r.next
    IN [pc |-> "apply", m |-> m, run |-> r,
        limit |-> IF limit = 0 \/ limit > left THEN left ELSE limit]

LEMMA ApplyStarts ==
    ASSUME ImInv, NEW m \in Manifest, NEW limit \in Nat, ValidManifest(m), NEW w,
           w = StartedApply(m, limit)
    PROVE  /\ w \in Op /\ Working(w, ledger)
           /\ w.pc = "apply" /\ w.m = m /\ w.run = LoadOrCreate(m)
           /\ (LoadOrCreate(m).next < Len(Records[m])) => w.limit > 0
<1> DEFINE r == LoadOrCreate(m)
           left == Len(Records[m]) - r.next
           l == IF limit = 0 \/ limit > left THEN left ELSE limit
<1>0. w = [pc |-> "apply", m |-> m, run |-> r, limit |-> l]
  BY DEF StartedApply
<1>1. r \in Run /\ r.next \in Nat /\ r.next <= Len(ledger[m])
  BY LoadFacts
<1>2. Len(ledger[m]) <= Len(Records[m]) /\ Len(ledger[m]) \in Nat /\ Len(Records[m]) \in Nat
  BY RecordTypes DEF ImInv, ImTypes, LedgersFit
<1> HIDE DEF r
<1>3. left \in Nat
  BY <1>1, <1>2
<1>4. l \in Nat /\ l <= left /\ (left > 0 => l > 0)
  BY <1>3
<1>5. r.next + l <= Len(Records[m]) /\ (r.next < Len(Records[m]) => l > 0)
  BY <1>1, <1>2, <1>4
<1> HIDE DEF l
<1>6. w \in Applying
  BY <1>0, <1>1, <1>4 DEF Applying
<1>7. w.pc = "apply" /\ w.run = r /\ w.m = m /\ w.limit = l
  BY <1>0
<1>8. Working(w, ledger)
  BY <1>1, <1>5, <1>7 DEF Working
<1> QED BY <1>5, <1>6, <1>7, <1>8 DEF Op, r

\* Every step that neither applies nor takes back a record.
LEMMA OtherStepsInv ==
    ASSUME ImInv, ledger' = ledger,
           \/ UNCHANGED imVars
           \/ \E o \in Operator, m \in Manifest :
                 \/ \E limit \in 0..1 : StartApply(o, m, limit)
                 \/ StartRollback(o, m)
           \/ \E o \in Operator :
                 \/ PersistApply(o) \/ ListCompensations(o) \/ PersistRollback(o) \/ Dies(o)
                 \/ /\ op' = [op EXCEPT ![o] = Idle]
                    /\ rows' = rows /\ run' = run
           \/ \E x \in Id : Change(x) \/ Reference(x)
    PROVE  ImInv' /\ \A x \in Id : rows'[x].by = rows[x].by
<1>1. /\ rows \in [Id -> Row] /\ run \in [Manifest -> Run] /\ op \in [Operator -> Op]
      /\ \A m \in Manifest : run[m].next <= Len(ledger[m]) /\ ledger[m] \in Seq(Entry)
      /\ \A o \in Operator : Working(op[o], ledger)
  BY DEF ImInv, ImTypes, LedgersFit, ProcessesFit
<1>2. ASSUME NEW o \in Operator, op' = [op EXCEPT ![o] = Idle], rows' = rows,
             NEW m \in Manifest, NEW r \in Run, run' = [run EXCEPT ![m] = r],
             r.next <= Len(ledger[m])
      PROVE  ImInv'
  <2>1. run' \in [Manifest -> Run] /\ \A n \in Manifest : run'[n].next <= Len(ledger[n])
    BY <1>1, <1>2
  <2> QED BY <1>1, <1>2, <2>1, IdleFits, OneProcessMoves, QuietImport
<1>3. ASSUME NEW o \in Operator, NEW m \in Manifest, NEW limit \in 0..1, StartApply(o, m, limit)
      PROVE  ImInv' /\ rows' = rows
  <2>1. /\ rows' = rows /\ ValidManifest(m)
        /\ run' = [run EXCEPT ![m] = LoadOrCreate(m)]
    BY <1>3 DEF StartApply
  <2>2. run' \in [Manifest -> Run] /\ \A n \in Manifest : run'[n].next <= Len(ledger[n])
    BY <1>1, <2>1, LoadFacts
  <2>0. PICK w : w = StartedApply(m, limit)
    OBVIOUS
  <2>3. w \in Op /\ Working(w, ledger) /\ (op' = op \/ op' = [op EXCEPT ![o] = w])
    <3>1. op' = op \/ op' = [op EXCEPT ![o] = w]
      BY <1>3, <2>0 DEF StartApply, StartedApply
    <3> QED BY <2>0, <2>1, <3>1, ApplyStarts
  <2>4. op' \in [Operator -> Op] /\ \A q \in Operator : Working(op'[q], ledger)
    BY <1>1, <2>3, OneProcessMoves
  <2> QED BY <1>1, <2>1, <2>2, <2>4, QuietImport
<1>4. ASSUME NEW o \in Operator, NEW m \in Manifest, StartRollback(o, m)
      PROVE  ImInv' /\ rows' = rows
  <2>1. PICK w : w = [pc |-> "list", m |-> m, run |-> run[m], items |-> {}]
    OBVIOUS
  <2>2. w \in Op /\ Working(w, ledger)
    <3>1. w \in RollingBack /\ w.pc = "list" /\ w.run = run[m] /\ w.m = m
      BY <1>1, <2>1 DEF RollingBack
    <3> QED BY <1>1, <3>1 DEF Op, Working
  <2>3. rows' = rows /\ run' = run /\ (op' = op \/ op' = [op EXCEPT ![o] = w])
    BY <1>4, <2>1 DEF StartRollback
  <2>4. op' \in [Operator -> Op] /\ \A q \in Operator : Working(op'[q], ledger)
    BY <1>1, <2>2, <2>3, OneProcessMoves
  <2> QED BY <1>1, <2>3, <2>4, QuietImport
<1>5. ASSUME NEW o \in Operator, PersistApply(o) PROVE ImInv' /\ rows' = rows
  <2>1. PICK m : m = op[o].m
    OBVIOUS
  <2>2. PICK r : r = [op[o].run EXCEPT !.status =
                        IF op[o].run.next = Len(Records[m]) THEN "completed" ELSE "paused"]
    OBVIOUS
  <2>3. /\ op[o].pc = "apply" /\ run' = [run EXCEPT ![m] = r] /\ rows' = rows
        /\ op' = [op EXCEPT ![o] = Idle]
    BY <1>5, <2>1, <2>2 DEF PersistApply, Stop
  <2>4. op[o] \in Applying
    BY <1>1, <2>3, OpShapes
  <2>5. m \in Manifest /\ op[o].run \in Run
    BY <2>1, <2>4 DEF Applying
  <2>6. r \in Run /\ r.next = op[o].run.next
    BY <2>2, <2>5 DEF Run
  <2>7. r.next <= Len(ledger[m])
    BY <1>1, <2>1, <2>3, <2>6 DEF Working
  <2> QED BY <1>2, <2>3, <2>5, <2>6, <2>7
<1>6. ASSUME NEW o \in Operator, ListCompensations(o) PROVE ImInv' /\ rows' = rows
  <2>1. PICK m : m = op[o].m
    OBVIOUS
  <2>2. PICK w : w = [op[o] EXCEPT !.pc = "rollback", !.items = ToCompensate(m)]
    OBVIOUS
  <2>3. op[o].pc = "list" /\ rows' = rows /\ run' = run
    BY <1>6 DEF ListCompensations
  <2>4. op[o] \in RollingBack
    BY <1>1, <2>3, OpShapes
  <2>5. m \in Manifest
    BY <2>1, <2>4 DEF RollingBack
  <2>6. ToCompensate(m) \in SUBSET Nat /\ ToCompensate(m) \subseteq 1..Len(ledger[m])
    BY <1>1, <2>5 DEF ToCompensate
  <2>7. /\ w \in RollingBack /\ w.pc = "rollback" /\ w.m = m /\ w.items = ToCompensate(m)
        /\ w.run = op[o].run
    BY <2>1, <2>2, <2>4, <2>6 DEF RollingBack
  <2>8. op' = [op EXCEPT ![o] = w]
    BY <1>1, <1>6, <2>1, <2>2 DEF ListCompensations
  <2>9. Working(w, ledger)
    <3>1. op[o].run.next <= Len(ledger[m])
      BY <1>1, <2>1, <2>3 DEF Working
    <3> QED BY <2>7, <3>1 DEF Working, ToCompensate
  <2>10. w \in Op
    BY <2>7 DEF Op
  <2>11. op' \in [Operator -> Op] /\ \A q \in Operator : Working(op'[q], ledger)
    BY <2>8, <2>9, <2>10, OneProcessMoves
  <2> QED BY <1>1, <2>3, <2>11, QuietImport
<1>7. ASSUME NEW o \in Operator, PersistRollback(o) PROVE ImInv' /\ rows' = rows
  <2>1. PICK m : m = op[o].m
    OBVIOUS
  <2>2. PICK r : r = [op[o].run EXCEPT !.status = "rolled_back"]
    OBVIOUS
  <2>3. /\ op[o].pc = "rollback" /\ run' = [run EXCEPT ![m] = r] /\ rows' = rows
        /\ op' = [op EXCEPT ![o] = Idle]
    BY <1>7, <2>1, <2>2 DEF PersistRollback, Stop
  <2>4. op[o] \in RollingBack
    BY <1>1, <2>3, OpShapes
  <2>5. m \in Manifest /\ op[o].run \in Run
    BY <2>1, <2>4 DEF RollingBack
  <2>6. r \in Run /\ r.next = op[o].run.next
    BY <2>2, <2>5 DEF Run
  <2>7. r.next <= Len(ledger[m])
    BY <1>1, <2>1, <2>3, <2>6 DEF Working
  <2> QED BY <1>2, <2>3, <2>5, <2>6, <2>7
<1>8. ASSUME NEW o \in Operator, op' = [op EXCEPT ![o] = Idle], rows' = rows, run' = run
      PROVE  ImInv'
  <2>1. op' \in [Operator -> Op] /\ \A q \in Operator : Working(op'[q], ledger)
    BY <1>8, IdleFits, OneProcessMoves
  <2> QED BY <1>1, <1>8, <2>1, QuietImport
<1>9. ASSUME NEW o \in Operator, Dies(o) PROVE ImInv' /\ rows' = rows
  BY <1>8, <1>9 DEF Dies, Stop
<1>10. ASSUME NEW x \in Id, Change(x) PROVE ImInv' /\ \A y \in Id : rows'[y].by = rows[y].by
  <2>1. rows' = [rows EXCEPT ![x].same = FALSE] /\ run' = run /\ op' = op
    BY <1>10 DEF Change
  <2>2. PICK v : v = [rows[x] EXCEPT !.same = FALSE]
    OBVIOUS
  <2>3. v \in Row /\ v.by = rows[x].by
    <3>1. rows[x] \in Row
      BY <1>1
    <3> QED BY <2>2, <3>1 DEF Row
  <2>4. rows' = [rows EXCEPT ![x] = v]
    BY <1>1, <2>1, <2>2
  <2>5. rows' \in [Id -> Row] /\ \A y \in Id : rows'[y].by = rows[y].by
    BY <1>1, <2>3, <2>4
  <2> QED BY <1>1, <2>1, <2>5, QuietImport
<1>11. ASSUME rows' = rows, run' = run, op' = op PROVE ImInv'
  BY <1>1, <1>11, QuietImport
<1>12. ASSUME NEW x \in Id, Reference(x) PROVE ImInv' /\ rows' = rows
  BY <1>11, <1>12 DEF Reference
<1>13. CASE UNCHANGED imVars
  BY <1>11, <1>13 DEF imVars
<1> QED BY <1>3, <1>4, <1>5, <1>6, <1>7, <1>8, <1>9, <1>10, <1>12, <1>13 DEF imVars

LEMMA ImInitInv == ImInit => ImInv
<1> SUFFICES ASSUME ImInit PROVE ImInv
  OBVIOUS
<1>1. /\ run = [m \in Manifest |-> NoRun] /\ ledger = [m \in Manifest |-> << >>]
      /\ op = [o \in Operator |-> Idle]
      /\ rows \in [Id -> {[by |-> Absent, same |-> TRUE], [by |-> Platform, same |-> TRUE]}]
      /\ \A x \in Id : rows[x].by # Absent => \A y \in Refs[x] : rows[y].by # Absent
  BY DEF ImInit
<1>2. NoRun \in Run /\ NoRun.next = 0
  BY DEF NoRun, Run
<1>3. << >> \in Seq(Entry) /\ Len(<< >>) = 0
  OBVIOUS
<1>4. rows \in [Id -> Row] /\ \A x \in Id : rows[x].by \in {Absent, Platform}
  <2>1. ASSUME NEW x \in Id PROVE rows[x] \in Row /\ rows[x].by \in {Absent, Platform}
    <3>1. PICK a, b : a = [by |-> Absent, same |-> TRUE] /\ b = [by |-> Platform, same |-> TRUE]
      OBVIOUS
    <3>2. rows \in [Id -> {a, b}]
      BY <1>1, <3>1, Zenon
    <3>3. rows[x] = a \/ rows[x] = b
      BY <3>2
    <3>4. a \in Row /\ b \in Row /\ a.by = Absent /\ b.by = Platform
      BY <3>1 DEF Row
    <3> QED BY <3>3, <3>4
  <2>2. rows = [x \in Id |-> rows[x]]
    BY <1>1, Zenon
  <2> QED BY <2>1, <2>2
<1>5. ImTypes
  BY <1>1, <1>2, <1>3, <1>4, IdleFits DEF ImTypes
<1>6. LedgersFit
  BY <1>1, <1>2, <1>3, RecordTypes DEF LedgersFit
<1>7. ProcessesFit
  BY <1>1, IdleFits DEF ProcessesFit
<1>8. \A m \in Manifest, i \in Nat : ~Due(m, i)
  BY <1>1, <1>3 DEF Due
<1>9. DueIsThere /\ ChildrenComeLater
  BY <1>8 DEF DueIsThere, ChildrenComeLater
<1>10. ThereIsDue
  BY <1>4, RecordTypes DEF ThereIsDue
<1>11. ReferencesHold
  BY <1>1, RecordTypes DEF ReferencesHold, Present
<1> QED BY <1>5, <1>6, <1>7, <1>9, <1>10, <1>11 DEF ImInv

\* A step applies a record, takes one back, or does neither.
LEMMA ImStepCases ==
    ASSUME ImInv, [ImNext]_imVars
    PROVE  \/ \E o, m, i, x, created : Recorded(o, m, i, x, created)
           \/ \E o, m, i, x : TakenBack(o, m, i, x)
           \/ ImInv' /\ ledger' = ledger /\ \A x \in Id : rows'[x].by = rows[x].by
<1>1. ASSUME NEW o \in Operator, ApplyProductionRecord(o)
      PROVE  \/ \E m, i, x, created : Recorded(o, m, i, x, created)
             \/ ImInv' /\ ledger' = ledger /\ \A x \in Id : rows'[x].by = rows[x].by
  <2>1. CASE /\ op' = [op EXCEPT ![o] = Idle] /\ rows' = rows /\ ledger' = ledger /\ run' = run
    BY <2>1, OtherStepsInv
  <2> QED BY <1>1, <2>1, ApplyCases
<1>2. ASSUME NEW o \in Operator, CompensateRecord(o)
      PROVE  \/ \E m, i, x : TakenBack(o, m, i, x)
             \/ ImInv' /\ ledger' = ledger /\ \A x \in Id : rows'[x].by = rows[x].by
  <2>1. CASE /\ op' = [op EXCEPT ![o] = Idle] /\ rows' = rows /\ ledger' = ledger /\ run' = run
    BY <2>1, OtherStepsInv
  <2> QED BY <1>2, <2>1, CompensateCases
<1>3. CASE \/ UNCHANGED imVars
           \/ \E o \in Operator, m \in Manifest :
                 \/ \E limit \in 0..1 : StartApply(o, m, limit)
                 \/ StartRollback(o, m)
           \/ \E o \in Operator :
                 PersistApply(o) \/ ListCompensations(o) \/ PersistRollback(o) \/ Dies(o)
           \/ \E x \in Id : Change(x) \/ Reference(x)
  <2>1. ledger' = ledger
    BY <1>3 DEF imVars, StartApply, StartRollback, PersistApply, ListCompensations,
                PersistRollback, Dies, Change, Reference
  <2> QED BY <1>3, <2>1, OtherStepsInv
<1> QED BY <1>1, <1>2, <1>3 DEF ImNext

LEMMA ImNextInv == ImInv /\ [ImNext]_imVars => ImInv'
BY ImStepCases, RecordedStep, TakenBackStep

LEMMA ImInvariance == ImSpec => []ImInv
BY ImInitInv, ImNextInv, PTL DEF ImSpec

\* Whatever operators run at the same time, die and try again, over whatever manifests:
\* RollbackProductionImport deletes a row only if its own manifest created it and has
\* not taken it back, also when another manifest created the same id in between.
THEOREM OnlyOwnRowsAreRemovedAlways == ImSpec => OnlyOwnRowsAreRemoved
<1> DEFINE Own == \A x \in Id :
                    (Present(x) /\ rows'[x].by = Absent) =>
                        \E o \in Operator : op[o].pc = "rollback" /\ rows[x].by = op[o].m
<1>1. ImInv /\ [ImNext]_imVars => [Own]_imVars
  <2> SUFFICES ASSUME ImInv, [ImNext]_imVars, NEW y \in Id, Present(y), rows'[y].by = Absent
               PROVE  \E o \in Operator : op[o].pc = "rollback" /\ rows[y].by = op[o].m
    OBVIOUS
  <2>1. ASSUME NEW o, NEW m, NEW i, NEW x, NEW created, Recorded(o, m, i, x, created)
        PROVE  FALSE
    <3>1. TablesAfter(m, i, x, created)
      BY <2>1, RecordedFacts
    <3>2. Present(y)'
      BY <3>1 DEF TablesAfter
    <3> QED BY <3>2 DEF Present
  <2>2. ASSUME NEW o, NEW m, NEW i, NEW x, TakenBack(o, m, i, x)
        PROVE  o \in Operator /\ op[o].pc = "rollback" /\ rows[y].by = op[o].m
    <3>1. TablesWithout(o, m, i, x)
      BY <2>2, TakenBackFacts
    <3>2. y = x
      BY <3>1 DEF TablesWithout, Present
    <3> QED BY <2>2, <3>2 DEF TakenBack
  <2>3. ASSUME \A x \in Id : rows'[x].by = rows[x].by PROVE FALSE
    BY <2>3 DEF Present
  <2> QED BY <2>1, <2>2, <2>3, ImStepCases
<1> QED BY <1>1, ImInvariance, PTL DEF ImSpec, OnlyOwnRowsAreRemoved

(***************************************************************************)
(* The import: what holds while only one operator works                    *)
(***************************************************************************)
OneOperator == \A o, p \in Operator : o = p

CreatedBy(m) == {i \in 1..Len(ledger[m]) : ledger[m][i].created}

\* The status says how far the ledger is, and that nothing is left after a rollback.
StatusTells ==
    \A m \in Manifest :
        /\ (ledger[m] # << >> /\ run[m].status # "rolled_back")
           => run[m].status = IF run[m].next = Len(Records[m]) THEN "completed" ELSE "paused"
        /\ run[m].status = "rolled_back" => \A i \in Nat : ~Due(m, i)

\* Process w has the run as it is stored in runs, and in the middle of a rollback
\* what is due is what it has still to take back.
HasRead(w, runs, led) ==
    /\ w.pc = "apply" => /\ w.run.next = runs[w.m].next /\ w.run.created = runs[w.m].created
                         /\ runs[w.m].status # "rolled_back"
    /\ w.pc \in {"list", "rollback"} => w.run = runs[w.m] /\ w.run.status # "rolled_back"
    /\ w.pc = "rollback" =>
          \A i \in Nat : i \in w.items <=> /\ i \in 1..Len(led[w.m])
                                          /\ led[w.m][i].created /\ ~led[w.m][i].compensated

ReadIsCurrent == \A o \in Operator : HasRead(op[o], run, ledger)

AloneInv == ImInv /\ ResumesAfterLastCommitted /\ StatusTells /\ ReadIsCurrent

LEMMA IdleHasRead == \A runs, led : HasRead(Idle, runs, led)
BY DEF HasRead, Idle

\* The only process has become w.
LEMMA OnlyProcess ==
    ASSUME OneOperator, NEW o \in Operator, NEW w, op'[o] = w, HasRead(w, run', ledger')
    PROVE  ReadIsCurrent'
<1> SUFFICES ASSUME NEW q \in Operator PROVE HasRead(op'[q], run', ledger')
  BY DEF ReadIsCurrent
<1>1. q = o
  BY DEF OneOperator
<1> QED BY <1>1

\* The count of created rows, kept with every record.
LEMMA CountsOne ==
    ASSUME ImInv, NEW o, NEW m, NEW i, NEW x, NEW created, Recorded(o, m, i, x, created)
    PROVE  /\ CreatedBy(m)' = IF created THEN CreatedBy(m) \cup {i} ELSE CreatedBy(m)
           /\ i \notin CreatedBy(m) /\ IsFiniteSet(CreatedBy(m))
           /\ Cardinality(CreatedBy(m)') =
                 IF created THEN Cardinality(CreatedBy(m)) + 1 ELSE Cardinality(CreatedBy(m))
<1>1. TablesAfter(m, i, x, created)
  BY RecordedFacts
<1>2. m \in Manifest /\ i = Len(ledger[m]) + 1 /\ created \in BOOLEAN
  BY DEF Recorded
<1>3. /\ Len(ledger[m]) \in Nat /\ Len(ledger'[m]) = Len(ledger[m]) + 1
      /\ \A k \in 1..Len(ledger[m]) : ledger'[m][k] = ledger[m][k]
      /\ ledger'[m][i].created = created
  BY <1>1 DEF TablesAfter
<1>4. CreatedBy(m)' = {k \in 1..Len(ledger'[m]) : ledger'[m][k].created}
  BY DEF CreatedBy
<1>5. i \notin CreatedBy(m)
  BY <1>2, <1>3 DEF CreatedBy
<1>6. ASSUME NEW k
      PROVE  k \in CreatedBy(m)' <=> (k \in CreatedBy(m) \/ (created /\ k = i))
  <2>1. CASE k = i
    BY <1>2, <1>3, <1>4, <1>5, <2>1
  <2>2. CASE k # i
    <3>1. k \in 1..Len(ledger'[m]) <=> k \in 1..Len(ledger[m])
      BY <1>2, <1>3, <2>2
    <3> QED BY <1>3, <1>4, <2>2, <3>1 DEF CreatedBy
  <2> QED BY <2>1, <2>2
<1>7. IsFiniteSet(CreatedBy(m))
  <2>0. 1 \in Int /\ Len(ledger[m]) \in Int
    BY <1>3
  <2>1. IsFiniteSet(1..Len(ledger[m]))
    BY <2>0, FS_Interval, Zenon
  <2> QED BY <2>1, FS_Subset DEF CreatedBy
<1>8. CreatedBy(m)' = IF created THEN CreatedBy(m) \cup {i} ELSE CreatedBy(m)
  <2>1. CASE created
    BY <1>6, <2>1, Zenon
  <2>2. CASE ~created
    BY <1>6, <2>2, Zenon
  <2> QED BY <2>1, <2>2
<1>9. Cardinality(CreatedBy(m) \cup {i}) = Cardinality(CreatedBy(m)) + 1
  BY <1>5, <1>7, FS_AddElement
<1> QED BY <1>5, <1>7, <1>8, <1>9

\* The counts of a manifest, in terms of CreatedBy.
LEMMA CountsAre ==
    ResumesAfterLastCommitted <=>
        \A m \in Manifest : /\ run[m].next = Len(ledger[m])
                            /\ run[m].created = Cardinality(CreatedBy(m))
BY DEF ResumesAfterLastCommitted, CreatedBy

\* An apply that commits a record.
LEMMA RecordedAlone ==
    ASSUME OneOperator, AloneInv,
           NEW o, NEW m, NEW i, NEW x, NEW created, Recorded(o, m, i, x, created)
    PROVE  /\ AloneInv'
           /\ run'[m].status = IF i = Len(Records[m]) THEN "completed" ELSE "paused"
           /\ run'[m].next = i
<1>1. ImInv /\ ResumesAfterLastCommitted /\ StatusTells /\ ReadIsCurrent
  BY DEF AloneInv
<1>2. ImInv'
  BY <1>1, RecordedStep
<1>3. /\ o \in Operator /\ m \in Manifest /\ op[o].pc = "apply" /\ op[o].m = m
      /\ i = Len(ledger[m]) + 1 /\ created \in BOOLEAN
  BY DEF Recorded
<1>4. TablesAfter(m, i, x, created)
  BY <1>1, RecordedFacts
<1>5. /\ Len(ledger[m]) \in Nat /\ Len(ledger'[m]) = i /\ ledger'[m] \in Seq(Entry)
      /\ \A n \in Manifest : n # m => ledger'[n] = ledger[n]
  BY <1>3, <1>4 DEF TablesAfter
<1>6. /\ op'[o].pc = "apply" /\ op'[o].m = m /\ op'[o].run.next = i
      /\ op'[o].run.created = IF created THEN op[o].run.created + 1 ELSE op[o].run.created
      /\ run'[m] = Checkpoint(run[m], m, i, created)
      /\ \A n \in Manifest : n # m => run'[n] = run[n]
  BY <1>1, RecordedProcess
<1>7. /\ run'[m].status = IF i = Len(Records[m]) THEN "completed" ELSE "paused"
      /\ run'[m].next = i
      /\ run'[m].created = IF created THEN run[m].created + 1 ELSE run[m].created
  BY <1>6 DEF Checkpoint
<1>8. op[o].run.created = run[m].created
  BY <1>1, <1>3 DEF ReadIsCurrent, HasRead
<1>9. ResumesAfterLastCommitted'
  <2> SUFFICES ASSUME NEW n \in Manifest
               PROVE  /\ run'[n].next = Len(ledger'[n])
                      /\ run'[n].created = Cardinality(CreatedBy(n)')
    BY DEF ResumesAfterLastCommitted, CreatedBy
  <2>1. run[n].next = Len(ledger[n]) /\ run[n].created = Cardinality(CreatedBy(n))
    BY <1>1, CountsAre
  <2>2. CASE n = m
    <3>1. Cardinality(CreatedBy(m)') =
             IF created THEN Cardinality(CreatedBy(m)) + 1 ELSE Cardinality(CreatedBy(m))
      BY <1>1, CountsOne
    <3> QED BY <1>5, <1>7, <2>1, <2>2, <3>1
  <2>3. CASE n # m
    <3>1. CreatedBy(n)' = CreatedBy(n)
      BY <1>5, <2>3 DEF CreatedBy
    <3> QED BY <1>5, <1>6, <2>1, <2>3, <3>1
  <2> QED BY <2>2, <2>3
<1>10. StatusTells'
  <2> SUFFICES ASSUME NEW n \in Manifest
               PROVE  /\ (ledger'[n] # << >> /\ run'[n].status # "rolled_back")
                         => run'[n].status = IF run'[n].next = Len(Records[n])
                                             THEN "completed" ELSE "paused"
                      /\ run'[n].status = "rolled_back" => \A k \in Nat : ~Due(n, k)'
    BY DEF StatusTells
  <2>1. CASE n = m
    BY <1>7, <2>1
  <2>2. CASE n # m
    <3>1. \A k \in Nat : Due(n, k)' <=> Due(n, k)
      BY <1>4, <2>2 DEF TablesAfter
    <3> QED BY <1>1, <1>5, <1>6, <2>2, <3>1 DEF StatusTells
  <2> QED BY <2>1, <2>2
<1>11. HasRead(op'[o], run', ledger')
  BY <1>6, <1>7, <1>8 DEF HasRead
<1>12. ReadIsCurrent'
  BY <1>3, <1>11, OnlyProcess
<1> QED BY <1>2, <1>7, <1>9, <1>10, <1>12 DEF AloneInv

\* A rollback that takes a record back.
LEMMA TakenBackAlone ==
    ASSUME OneOperator, AloneInv, NEW o, NEW m, NEW i, NEW x, TakenBack(o, m, i, x)
    PROVE  AloneInv' /\ run' = run
<1>1. ImInv /\ ResumesAfterLastCommitted /\ StatusTells /\ ReadIsCurrent
  BY DEF AloneInv
<1>2. ImInv'
  BY <1>1, TakenBackStep
<1>3. /\ o \in Operator /\ m \in Manifest /\ op[o].pc = "rollback" /\ op[o].m = m
      /\ i \in Nat /\ run' = run
  BY DEF TakenBack
<1>4. TablesWithout(o, m, i, x)
  BY <1>1, TakenBackFacts
<1>5. /\ \A n \in Manifest : Len(ledger'[n]) = Len(ledger[n])
      /\ \A n \in Manifest, k \in Nat :
            k \in 1..Len(ledger[n]) => ledger'[n][k].created = ledger[n][k].created
      /\ \A n \in Manifest, k \in Nat : Due(n, k)' <=> (Due(n, k) /\ ~(n = m /\ k = i))
      /\ op'[o].pc = "rollback" /\ op'[o].m = m /\ op'[o].items = op[o].items \ {i}
      /\ op'[o].run = op[o].run
  BY <1>4 DEF TablesWithout
<1>6. \A n \in Manifest : /\ ledger'[n] \in Seq(Entry) /\ ledger[n] \in Seq(Entry)
                          /\ ledger'[n] # << >> => ledger[n] # << >>
  <2>1. \A n \in Manifest : ledger'[n] \in Seq(Entry) /\ ledger[n] \in Seq(Entry)
    BY <1>1, <1>4 DEF TablesWithout, ImInv, ImTypes
  <2> QED BY <1>5, <2>1
<1>7. ResumesAfterLastCommitted'
  <2> SUFFICES ASSUME NEW n \in Manifest
               PROVE  /\ run'[n].next = Len(ledger'[n])
                      /\ run'[n].created = Cardinality(CreatedBy(n)')
    BY DEF ResumesAfterLastCommitted, CreatedBy
  <2>1. run[n].next = Len(ledger[n]) /\ run[n].created = Cardinality(CreatedBy(n))
    BY <1>1, CountsAre
  <2>2. CreatedBy(n)' = CreatedBy(n)
    <3>1. \A k : k \in CreatedBy(n)' <=> k \in CreatedBy(n)
      BY <1>5, <1>6 DEF CreatedBy
    <3> QED BY <3>1, Zenon
  <2> QED BY <1>3, <1>5, <2>1, <2>2
<1>8. StatusTells'
  BY <1>1, <1>3, <1>5, <1>6 DEF StatusTells
<1>9. HasRead(op'[o], run', ledger')
  <2>1. op[o].run = run[m] /\ op[o].run.status # "rolled_back"
    BY <1>1, <1>3 DEF ReadIsCurrent, HasRead
  <2>2. \A k \in Nat : k \in op[o].items <=> Due(m, k)
    BY <1>1, <1>3 DEF ReadIsCurrent, HasRead, Due
  <2>3. \A k \in Nat : k \in op'[o].items <=> Due(m, k)'
    BY <1>3, <1>5, <2>2
  <2> QED BY <1>3, <1>5, <2>1, <2>3 DEF HasRead, Due
<1>10. ReadIsCurrent'
  BY <1>3, <1>9, OnlyProcess
<1> QED BY <1>2, <1>3, <1>7, <1>8, <1>10 DEF AloneInv

\* What a step means for the manifests: nothing, one record more, or one rollback done.
Unmoved ==
    \A n \in Manifest : /\ Len(ledger'[n]) = Len(ledger[n])
                        /\ ledger[n] # << >> => run'[n].status = run[n].status

WentOn(m) ==
    /\ m \in Manifest /\ run[m].status # "rolled_back"
    /\ Len(ledger'[m]) = Len(ledger[m]) + 1 /\ Len(ledger'[m]) <= Len(Records[m])
    /\ run'[m].status = IF Len(ledger'[m]) = Len(Records[m]) THEN "completed" ELSE "paused"
    /\ \A n \in Manifest : n # m => ledger'[n] = ledger[n] /\ run'[n] = run[n]

GaveBack(m) ==
    /\ m \in Manifest /\ ledger[m] # << >> /\ ledger' = ledger
    /\ run[m].status # "rolled_back" /\ run'[m].status = "rolled_back"
    /\ \A n \in Manifest : n # m => run'[n] = run[n]

\* Every step that leaves the ledgers alone.
LEMMA QuietAlone ==
    ASSUME AloneInv, ledger' = ledger,
           \A n \in Manifest :
              /\ run'[n].next = run[n].next /\ run'[n].created = run[n].created
              /\ (ledger[n] # << >> /\ run'[n].status # "rolled_back")
                    => run'[n].status = IF run[n].next = Len(Records[n])
                                        THEN "completed" ELSE "paused"
              /\ run'[n].status = "rolled_back" => \A i \in Nat : ~Due(n, i)
    PROVE  ResumesAfterLastCommitted' /\ StatusTells'
<1>1. ResumesAfterLastCommitted /\ StatusTells
  BY DEF AloneInv
<1>2. ResumesAfterLastCommitted'
  BY <1>1 DEF ResumesAfterLastCommitted
<1>3. \A m, i : Due(m, i)' <=> Due(m, i)
  BY DEF Due
<1>4. StatusTells'
  BY <1>3 DEF StatusTells
<1> QED BY <1>2, <1>4

\* One run is written back, or none.
LEMMA OneRunAlone ==
    ASSUME AloneInv, ledger' = ledger, NEW m \in Manifest, NEW r \in Run,
           run' = [run EXCEPT ![m] = r],
           r.next = run[m].next, r.created = run[m].created,
           (ledger[m] # << >> /\ r.status # "rolled_back")
              => r.status = IF run[m].next = Len(Records[m]) THEN "completed" ELSE "paused",
           r.status = "rolled_back" => \A i \in Nat : ~Due(m, i)
    PROVE  ResumesAfterLastCommitted' /\ StatusTells'
<1>1. run \in [Manifest -> Run] /\ StatusTells
  BY DEF AloneInv, ImInv, ImTypes
<1>2. ASSUME NEW n \in Manifest
      PROVE  /\ run'[n].next = run[n].next /\ run'[n].created = run[n].created
             /\ (ledger[n] # << >> /\ run'[n].status # "rolled_back")
                   => run'[n].status = IF run[n].next = Len(Records[n])
                                       THEN "completed" ELSE "paused"
             /\ run'[n].status = "rolled_back" => \A i \in Nat : ~Due(n, i)
  <2>1. CASE n = m
    BY <1>1, <2>1
  <2>2. CASE n # m
    <3>1. run'[n] = run[n]
      BY <1>1, <2>2
    <3> QED BY <1>1, <3>1 DEF StatusTells
  <2> QED BY <2>1, <2>2
<1> QED BY <1>2, QuietAlone

LEMMA NoRunAlone ==
    ASSUME AloneInv, ledger' = ledger, run' = run
    PROVE  ResumesAfterLastCommitted' /\ StatusTells' /\ Unmoved
<1>1. \A n \in Manifest :
         /\ (ledger[n] # << >> /\ run[n].status # "rolled_back")
               => run[n].status = IF run[n].next = Len(Records[n])
                                  THEN "completed" ELSE "paused"
         /\ run[n].status = "rolled_back" => \A i \in Nat : ~Due(n, i)
  BY DEF AloneInv, StatusTells
<1>2. ResumesAfterLastCommitted' /\ StatusTells'
  BY <1>1, QuietAlone
<1> QED BY <1>2 DEF Unmoved

\* An apply starts.
LEMMA StartApplyAlone ==
    ASSUME OneOperator, AloneInv, NEW o \in Operator, NEW m \in Manifest, NEW limit \in 0..1,
           StartApply(o, m, limit)
    PROVE  ResumesAfterLastCommitted' /\ StatusTells' /\ ReadIsCurrent' /\ Unmoved
<1>1. ImInv /\ ResumesAfterLastCommitted /\ StatusTells /\ ReadIsCurrent
      /\ run \in [Manifest -> Run] /\ op \in [Operator -> Op]
      /\ ledger[m] \in Seq(Entry)
  BY DEF AloneInv, ImInv, ImTypes
<1>2. PICK r : r = LoadOrCreate(m)
  OBVIOUS
<1>3. /\ op[o].pc = "idle" /\ ValidManifest(m) /\ ledger' = ledger /\ run' = [run EXCEPT ![m] = r]
      /\ \/ r.status \in {"rolled_back", "completed"} /\ op' = op
         \/ r.status # "rolled_back" /\ op' = [op EXCEPT ![o] = StartedApply(m, limit)]
  BY <1>2 DEF StartApply, StartedApply
<1>4. /\ r \in Run /\ r.next = run[m].next /\ r.created = run[m].created
      /\ run[m] # NoRun => r = run[m]
      /\ run[m] = NoRun => r.status = "running"
  BY <1>1, <1>2, LoadFacts
<1>5. run[m] = NoRun => ledger[m] = << >>
  <2>0. NoRun.next = 0 /\ run[m].next = Len(ledger[m])
    BY <1>1 DEF ResumesAfterLastCommitted, NoRun
  <2>1. run[m] = NoRun => Len(ledger[m]) = 0
    BY <2>0
  <2> QED BY <1>1, <2>1
<1>6. /\ (ledger[m] # << >> /\ r.status # "rolled_back")
            => r.status = IF run[m].next = Len(Records[m]) THEN "completed" ELSE "paused"
      /\ r.status = "rolled_back" => \A i \in Nat : ~Due(m, i)
  BY <1>1, <1>4, <1>5 DEF StatusTells
<1>7. ResumesAfterLastCommitted' /\ StatusTells'
  BY <1>3, <1>4, <1>6, OneRunAlone
<1>8. Unmoved
  BY <1>1, <1>3, <1>4, <1>5 DEF Unmoved
<1>9. ReadIsCurrent'
  <2>1. CASE op' = op
    <3>1. HasRead(op'[o], run', ledger')
      BY <1>3, <2>1 DEF HasRead
    <3> QED BY <3>1, OnlyProcess
  <2>2. CASE r.status # "rolled_back" /\ op' = [op EXCEPT ![o] = StartedApply(m, limit)]
    <3>1. PICK w : w = StartedApply(m, limit)
      OBVIOUS
    <3>2. w.pc = "apply" /\ w.m = m /\ w.run = r
      BY <1>1, <1>2, <1>3, <3>1, ApplyStarts
    <3>3. op'[o] = w /\ run'[m] = r
      BY <1>1, <1>3, <2>2, <3>1
    <3>4. HasRead(w, run', ledger')
      BY <2>2, <3>2, <3>3 DEF HasRead
    <3> QED BY <3>3, <3>4, OnlyProcess
  <2> QED BY <1>3, <2>1, <2>2
<1> QED BY <1>7, <1>8, <1>9

\* A rollback starts.
LEMMA StartRollbackAlone ==
    ASSUME OneOperator, AloneInv, NEW o \in Operator, NEW m \in Manifest, StartRollback(o, m)
    PROVE  ResumesAfterLastCommitted' /\ StatusTells' /\ ReadIsCurrent' /\ Unmoved
<1>1. op \in [Operator -> Op]
  BY DEF AloneInv, ImInv, ImTypes
<1>2. PICK w : w = [pc |-> "list", m |-> m, run |-> run[m], items |-> {}]
  OBVIOUS
<1>3. /\ op[o].pc = "idle" /\ ledger' = ledger /\ run' = run
      /\ op' = op \/ (run[m].status # "rolled_back" /\ op' = [op EXCEPT ![o] = w])
  BY <1>2 DEF StartRollback
<1>4. ReadIsCurrent'
  <2>1. CASE op' = op
    <3>1. HasRead(op'[o], run', ledger')
      BY <1>3, <2>1 DEF HasRead
    <3> QED BY <3>1, OnlyProcess
  <2>2. CASE run[m].status # "rolled_back" /\ op' = [op EXCEPT ![o] = w]
    <3>1. w.pc = "list" /\ w.m = m /\ w.run = run[m] /\ op'[o] = w
      BY <1>1, <1>2, <2>2
    <3>2. HasRead(w, run', ledger')
      BY <1>3, <2>2, <3>1 DEF HasRead
    <3> QED BY <3>1, <3>2, OnlyProcess
  <2> QED BY <1>3, <2>1, <2>2
<1> QED BY <1>3, <1>4, NoRunAlone

\* A process ends without a receipt.
LEMMA StopAlone ==
    ASSUME OneOperator, AloneInv, NEW o \in Operator, op' = [op EXCEPT ![o] = Idle],
           ledger' = ledger, run' = run
    PROVE  ResumesAfterLastCommitted' /\ StatusTells' /\ ReadIsCurrent' /\ Unmoved
<1>1. op'[o] = Idle
  BY DEF AloneInv, ImInv, ImTypes
<1>2. ReadIsCurrent'
  BY <1>1, IdleHasRead, OnlyProcess
<1> QED BY <1>2, NoRunAlone

\* The receipt of an apply.
LEMMA PersistApplyAlone ==
    ASSUME OneOperator, AloneInv, NEW o \in Operator, PersistApply(o)
    PROVE  ResumesAfterLastCommitted' /\ StatusTells' /\ ReadIsCurrent' /\ Unmoved
<1>1. ImInv /\ ResumesAfterLastCommitted /\ StatusTells /\ ReadIsCurrent
      /\ run \in [Manifest -> Run] /\ op \in [Operator -> Op]
  BY DEF AloneInv, ImInv, ImTypes
<1>2. PICK m : m = op[o].m
  OBVIOUS
<1>3. PICK s : s = IF op[o].run.next = Len(Records[m]) THEN "completed" ELSE "paused"
  OBVIOUS
<1>4. PICK r : r = [op[o].run EXCEPT !.status = s]
  OBVIOUS
<1>5. /\ op[o].pc = "apply" /\ ledger' = ledger /\ run' = [run EXCEPT ![m] = r]
      /\ op' = [op EXCEPT ![o] = Idle]
  BY <1>2, <1>3, <1>4 DEF PersistApply, Stop
<1>6. op[o] \in Applying
  BY <1>1, <1>5, OpShapes
<1>7. m \in Manifest /\ op[o].run \in Run
  BY <1>2, <1>6 DEF Applying
<1>8. /\ op[o].run.next = run[m].next /\ op[o].run.created = run[m].created
      /\ run[m].status # "rolled_back"
  BY <1>1, <1>2, <1>5 DEF ReadIsCurrent, HasRead
<1>9. s \in {"completed", "paused"}
  BY <1>3
<1>10. r \in Run /\ r.next = run[m].next /\ r.created = run[m].created /\ r.status = s
  BY <1>4, <1>7, <1>8, <1>9 DEF Run
<1>11. ResumesAfterLastCommitted' /\ StatusTells'
  <2>1. (ledger[m] # << >> /\ r.status # "rolled_back")
           => r.status = IF run[m].next = Len(Records[m]) THEN "completed" ELSE "paused"
    BY <1>3, <1>8, <1>10
  <2>2. r.status # "rolled_back"
    BY <1>9, <1>10
  <2> QED BY <1>5, <1>7, <1>10, <2>1, <2>2, OneRunAlone
<1>12. Unmoved
  <2> SUFFICES ASSUME NEW n \in Manifest, ledger[n] # << >> PROVE run'[n].status = run[n].status
    BY <1>5 DEF Unmoved
  <2>1. CASE n = m
    <3>1. run[m].status = s
      BY <1>1, <1>3, <1>7, <1>8, <2>1 DEF StatusTells
    <3> QED BY <1>1, <1>5, <1>10, <2>1, <3>1
  <2>2. CASE n # m
    BY <1>1, <1>5, <2>2
  <2> QED BY <2>1, <2>2
<1>13. ReadIsCurrent'
  <2>1. op'[o] = Idle
    BY <1>1, <1>5
  <2> QED BY <2>1, IdleHasRead, OnlyProcess
<1> QED BY <1>11, <1>12, <1>13

\* A rollback lists what it is to take back.
LEMMA ListAlone ==
    ASSUME OneOperator, AloneInv, NEW o \in Operator, ListCompensations(o)
    PROVE  ResumesAfterLastCommitted' /\ StatusTells' /\ ReadIsCurrent' /\ Unmoved
<1>1. ImInv /\ ReadIsCurrent /\ op \in [Operator -> Op]
  BY DEF AloneInv, ImInv, ImTypes
<1>2. PICK m : m = op[o].m
  OBVIOUS
<1>3. PICK s : s = ToCompensate(m)
  OBVIOUS
<1>4. PICK w : w = [op[o] EXCEPT !.pc = "rollback", !.items = s]
  OBVIOUS
<1>5. op[o].pc = "list" /\ ledger' = ledger /\ run' = run
  BY DEF ListCompensations
<1>6. op[o] \in RollingBack
  BY <1>1, <1>5, OpShapes
<1>7. m \in Manifest
  BY <1>2, <1>6 DEF RollingBack
<1>8. /\ Len(ledger[m]) \in Nat
      /\ \A i : i \in s <=> Due(m, i)
  <2>1. ledger[m] \in Seq(Entry)
    BY <1>1, <1>7 DEF ImInv, ImTypes
  <2> QED BY <1>3, <2>1 DEF ToCompensate, Due
<1>9. s \in SUBSET Nat
  BY <1>8 DEF Due
<1>10. w.pc = "rollback" /\ w.m = m /\ w.run = op[o].run /\ w.items = s
  BY <1>2, <1>4, <1>6, <1>9 DEF RollingBack
<1>11. op' = [op EXCEPT ![o] = w]
  BY <1>1, <1>2, <1>3, <1>4 DEF ListCompensations
<1>12. op'[o] = w
  BY <1>1, <1>11
<1>13. op[o].run = run[m] /\ op[o].run.status # "rolled_back"
  BY <1>1, <1>2, <1>5 DEF ReadIsCurrent, HasRead
<1>14. HasRead(w, run', ledger')
  BY <1>5, <1>8, <1>10, <1>13 DEF HasRead, Due
<1>15. ReadIsCurrent'
  BY <1>12, <1>14, OnlyProcess
<1> QED BY <1>5, <1>15, NoRunAlone

\* The receipt of a rollback.
LEMMA PersistRollbackAlone ==
    ASSUME OneOperator, AloneInv, NEW o \in Operator, PersistRollback(o)
    PROVE  /\ ResumesAfterLastCommitted' /\ StatusTells' /\ ReadIsCurrent'
           /\ Unmoved \/ \E m : GaveBack(m)
<1>1. ImInv /\ ResumesAfterLastCommitted /\ StatusTells /\ ReadIsCurrent
      /\ run \in [Manifest -> Run] /\ op \in [Operator -> Op]
  BY DEF AloneInv, ImInv, ImTypes
<1>2. PICK m : m = op[o].m
  OBVIOUS
<1>3. PICK r : r = [op[o].run EXCEPT !.status = "rolled_back"]
  OBVIOUS
<1>4. /\ op[o].pc = "rollback" /\ op[o].items = {} /\ ledger' = ledger
      /\ run' = [run EXCEPT ![m] = r] /\ op' = [op EXCEPT ![o] = Idle]
  BY <1>2, <1>3 DEF PersistRollback, Stop
<1>5. op[o] \in RollingBack
  BY <1>1, <1>4, OpShapes
<1>6. m \in Manifest /\ op[o].run \in Run
  BY <1>2, <1>5 DEF RollingBack
<1>7. op[o].run = run[m] /\ run[m].status # "rolled_back" /\ \A i \in Nat : ~Due(m, i)
  BY <1>1, <1>2, <1>4 DEF ReadIsCurrent, HasRead, Due
<1>8. r \in Run /\ r.next = run[m].next /\ r.created = run[m].created /\ r.status = "rolled_back"
  BY <1>3, <1>6, <1>7 DEF Run
<1>9. ResumesAfterLastCommitted' /\ StatusTells'
  BY <1>4, <1>6, <1>7, <1>8, OneRunAlone
<1>10. ReadIsCurrent'
  <2>1. op'[o] = Idle
    BY <1>1, <1>4
  <2> QED BY <2>1, IdleHasRead, OnlyProcess
<1>11. run'[m] = r /\ \A n \in Manifest : n # m => run'[n] = run[n]
  BY <1>1, <1>4, <1>6
<1>12. Unmoved \/ \E n : GaveBack(n)
  <2>1. CASE ledger[m] = << >>
    BY <1>4, <1>11, <2>1 DEF Unmoved
  <2>2. CASE ledger[m] # << >>
    <3>1. GaveBack(m)
      BY <1>4, <1>6, <1>7, <1>8, <1>11, <2>2 DEF GaveBack
    <3> QED BY <3>1
  <2> QED BY <2>1, <2>2
<1> QED BY <1>9, <1>10, <1>12

\* Every step of the only operator.
LEMMA AloneStep ==
    ASSUME OneOperator, AloneInv, [ImNext]_imVars
    PROVE  AloneInv' /\ (Unmoved \/ (\E m : WentOn(m)) \/ (\E m : GaveBack(m)))
<1>1. ImInv
  BY DEF AloneInv
<1>2. ImInv'
  BY <1>1, ImNextInv
<1>3. ASSUME NEW o, NEW m, NEW i, NEW x, NEW created, Recorded(o, m, i, x, created)
      PROVE  AloneInv' /\ \E n : WentOn(n)
  <2>1. /\ AloneInv' /\ run'[m].next = i
        /\ run'[m].status = IF i = Len(Records[m]) THEN "completed" ELSE "paused"
    BY <1>3, RecordedAlone
  <2>2. /\ o \in Operator /\ m \in Manifest /\ op[o].pc = "apply" /\ op[o].m = m
        /\ i = Len(ledger[m]) + 1 /\ i \in 1..Len(Records[m])
    BY <1>3 DEF Recorded
  <2>3. TablesAfter(m, i, x, created)
    BY <1>1, <1>3, RecordedFacts
  <2>4. /\ Len(ledger[m]) \in Nat /\ Len(ledger'[m]) = i
        /\ \A n \in Manifest : n # m => ledger'[n] = ledger[n]
    BY <2>2, <2>3 DEF TablesAfter
  <2>5. \A n \in Manifest : n # m => run'[n] = run[n]
    BY <1>1, <1>3, RecordedProcess
  <2>6. run[m].status # "rolled_back"
    BY <2>2 DEF AloneInv, ReadIsCurrent, HasRead
  <2>7. WentOn(m)
    BY <2>1, <2>2, <2>4, <2>5, <2>6, RecordTypes DEF WentOn
  <2> QED BY <2>1, <2>7
<1>4. ASSUME NEW o, NEW m, NEW i, NEW x, TakenBack(o, m, i, x) PROVE AloneInv' /\ Unmoved
  <2>1. AloneInv' /\ run' = run
    BY <1>4, TakenBackAlone
  <2>2. TablesWithout(o, m, i, x)
    BY <1>1, <1>4, TakenBackFacts
  <2> QED BY <2>1, <2>2 DEF Unmoved, TablesWithout
<1>5. ASSUME NEW o \in Operator, ApplyProductionRecord(o)
      PROVE  AloneInv' /\ (Unmoved \/ \E n : WentOn(n))
  <2>1. CASE op' = [op EXCEPT ![o] = Idle] /\ rows' = rows /\ ledger' = ledger /\ run' = run
    BY <1>2, <2>1, StopAlone DEF AloneInv
  <2>2. CASE \E m, i, x, created : Recorded(o, m, i, x, created)
    BY <1>3, <2>2
  <2> QED BY <1>1, <1>5, <2>1, <2>2, ApplyCases
<1>6. ASSUME NEW o \in Operator, CompensateRecord(o) PROVE AloneInv' /\ Unmoved
  <2>1. CASE op' = [op EXCEPT ![o] = Idle] /\ rows' = rows /\ ledger' = ledger /\ run' = run
    BY <1>2, <2>1, StopAlone DEF AloneInv
  <2>2. CASE \E m, i, x : TakenBack(o, m, i, x)
    BY <1>4, <2>2
  <2> QED BY <1>1, <1>6, <2>1, <2>2, CompensateCases
<1>7. ASSUME NEW o \in Operator, NEW m \in Manifest, NEW limit \in 0..1, StartApply(o, m, limit)
      PROVE  AloneInv' /\ Unmoved
  BY <1>2, <1>7, StartApplyAlone DEF AloneInv
<1>8. ASSUME NEW o \in Operator, NEW m \in Manifest, StartRollback(o, m)
      PROVE  AloneInv' /\ Unmoved
  BY <1>2, <1>8, StartRollbackAlone DEF AloneInv
<1>9. ASSUME NEW o \in Operator, PersistApply(o) PROVE AloneInv' /\ Unmoved
  BY <1>2, <1>9, PersistApplyAlone DEF AloneInv
<1>10. ASSUME NEW o \in Operator, ListCompensations(o) PROVE AloneInv' /\ Unmoved
  BY <1>2, <1>10, ListAlone DEF AloneInv
<1>11. ASSUME NEW o \in Operator, PersistRollback(o)
       PROVE  AloneInv' /\ (Unmoved \/ \E n : GaveBack(n))
  BY <1>2, <1>11, PersistRollbackAlone DEF AloneInv
<1>12. ASSUME NEW o \in Operator, Dies(o) PROVE AloneInv' /\ Unmoved
  <2>1. op' = [op EXCEPT ![o] = Idle] /\ ledger' = ledger /\ run' = run
    BY <1>12 DEF Dies, Stop
  <2> QED BY <1>2, <2>1, StopAlone DEF AloneInv
<1>13. ASSUME ledger' = ledger, run' = run, op' = op PROVE AloneInv' /\ Unmoved
  <2>1. ReadIsCurrent'
    BY <1>13 DEF AloneInv, ReadIsCurrent
  <2> QED BY <1>2, <1>13, <2>1, NoRunAlone DEF AloneInv
<1>14. ASSUME NEW x \in Id, Change(x) \/ Reference(x) PROVE AloneInv' /\ Unmoved
  BY <1>13, <1>14 DEF Change, Reference
<1>15. CASE UNCHANGED imVars
  BY <1>13, <1>15 DEF imVars
<1>16. CASE ImNext
  BY <1>5, <1>6, <1>7, <1>8, <1>9, <1>10, <1>11, <1>12, <1>14, <1>16 DEF ImNext
<1> QED BY <1>15, <1>16

LEMMA AloneInit == ImInit => AloneInv
<1> SUFFICES ASSUME ImInit PROVE AloneInv
  OBVIOUS
<1>1. /\ run = [m \in Manifest |-> NoRun] /\ ledger = [m \in Manifest |-> << >>]
      /\ op = [o \in Operator |-> Idle]
  BY DEF ImInit
<1>2. NoRun.next = 0 /\ NoRun.created = 0 /\ NoRun.status = "none"
  BY DEF NoRun
<1>3. ResumesAfterLastCommitted
  <2>1. ASSUME NEW m \in Manifest PROVE CreatedBy(m) = {}
    BY <1>1 DEF CreatedBy
  <2> QED BY <1>1, <1>2, <2>1, FS_EmptySet, CountsAre
<1>4. StatusTells
  BY <1>1, <1>2 DEF StatusTells
<1>5. ReadIsCurrent
  BY <1>1, IdleHasRead DEF ReadIsCurrent
<1> QED BY <1>3, <1>4, <1>5, ImInitInv DEF AloneInv

LEMMA AloneInvariance == ASSUME OneOperator PROVE ImSpec => []AloneInv
<1>1. AloneInv /\ [ImNext]_imVars => AloneInv'
  BY AloneStep
<1> QED BY <1>1, AloneInit, PTL DEF ImSpec

\* With one operator at a time, wherever its process dies or is stopped by a conflict:
\* the checkpoint counts exactly the records in the ledger and the rows created, so
\* the next apply goes on after the last committed record (ApplyProductionManifest).
THEOREM ResumesAfterLastCommittedAlways ==
    ASSUME OneOperator PROVE ImSpec => []ResumesAfterLastCommitted
<1>1. AloneInv => ResumesAfterLastCommitted
  BY DEF AloneInv
<1> QED BY <1>1, AloneInvariance, PTL

\* With one operator at a time, the foreign keys never stop RollbackProductionImport
\* half-way while only rows of its own manifest reference the next one: what references
\* it was created later, is due as well, and has been taken back before.
THEOREM RollbackIsNotBlockedAlways ==
    ASSUME OneOperator PROVE ImSpec => []RollbackIsNotBlocked
<1>1. AloneInv => RollbackIsNotBlocked
  <2> SUFFICES ASSUME AloneInv, NEW o \in Operator, op[o].pc = "rollback", op[o].items # {},
                      pinned = {}, NEW x, x = Records[op[o].m][NextItem(op[o].items)],
                      \A y \in Id : (Present(y) /\ x \in Refs[y]) => rows[y].by = op[o].m
               PROVE  Deletable(x)
    BY DEF RollbackIsNotBlocked
  <2>1. PICK m : m = op[o].m
    OBVIOUS
  <2>2. PICK i : i = NextItem(op[o].items)
    OBVIOUS
  <2>3. ImInv /\ ReadIsCurrent /\ op \in [Operator -> Op]
    BY DEF AloneInv, ImInv, ImTypes
  <2>4. op[o] \in RollingBack
    BY <2>3, OpShapes
  <2>5. m \in Manifest /\ op[o].items \in SUBSET Nat
    BY <2>1, <2>4 DEF RollingBack
  <2>6. \A k \in Nat : k \in op[o].items <=> Due(m, k)
    BY <2>1, <2>3 DEF ReadIsCurrent, HasRead, Due
  <2>7. Len(ledger[m]) \in Nat /\ op[o].items \subseteq 1..Len(ledger[m])
    BY <2>3, <2>5, <2>6 DEF ImInv, ImTypes, Due
  <2>8. i \in op[o].items /\ \A j \in op[o].items : j <= i
    BY <2>2, <2>7, NextItemFacts
  <2>9. i \in Nat /\ Due(m, i) /\ x = Records[m][i]
    BY <2>1, <2>2, <2>5, <2>6, <2>8
  <2>10. rows[x].by = m /\ m # Absent
    BY <2>3, <2>5, <2>9, RecordTypes DEF ImInv, DueIsThere
  <2>11. ASSUME NEW y \in Id, Present(y), x \in Refs[y] PROVE FALSE
    <3>1. rows[y].by = m
      BY <2>1, <2>11
    <3>2. PICK j \in Nat : Due(m, j) /\ Records[m][j] = y
      BY <2>3, <2>5, <3>1 DEF ImInv, ThereIsDue
    <3>3. j <= i
      BY <2>6, <2>8, <3>2
    <3> QED BY <2>3, <2>5, <2>9, <2>11, <3>2, <3>3 DEF ImInv, ChildrenComeLater
  <2> QED BY <2>10, <2>11 DEF Deletable, Present
<1> QED BY <1>1, AloneInvariance, PTL

\* A rolled back run holds nothing, any other one what its ledger has.
LEMMA HeldIs ==
    ASSUME AloneInv, NEW m \in Manifest
    PROVE  /\ Held(m) = IF run[m].status = "rolled_back" THEN {} ELSE 1..Len(ledger[m])
           /\ run[m].next = Len(ledger[m]) /\ ledger[m] \in Seq(Entry)
<1>1. ImInv /\ StatusTells /\ ResumesAfterLastCommitted
  BY DEF AloneInv
<1>2. run[m].next = Len(ledger[m]) /\ ledger[m] \in Seq(Entry)
  BY <1>1 DEF ImInv, ImTypes, ResumesAfterLastCommitted
<1>3. CASE run[m].status = "rolled_back"
  <2>1. ASSUME NEW i \in 1..Len(ledger[m]), rows[Records[m][i]].by = m PROVE FALSE
    <3>1. i \in 1..Len(Records[m])
      BY <1>1, <1>2, RecordTypes DEF ImInv, LedgersFit
    <3>2. Records[m][i] \in Id
      BY <3>1, RecordTypes
    <3>3. PICK k \in Nat : Due(m, k)
      BY <1>1, <2>1, <3>2 DEF ImInv, ThereIsDue
    <3> QED BY <1>1, <1>3, <3>3 DEF StatusTells
  <2> QED BY <1>2, <1>3, <2>1 DEF Held
<1>4. CASE run[m].status # "rolled_back"
  BY <1>2, <1>4 DEF Held
<1> QED BY <1>2, <1>3, <1>4

\* The same, to be used in the state after a step.
HeldFits ==
    \A m \in Manifest :
        /\ Held(m) = IF run[m].status = "rolled_back" THEN {} ELSE 1..Len(ledger[m])
        /\ run[m].next = Len(ledger[m]) /\ ledger[m] \in Seq(Entry)

LEMMA HeldFitsAlways == AloneInv => HeldFits
BY HeldIs DEF HeldFits

\* What a step means for the rehearsal of n.
LEMMA StageStep ==
    ASSUME HeldFits, HeldFits', NEW n \in Manifest
    PROVE  /\ (/\ Len(ledger'[n]) = Len(ledger[n])
               /\ ledger[n] # << >> => run'[n].status = run[n].status)
              => Stage(n)' = Stage(n) /\ Held(n)' = Held(n)
           /\ WentOn(n) =>
                 /\ Stage(n).status = IF ledger[n] = << >> THEN "new" ELSE run[n].status
                 /\ Stage(n).next = Len(ledger[n])
                 /\ Stage(n)' = [status |-> IF Len(ledger[n]) + 1 = Len(Records[n])
                                            THEN "completed" ELSE "paused",
                                 next |-> Len(ledger[n]) + 1]
                 /\ Held(n)' = 1..(Len(ledger[n]) + 1)
           /\ GaveBack(n) => /\ Stage(n).status = run[n].status
                             /\ Stage(n)' = [status |-> "rolled_back", next |-> 0]
                             /\ Held(n)' = {}
<1>1. /\ Held(n) = IF run[n].status = "rolled_back" THEN {} ELSE 1..Len(ledger[n])
      /\ run[n].next = Len(ledger[n]) /\ ledger[n] \in Seq(Entry)
  BY DEF HeldFits
<1>2. /\ Held(n)' = IF run'[n].status = "rolled_back" THEN {} ELSE 1..Len(ledger'[n])
      /\ run'[n].next = Len(ledger'[n]) /\ ledger'[n] \in Seq(Entry)
  BY DEF HeldFits
<1>3. /\ ledger[n] = << >> <=> Len(ledger[n]) = 0
      /\ ledger'[n] = << >> <=> Len(ledger'[n]) = 0
      /\ Len(ledger[n]) \in Nat /\ Len(ledger'[n]) \in Nat
  BY <1>1, <1>2
<1>4. ASSUME Len(ledger'[n]) = Len(ledger[n]),
             ledger[n] # << >> => run'[n].status = run[n].status
      PROVE  Stage(n)' = Stage(n) /\ Held(n)' = Held(n)
  <2>1. CASE ledger[n] = << >>
    <3>1. Held(n) = {} /\ Held(n)' = {}
      BY <1>1, <1>2, <1>3, <1>4, <2>1
    <3> QED BY <1>3, <1>4, <2>1, <3>1 DEF Stage
  <2>2. CASE ledger[n] # << >>
    BY <1>1, <1>2, <1>3, <1>4, <2>2 DEF Stage
  <2> QED BY <2>1, <2>2
<1>5. ASSUME WentOn(n)
      PROVE  /\ Stage(n).status = IF ledger[n] = << >> THEN "new" ELSE run[n].status
             /\ Stage(n).next = Len(ledger[n])
             /\ Stage(n)' = [status |-> IF Len(ledger[n]) + 1 = Len(Records[n])
                                        THEN "completed" ELSE "paused",
                             next |-> Len(ledger[n]) + 1]
             /\ Held(n)' = 1..(Len(ledger[n]) + 1)
  <2>1. /\ run[n].status # "rolled_back" /\ Len(ledger'[n]) = Len(ledger[n]) + 1
        /\ run'[n].status = IF Len(ledger'[n]) = Len(Records[n]) THEN "completed" ELSE "paused"
    BY <1>5 DEF WentOn
  <2>2. run'[n].status # "rolled_back" /\ ledger'[n] # << >>
    BY <1>3, <2>1
  <2> QED BY <1>1, <1>2, <1>3, <2>1, <2>2 DEF Stage
<1>6. ASSUME GaveBack(n)
      PROVE  /\ Stage(n).status = run[n].status
             /\ Stage(n)' = [status |-> "rolled_back", next |-> 0]
             /\ Held(n)' = {}
  <2>1. ledger[n] # << >> /\ ledger' = ledger /\ run'[n].status = "rolled_back"
    BY <1>6 DEF GaveBack
  <2> QED BY <1>1, <1>2, <2>1 DEF Stage
<1> QED BY <1>4, <1>5, <1>6

\* With one operator at a time, an import goes the way of its rehearsal for any manifests:
\* every step of ApplyProductionManifest and RollbackProductionImport, the deaths and
\* the refusals too, is one record more, one finished rollback, or nothing to the
\* FixtureImporter of its manifest.
THEOREM ImplementsRehearsalAlways ==
    ASSUME OneOperator PROVE ImSpec => ImplementsRehearsal
<1>1. ImInit => Rehearsal!FixtureInit
  <2> SUFFICES ASSUME ImInit PROVE Rehearsal!FixtureInit
    OBVIOUS
  <2>1. \A m \in Manifest : ledger[m] = << >> /\ Len(ledger[m]) = 0
    BY DEF ImInit
  <2>2. \A m \in Manifest : Stage(m) = [status |-> "new", next |-> 0] /\ Held(m) = {}
    BY <2>1 DEF Stage, Held
  <2> QED BY <2>2 DEF Rehearsal!FixtureInit
<1>2. AloneInv /\ [ImNext]_imVars => [Rehearsal!FixtureNext]_(Rehearsal!fixtureVars)
  <2> SUFFICES ASSUME AloneInv, [ImNext]_imVars
               PROVE  Rehearsal!FixtureNext \/ UNCHANGED Rehearsal!fixtureVars
    OBVIOUS
  <2>1. AloneInv' /\ (Unmoved \/ (\E m : WentOn(m)) \/ (\E m : GaveBack(m)))
    BY AloneStep
  <2>2. HeldFits /\ HeldFits'
    BY <2>1, HeldFitsAlways, PTL
  <2>3. CASE Unmoved
    <3>1. \A n \in Manifest : Stage(n)' = Stage(n) /\ Held(n)' = Held(n)
      BY <2>2, <2>3, StageStep DEF Unmoved
    <3> QED BY <3>1 DEF Rehearsal!fixtureVars
  <2>4. ASSUME NEW m, WentOn(m) PROVE Rehearsal!FixtureNext
    <3>1. PICK l : l = Len(ledger[m])
      OBVIOUS
    <3>2. /\ m \in Manifest /\ run[m].status # "rolled_back" /\ Len(ledger'[m]) = l + 1
          /\ l + 1 <= Len(Records[m])
          /\ \A n \in Manifest : n # m => ledger'[n] = ledger[n] /\ run'[n] = run[n]
      BY <2>4, <3>1 DEF WentOn
    <3>3. l \in Nat /\ Len(Records[m]) \in Nat /\ run[m].next = l
      BY <2>2, <3>1, <3>2, RecordTypes DEF HeldFits
    <3>4. /\ Stage(m).status = IF ledger[m] = << >> THEN "new" ELSE run[m].status
          /\ Stage(m).next = l
          /\ Stage(m)' = [status |-> IF l + 1 = Len(Records[m]) THEN "completed" ELSE "paused",
                          next |-> l + 1]
          /\ Held(m)' = 1..(l + 1)
      BY <2>2, <2>4, <3>1, <3>2, StageStep
    <3>5. \A n \in Manifest : n # m => Stage(n)' = Stage(n) /\ Held(n)' = Held(n)
      BY <2>2, <3>2, StageStep
    <3>6. Stage(m).status \in {"new", "paused"}
      <4>1. ledger[m] # << >> => run[m].status = "paused"
        BY <3>2, <3>3 DEF AloneInv, StatusTells
      <4> QED BY <3>4, <4>1
    <3>7. Rehearsal!Apply(m, 1)
      BY <3>2, <3>3, <3>4, <3>5, <3>6 DEF Rehearsal!Apply
    <3>8. 1 \in 1..(Len(Records[m]) - Stage(m).next)
      BY <3>2, <3>3, <3>4
    <3> QED BY <3>2, <3>7, <3>8 DEF Rehearsal!FixtureNext
  <2>5. ASSUME NEW m, GaveBack(m) PROVE Rehearsal!FixtureNext
    <3>1. /\ m \in Manifest /\ ledger[m] # << >> /\ ledger' = ledger
          /\ run[m].status # "rolled_back"
          /\ \A n \in Manifest : n # m => run'[n] = run[n]
      BY <2>5 DEF GaveBack
    <3>2. /\ Stage(m).status = run[m].status
          /\ Stage(m)' = [status |-> "rolled_back", next |-> 0] /\ Held(m)' = {}
      BY <2>2, <2>5, <3>1, StageStep
    <3>3. \A n \in Manifest : n # m => Stage(n)' = Stage(n) /\ Held(n)' = Held(n)
      BY <2>2, <3>1, StageStep
    <3>4. run[m].status \in {"paused", "completed"}
      BY <3>1 DEF AloneInv, StatusTells
    <3>5. Rehearsal!Rollback(m)
      BY <3>1, <3>2, <3>3, <3>4 DEF Rehearsal!Rollback
    <3> QED BY <3>1, <3>5 DEF Rehearsal!FixtureNext
  <2> QED BY <2>1, <2>3, <2>4, <2>5
<1> QED BY <1>1, <1>2, AloneInvariance, PTL DEF ImSpec, ImplementsRehearsal, Rehearsal!FixtureSpec
=============================================================================
