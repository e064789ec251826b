--------------------------- MODULE ProjectionProofs ---------------------------
(***************************************************************************)
(* The projection inbox, for any consumers, aggregates and events, also    *)
(* events that share a position or cannot be read: the checkpoint counts   *)
(* exactly the applied positions, a current lane is complete, local work   *)
(* is in order, evidence is kept, and the inbox implements OrderedFeed.    *)
(*                                                                         *)
(* AppliedInOrder is kept by the guard of MarkApplied alone.  The other    *)
(* properties rest on what the row states mean relative to the checkpoint, *)
(* which no property of the runs says: a pending row is at most one        *)
(* position ahead (PendingIsNear), a stale or applied one is never ahead   *)
(* (PassedIsBehind), an event has one row per consumer (OneRowEach), and   *)
(* the local work is the pending and applied rows' (DoneIsKnown).          *)
(***************************************************************************)
EXTENDS Projection, TLAPS

InboxRow == [consumer : Consumer, event : Event, state : InboxState]

\* The unique index of the inbox: an event has at most one row per consumer.
OneRowEach ==
    \A i, j \in Rows(inbox) :
        inbox[i].consumer = inbox[j].consumer /\ inbox[i].event = inbox[j].event => i = j

\* The checkpoint of the lane row i is in.
LaneOf(i) == checkpoint[inbox[i].consumer][AggregateOf[inbox[i].event]]

PendingIsNear ==
    \A i \in Rows(inbox) : inbox[i].state = "pending" => SeqAt(inbox, i) <= LaneOf(i).last + 1

PassedIsBehind ==
    \A i \in Rows(inbox) :
        inbox[i].state \in {"stale", "applied"} => SeqAt(inbox, i) <= LaneOf(i).last

\* AppliedInOrder row by row: every position up to the checkpoint has its applied
\* row, no position has two, and the last one is named.
EveryPosition ==
    \A c \in Consumer, g \in Aggregate : \A k \in 1..checkpoint[c][g].last :
        \E i \in Rows(inbox) :
            InLane(inbox, i, c, g) /\ inbox[i].state = "applied" /\ SeqAt(inbox, i) = k

OnePerPosition ==
    \A i, j \in Rows(inbox) :
        (/\ inbox[i].state = "applied" /\ inbox[j].state = "applied"
         /\ inbox[i].consumer = inbox[j].consumer
         /\ AggregateOf[inbox[i].event] = AggregateOf[inbox[j].event]
         /\ SeqAt(inbox, i) = SeqAt(inbox, j)) => i = j

LastIsNamed ==
    \A i \in Rows(inbox) :
        inbox[i].state = "applied" /\ SeqAt(inbox, i) = LaneOf(i).last
        => inbox[i].event = LaneOf(i).lastEvent

\* Local work is done for pending and applied rows only, and for all applied ones.
DoneIsKnown ==
    \A c \in Consumer : \A e \in done[c] :
        \E i \in Rows(inbox) : /\ inbox[i].consumer = c /\ inbox[i].event = e
                               /\ inbox[i].state \in {"pending", "applied"}

AppliedIsDone ==
    \A i \in Rows(inbox) : inbox[i].state = "applied" => inbox[i].event \in done[inbox[i].consumer]

\* The lane of an open row does not say current.
OpenShows ==
    \A i \in Rows(inbox) : inbox[i].state \in Open => LaneOf(i).state # "current"

Inv == /\ TypeOK /\ OneRowEach
       /\ PendingIsNear /\ PassedIsBehind
       /\ EveryPosition /\ OnePerPosition /\ LastIsNamed
       /\ DoneIsKnown /\ AppliedIsDone /\ OpenShows

Lane == [state : LaneState \cup {Absent}, last : Nat, lastEvent : Event \cup {NoEvent}]

\* What the type invariant says of a row and of its event.
LEMMA RowFacts ==
    ASSUME TypeOK
    PROVE  /\ inbox \in Seq(InboxRow) /\ Len(inbox) \in Nat /\ Rows(inbox) = 1..Len(inbox)
           /\ \A i \in Rows(inbox) : /\ inbox[i] \in InboxRow
                                     /\ inbox[i].consumer \in Consumer
                                     /\ inbox[i].event \in Event
                                     /\ inbox[i].state \in InboxState
           /\ \A e \in Event : AggregateOf[e] \in Aggregate /\ SequenceOf[e] \in Nat \ {0}
           /\ \A c \in Consumer, g \in Aggregate :
                 /\ checkpoint[c][g].state \in LaneState \cup {Absent}
                 /\ checkpoint[c][g].last \in Nat
<1>1. inbox \in Seq(InboxRow) /\ Len(inbox) \in Nat /\ Rows(inbox) = 1..Len(inbox)
  BY DEF TypeOK, InboxRow, Rows
<1>2. \A i \in Rows(inbox) : inbox[i] \in InboxRow
  BY <1>1
<1>3. \A i \in Rows(inbox) : /\ inbox[i].consumer \in Consumer
                             /\ inbox[i].event \in Event
                             /\ inbox[i].state \in InboxState
  BY <1>2 DEF InboxRow
<1>4. \A e \in Event : AggregateOf[e] \in Aggregate /\ SequenceOf[e] \in Nat \ {0}
  BY ProjectionAssumption
<1>5. \A c \in Consumer, g \in Aggregate : checkpoint[c][g] \in Lane
  BY DEF TypeOK, Lane
<1> QED BY <1>1, <1>2, <1>3, <1>4, <1>5 DEF Lane

\* Most operations write the state of one lane and nothing else of a checkpoint.
StateIsSet(c, g, state) == checkpoint' = [checkpoint EXCEPT ![c][g].state = state]

LEMMA StateWritten ==
    ASSUME TypeOK, NEW c \in Consumer, NEW g \in Aggregate, NEW state \in LaneState \cup {Absent},
           StateIsSet(c, g, state)
    PROVE  /\ checkpoint' \in [Consumer -> [Aggregate -> Lane]]
           /\ checkpoint'[c][g].state = state
           /\ \A d \in Consumer, h \in Aggregate :
                 /\ checkpoint'[d][h].last = checkpoint[d][h].last
                 /\ checkpoint'[d][h].lastEvent = checkpoint[d][h].lastEvent
                 /\ ~(d = c /\ h = g) => checkpoint'[d][h].state = checkpoint[d][h].state
<1> DEFINE lane == [checkpoint[c][g] EXCEPT !.state = state]
<1>1. checkpoint[c][g] \in Lane
  BY DEF TypeOK, Lane
<1>2. /\ lane \in Lane
      /\ lane.state = state /\ lane.last = checkpoint[c][g].last
      /\ lane.lastEvent = checkpoint[c][g].lastEvent
  BY <1>1 DEF Lane
<1>3. /\ checkpoint' = [checkpoint EXCEPT ![c][g] = lane]
      /\ checkpoint \in [Consumer -> [Aggregate -> Lane]]
  BY DEF TypeOK, Lane, StateIsSet
<1> HIDE DEF lane
<1>4. /\ checkpoint' \in [Consumer -> [Aggregate -> Lane]]
      /\ checkpoint'[c][g] = lane
      /\ \A d \in Consumer, h \in Aggregate :
            ~(d = c /\ h = g) => checkpoint'[d][h] = checkpoint[d][h]
  BY <1>2, <1>3
<1> QED BY <1>2, <1>4

\* How an arriving event is classified and what it makes of the lane's state.
LEMMA IngestFacts ==
    ASSUME NEW e, NEW lane \in Lane, NEW seq \in Nat, SequenceOf[e] = seq
    PROVE  /\ Classified(e, lane) \in {"blocked", "stale", "gap", "pending"}
           /\ Classified(e, lane) = "pending" => seq <= lane.last + 1
           /\ Classified(e, lane) = "stale" => seq <= lane.last
           /\ AfterIngest(lane.state, Classified(e, lane)) \in LaneState \cup {Absent}
           /\ AfterIngest(lane.state, Classified(e, lane)) = "current"
              => lane.state = "current" /\ Classified(e, lane) \notin Open
<1> DEFINE row == Classified(e, lane)
<1>1. lane.last \in Nat /\ lane.state \in LaneState \cup {Absent}
  BY DEF Lane
<1>2. /\ row \in {"blocked", "stale", "gap", "pending"}
      /\ row = "pending" => seq <= lane.last + 1
      /\ row = "stale" => seq <= lane.last
  BY <1>1 DEF Classified
<1> HIDE DEF row
<1>3. /\ AfterIngest(lane.state, row) \in LaneState \cup {Absent}
      /\ AfterIngest(lane.state, row) = "current" => lane.state = "current" /\ row \notin Open
  BY <1>1, <1>2 DEF AfterIngest, LaneState, Open
<1> QED BY <1>2, <1>3 DEF row

\* A refreshed state is current only if no row of the lane is open.
LEMMA RefreshedFacts ==
    ASSUME NEW table, NEW c, NEW g, NEW last, Refreshed(table, c, g, last, "current")
    PROVE  \A i \in Rows(table) : InLane(table, i, c, g) => table[i].state \notin Open
BY DEF Refreshed, LaneRows, Open

\* The invariant holds of the empty tables.
LEMMA InitInv == Init => Inv
<1> SUFFICES ASSUME Init PROVE Inv
  OBVIOUS
<1>1. inbox = << >> /\ Rows(inbox) = {}
  BY DEF Init, Rows
<1>2. \A c \in Consumer, g \in Aggregate : checkpoint[c][g].last = 0
  BY DEF Init, NoCheckpoint
<1>3. \A c \in Consumer : done[c] = {}
  BY DEF Init
<1>4. TypeOK
  <2>1. << >> \in Seq([consumer : Consumer, event : Event, state : InboxState])
    OBVIOUS
  <2> QED BY <2>1 DEF Init, TypeOK, NoCheckpoint
<1> QED BY <1>1, <1>2, <1>3, <1>4
        DEF Inv, OneRowEach, PendingIsNear, PassedIsBehind, EveryPosition, OnePerPosition,
            LastIsNamed, DoneIsKnown, AppliedIsDone, OpenShows

\* One more row, whose position fits its state.
LEMMA IngestInv ==
    ASSUME Inv, NEW c \in Consumer, NEW e \in Event, Ingest(c, e)
    PROVE  Inv'
<1> DEFINE g == AggregateOf[e]
           lane == checkpoint[c][g]
           state == Classified(e, lane)
           row == [consumer |-> c, event |-> e, state |-> state]
           n == Len(inbox)
<1>1. TypeOK
  BY DEF Inv
<1>2. g \in Aggregate /\ lane \in Lane /\ SequenceOf[e] \in Nat
  BY <1>1, ProjectionAssumption DEF TypeOK, Lane
<1>3. /\ state \in {"blocked", "stale", "gap", "pending"}
      /\ state = "pending" => SequenceOf[e] <= lane.last + 1
      /\ state = "stale" => SequenceOf[e] <= lane.last
      /\ AfterIngest(lane.state, state) \in LaneState \cup {Absent}
      /\ AfterIngest(lane.state, state) = "current" => lane.state = "current" /\ state \notin Open
  BY <1>2, IngestFacts
<1>4. /\ ~Received(inbox, c, e)
      /\ inbox' = Append(inbox, row)
      /\ StateIsSet(c, g, AfterIngest(lane.state, state))
      /\ done' = done
  BY <1>1, <1>2 DEF Ingest, TypeOK, StateIsSet
<1>5. /\ row \in InboxRow /\ row.consumer = c /\ row.event = e /\ row.state = state
      /\ row.state \in {"blocked", "stale", "gap", "pending"}
  BY <1>3 DEF InboxRow, InboxState
<1> HIDE DEF state, row
<1>6. /\ checkpoint' \in [Consumer -> [Aggregate -> Lane]]
      /\ checkpoint'[c][g].state = AfterIngest(lane.state, state)
      /\ \A d \in Consumer, h \in Aggregate :
            /\ checkpoint'[d][h].last = checkpoint[d][h].last
            /\ checkpoint'[d][h].lastEvent = checkpoint[d][h].lastEvent
            /\ ~(d = c /\ h = g) => checkpoint'[d][h].state = checkpoint[d][h].state
  BY <1>1, <1>2, <1>3, <1>4, StateWritten
<1>7. /\ n \in Nat /\ Rows(inbox) = 1..n /\ Rows(inbox') = 1..(n + 1)
      /\ inbox' \in Seq(InboxRow)
      /\ \A i \in 1..n : inbox'[i] = inbox[i]
      /\ inbox'[n + 1] = row
  BY <1>1, <1>4, <1>5, RowFacts DEF Rows
<1>8. \A i \in Rows(inbox') : i \in Rows(inbox) \/ i = n + 1
  BY <1>7
<1>9. \A i \in Rows(inbox) : /\ i \in Rows(inbox') /\ inbox'[i] = inbox[i]
                             /\ inbox[i].consumer \in Consumer
                             /\ AggregateOf[inbox[i].event] \in Aggregate
  BY <1>1, <1>7, RowFacts
<1>10. TypeOK'
  BY <1>1, <1>4, <1>6, <1>7 DEF TypeOK, InboxRow, Lane
<1>11. OneRowEach'
  <2>1. \A i \in Rows(inbox) : ~(inbox[i].consumer = c /\ inbox[i].event = e)
    BY <1>4 DEF Received
  <2> QED BY <1>5, <1>7, <1>8, <1>9, <2>1 DEF Inv, OneRowEach
<1>12. PendingIsNear' /\ PassedIsBehind'
  <2>1. ASSUME NEW i \in Rows(inbox')
        PROVE  /\ inbox'[i].state = "pending" => SeqAt(inbox', i) <= LaneOf(i)'.last + 1
               /\ inbox'[i].state \in {"stale", "applied"} => SeqAt(inbox', i) <= LaneOf(i)'.last
    <3>1. CASE i \in Rows(inbox)
      BY <1>6, <1>9, <3>1 DEF Inv, PendingIsNear, PassedIsBehind, LaneOf, SeqAt
    <3>2. CASE i = n + 1
      BY <1>2, <1>3, <1>5, <1>6, <1>7, <3>2 DEF LaneOf, SeqAt
    <3> QED BY <1>8, <3>1, <3>2
  <2> QED BY <2>1 DEF PendingIsNear, PassedIsBehind
<1>13. EveryPosition'
  BY <1>6, <1>9, SMTT(40) DEF Inv, EveryPosition, InLane, SeqAt
<1>14. \A i \in Rows(inbox') : inbox'[i].state = "applied" => i \in Rows(inbox)
  BY <1>5, <1>7, <1>8
<1>15. OnePerPosition'
  BY <1>9, <1>14 DEF Inv, OnePerPosition, SeqAt
<1>16. LastIsNamed'
  <2> SUFFICES ASSUME NEW i \in Rows(inbox'), inbox'[i].state = "applied",
                      SeqAt(inbox', i) = LaneOf(i)'.last
               PROVE  inbox'[i].event = LaneOf(i)'.lastEvent
    BY DEF LastIsNamed
  <2>1. i \in Rows(inbox) /\ inbox'[i] = inbox[i]
    BY <1>9, <1>14
  <2>2. LaneOf(i)'.last = LaneOf(i).last /\ LaneOf(i)'.lastEvent = LaneOf(i).lastEvent
    BY <1>6, <1>9, <2>1 DEF LaneOf
  <2>3. SeqAt(inbox', i) = SeqAt(inbox, i)
    BY <2>1 DEF SeqAt
  <2> QED BY <2>1, <2>2, <2>3 DEF Inv, LastIsNamed
<1>17. DoneIsKnown'
  <2>1. DoneIsKnown /\ done' = done
    BY <1>4 DEF Inv
  <2> QED BY <1>9, <2>1 DEF DoneIsKnown
<1>18. AppliedIsDone'
  BY <1>4, <1>9, <1>14 DEF Inv, AppliedIsDone
<1>19. OpenShows'
  <2> SUFFICES ASSUME NEW i \in Rows(inbox'), inbox'[i].state \in Open
               PROVE  LaneOf(i)'.state # "current"
    BY DEF OpenShows
  <2>1. CASE i \in Rows(inbox)
    <3>1. LaneOf(i).state # "current"
      BY <1>9, <2>1 DEF Inv, OpenShows
    <3>2. CASE inbox[i].consumer = c /\ AggregateOf[inbox[i].event] = g
      BY <1>3, <1>6, <1>9, <2>1, <3>1, <3>2 DEF LaneOf
    <3>3. CASE ~(inbox[i].consumer = c /\ AggregateOf[inbox[i].event] = g)
      BY <1>6, <1>9, <2>1, <3>1, <3>3 DEF LaneOf
    <3> QED BY <3>2, <3>3
  <2>2. CASE i = n + 1
    BY <1>2, <1>3, <1>5, <1>6, <1>7, <2>2 DEF LaneOf
  <2> QED BY <1>8, <2>1, <2>2
<1> QED BY <1>10, <1>11, <1>12, <1>13, <1>15, <1>16, <1>17, <1>18, <1>19 DEF Inv

\* The consumer works on a pending event.
LEMMA ProjectInv ==
    ASSUME Inv, NEW c \in Consumer, NEW e \in Event, Project(c, e)
    PROVE  Inv'
<1>1. UNCHANGED <<inbox, checkpoint>> /\ done' = [done EXCEPT ![c] = @ \cup {e}]
  BY DEF Project
<1>2. /\ done' \in [Consumer -> SUBSET Event]
      /\ \A d \in Consumer : done[d] \subseteq done'[d]
      /\ \A d \in Consumer : \A f \in done'[d] : f \in done[d] \/ (d = c /\ f = e)
  BY <1>1 DEF Inv, TypeOK
<1>3. TypeOK'
  BY <1>1, <1>2 DEF Inv, TypeOK
<1>4. OneRowEach' /\ PendingIsNear' /\ PassedIsBehind' /\ EveryPosition' /\ OnePerPosition'
      /\ LastIsNamed' /\ OpenShows'
  BY <1>1 DEF Inv, OneRowEach, PendingIsNear, PassedIsBehind, EveryPosition, OnePerPosition,
              LastIsNamed, OpenShows, LaneOf
<1>5. \E i \in Rows(inbox) : /\ inbox[i].consumer = c /\ inbox[i].event = e
                             /\ inbox[i].state = "pending"
  BY DEF Project
<1>6. DoneIsKnown'
  BY <1>1, <1>2, <1>5 DEF Inv, DoneIsKnown
<1>7. AppliedIsDone'
  BY <1>1, <1>2, RowFacts DEF Inv, AppliedIsDone
<1> QED BY <1>3, <1>4, <1>6, <1>7 DEF Inv

\* A row that is given another state.
LEMMA RowRestated ==
    ASSUME NEW row \in InboxRow, NEW state \in InboxState,
           NEW after, after = [row EXCEPT !.state = state]
    PROVE  /\ after \in InboxRow
           /\ after.consumer = row.consumer /\ after.event = row.event /\ after.state = state
BY DEF InboxRow

\* What MarkApplied does to the tables: row k becomes applied and its lane moves on
\* by one position.
LEMMA MarkAppliedFacts ==
    ASSUME TypeOK, NEW c \in Consumer, NEW k \in Rows(inbox), MarkApplied(c, k)
    PROVE  LET e == inbox[k].event
               g == AggregateOf[e]
           IN /\ inbox' \in Seq(InboxRow) /\ Rows(inbox') = Rows(inbox)
              /\ \A i \in Rows(inbox) :
                    /\ inbox'[i].consumer = inbox[i].consumer
                    /\ inbox'[i].event = inbox[i].event
                    /\ inbox'[i].state = IF i = k THEN "applied" ELSE inbox[i].state
              /\ inbox[k].consumer = c /\ inbox[k].state = "pending"
              /\ e \in done[c] /\ g \in Aggregate
              /\ SequenceOf[e] = checkpoint[c][g].last + 1
              /\ checkpoint' \in [Consumer -> [Aggregate -> Lane]]
              /\ checkpoint'[c][g].last = SequenceOf[e]
              /\ checkpoint'[c][g].lastEvent = e
              /\ Refreshed(inbox', c, g, SequenceOf[e], checkpoint'[c][g].state)
              /\ \A d \in Consumer, h \in Aggregate :
                    ~(d = c /\ h = g) => checkpoint'[d][h] = checkpoint[d][h]
              /\ done' = done
<1> DEFINE e == inbox[k].event
           g == AggregateOf[e]
           after == [inbox[k] EXCEPT !.state = "applied"]
           lane(s) == [state |-> s, last |-> SequenceOf[e], lastEvent |-> e]
<1>1. /\ inbox[k].consumer = c /\ inbox[k].state = "pending"
      /\ e \in done[c] /\ done' = done
      /\ SequenceOf[e] = checkpoint[c][g].last + 1
      /\ inbox' = [inbox EXCEPT ![k] = after]
  BY DEF MarkApplied, Follows
<1>2. PICK s \in LaneState : /\ Refreshed(inbox', c, g, SequenceOf[e], s)
                             /\ checkpoint' = [checkpoint EXCEPT ![c][g] = lane(s)]
  BY DEF MarkApplied
<1>3. /\ inbox \in Seq(InboxRow) /\ Len(inbox) \in Nat /\ Rows(inbox) = 1..Len(inbox)
      /\ inbox[k] \in InboxRow /\ e \in Event /\ g \in Aggregate /\ SequenceOf[e] \in Nat \ {0}
      /\ \A i \in Rows(inbox) : inbox[i] \in InboxRow
  BY RowFacts
<1>4. /\ after \in InboxRow
      /\ after.consumer = inbox[k].consumer /\ after.event = e /\ after.state = "applied"
  BY <1>3, RowRestated DEF InboxState
<1>5. lane(s) \in Lane /\ lane(s).state = s /\ lane(s).last = SequenceOf[e] /\ lane(s).lastEvent = e
  BY <1>3 DEF Lane
<1> HIDE DEF after, lane
<1>6. /\ inbox' \in Seq(InboxRow) /\ Rows(inbox') = Rows(inbox)
      /\ \A i \in Rows(inbox) : inbox'[i] = IF i = k THEN after ELSE inbox[i]
  BY <1>1, <1>3, <1>4 DEF Rows
<1>7. checkpoint \in [Consumer -> [Aggregate -> Lane]]
  BY DEF TypeOK, Lane
<1>8. /\ checkpoint' \in [Consumer -> [Aggregate -> Lane]]
      /\ checkpoint'[c][g] = lane(s)
      /\ \A d \in Consumer, h \in Aggregate :
            ~(d = c /\ h = g) => checkpoint'[d][h] = checkpoint[d][h]
  BY <1>2, <1>3, <1>5, <1>7
<1>9. \A i \in Rows(inbox) :
         /\ inbox'[i].consumer = inbox[i].consumer
         /\ inbox'[i].event = inbox[i].event
         /\ inbox'[i].state = IF i = k THEN "applied" ELSE inbox[i].state
  BY <1>4, <1>6
<1>10. Refreshed(inbox', c, g, SequenceOf[e], checkpoint'[c][g].state)
  BY <1>2, <1>5, <1>8
<1> QED BY <1>1, <1>3, <1>5, <1>6, <1>8, <1>9, <1>10

\* The next position of a lane is applied.
LEMMA MarkAppliedInv ==
    ASSUME Inv, NEW c \in Consumer, NEW k \in Rows(inbox), MarkApplied(c, k)
    PROVE  Inv'
<1> DEFINE e == inbox[k].event
           g == AggregateOf[e]
           last == checkpoint[c][g].last
<1>1. TypeOK
  BY DEF Inv
<1>2. /\ inbox' \in Seq(InboxRow) /\ Rows(inbox') = Rows(inbox)
      /\ \A i \in Rows(inbox) :
            /\ inbox'[i].consumer = inbox[i].consumer
            /\ inbox'[i].event = inbox[i].event
            /\ inbox'[i].state = IF i = k THEN "applied" ELSE inbox[i].state
      /\ inbox[k].consumer = c /\ inbox[k].state = "pending"
      /\ e \in done[c] /\ g \in Aggregate
      /\ SequenceOf[e] = last + 1
      /\ checkpoint' \in [Consumer -> [Aggregate -> Lane]]
      /\ checkpoint'[c][g].last = SequenceOf[e]
      /\ checkpoint'[c][g].lastEvent = e
      /\ Refreshed(inbox', c, g, SequenceOf[e], checkpoint'[c][g].state)
      /\ \A d \in Consumer, h \in Aggregate :
            ~(d = c /\ h = g) => checkpoint'[d][h] = checkpoint[d][h]
      /\ done' = done
  BY <1>1, MarkAppliedFacts
<1>3. /\ \A i \in Rows(inbox) : /\ inbox[i].consumer \in Consumer
                                /\ AggregateOf[inbox[i].event] \in Aggregate
                                /\ SequenceOf[inbox[i].event] \in Nat \ {0}
      /\ \A d \in Consumer, h \in Aggregate : checkpoint[d][h].last \in Nat
  BY <1>1, RowFacts
<1>4. TypeOK'
  BY <1>1, <1>2 DEF TypeOK, InboxRow, Lane
<1>rows. \A i \in Rows(inbox) :
            /\ i \in Rows(inbox')
            /\ inbox'[i].consumer = inbox[i].consumer
            /\ inbox'[i].event = inbox[i].event
            /\ i # k => inbox'[i].state = inbox[i].state
            /\ i = k => inbox'[i].state = "applied"
  BY <1>2
<1>row_k. /\ inbox[k].consumer = c /\ inbox[k].event = e /\ AggregateOf[inbox[k].event] = g
          /\ g \in Aggregate /\ last \in Nat /\ checkpoint[c][g].last = last
          /\ SequenceOf[inbox[k].event] = last + 1
  BY <1>2, <1>3
<1>moved. checkpoint'[c][g].last = last + 1 /\ checkpoint'[c][g].lastEvent = e
  BY <1>2
<1>others. \A d \in Consumer, h \in Aggregate :
              ~(d = c /\ h = g) => checkpoint'[d][h] = checkpoint[d][h]
  BY <1>2
<1> HIDE DEF e, g, last
<1>5. OneRowEach'
  BY <1>2 DEF Inv, OneRowEach
<1>6. \A i \in Rows(inbox) : /\ SeqAt(inbox', i) = SeqAt(inbox, i)
                             /\ SeqAt(inbox, i) = SequenceOf[inbox[i].event]
  BY <1>2 DEF SeqAt
<1>7. ASSUME NEW i \in Rows(inbox)
      PROVE  /\ (inbox[i].consumer = c /\ AggregateOf[inbox[i].event] = g)
                => LaneOf(i)'.last = last + 1 /\ LaneOf(i).last = last
             /\ ~(inbox[i].consumer = c /\ AggregateOf[inbox[i].event] = g) => LaneOf(i)' = LaneOf(i)
             /\ LaneOf(i).last \in Nat
  BY <1>3, <1>rows, <1>row_k, <1>moved, <1>others DEF LaneOf
<1>8. PendingIsNear'
  <2> SUFFICES ASSUME NEW i \in Rows(inbox), inbox'[i].state = "pending"
               PROVE  SeqAt(inbox', i) <= LaneOf(i)'.last + 1
    BY <1>2 DEF PendingIsNear
  <2>1. SeqAt(inbox, i) <= LaneOf(i).last + 1
    BY <1>rows DEF Inv, PendingIsNear
  <2> QED BY <1>3, <1>6, <1>7, <1>row_k, <2>1
<1>9. PassedIsBehind'
  <2> SUFFICES ASSUME NEW i \in Rows(inbox), inbox'[i].state \in {"stale", "applied"}
               PROVE  SeqAt(inbox', i) <= LaneOf(i)'.last
    BY <1>2 DEF PassedIsBehind
  <2>1. CASE i = k
    BY <1>6, <1>7, <1>row_k, <2>1
  <2>2. CASE i # k
    <3>1. SeqAt(inbox, i) <= LaneOf(i).last
      BY <1>rows, <2>2 DEF Inv, PassedIsBehind
    <3> QED BY <1>3, <1>6, <1>7, <1>row_k, <3>1
  <2> QED BY <2>1, <2>2
<1>10. EveryPosition'
  <2> SUFFICES ASSUME NEW d \in Consumer, NEW h \in Aggregate, NEW q \in 1..checkpoint'[d][h].last
               PROVE  \E i \in Rows(inbox') :
                         InLane(inbox', i, d, h) /\ inbox'[i].state = "applied" /\ SeqAt(inbox', i) = q
    BY DEF EveryPosition
  <2>1. CASE d = c /\ h = g /\ q = last + 1
    <3>1. InLane(inbox', k, d, h) /\ inbox'[k].state = "applied" /\ SeqAt(inbox', k) = q
      BY <1>6, <1>rows, <1>row_k, <2>1 DEF InLane
    <3> QED BY <1>rows, <3>1
  <2>2. CASE ~(d = c /\ h = g /\ q = last + 1)
    <3>1. q \in 1..checkpoint[d][h].last
      BY <1>3, <1>row_k, <1>moved, <1>others, <2>2
    <3>2. PICK i \in Rows(inbox) : InLane(inbox, i, d, h) /\ inbox[i].state = "applied" /\ SeqAt(inbox, i) = q
      BY <3>1 DEF Inv, EveryPosition
    <3>3. i # k
      BY <1>2, <3>2
    <3> QED BY <1>6, <1>rows, <3>2, <3>3 DEF InLane
  <2> QED BY <2>1, <2>2
<1>11. \A i \in Rows(inbox) :
          inbox[i].state = "applied" /\ inbox[i].consumer = c /\ AggregateOf[inbox[i].event] = g
          => SeqAt(inbox, i) <= last
  BY <1>row_k DEF Inv, PassedIsBehind, LaneOf
<1>12. \A i \in Rows(inbox) :
          (/\ inbox'[i].state = "applied" /\ inbox[i].consumer = c
           /\ AggregateOf[inbox[i].event] = g /\ SeqAt(inbox, i) = last + 1) => i = k
  BY <1>3, <1>6, <1>11, <1>rows, <1>row_k
<1>13. OnePerPosition'
  <2> SUFFICES ASSUME NEW i \in Rows(inbox), NEW j \in Rows(inbox),
                      inbox'[i].state = "applied", inbox'[j].state = "applied",
                      inbox[i].consumer = inbox[j].consumer,
                      AggregateOf[inbox[i].event] = AggregateOf[inbox[j].event],
                      SeqAt(inbox, i) = SeqAt(inbox, j)
               PROVE  i = j
    BY <1>2, <1>6 DEF OnePerPosition
  <2>1. CASE i # k /\ j # k
    BY <1>rows, <2>1 DEF Inv, OnePerPosition
  <2>2. CASE i = k \/ j = k
    BY <1>6, <1>12, <1>row_k, <2>2
  <2> QED BY <2>1, <2>2
<1>14. LastIsNamed'
  <2> SUFFICES ASSUME NEW i \in Rows(inbox), inbox'[i].state = "applied",
                      SeqAt(inbox, i) = LaneOf(i)'.last
               PROVE  inbox[i].event = LaneOf(i)'.lastEvent
    BY <1>2, <1>6 DEF LastIsNamed
  <2>1. CASE inbox[i].consumer = c /\ AggregateOf[inbox[i].event] = g
    <3>1. i = k
      BY <1>7, <1>12, <2>1
    <3> QED BY <1>rows, <1>row_k, <1>moved, <3>1 DEF LaneOf
  <2>2. CASE ~(inbox[i].consumer = c /\ AggregateOf[inbox[i].event] = g)
    <3>1. i # k
      BY <1>row_k, <2>2
    <3> QED BY <1>7, <1>rows, <2>2, <3>1 DEF Inv, LastIsNamed
  <2> QED BY <2>1, <2>2
<1>15. DoneIsKnown'
  <2>1. DoneIsKnown /\ done' = done
    BY <1>2 DEF Inv
  <2> QED BY <1>2, <2>1 DEF DoneIsKnown
<1>16. AppliedIsDone'
  <2>1. AppliedIsDone /\ done' = done /\ inbox[k].event \in done[c]
    BY <1>2 DEF Inv, e
  <2> QED BY <1>2, <1>rows, <1>row_k, <2>1 DEF AppliedIsDone
<1>17. OpenShows'
  <2> SUFFICES ASSUME NEW i \in Rows(inbox), inbox'[i].state \in Open
               PROVE  LaneOf(i)'.state # "current"
    BY <1>2 DEF OpenShows
  <2>1. CASE inbox[i].consumer = c /\ AggregateOf[inbox[i].event] = g
    <3>1. InLane(inbox', i, c, g)
      BY <1>2, <2>1 DEF InLane
    <3>2. checkpoint'[c][g].state # "current"
      BY <1>2, <3>1, RefreshedFacts
    <3> QED BY <1>2, <2>1, <3>2 DEF LaneOf
  <2>2. CASE ~(inbox[i].consumer = c /\ AggregateOf[inbox[i].event] = g)
    <3>1. i # k /\ inbox[i].state \in Open
      BY <1>rows, <1>row_k, <2>2
    <3> QED BY <1>7, <2>2, <3>1 DEF Inv, OpenShows
  <2> QED BY <2>1, <2>2
<1> QED BY <1>4, <1>5, <1>8, <1>9, <1>10, <1>13, <1>14, <1>15, <1>16, <1>17 DEF Inv

\* What a reconciliation, an outage and its end have in common: the state of one
\* lane is set, and rows may leave gap for pending where they are next.
LEMMA LaneJudgedInv ==
    ASSUME Inv, NEW c \in Consumer, NEW g \in Aggregate, NEW state \in LaneState,
           StateIsSet(c, g, state), done' = done,
           inbox' \in Seq(InboxRow), Rows(inbox') = Rows(inbox),
           \A i \in Rows(inbox) :
              /\ inbox'[i].consumer = inbox[i].consumer
              /\ inbox'[i].event = inbox[i].event
              /\ \/ inbox'[i].state = inbox[i].state
                 \/ /\ inbox[i].state = "gap" /\ inbox'[i].state = "pending"
                    /\ SeqAt(inbox, i) <= LaneOf(i).last + 1,
           state = "current"
           => \A i \in Rows(inbox') : InLane(inbox', i, c, g) => inbox'[i].state \notin Open
    PROVE  Inv'
<1>1. TypeOK
  BY DEF Inv
<1>2. /\ checkpoint' \in [Consumer -> [Aggregate -> Lane]]
      /\ checkpoint'[c][g].state = state
      /\ \A d \in Consumer, h \in Aggregate :
            /\ checkpoint'[d][h].last = checkpoint[d][h].last
            /\ checkpoint'[d][h].lastEvent = checkpoint[d][h].lastEvent
            /\ ~(d = c /\ h = g) => checkpoint'[d][h].state = checkpoint[d][h].state
  BY <1>1, StateWritten
<1>3. \A i \in Rows(inbox) : /\ inbox[i].consumer \in Consumer
                             /\ AggregateOf[inbox[i].event] \in Aggregate
  BY <1>1, RowFacts
<1>4. \A i \in Rows(inbox) : /\ SeqAt(inbox', i) = SeqAt(inbox, i)
                             /\ LaneOf(i)'.last = LaneOf(i).last
                             /\ LaneOf(i)'.lastEvent = LaneOf(i).lastEvent
                             /\ ~(inbox[i].consumer = c /\ AggregateOf[inbox[i].event] = g)
                                => LaneOf(i)'.state = LaneOf(i).state
  BY <1>2, <1>3, SMTT(40) DEF LaneOf, SeqAt
<1>5. \A i \in Rows(inbox) : /\ inbox'[i].state = "applied" <=> inbox[i].state = "applied"
                             /\ inbox'[i].state = "stale" <=> inbox[i].state = "stale"
                             /\ inbox'[i].state = "pending" =>
                                   \/ inbox[i].state = "pending"
                                   \/ SeqAt(inbox, i) <= LaneOf(i).last + 1
                             /\ inbox[i].state \in {"pending", "applied"} => inbox'[i].state = inbox[i].state
                             /\ inbox'[i].state \in Open => inbox[i].state \in Open
  BY DEF Open
<1>6. TypeOK'
  BY <1>1, <1>2 DEF TypeOK, InboxRow, Lane
<1>7. OneRowEach'
  BY DEF Inv, OneRowEach
<1>8. PendingIsNear' /\ PassedIsBehind'
  BY <1>4, <1>5 DEF Inv, PendingIsNear, PassedIsBehind
<1>9. EveryPosition'
  <2> SUFFICES ASSUME NEW d \in Consumer, NEW h \in Aggregate, NEW q \in 1..checkpoint[d][h].last
               PROVE  \E i \in Rows(inbox') :
                         InLane(inbox', i, d, h) /\ inbox'[i].state = "applied" /\ SeqAt(inbox', i) = q
    BY <1>2 DEF EveryPosition
  <2>1. PICK i \in Rows(inbox) : InLane(inbox, i, d, h) /\ inbox[i].state = "applied" /\ SeqAt(inbox, i) = q
    BY DEF Inv, EveryPosition
  <2>2. i \in Rows(inbox') /\ InLane(inbox', i, d, h) /\ inbox'[i].state = "applied" /\ SeqAt(inbox', i) = q
    BY <1>4, <1>5, <2>1 DEF InLane
  <2> QED BY <2>2
<1>10. OnePerPosition' /\ LastIsNamed'
  BY <1>4, <1>5 DEF Inv, OnePerPosition, LastIsNamed
<1>11. DoneIsKnown'
  BY <1>5 DEF Inv, DoneIsKnown
<1>12. AppliedIsDone'
  BY <1>5 DEF Inv, AppliedIsDone
<1>13. OpenShows'
  <2> SUFFICES ASSUME NEW i \in Rows(inbox), inbox'[i].state \in Open
               PROVE  LaneOf(i)'.state # "current"
    BY DEF OpenShows
  <2>1. CASE inbox[i].consumer = c /\ AggregateOf[inbox[i].event] = g
    <3>1. InLane(inbox', i, c, g)
      BY <2>1 DEF InLane
    <3> QED BY <1>2, <2>1, <3>1 DEF LaneOf
  <2>2. CASE ~(inbox[i].consumer = c /\ AggregateOf[inbox[i].event] = g)
    BY <1>4, <1>5, <2>2 DEF Inv, OpenShows
  <2> QED BY <2>1, <2>2
<1> QED BY <1>6, <1>7, <1>8, <1>9, <1>10, <1>11, <1>12, <1>13 DEF Inv

\* What Reconcile does to the rows: the promotable one becomes pending.
LEMMA ReconcileFacts ==
    ASSUME TypeOK, NEW c \in Consumer, NEW g \in Aggregate, Reconcile(c, g)
    PROVE  /\ inbox' \in Seq(InboxRow) /\ Rows(inbox') = Rows(inbox)
           /\ \A i \in Rows(inbox) :
                 /\ inbox'[i].consumer = inbox[i].consumer
                 /\ inbox'[i].event = inbox[i].event
                 /\ \/ inbox'[i].state = inbox[i].state
                    \/ /\ inbox[i].state = "gap" /\ inbox'[i].state = "pending"
                       /\ SeqAt(inbox, i) <= LaneOf(i).last + 1
           /\ done' = done
           /\ \E state \in LaneState : /\ StateIsSet(c, g, state)
                                       /\ Refreshed(inbox', c, g, checkpoint[c][g].last, state)
<1> DEFINE n == Len(inbox)
           up == Promotable(c, g)
<1>1. /\ inbox \in Seq(InboxRow) /\ n \in Nat /\ Rows(inbox) = 1..n
      /\ \A i \in Rows(inbox) : inbox[i] \in InboxRow
      /\ \A e \in Event : SequenceOf[e] \in Nat
      /\ \A i \in Rows(inbox) : inbox[i].event \in Event
      /\ checkpoint[c][g].last \in Nat
  BY RowFacts
<1>2. inbox' = [i \in 1..n |-> IF i \in up THEN [inbox[i] EXCEPT !.state = "pending"] ELSE inbox[i]]
  BY <1>1 DEF Reconcile
<1>3. ASSUME NEW i \in Rows(inbox), i \in up
      PROVE  inbox[i].state = "gap" /\ SeqAt(inbox, i) <= LaneOf(i).last + 1
  <2>1. inbox[i].state = "gap" /\ InLane(inbox, i, c, g) /\ SeqAt(inbox, i) = checkpoint[c][g].last + 1
    BY <1>3 DEF Promotable, LaneRows
  <2> QED BY <1>1, <2>1 DEF InLane, LaneOf, SeqAt
<1> HIDE DEF up
<1>4. ASSUME NEW i \in Rows(inbox)
      PROVE  /\ inbox'[i] \in InboxRow
             /\ inbox'[i].consumer = inbox[i].consumer
             /\ inbox'[i].event = inbox[i].event
             /\ \/ inbox'[i].state = inbox[i].state
                \/ /\ inbox[i].state = "gap" /\ inbox'[i].state = "pending"
                   /\ SeqAt(inbox, i) <= LaneOf(i).last + 1
  <2>1. CASE i \in up
    <3>1. inbox'[i] = [inbox[i] EXCEPT !.state = "pending"]
      BY <1>1, <1>2, <2>1
    <3>2. /\ inbox'[i] \in InboxRow
          /\ inbox'[i].consumer = inbox[i].consumer /\ inbox'[i].event = inbox[i].event
          /\ inbox'[i].state = "pending"
      BY <1>1, <3>1, RowRestated DEF InboxState
    <3> QED BY <1>3, <2>1, <3>2
  <2>2. CASE i \notin up
    BY <1>1, <1>2, <2>2
  <2> QED BY <2>1, <2>2
<1>5. inbox' \in Seq(InboxRow) /\ Rows(inbox') = Rows(inbox)
  <2>1. inbox' \in [1..n -> InboxRow]
    BY <1>1, <1>2, <1>4
  <2> QED BY <1>1, <2>1 DEF Rows
<1>6. done' = done /\ \E state \in LaneState : /\ StateIsSet(c, g, state)
                                               /\ Refreshed(inbox', c, g, checkpoint[c][g].last, state)
  BY DEF Reconcile, StateIsSet
<1> QED BY <1>4, <1>5, <1>6

LEMMA LaneStepInv ==
    ASSUME Inv, NEW c \in Consumer, NEW g \in Aggregate,
           Reconcile(c, g) \/ MarkUnavailable(c, g) \/ Resume(c, g)
    PROVE  Inv'
<1>1. TypeOK
  BY DEF Inv
<1>2. CASE Reconcile(c, g)
  <2>1. PICK state \in LaneState : /\ StateIsSet(c, g, state)
                                   /\ Refreshed(inbox', c, g, checkpoint[c][g].last, state)
    BY <1>1, <1>2, ReconcileFacts
  <2>2. state = "current"
        => \A i \in Rows(inbox') : InLane(inbox', i, c, g) => inbox'[i].state \notin Open
    BY <2>1, RefreshedFacts
  <2>3. /\ inbox' \in Seq(InboxRow) /\ Rows(inbox') = Rows(inbox)
        /\ \A i \in Rows(inbox) :
              /\ inbox'[i].consumer = inbox[i].consumer
              /\ inbox'[i].event = inbox[i].event
              /\ \/ inbox'[i].state = inbox[i].state
                 \/ /\ inbox[i].state = "gap" /\ inbox'[i].state = "pending"
                    /\ SeqAt(inbox, i) <= LaneOf(i).last + 1
        /\ done' = done
    BY <1>1, <1>2, ReconcileFacts
  <2> QED BY <2>1, <2>2, <2>3, LaneJudgedInv
<1>3. CASE MarkUnavailable(c, g) \/ Resume(c, g)
  <2>1. inbox' = inbox /\ done' = done /\ inbox \in Seq(InboxRow)
    BY <1>1, <1>3, RowFacts DEF MarkUnavailable, Resume
  <2>2. PICK state \in LaneState :
           /\ StateIsSet(c, g, state)
           /\ state = "current" => Refreshed(inbox, c, g, checkpoint[c][g].last, state)
    <3>1. "unavailable" \in LaneState
      BY DEF LaneState
    <3> QED BY <1>3, <3>1 DEF MarkUnavailable, Resume, StateIsSet
  <2>3. state = "current"
        => \A i \in Rows(inbox') : InLane(inbox', i, c, g) => inbox'[i].state \notin Open
    BY <2>1, <2>2, RefreshedFacts
  <2> QED BY <2>1, <2>2, <2>3, LaneJudgedInv
<1> QED BY <1>2, <1>3

\* Every step keeps the invariant.
LEMMA NextInv == Inv /\ [Next]_vars => Inv'
<1> SUFFICES ASSUME Inv, [Next]_vars PROVE Inv'
  OBVIOUS
<1>1. CASE UNCHANGED vars
  <2>1. inbox' = inbox /\ checkpoint' = checkpoint /\ done' = done
    BY <1>1 DEF vars
  <2>2. TypeOK' /\ OneRowEach' /\ PendingIsNear' /\ PassedIsBehind' /\ EveryPosition'
    BY <1>1, <2>1 DEF vars, Inv, TypeOK, OneRowEach, PendingIsNear, PassedIsBehind, EveryPosition,
                      LaneOf
  <2>3. OnePerPosition' /\ LastIsNamed' /\ DoneIsKnown' /\ AppliedIsDone' /\ OpenShows'
    BY <1>1, <2>1 DEF vars, Inv, OnePerPosition, LastIsNamed, DoneIsKnown, AppliedIsDone, OpenShows,
                      LaneOf
  <2> QED BY <2>2, <2>3 DEF Inv
<1>2. ASSUME NEW c \in Consumer, NEW e \in Event, Ingest(c, e) \/ Project(c, e)
      PROVE  Inv'
  BY <1>2, IngestInv, ProjectInv
<1>3. ASSUME NEW c \in Consumer, NEW i \in Rows(inbox), MarkApplied(c, i)
      PROVE  Inv'
  BY <1>3, MarkAppliedInv
<1>4. ASSUME NEW c \in Consumer, NEW g \in Aggregate,
             Reconcile(c, g) \/ MarkUnavailable(c, g) \/ Resume(c, g)
      PROVE  Inv'
  BY <1>4, LaneStepInv
<1> QED BY <1>1, <1>2, <1>3, <1>4 DEF Next

\* The whole invariant, from which the theorems below are read off.
LEMMA Invariance == Spec => []Inv
<1> QED BY InitInv, NextInv, PTL DEF Spec

\* The two projection tables and the consumer's local data always have their types
\* (projections.go).
THEOREM TypeCorrect == Spec => []TypeOK
<1>1. Inv => TypeOK
  BY DEF Inv
<1> QED BY <1>1, Invariance, PTL

\* last_sequence counts the applied events of its lane, one for each position, and
\* last_event_id names the last one, whatever was delivered in whatever order.
THEOREM AppliedInOrderAlways == Spec => []AppliedInOrder
<1>1. Inv => AppliedInOrder
  <2> SUFFICES ASSUME Inv, NEW c \in Consumer, NEW g \in Aggregate
               PROVE  LET applied == LaneRows(inbox, c, g, {"applied"})
                          lane == checkpoint[c][g]
                      IN /\ {SeqAt(inbox, i) : i \in applied} = 1..lane.last
                         /\ \A i, j \in applied : SeqAt(inbox, i) = SeqAt(inbox, j) => i = j
                         /\ \A i \in applied : SeqAt(inbox, i) = lane.last
                                               => inbox[i].event = lane.lastEvent
    BY DEF AppliedInOrder
  <2> DEFINE applied == LaneRows(inbox, c, g, {"applied"})
             lane == checkpoint[c][g]
  <2>1. \A i \in applied : /\ i \in Rows(inbox) /\ inbox[i].state = "applied"
                           /\ inbox[i].consumer = c /\ AggregateOf[inbox[i].event] = g
    BY DEF LaneRows, InLane
  <2>2. \A i \in applied : SeqAt(inbox, i) \in 1..lane.last
    <3> SUFFICES ASSUME NEW i \in applied PROVE SeqAt(inbox, i) \in 1..lane.last
      OBVIOUS
    <3>1. SeqAt(inbox, i) \in Nat \ {0} /\ lane.last \in Nat
      BY <2>1, RowFacts DEF Inv, SeqAt
    <3>2. SeqAt(inbox, i) <= lane.last
      BY <2>1 DEF Inv, PassedIsBehind, LaneOf
    <3> QED BY <3>1, <3>2
  <2>3. \A q \in 1..lane.last : \E i \in applied : SeqAt(inbox, i) = q
    BY DEF Inv, EveryPosition, LaneRows
  <2> HIDE DEF applied
  <2>4. {SeqAt(inbox, i) : i \in applied} = 1..lane.last
    BY <2>2, <2>3
  <2>5. \A i, j \in applied : SeqAt(inbox, i) = SeqAt(inbox, j) => i = j
    BY <2>1 DEF Inv, OnePerPosition
  <2>6. \A i \in applied : SeqAt(inbox, i) = lane.last => inbox[i].event = lane.lastEvent
    BY <2>1 DEF Inv, LastIsNamed, LaneOf
  <2> QED BY <2>4, <2>5, <2>6 DEF applied
<1> QED BY <1>1, Invariance, PTL

\* A lane that says current has nothing waiting, missing or unreadable, and the
\* consumer's data holds exactly its applied events.
THEOREM CurrentIsCompleteAlways == Spec => []CurrentIsComplete
<1>1. Inv => CurrentIsComplete
  <2> SUFFICES ASSUME Inv, NEW c \in Consumer, NEW g \in Aggregate,
                      checkpoint[c][g].state = "current"
               PROVE  /\ LaneRows(inbox, c, g, Open) = {}
                      /\ {e \in done[c] : AggregateOf[e] = g}
                         = {inbox[i].event : i \in LaneRows(inbox, c, g, {"applied"})}
    BY DEF CurrentIsComplete
  <2>1. \A i \in Rows(inbox) : InLane(inbox, i, c, g) => inbox[i].state \notin Open
    BY DEF Inv, OpenShows, LaneOf, InLane
  <2>2. LaneRows(inbox, c, g, Open) = {}
    BY <2>1 DEF LaneRows
  <2>3. ASSUME NEW e \in done[c], AggregateOf[e] = g
        PROVE  \E i \in LaneRows(inbox, c, g, {"applied"}) : e = inbox[i].event
    <3>1. PICK i \in Rows(inbox) : /\ inbox[i].consumer = c /\ inbox[i].event = e
                                   /\ inbox[i].state \in {"pending", "applied"}
      BY DEF Inv, DoneIsKnown
    <3>2. inbox[i].state = "applied"
      BY <2>1, <2>3, <3>1 DEF InLane, Open
    <3> QED BY <2>3, <3>1, <3>2 DEF LaneRows, InLane
  <2>4. ASSUME NEW i \in LaneRows(inbox, c, g, {"applied"})
        PROVE  inbox[i].event \in done[c] /\ AggregateOf[inbox[i].event] = g
    BY DEF Inv, AppliedIsDone, LaneRows, InLane
  <2>5. {e \in done[c] : AggregateOf[e] = g}
        = {inbox[i].event : i \in LaneRows(inbox, c, g, {"applied"})}
    BY <2>3, <2>4
  <2> QED BY <2>2, <2>5
<1> QED BY <1>1, Invariance, PTL

\* The consumer's local work skips no position and is never more than one ahead of
\* the checkpoint: projections.go hands it only what is next.
THEOREM LocalWorkInOrderAlways == Spec => []LocalWorkInOrder
<1>1. Inv => LocalWorkInOrder
  <2> SUFFICES ASSUME Inv, NEW c \in Consumer, NEW g \in Aggregate
               PROVE  {SequenceOf[e] : e \in {d \in done[c] : AggregateOf[d] = g}}
                      \in {1..checkpoint[c][g].last, 1..(checkpoint[c][g].last + 1)}
    BY DEF LocalWorkInOrder
  <2> DEFINE last == checkpoint[c][g].last
             positions == {SequenceOf[e] : e \in {d \in done[c] : AggregateOf[d] = g}}
  <2>1. last \in Nat
    BY RowFacts DEF Inv
  <2>2. ASSUME NEW q \in 1..last
        PROVE  q \in positions
    <3>1. PICK i \in Rows(inbox) : InLane(inbox, i, c, g) /\ inbox[i].state = "applied" /\ SeqAt(inbox, i) = q
      BY DEF Inv, EveryPosition
    <3>2. inbox[i].event \in done[c] /\ AggregateOf[inbox[i].event] = g /\ SequenceOf[inbox[i].event] = q
      BY <3>1 DEF Inv, AppliedIsDone, InLane, SeqAt
    <3> QED BY <3>2
  <2>3. ASSUME NEW e \in done[c], AggregateOf[e] = g
        PROVE  SequenceOf[e] \in 1..(last + 1)
    <3>1. PICK i \in Rows(inbox) : /\ inbox[i].consumer = c /\ inbox[i].event = e
                                   /\ inbox[i].state \in {"pending", "applied"}
      BY DEF Inv, DoneIsKnown
    <3>2. SequenceOf[e] \in Nat \ {0} /\ SeqAt(inbox, i) = SequenceOf[e] /\ LaneOf(i).last = last
      BY <2>3, <3>1, RowFacts DEF Inv, SeqAt, LaneOf
    <3>3. SeqAt(inbox, i) <= last + 1
      <4>1. CASE inbox[i].state = "pending"
        BY <3>2, <4>1 DEF Inv, PendingIsNear
      <4>2. CASE inbox[i].state = "applied"
        <5>1. SeqAt(inbox, i) <= last
          BY <3>2, <4>2 DEF Inv, PassedIsBehind
        <5> QED BY <2>1, <3>2, <5>1
      <4> QED BY <3>1, <4>1, <4>2
    <3> QED BY <2>1, <3>2, <3>3
  <2>4. \A q \in positions : q \in 1..(last + 1)
    BY <2>3
  <2> HIDE DEF positions, last
  <2>5. \A q \in 1..(last + 1) : q \in 1..last \/ q = last + 1
    BY <2>1
  <2>6. CASE last + 1 \in positions
    <3>1. positions = 1..(last + 1)
      BY <2>2, <2>4, <2>5, <2>6
    <3> QED BY <3>1 DEF positions, last
  <2>7. CASE last + 1 \notin positions
    <3>1. positions = 1..last
      BY <2>2, <2>4, <2>5, <2>7
    <3> QED BY <3>1 DEF positions, last
  <2> QED BY <2>6, <2>7
<1> QED BY <1>1, Invariance, PTL

\* What one delivery does, seen from the rows and the checkpoints.
LEMMA Arrival ==
    ASSUME Inv, NEW c \in Consumer, NEW e \in Event, Ingest(c, e)
    PROVE  /\ Rows(inbox') = Rows(inbox) \cup {Len(inbox) + 1}
           /\ \A i \in Rows(inbox) : inbox'[i] = inbox[i]
           /\ inbox'[Len(inbox) + 1].consumer = c
           /\ inbox'[Len(inbox) + 1].event = e
           /\ inbox'[Len(inbox) + 1].state \in InboxState \ {"applied"}
           /\ \A i \in Rows(inbox) : ~(inbox[i].consumer = c /\ inbox[i].event = e)
           /\ \E state : /\ StateIsSet(c, AggregateOf[e], state)
                         /\ state \in LaneState \cup {Absent}
                         /\ state = "current" => checkpoint[c][AggregateOf[e]].state = "current"
<1> DEFINE g == AggregateOf[e]
           lane == checkpoint[c][g]
           state == Classified(e, lane)
           row == [consumer |-> c, event |-> e, state |-> state]
           n == Len(inbox)
<1>1. TypeOK
  BY DEF Inv
<1>2. g \in Aggregate /\ lane \in Lane /\ SequenceOf[e] \in Nat
  BY <1>1, ProjectionAssumption DEF TypeOK, Lane
<1>3. /\ state \in {"blocked", "stale", "gap", "pending"}
      /\ AfterIngest(lane.state, state) \in LaneState \cup {Absent}
      /\ AfterIngest(lane.state, state) = "current" => lane.state = "current"
  BY <1>2, IngestFacts
<1>4. /\ ~Received(inbox, c, e)
      /\ inbox' = Append(inbox, row)
      /\ StateIsSet(c, g, AfterIngest(lane.state, state))
  BY <1>1, <1>2 DEF Ingest, TypeOK, StateIsSet
<1>5. /\ row \in InboxRow /\ row.consumer = c /\ row.event = e
      /\ row.state \in InboxState \ {"applied"}
  BY <1>3 DEF InboxRow, InboxState
<1> HIDE DEF state, row
<1>6. /\ n \in Nat /\ Rows(inbox) = 1..n /\ Rows(inbox') = 1..(n + 1)
      /\ \A i \in 1..n : inbox'[i] = inbox[i]
      /\ inbox'[n + 1] = row
  BY <1>1, <1>4, <1>5, RowFacts DEF Rows
<1>7. Rows(inbox') = Rows(inbox) \cup {n + 1}
  BY <1>6
<1>8. \A i \in Rows(inbox) : ~(inbox[i].consumer = c /\ inbox[i].event = e)
  BY <1>4 DEF Received
<1> QED BY <1>3, <1>4, <1>5, <1>6, <1>7, <1>8

\* What a reconciliation, an outage or its end does: rows may be promoted, and one
\* lane's state is written.
LEMMA LaneStepFacts ==
    ASSUME Inv, NEW c \in Consumer, NEW g \in Aggregate,
           Reconcile(c, g) \/ MarkUnavailable(c, g) \/ Resume(c, g)
    PROVE  /\ Rows(inbox') = Rows(inbox)
           /\ \A i \in Rows(inbox) :
                 /\ inbox'[i].consumer = inbox[i].consumer
                 /\ inbox'[i].event = inbox[i].event
                 /\ \/ inbox'[i].state = inbox[i].state
                    \/ inbox[i].state = "gap" /\ inbox'[i].state = "pending"
           /\ \E state \in LaneState : StateIsSet(c, g, state)
<1>1. TypeOK
  BY DEF Inv
<1>2. CASE Reconcile(c, g)
  BY <1>1, <1>2, ReconcileFacts
<1>3. CASE MarkUnavailable(c, g) \/ Resume(c, g)
  <2>1. inbox' = inbox
    BY <1>3 DEF MarkUnavailable, Resume
  <2>2. "unavailable" \in LaneState
    BY DEF LaneState
  <2>3. \E state \in LaneState : StateIsSet(c, g, state)
    BY <1>3, <2>2 DEF MarkUnavailable, Resume, StateIsSet
  <2> QED BY <2>1, <2>3
<1> QED BY <1>2, <1>3

\* The row states a step may put in place of another, and the positions a
\* checkpoint may move to.
Moves == {<<s, s>> : s \in InboxState} \cup {<<"gap", "pending">>, <<"pending", "applied">>}

Kept ==
    /\ \A i \in Rows(inbox) :
          /\ i \in Rows(inbox')
          /\ inbox'[i].event = inbox[i].event /\ inbox'[i].consumer = inbox[i].consumer
          /\ <<inbox[i].state, inbox'[i].state>> \in Moves
    /\ \A c \in Consumer, g \in Aggregate :
          checkpoint'[c][g].last \in {checkpoint[c][g].last, checkpoint[c][g].last + 1}

\* No delivery, confirmation, reconciliation or outage loses a row, rewrites its
\* event, takes a row state back or moves a checkpoint back or by more than one.
THEOREM EvidenceIsKeptAlways == Spec => EvidenceIsKept
<1>1. ASSUME NEW s \in InboxState, NEW t \in InboxState,
             s = t \/ (s = "gap" /\ t = "pending") \/ (s = "pending" /\ t = "applied")
      PROVE  <<s, t>> \in Moves
  BY <1>1 DEF Moves
<1>2. Inv => \A i \in Rows(inbox) : inbox[i].state \in InboxState
  BY RowFacts DEF Inv
<1>3. ASSUME Inv, Inv', NEW c \in Consumer, NEW e \in Event, Ingest(c, e)
      PROVE  Kept
  <2>1. \A i \in Rows(inbox) : i \in Rows(inbox') /\ inbox'[i] = inbox[i]
    BY <1>3, Arrival
  <2>2. PICK state \in LaneState \cup {Absent} : StateIsSet(c, AggregateOf[e], state)
    BY <1>3, Arrival
  <2>3. TypeOK /\ AggregateOf[e] \in Aggregate
    BY <1>3, RowFacts DEF Inv
  <2>4. \A d \in Consumer, h \in Aggregate : checkpoint'[d][h].last = checkpoint[d][h].last
    BY <2>2, <2>3, StateWritten
  <2> QED BY <1>1, <1>2, <1>3, <2>1, <2>4 DEF Kept
<1>4. ASSUME Inv, Inv', NEW c \in Consumer, NEW i \in Rows(inbox), MarkApplied(c, i)
      PROVE  Kept
  <2> DEFINE g == AggregateOf[inbox[i].event]
  <2>1. TypeOK
    BY <1>4 DEF Inv
  <2>2. /\ Rows(inbox') = Rows(inbox)
        /\ \A j \in Rows(inbox) :
              /\ inbox'[j].consumer = inbox[j].consumer /\ inbox'[j].event = inbox[j].event
              /\ inbox'[j].state = inbox[j].state
                 \/ (inbox[j].state = "pending" /\ inbox'[j].state = "applied")
        /\ checkpoint'[c][g].last = checkpoint[c][g].last + 1
        /\ \A d \in Consumer, h \in Aggregate :
              ~(d = c /\ h = g) => checkpoint'[d][h] = checkpoint[d][h]
    BY <1>4, <2>1, MarkAppliedFacts
  <2>3. \A j \in Rows(inbox) : inbox[j].state \in InboxState /\ inbox'[j].state \in InboxState
    BY <1>2, <1>4, <2>2 DEF InboxState
  <2>4. \A j \in Rows(inbox) : <<inbox[j].state, inbox'[j].state>> \in Moves
    BY <1>1, <2>2, <2>3
  <2> QED BY <2>2, <2>4 DEF Kept
<1>5. ASSUME Inv, Inv', NEW c \in Consumer, NEW g \in Aggregate,
             Reconcile(c, g) \/ MarkUnavailable(c, g) \/ Resume(c, g)
      PROVE  Kept
  <2>1. TypeOK
    BY <1>5 DEF Inv
  <2>2. /\ Rows(inbox') = Rows(inbox)
        /\ \A i \in Rows(inbox) :
              /\ inbox'[i].consumer = inbox[i].consumer
              /\ inbox'[i].event = inbox[i].event
              /\ inbox'[i].state = inbox[i].state
                 \/ (inbox[i].state = "gap" /\ inbox'[i].state = "pending")
    BY <1>5, LaneStepFacts
  <2>3. PICK state \in LaneState : StateIsSet(c, g, state)
    BY <1>5, LaneStepFacts
  <2>4. \A d \in Consumer, h \in Aggregate : checkpoint'[d][h].last = checkpoint[d][h].last
    BY <2>1, <2>3, StateWritten
  <2>5. \A j \in Rows(inbox) : inbox[j].state \in InboxState /\ inbox'[j].state \in InboxState
    BY <1>2, <1>5, <2>2 DEF InboxState
  <2>6. \A j \in Rows(inbox) : <<inbox[j].state, inbox'[j].state>> \in Moves
    BY <1>1, <2>2, <2>5
  <2> QED BY <2>2, <2>4, <2>6 DEF Kept
<1>6. ASSUME Inv, UNCHANGED <<inbox, checkpoint>>
      PROVE  Kept
  BY <1>1, <1>2, <1>6 DEF Kept
<1>7. ASSUME Inv, Inv', [Next]_vars
      PROVE  Kept
  <2>1. CASE UNCHANGED vars
    BY <1>6, <1>7, <2>1 DEF vars
  <2>2. ASSUME NEW c \in Consumer, NEW e \in Event, Ingest(c, e) \/ Project(c, e)
        PROVE  Kept
    BY <1>3, <1>6, <1>7, <2>2 DEF Project
  <2> QED BY <1>4, <1>5, <1>7, <2>1, <2>2 DEF Next
<1>8. Spec => [][Kept]_vars
  BY <1>7, Invariance, PTL DEF Spec
<1> QED BY <1>8, PTL DEF EvidenceIsKept, Kept, Moves

(***************************************************************************)
(* The inbox implements OrderedFeed.  The abstract variables:              *)
(***************************************************************************)
FReceived  == [c \in Consumer |-> EventsIn(c, InboxState)]
FDelivered == [c \in Consumer |-> EventsIn(c, {"applied"})]
FPosition  == [c \in Consumer |-> [g \in Aggregate |-> checkpoint[c][g].last]]
FTrusted   == [c \in Consumer |-> [g \in Aggregate |-> checkpoint[c][g].state = "current"]]

\* Writing one entry of a table of tables, entry by entry.
LEMMA EntryWritten ==
    ASSUME NEW A, NEW B, NEW V, NEW T \in [A -> [B -> V]], NEW U \in [A -> [B -> V]],
           NEW a \in A, NEW b \in B, NEW v \in V, U[a][b] = v,
           \A x \in A, y \in B : ~(x = a /\ y = b) => U[x][y] = T[x][y]
    PROVE  U = [T EXCEPT ![a][b] = v]
OBVIOUS

\* The events of a consumer, row by row.
LEMMA EventsInRows ==
    ASSUME NEW c, NEW states, NEW e
    PROVE  e \in EventsIn(c, states)
           <=> \E i \in Rows(inbox) : /\ inbox[i].consumer = c /\ inbox[i].state \in states
                                      /\ inbox[i].event = e
BY DEF EventsIn

\* A lane that says current has nothing beyond its position: all its rows are stale
\* or applied.
NothingBeyond ==
    \A c \in Consumer, g \in Aggregate : \A e \in EventsIn(c, InboxState) :
        checkpoint[c][g].state = "current" /\ AggregateOf[e] = g
        => SequenceOf[e] <= checkpoint[c][g].last

LEMMA CurrentHasNothingBeyond == Inv => NothingBeyond
<1> SUFFICES ASSUME Inv, NEW c \in Consumer, NEW g \in Aggregate,
                    NEW e \in EventsIn(c, InboxState),
                    checkpoint[c][g].state = "current", AggregateOf[e] = g
             PROVE  SequenceOf[e] <= checkpoint[c][g].last
  BY DEF NothingBeyond
<1>1. PICK i \in Rows(inbox) : /\ inbox[i].consumer = c /\ inbox[i].state \in InboxState
                               /\ inbox[i].event = e
  BY EventsInRows
<1>2. LaneOf(i) = checkpoint[c][g] /\ SeqAt(inbox, i) = SequenceOf[e]
  BY <1>1 DEF LaneOf, SeqAt
<1>3. inbox[i].state \notin Open
  BY <1>2 DEF Inv, OpenShows
<1>4. inbox[i].state \in {"stale", "applied"}
  BY <1>1, <1>3 DEF InboxState, Open
<1> QED BY <1>2, <1>4 DEF Inv, PassedIsBehind

\* What the abstract verdicts are, entry by entry.
TrustedIsCurrent ==
    /\ FTrusted \in [Consumer -> [Aggregate -> BOOLEAN]]
    /\ \A c \in Consumer, g \in Aggregate :
          FTrusted[c][g] <=> checkpoint[c][g].state = "current"

LEMMA FeedValues == TrustedIsCurrent
<1>1. \A c \in Consumer : FTrusted[c] = [g \in Aggregate |-> checkpoint[c][g].state = "current"]
  BY DEF FTrusted
<1>2. \A c \in Consumer, g \in Aggregate :
          FTrusted[c][g] <=> checkpoint[c][g].state = "current"
  BY <1>1
<1>3. \A c \in Consumer : [g \in Aggregate |-> checkpoint[c][g].state = "current"] \in [Aggregate -> BOOLEAN]
  OBVIOUS
<1> QED BY <1>1, <1>2, <1>3 DEF FTrusted, TrustedIsCurrent

\* A step that writes one lane's state judges that lane and no other.
LEMMA Judged ==
    ASSUME Inv, Inv', NEW c \in Consumer, NEW g \in Aggregate,
           \A d \in Consumer, h \in Aggregate :
              ~(d = c /\ h = g) => checkpoint'[d][h].state = checkpoint[d][h].state
    PROVE  Feed!Judge(c, g)
<1>1. TrustedIsCurrent /\ TrustedIsCurrent'
  BY FeedValues, PTL
<1>2. /\ FTrusted \in [Consumer -> [Aggregate -> BOOLEAN]]
      /\ FTrusted' \in [Consumer -> [Aggregate -> BOOLEAN]]
      /\ \A d \in Consumer, h \in Aggregate :
            /\ FTrusted[d][h] <=> checkpoint[d][h].state = "current"
            /\ FTrusted'[d][h] <=> checkpoint'[d][h].state = "current"
  BY <1>1 DEF TrustedIsCurrent
<1>3. \A d \in Consumer, h \in Aggregate :
         FTrusted[d][h] \in BOOLEAN /\ FTrusted'[d][h] \in BOOLEAN
  BY <1>2
<1>4. \A d \in Consumer, h \in Aggregate :
         ~(d = c /\ h = g) => FTrusted'[d][h] = FTrusted[d][h]
  BY <1>2, <1>3
<1>5. FTrusted' = [FTrusted EXCEPT ![c][g] = FTrusted'[c][g]]
  BY <1>2, <1>3, <1>4, EntryWritten
<1>6. FTrusted'[c][g] => \A e \in FReceived'[c] : AggregateOf[e] = g => SequenceOf[e] <= FPosition'[c][g]
  <2>1. NothingBeyond'
    BY CurrentHasNothingBeyond, PTL
  <2> QED BY <1>2, <2>1 DEF NothingBeyond, FReceived, FPosition
<1> QED BY <1>3, <1>5, <1>6 DEF Feed!Judge, Feed!Complete, FTrusted, FReceived, FPosition

\* The events of a consumer after a step, row by row.
LEMMA EventsInRowsAfter ==
    ASSUME NEW c, NEW states, NEW e
    PROVE  e \in EventsIn(c, states)'
           <=> \E i \in Rows(inbox') : /\ inbox'[i].consumer = c /\ inbox'[i].state \in states
                                       /\ inbox'[i].event = e
BY DEF EventsIn

\* Positions stay when only the state of a lane is written.
LEMMA PositionStays ==
    ASSUME Inv, NEW c \in Consumer, NEW g \in Aggregate, NEW state \in LaneState \cup {Absent},
           StateIsSet(c, g, state)
    PROVE  FPosition' = FPosition
<1>1. \A d \in Consumer, h \in Aggregate : checkpoint'[d][h].last = checkpoint[d][h].last
  BY StateWritten DEF Inv
<1> QED BY <1>1 DEF FPosition

\* Ingest is Receive.
LEMMA IngestIsReceive ==
    ASSUME Inv, Inv', NEW c \in Consumer, NEW e \in Event, Ingest(c, e)
    PROVE  Feed!Receive(c, e)
<1> DEFINE g == AggregateOf[e]
           n == Len(inbox)
<1>1. /\ Rows(inbox') = Rows(inbox) \cup {n + 1}
      /\ \A i \in Rows(inbox) : inbox'[i] = inbox[i]
      /\ inbox'[n + 1].consumer = c /\ inbox'[n + 1].event = e
      /\ inbox'[n + 1].state \in InboxState \ {"applied"}
      /\ \A i \in Rows(inbox) : ~(inbox[i].consumer = c /\ inbox[i].event = e)
  BY Arrival
<1>2. PICK state \in LaneState \cup {Absent} :
         /\ StateIsSet(c, g, state)
         /\ state = "current" => checkpoint[c][g].state = "current"
  BY Arrival
<1>3. TypeOK /\ g \in Aggregate
  BY RowFacts DEF Inv
<1>4. /\ checkpoint'[c][g].state = state
      /\ \A d \in Consumer, h \in Aggregate :
            ~(d = c /\ h = g) => checkpoint'[d][h].state = checkpoint[d][h].state
  BY <1>2, <1>3, StateWritten
<1>5. Feed!Judge(c, g)
  BY <1>3, <1>4, Judged
<1>6. e \notin EventsIn(c, InboxState)
  BY <1>1, EventsInRows
<1>7. ASSUME NEW d \in Consumer
      PROVE  /\ EventsIn(d, {"applied"})' = EventsIn(d, {"applied"})
             /\ EventsIn(d, InboxState)' = IF d = c THEN EventsIn(d, InboxState) \cup {e}
                                                    ELSE EventsIn(d, InboxState)
  <2>1. ASSUME NEW f PROVE f \in EventsIn(d, {"applied"})' <=> f \in EventsIn(d, {"applied"})
    BY <1>1, EventsInRows, EventsInRowsAfter
  <2>2. ASSUME NEW f PROVE f \in EventsIn(d, InboxState)'
                           <=> f \in EventsIn(d, InboxState) \/ (d = c /\ f = e)
    BY <1>1, EventsInRows, EventsInRowsAfter
  <2> QED BY <2>1, <2>2
<1>8. FReceived' = [FReceived EXCEPT ![c] = @ \cup {e}] /\ FDelivered' = FDelivered
  BY <1>7 DEF FReceived, FDelivered
<1>9. FPosition' = FPosition
  BY <1>2, <1>3, PositionStays
<1>10. \A h \in Aggregate : FTrusted'[c][h] => FTrusted[c][h]
  <2>1. TrustedIsCurrent /\ TrustedIsCurrent'
    BY FeedValues, PTL
  <2> QED BY <1>2, <1>4, <2>1 DEF TrustedIsCurrent
<1>11. e \notin FReceived[c]
  BY <1>6 DEF FReceived
<1> QED BY <1>5, <1>8, <1>9, <1>10, <1>11
        DEF Feed!Receive, FReceived, FDelivered, FPosition, FTrusted

\* MarkApplied is Deliver.
LEMMA MarkAppliedIsDeliver ==
    ASSUME Inv, Inv', NEW c \in Consumer, NEW k \in Rows(inbox), MarkApplied(c, k),
           NEW e \in Event, e = inbox[k].event
    PROVE  Feed!Deliver(c, e)
<1> DEFINE g == AggregateOf[e]
<1>1. TypeOK
  BY DEF Inv
<1>2. /\ Rows(inbox') = Rows(inbox)
      /\ \A i \in Rows(inbox) :
            /\ inbox'[i].consumer = inbox[i].consumer
            /\ inbox'[i].event = inbox[i].event
            /\ inbox'[i].state = IF i = k THEN "applied" ELSE inbox[i].state
      /\ inbox[k].consumer = c /\ inbox[k].state = "pending" /\ g \in Aggregate
  BY <1>1, MarkAppliedFacts
<1>3. /\ SequenceOf[e] = checkpoint[c][g].last + 1
      /\ checkpoint'[c][g].last = SequenceOf[e]
      /\ \A d \in Consumer, h \in Aggregate :
            ~(d = c /\ h = g) => checkpoint'[d][h] = checkpoint[d][h]
  BY <1>1, MarkAppliedFacts
<1>4. Feed!Judge(c, g)
  <2>1. \A d \in Consumer, h \in Aggregate :
           ~(d = c /\ h = g) => checkpoint'[d][h].state = checkpoint[d][h].state
    BY <1>3
  <2> QED BY <1>2, <2>1, Judged
<1>5. \A i \in Rows(inbox) : inbox[i].state \in InboxState
  BY <1>1, RowFacts
<1>6. e \in EventsIn(c, InboxState)
  BY <1>2, <1>5, EventsInRows
<1>7. e \notin EventsIn(c, {"applied"})
  <2>1. OneRowEach
    BY DEF Inv
  <2>2. \A i \in Rows(inbox) : inbox[i].consumer = c /\ inbox[i].event = e => i = k
    BY <1>2, <2>1 DEF OneRowEach
  <2> QED BY <1>2, <2>2, EventsInRows
<1>8. ASSUME NEW d \in Consumer
      PROVE  /\ EventsIn(d, InboxState)' = EventsIn(d, InboxState)
             /\ EventsIn(d, {"applied"})' = IF d = c THEN EventsIn(d, {"applied"}) \cup {e}
                                                     ELSE EventsIn(d, {"applied"})
  <2>1. "applied" \in InboxState /\ "pending" \in InboxState /\ "pending" # "applied"
    BY DEF InboxState
  <2>2. ASSUME NEW f PROVE f \in EventsIn(d, InboxState)' <=> f \in EventsIn(d, InboxState)
    <3>1. \A i \in Rows(inbox) : inbox'[i].state \in InboxState
      BY <1>2, <1>5, <2>1
    <3> QED BY <1>2, <1>5, <3>1, EventsInRows, EventsInRowsAfter
  <2>3. ASSUME NEW f PROVE f \in EventsIn(d, {"applied"})'
                           <=> f \in EventsIn(d, {"applied"}) \/ (d = c /\ f = e)
    BY <1>2, <2>1, EventsInRows, EventsInRowsAfter
  <2> QED BY <2>2, <2>3
<1>9. FReceived' = FReceived /\ FDelivered' = [FDelivered EXCEPT ![c] = @ \cup {e}]
  BY <1>8 DEF FReceived, FDelivered
<1>10. \A d \in Consumer, h \in Aggregate :
          /\ FPosition[d][h] = checkpoint[d][h].last
          /\ FPosition'[d][h] = checkpoint'[d][h].last
  BY DEF FPosition
<1>11. FPosition' = [FPosition EXCEPT ![c][g] = @ + 1]
  <2>1. FPosition \in [Consumer -> [Aggregate -> Nat]] /\ FPosition' \in [Consumer -> [Aggregate -> Nat]]
    <3>1. \A d \in Consumer, h \in Aggregate : checkpoint[d][h].last \in Nat
      BY <1>1, RowFacts
    <3>2. \A d \in Consumer, h \in Aggregate : checkpoint'[d][h].last \in Nat
      BY <1>2, <1>3, <3>1
    <3> QED BY <3>1, <3>2 DEF FPosition
  <2>2. FPosition'[c][g] = FPosition[c][g] + 1
    BY <1>2, <1>3, <1>10
  <2>3. \A d \in Consumer, h \in Aggregate : ~(d = c /\ h = g) => FPosition'[d][h] = FPosition[d][h]
    BY <1>3, <1>10
  <2>4. FPosition'[c][g] \in Nat
    BY <1>2, <2>1
  <2>5. FPosition' = [FPosition EXCEPT ![c][g] = FPosition'[c][g]]
    BY <1>2, <2>1, <2>3, <2>4, EntryWritten
  <2> QED BY <1>2, <2>1, <2>2, <2>5
<1>12. e \in FReceived[c] \ FDelivered[c] /\ SequenceOf[e] = FPosition[c][g] + 1
  BY <1>2, <1>3, <1>6, <1>7, <1>10 DEF FReceived, FDelivered
<1> QED BY <1>4, <1>5, <1>9, <1>11, <1>12
        DEF Feed!Deliver, FReceived, FDelivered, FPosition

\* Reconcile, MarkUnavailable and Resume are Reassess.
LEMMA LaneStepIsReassess ==
    ASSUME Inv, Inv', NEW c \in Consumer, NEW g \in Aggregate,
           Reconcile(c, g) \/ MarkUnavailable(c, g) \/ Resume(c, g)
    PROVE  Feed!Reassess(c, g)
<1>1. TypeOK
  BY DEF Inv
<1>2. /\ Rows(inbox') = Rows(inbox)
      /\ \A i \in Rows(inbox) :
            /\ inbox'[i].consumer = inbox[i].consumer
            /\ inbox'[i].event = inbox[i].event
            /\ \/ inbox'[i].state = inbox[i].state
               \/ inbox[i].state = "gap" /\ inbox'[i].state = "pending"
  BY LaneStepFacts
<1>3. PICK state \in LaneState : StateIsSet(c, g, state)
  BY LaneStepFacts
<1>4. \A d \in Consumer, h \in Aggregate :
         ~(d = c /\ h = g) => checkpoint'[d][h].state = checkpoint[d][h].state
  BY <1>1, <1>3, StateWritten
<1>5. Feed!Judge(c, g)
  BY <1>4, Judged
<1>6. \A i \in Rows(inbox) : /\ inbox[i].state \in InboxState /\ inbox'[i].state \in InboxState
                             /\ inbox'[i].state = "applied" <=> inbox[i].state = "applied"
  BY <1>1, <1>2, RowFacts DEF InboxState
<1>7. ASSUME NEW d \in Consumer
      PROVE  /\ EventsIn(d, InboxState)' = EventsIn(d, InboxState)
             /\ EventsIn(d, {"applied"})' = EventsIn(d, {"applied"})
  <2>1. ASSUME NEW f PROVE f \in EventsIn(d, InboxState)' <=> f \in EventsIn(d, InboxState)
    BY <1>2, <1>6, EventsInRows, EventsInRowsAfter
  <2>2. ASSUME NEW f PROVE f \in EventsIn(d, {"applied"})' <=> f \in EventsIn(d, {"applied"})
    BY <1>2, <1>6, EventsInRows, EventsInRowsAfter
  <2> QED BY <2>1, <2>2
<1>8. FReceived' = FReceived /\ FDelivered' = FDelivered
  BY <1>7 DEF FReceived, FDelivered
<1>9. FPosition' = FPosition
  BY <1>3, PositionStays
<1> QED BY <1>5, <1>8, <1>9 DEF Feed!Reassess, FReceived, FDelivered, FPosition

\* The empty tables are an empty feed.
LEMMA InitIsFeedInit == Init => Feed!FeedInit
<1> SUFFICES ASSUME Init PROVE Feed!FeedInit
  OBVIOUS
<1>1. \A c, states : EventsIn(c, states) = {}
  BY DEF Init, EventsIn, Rows
<1>2. \A c \in Consumer, g \in Aggregate : checkpoint[c][g].last = 0 /\ checkpoint[c][g].state = Absent
  BY DEF Init, NoCheckpoint
<1>3. FReceived = [c \in Consumer |-> {}] /\ FDelivered = [c \in Consumer |-> {}]
  BY <1>1 DEF FReceived, FDelivered
<1>4. FPosition = [c \in Consumer |-> [g \in Aggregate |-> 0]]
  BY <1>2 DEF FPosition
<1>5. FTrusted = [c \in Consumer |-> [g \in Aggregate |-> FALSE]]
  <2>1. \A c \in Consumer, g \in Aggregate : (checkpoint[c][g].state = "current") = FALSE
    BY <1>2 DEF Absent
  <2> QED BY <2>1 DEF FTrusted
<1> QED BY <1>3, <1>4, <1>5 DEF Feed!FeedInit, FReceived, FDelivered, FPosition, FTrusted

\* Every history of the inbox is one that OrderedFeed allows, for any events,
\* delivered in any order: nothing received is forgotten, positions are delivered
\* one after the other, each once, and a lane is current only when nothing received
\* lies beyond its position (projections.go).
THEOREM ImplementsFeedAlways == Spec => ImplementsFeed
<1>1. ASSUME Inv, Inv', [Next]_vars
      PROVE  [Feed!FeedNext]_Feed!feedVars
  <2>1. ASSUME UNCHANGED <<inbox, checkpoint>>
        PROVE  UNCHANGED Feed!feedVars
    BY <2>1 DEF Feed!feedVars, EventsIn
  <2>2. ASSUME NEW c \in Consumer, NEW e \in Event, Ingest(c, e)
        PROVE  Feed!FeedNext
    BY <1>1, <2>2, IngestIsReceive DEF Feed!FeedNext
  <2>3. ASSUME NEW c \in Consumer, NEW i \in Rows(inbox), MarkApplied(c, i)
        PROVE  Feed!FeedNext
    <3>1. PICK e \in Event : e = inbox[i].event
      BY <1>1, RowFacts DEF Inv
    <3>2. Feed!Deliver(c, e)
      BY <1>1, <2>3, <3>1, MarkAppliedIsDeliver
    <3> QED BY <3>2 DEF Feed!FeedNext
  <2>4. ASSUME NEW c \in Consumer, NEW g \in Aggregate,
               Reconcile(c, g) \/ MarkUnavailable(c, g) \/ Resume(c, g)
        PROVE  Feed!FeedNext
    BY <1>1, <2>4, LaneStepIsReassess DEF Feed!FeedNext
  <2>5. ASSUME NEW c \in Consumer, NEW e \in Event, Project(c, e)
        PROVE  UNCHANGED <<inbox, checkpoint>>
    BY <2>5 DEF Project
  <2> QED BY <1>1, <2>1, <2>2, <2>3, <2>4, <2>5 DEF Next, vars
<1> QED BY <1>1, InitIsFeedInit, Invariance, PTL DEF Spec, ImplementsFeed, Feed!FeedSpec
=============================================================================
