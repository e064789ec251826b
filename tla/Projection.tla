------------------------------ MODULE Projection ------------------------------
(***************************************************************************)
(* The consumer-side projection inbox (db/sqlite/projections.go): events   *)
(* arrive in any order, late, twice or never; the inbox keeps every one of *)
(* them, a checkpoint per consumer and aggregate (a lane) counts the       *)
(* events applied in order, and the lane's state says whether the          *)
(* consumer's local data may be trusted.                                   *)
(*                                                                         *)
(* Each operation of the store is one SQLite transaction and so one        *)
(* action.  Between two of them anything may happen: another delivery, an  *)
(* operator declaring an outage, a crash of the consumer between its local *)
(* work and the call that confirms it (no step of its own: the work is     *)
(* simply done again or confirmed later).                                  *)
(***************************************************************************)
EXTENDS Naturals, Sequences, FiniteSets

CONSTANTS
    Consumer,     \* consumer keys
    Aggregate,    \* the aggregates (type and id) events belong to
    Event,        \* event ids; an id stands for its whole envelope
    AggregateOf,  \* AggregateOf[e]: the aggregate of event e
    SequenceOf,   \* SequenceOf[e]: its position in the aggregate, from 1
    Readable      \* the events of the known schema version that validate

ASSUME ProjectionAssumption ==
    /\ AggregateOf \in [Event -> Aggregate]
    /\ SequenceOf \in [Event -> Nat \ {0}]
    /\ Readable \subseteq Event
    /\ "none" \notin Event

VARIABLES
    inbox,        \* the platform_projection_inbox table, in the order of its ids
    checkpoint,   \* checkpoint[c][g]: the platform_projection_checkpoints rows
    done          \* done[c]: events the consumer has worked into its local data

vars == <<inbox, checkpoint, done>>

InboxState == {"pending", "applied", "gap", "stale", "blocked"}
LaneState  == {"current", "stale", "gap", "blocked", "unavailable"}
Absent     == "absent"   \* no checkpoint row yet
NoEvent    == "none"     \* last_event_id ''

(***************************************************************************)
(* Reading the tables                                                      *)
(***************************************************************************)
Rows(table) == 1..Len(table)
SeqAt(table, i) == SequenceOf[table[i].event]

InLane(table, i, c, g) ==
    table[i].consumer = c /\ AggregateOf[table[i].event] = g

LaneRows(table, c, g, states) ==
    {i \in Rows(table) : InLane(table, i, c, g) /\ table[i].state \in states}

\* ORDER BY sequence,id LIMIT 1
IsFirst(table, i, rows) ==
    /\ i \in rows
    /\ \A j \in rows : \/ SeqAt(table, i) < SeqAt(table, j)
                       \/ SeqAt(table, i) = SeqAt(table, j) /\ i <= j

Received(table, c, e) ==
    \E i \in Rows(table) : table[i].consumer = c /\ table[i].event = e

(***************************************************************************)
(* refreshProjectionCheckpointTx: the lane's state is that of its first    *)
(* open row.  state is the value the refresh computes from the table.      *)
(***************************************************************************)
Open == {"blocked", "gap", "pending"}

Refreshed(table, c, g, last, state) ==
    LET open == LaneRows(table, c, g, Open) IN
    \/ open = {} /\ state = "current"
    \/ \E i \in open :
          /\ IsFirst(table, i, open)
          /\ \/ table[i].state # "pending" /\ state = table[i].state
             \/ table[i].state = "pending" /\ SeqAt(table, i) = last + 1 /\ state = "stale"
             \/ table[i].state = "pending" /\ SeqAt(table, i) # last + 1 /\ state = "gap"

(***************************************************************************)
(* Actions                                                                 *)
(***************************************************************************)
NoCheckpoint == [state |-> Absent, last |-> 0, lastEvent |-> NoEvent]

Init ==
    /\ inbox = << >>
    /\ checkpoint = [c \in Consumer |-> [g \in Aggregate |-> NoCheckpoint]]
    /\ done = [c \in Consumer |-> {}]

\* An envelope of another schema version, or one that does not validate, is stored
\* as evidence and blocks its lane.
Blocking(e) == e \notin Readable

\* Mutant of Classified: off by one, the event after the next is taken too.
ClassifiedOffByOne(e, lane) ==
    IF Blocking(e) \/ lane.state = "blocked" THEN "blocked"
    ELSE IF SequenceOf[e] <= lane.last THEN "stale"
    ELSE IF SequenceOf[e] > lane.last + 2 THEN "gap"
    ELSE "pending"

\* How a new event is classified.
Classified(e, lane) ==
    IF Blocking(e) \/ lane.state = "blocked" THEN "blocked"
    ELSE IF SequenceOf[e] <= lane.last THEN "stale"
    ELSE IF SequenceOf[e] > lane.last + 1 THEN "gap"
    ELSE "pending"

\* Mutants of AfterIngest: a gap does not show in the lane; a late event ends an
\* outage.
AfterIngestHidesGap(state, row) ==
    IF state \in {"unavailable", "blocked"} \/ row # "blocked" THEN state ELSE row
AfterIngestEndsOutage(state, row) ==
    CASE state = "unavailable" /\ row = "stale" -> "current"
      [] state \in {"unavailable", "blocked"} /\ row # "stale" -> state
      [] state \notin {"unavailable", "blocked"} /\ row \in {"blocked", "gap"} -> row
      [] state \notin {"unavailable", "blocked", "gap"} /\ row = "pending" -> "stale"
      [] OTHER -> state

\* upsertProjectionCheckpointAfterIngest: a blocked or unavailable lane stays so,
\* a stale row changes nothing, a pending row does not hide a gap.
AfterIngest(state, row) ==
    CASE state \in {"unavailable", "blocked"} -> state
      [] state \notin {"unavailable", "blocked"} /\ row \in {"blocked", "gap"} -> row
      [] state \notin {"unavailable", "blocked", "gap"} /\ row = "pending" -> "stale"
      [] OTHER -> state

\* An event delivered again is a duplicate and changes nothing.
Ingest(c, e) ==
    LET g == AggregateOf[e]
        row == Classified(e, checkpoint[c][g])
    IN /\ ~Received(inbox, c, e)
       /\ inbox' = Append(inbox, [consumer |-> c, event |-> e, state |-> row])
       /\ checkpoint' = [checkpoint EXCEPT ![c][g].state = AfterIngest(@, row)]
       /\ UNCHANGED done

\* The consumer works a pending event into its own data (outside the Platform).
Project(c, e) ==
    /\ \E i \in Rows(inbox) : /\ inbox[i].consumer = c /\ inbox[i].event = e
                              /\ inbox[i].state = "pending"
    /\ done' = [done EXCEPT ![c] = @ \cup {e}]
    /\ UNCHANGED <<inbox, checkpoint>>

\* Mutant of Follows: what was already passed is let through.
FollowsOrRepeats(e, lane) == SequenceOf[e] <= lane.last + 1

\* The event is the next of its lane.
Follows(e, lane) == SequenceOf[e] = lane.last + 1

\* The consumer confirms the work.  Every other row state and every other
\* position is refused.
MarkApplied(c, i) ==
    LET e == inbox[i].event
        g == AggregateOf[e]
    IN /\ inbox[i].consumer = c
       /\ e \in done[c]
       /\ inbox[i].state = "pending"
       /\ checkpoint[c][g].state \notin {Absent, "blocked", "unavailable"}
       /\ Follows(e, checkpoint[c][g])
       /\ inbox' = [inbox EXCEPT ![i].state = "applied"]
       /\ \E state \in LaneState :
             /\ Refreshed(inbox', c, g, SequenceOf[e], state)
             /\ checkpoint' = [checkpoint EXCEPT ![c][g] =
                                 [state |-> state, last |-> SequenceOf[e], lastEvent |-> e]]
       /\ UNCHANGED done

\* Mutants of Promotable: off by one, so that nothing is promoted; a stale row
\* is promoted like a gap.
PromotableAtPosition(c, g) ==
    LET gaps == LaneRows(inbox, c, g, {"gap"}) IN
    {i \in gaps : IsFirst(inbox, i, gaps) /\ SeqAt(inbox, i) = checkpoint[c][g].last}
PromotableStale(c, g) ==
    LET gaps == LaneRows(inbox, c, g, {"gap", "stale"}) IN
    {i \in gaps : IsFirst(inbox, i, gaps) /\ SeqAt(inbox, i) <= checkpoint[c][g].last + 1}

\* The gap row a reconciliation may promote: the first one, if it is next.
Promotable(c, g) ==
    LET gaps == LaneRows(inbox, c, g, {"gap"}) IN
    {i \in gaps : IsFirst(inbox, i, gaps) /\ SeqAt(inbox, i) = checkpoint[c][g].last + 1}

Reconcile(c, g) ==
    /\ checkpoint[c][g].state \notin {Absent, "blocked", "unavailable"}
    /\ inbox' = [i \in Rows(inbox) |->
                   IF i \in Promotable(c, g) THEN [inbox[i] EXCEPT !.state = "pending"]
                                             ELSE inbox[i]]
    /\ \E state \in LaneState :
          /\ Refreshed(inbox', c, g, checkpoint[c][g].last, state)
          /\ checkpoint' = [checkpoint EXCEPT ![c][g].state = state]
    /\ UNCHANGED done

\* Whatever the state was, also where there was no checkpoint.
MarkUnavailable(c, g) ==
    /\ checkpoint' = [checkpoint EXCEPT ![c][g].state = "unavailable"]
    /\ UNCHANGED <<inbox, done>>

Resume(c, g) ==
    /\ checkpoint[c][g].state = "unavailable"
    /\ \E state \in LaneState :
          /\ Refreshed(inbox, c, g, checkpoint[c][g].last, state)
          /\ checkpoint' = [checkpoint EXCEPT ![c][g].state = state]
    /\ UNCHANGED <<inbox, done>>

Next ==
    \E c \in Consumer :
        \/ \E e \in Event : Ingest(c, e) \/ Project(c, e)
        \/ \E i \in Rows(inbox) : MarkApplied(c, i)
        \/ \E g \in Aggregate : Reconcile(c, g) \/ MarkUnavailable(c, g) \/ Resume(c, g)

Spec == Init /\ [][Next]_vars

(***************************************************************************)
(* A consumer that keeps working: each event is delivered sooner or later, *)
(* pending events are projected and confirmed, lanes are reconciled, and   *)
(* an operator ends every outage.  Nothing forces an outage.               *)
(***************************************************************************)
Fairness ==
    /\ \A c \in Consumer, e \in Event :
          /\ WF_vars(Ingest(c, e))
          /\ WF_vars(Project(c, e))
          /\ WF_vars(\E i \in Rows(inbox) : inbox[i].event = e /\ MarkApplied(c, i))
    /\ \A c \in Consumer, g \in Aggregate : WF_vars(Reconcile(c, g)) /\ WF_vars(Resume(c, g))

FairSpec == Spec /\ Fairness

(***************************************************************************)
(* Properties                                                              *)
(***************************************************************************)
\* The type invariant of the two tables and of the consumer's local data.
TypeOK ==
    /\ inbox \in Seq([consumer : Consumer, event : Event, state : InboxState])
    /\ checkpoint \in [Consumer -> [Aggregate ->
                          [state : LaneState \cup {Absent}, last : Nat,
                           lastEvent : Event \cup {NoEvent}]]]
    /\ done \in [Consumer -> SUBSET Event]

\* The checkpoint never runs ahead of the evidence: the applied events of a lane
\* are one event for each of the positions 1 to last_sequence and no other, and
\* last_event_id names the last of them, whatever arrived in between.
AppliedInOrder ==
    \A c \in Consumer, g \in Aggregate :
        LET applied == LaneRows(inbox, c, g, {"applied"})
            lane == checkpoint[c][g]
        IN /\ {SeqAt(inbox, i) : i \in applied} = 1..lane.last
           /\ \A i, j \in applied : SeqAt(inbox, i) = SeqAt(inbox, j) => i = j
           /\ \A i \in applied : SeqAt(inbox, i) = lane.last => inbox[i].event = lane.lastEvent

\* A lane that says current is complete: nothing that was received for it is
\* waiting, missing or unreadable, and the consumer's local data holds exactly
\* the applied events.  An unreadable event keeps its lane from ever being
\* current again, through any sequence of outages and resumes.
CurrentIsComplete ==
    \A c \in Consumer, g \in Aggregate :
        checkpoint[c][g].state = "current"
        => /\ LaneRows(inbox, c, g, Open) = {}
           /\ {e \in done[c] : AggregateOf[e] = g}
              = {inbox[i].event : i \in LaneRows(inbox, c, g, {"applied"})}

\* The consumer is never given an event too early: its local work is at most one
\* position ahead of the checkpoint and has skipped no position.
LocalWorkInOrder ==
    \A c \in Consumer, g \in Aggregate :
        LET last == checkpoint[c][g].last
            positions == {SequenceOf[e] : e \in {d \in done[c] : AggregateOf[d] = g}}
        IN positions \in {1..last, 1..(last + 1)}

\* The aggregates the outbox wrote itself: readable events, one for each position.
Orderly == {g \in Aggregate :
              \A d, e \in Event :
                  (AggregateOf[d] = g /\ AggregateOf[e] = g)
                  => d \in Readable /\ (SequenceOf[d] = SequenceOf[e] => d = e)}

\* Evidence is never lost or rewritten: rows stay, in place, with their event; a
\* row leaves gap only for pending and pending only for applied, and a blocked,
\* stale or applied row never changes.  The position never goes back.
EvidenceIsKept ==
    [][/\ \A i \in Rows(inbox) :
             /\ i \in Rows(inbox')
             /\ inbox'[i].event = inbox[i].event /\ inbox'[i].consumer = inbox[i].consumer
             /\ <<inbox[i].state, inbox'[i].state>> \in
                   {<<s, s>> : s \in InboxState} \cup {<<"gap", "pending">>, <<"pending", "applied">>}
       /\ \A c \in Consumer, g \in Aggregate :
             checkpoint'[c][g].last \in {checkpoint[c][g].last, checkpoint[c][g].last + 1}]_vars

\* An orderly lane whose outages end catches up: every event of the aggregate
\* applied and the lane current for good, in whatever order the events were
\* delivered and whatever blocks other lanes of the consumer.
CatchesUp ==
    \A c \in Consumer, g \in Orderly :
        <>[](checkpoint[c][g].state # "unavailable")
        => <>[](/\ checkpoint[c][g].state = "current"
                /\ \A e \in Event : AggregateOf[e] = g => SequenceOf[e] <= checkpoint[c][g].last)

(***************************************************************************)
(* The abstract specification this one implements.                         *)
(***************************************************************************)
EventsIn(c, states) ==
    {inbox[i].event : i \in {j \in Rows(inbox) : inbox[j].consumer = c /\ inbox[j].state \in states}}

Feed == INSTANCE OrderedFeed WITH
    received  <- [c \in Consumer |-> EventsIn(c, InboxState)],
    delivered <- [c \in Consumer |-> EventsIn(c, {"applied"})],
    position  <- [c \in Consumer |-> [g \in Aggregate |-> checkpoint[c][g].last]],
    trusted   <- [c \in Consumer |-> [g \in Aggregate |-> checkpoint[c][g].state = "current"]]

\* The inbox is an ordered feed: every sequence of deliveries, confirmations,
\* reconciliations and outages is one that OrderedFeed allows.
ImplementsFeed == Feed!FeedSpec
=============================================================================
