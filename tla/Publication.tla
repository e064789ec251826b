------------------------------ MODULE Publication ------------------------------
(***************************************************************************)
(* Publishing the outbox (db/sqlite/events.go): the oldest events without  *)
(* published_at are listed, sent, and marked in one transaction.           *)
(*                                                                         *)
(* No binary of the repository publishes: the publishers are external.     *)
(* They use the two operations in the only order that makes sense, may be  *)
(* several (an old and a new process during a restart) and may die between *)
(* any two steps.  Events are validated when they are appended, so that    *)
(* the validation of the list finds nothing.                               *)
(***************************************************************************)
EXTENDS Naturals, Sequences, FiniteSets

CONSTANTS
    Publisher,    \* publishing processes
    Limits,       \* batch sizes asked for, 1 to 1000
    MaxEvents,    \* bound: events appended
    MaxLosses     \* bound: publishers that die

ASSUME PublicationAssumption ==
    /\ Limits \subseteq 1..1000 /\ Limits # {}
    /\ {MaxEvents, MaxLosses} \subseteq Nat

VARIABLES
    outbox,     \* platform_outbox by id: is published_at set?
    publisher,  \* the batch listed, and what of it is left to send
    sent,       \* events the transport has got
    losses

pbVars == <<outbox, publisher, sent, losses>>

NoBatch == [batch |-> {}, left |-> {}]

PbInit ==
    /\ outbox = << >>
    /\ publisher = [p \in Publisher |-> NoBatch]
    /\ sent = {}
    /\ losses = 0

\* appendPlatformEventTx, in the transaction of some mutation.
AppendEvent ==
    /\ Len(outbox) < MaxEvents
    /\ outbox' = Append(outbox, FALSE)
    /\ UNCHANGED <<publisher, sent, losses>>

\* Mutant of Pending: published_at is not looked at.
PendingAll == {i \in 1..Len(outbox) : TRUE}

Pending == {i \in 1..Len(outbox) : ~outbox[i]}

\* Mutant of Oldest: a limit without an order may be any of them.
AnyPending(limit) == {i \in Pending : Cardinality({j \in Pending : j >= i}) <= limit}

\* ORDER BY id LIMIT: the first `limit` of the pending events.
Oldest(limit) == {i \in Pending : Cardinality({j \in Pending : j <= i}) <= limit}

ListPendingPlatformEvents(p, limit) ==
    /\ publisher[p] = NoBatch
    /\ Pending # {}
    /\ publisher' = [publisher EXCEPT ![p] = [batch |-> Oldest(limit), left |-> Oldest(limit)]]
    /\ UNCHANGED <<outbox, sent, losses>>

\* The events of a batch are sent in the order of the list.
Send(p) ==
    \E i \in publisher[p].left :
        /\ \A j \in publisher[p].left : i <= j
        /\ sent' = sent \cup {i}
        /\ publisher' = [publisher EXCEPT ![p].left = @ \ {i}]
        /\ UNCHANGED <<outbox, losses>>

\* All or none: one event that is marked already fails the whole transaction, and
\* the publisher lists again.
MarkPlatformEventsPublished(p) ==
    LET ids == publisher[p].batch IN
    /\ ids # {} /\ publisher[p].left = {}
    /\ outbox' = IF ids \subseteq Pending
                 THEN [i \in 1..Len(outbox) |-> outbox[i] \/ i \in ids]
                 ELSE outbox
    /\ publisher' = [publisher EXCEPT ![p] = NoBatch]
    /\ UNCHANGED <<sent, losses>>

PublisherDies(p) ==
    /\ publisher[p] # NoBatch /\ losses < MaxLosses
    /\ losses' = losses + 1
    /\ publisher' = [publisher EXCEPT ![p] = NoBatch]
    /\ UNCHANGED <<outbox, sent>>

PublisherNext(p) ==
    \/ \E limit \in Limits : ListPendingPlatformEvents(p, limit)
    \/ Send(p)
    \/ MarkPlatformEventsPublished(p)

PbNext ==
    \/ AppendEvent
    \/ \E p \in Publisher : PublisherNext(p) \/ PublisherDies(p)

\* A publisher keeps working; events need not come.
PbFairness == \A p \in Publisher : WF_pbVars(PublisherNext(p))

PbSpec == PbInit /\ [][PbNext]_pbVars /\ PbFairness

(***************************************************************************)
(* Properties                                                              *)
(***************************************************************************)
\* At least once and in order: an event that is marked was sent, and no event is
\* sent before all earlier ones were, whichever publishers race, die and repeat.
\* So what is new to a consumer always comes in the order of the outbox.
PublishedInOrder ==
    /\ \A i \in 1..Len(outbox) : outbox[i] => i \in sent
    /\ sent = 1..Cardinality(sent)

\* Batches that fail because another publisher was faster do not hold each other
\* up: every event is marked in the end.
EventuallyPublished ==
    \A i \in 1..MaxEvents : (i <= Len(outbox)) ~> (i <= Len(outbox) /\ outbox[i])
=============================================================================
