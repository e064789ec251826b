------------------------------ MODULE OrderedFeed ------------------------------
(***************************************************************************)
(* What the projection inbox promises a consumer, without its rows, row    *)
(* states and checkpoints: per aggregate, events are received in any order *)
(* and never forgotten, delivered one position after the other, each       *)
(* position once, and the feed vouches for its data (trusted) only when    *)
(* everything received has been dealt with up to the current position.     *)
(***************************************************************************)
EXTENDS Naturals

CONSTANTS Consumer, Aggregate, Event, AggregateOf, SequenceOf

VARIABLES
    received,    \* received[c]: events that have arrived
    delivered,   \* delivered[c]: events confirmed by the consumer
    position,    \* position[c][g]: how far the aggregate has been delivered
    trusted      \* trusted[c][g]: the data of the aggregate may be relied on

feedVars == <<received, delivered, position, trusted>>

FeedInit ==
    /\ received = [c \in Consumer |-> {}]
    /\ delivered = [c \in Consumer |-> {}]
    /\ position = [c \in Consumer |-> [g \in Aggregate |-> 0]]
    /\ trusted = [c \in Consumer |-> [g \in Aggregate |-> FALSE]]

\* Nothing that was received for the aggregate lies beyond its position.
Complete(c, g) ==
    \A e \in received'[c] : AggregateOf[e] = g => SequenceOf[e] <= position'[c][g]

\* trusted may change for the one lane concerned, to TRUE only if it is complete.
Judge(c, g) ==
    \E verdict \in BOOLEAN :
        /\ trusted' = [trusted EXCEPT ![c][g] = verdict]
        /\ verdict => Complete(c, g)

\* An arrival never makes the feed trust more than before.
Receive(c, e) ==
    /\ e \notin received[c]
    /\ received' = [received EXCEPT ![c] = @ \cup {e}]
    /\ UNCHANGED <<delivered, position>>
    /\ Judge(c, AggregateOf[e])
    /\ \A g \in Aggregate : trusted'[c][g] => trusted[c][g]

Deliver(c, e) ==
    LET g == AggregateOf[e] IN
    /\ e \in received[c] \ delivered[c]
    /\ SequenceOf[e] = position[c][g] + 1
    /\ delivered' = [delivered EXCEPT ![c] = @ \cup {e}]
    /\ position' = [position EXCEPT ![c][g] = @ + 1]
    /\ UNCHANGED received
    /\ Judge(c, g)

\* An outage, its end, or a reconciliation.
Reassess(c, g) ==
    /\ UNCHANGED <<received, delivered, position>>
    /\ Judge(c, g)

FeedNext ==
    \E c \in Consumer :
        \/ \E e \in Event : Receive(c, e) \/ Deliver(c, e)
        \/ \E g \in Aggregate : Reassess(c, g)

FeedSpec == FeedInit /\ [][FeedNext]_feedVars
=============================================================================
