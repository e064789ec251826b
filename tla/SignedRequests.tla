---------------------------- MODULE SignedRequests ----------------------------
(***************************************************************************)
(* Authentication of the signed machine requests: requireReadAuthority     *)
(* (platform/http/read_authority.go), membershipCommand up to the call of  *)
(* the store (platform/http/membership_command.go), the nonce table        *)
(* (db/sqlite/platform_read_authority_auth.go) and the actor proofs with   *)
(* their in-memory replay map (platform/assertion).                        *)
(*                                                                         *)
(* Handlers run concurrently.  A handler reads the clock once when a       *)
(* request arrives; the body, the rate limiter and the store's single      *)
(* connection may hold it up, so later steps of the command handler work   *)
(* with an old reading, and other handlers may overtake it.  Messages are  *)
(* delivered any number of times, in any order; a request may be dropped   *)
(* at every step (limiter, malformed body, cancelled context).  Signatures *)
(* are sound: what arrives was sent.  Nonces are unique to their message.  *)
(***************************************************************************)
EXTENDS TextTime

CONSTANTS
    Message,     \* signed requests
    Command,     \* those that are membership commands; the others read
    Proof,       \* actor assertions
    Handler,     \* handlers that run at the same time
    Skew,        \* tolerated difference between timestamp and clock: 300 s
    NonceLife,   \* life of a reserved nonce: 24 h
    Lifetime,    \* life of an assertion: 2 min
    Stall,       \* bound: how long a handler may take (the server's timeouts)
    MaxClock     \* bound: the clock

ASSUME SignedAssumption ==
    /\ Command \subseteq Message
    /\ Skew \in Nat /\ Stall \in Nat /\ MaxClock \in Nat
    /\ Lifetime \in Nat \ {0}
    /\ NonceLife \in Nat
    /\ NonceLife > Skew + Skew + Stall + TicksPerSecond

VARIABLES
    clock,
    sent,        \* sent[m]: the timestamp and the proof m was signed with
    issued,      \* issued[p]: when proof p expires, Never while it is not issued
    stage,       \* stage[h]: "idle", "reserve" or "verify"
    carried,     \* carried[h]: the message h works on
    reading,     \* reading[h]: the time h read when the message arrived
    nonces,      \* nonces[m]: expires_at of m's nonce, Never if there is no row
    replayed,    \* the issuer's map of used proofs: expiry, Never if absent
    admitted,    \* history: how often m's nonce was reserved
    uses         \* history: how often p was accepted by the running process

sigVars == <<clock, sent, issued, stage, carried, reading, nonces, replayed, admitted, uses>>

Never     == 0
NoMessage == "no message"
NoProof   == "no proof"
Unsent    == [at |-> Never, proof |-> NoProof]

SigInit ==
    /\ clock = 1
    /\ sent = [m \in Message |-> Unsent]
    /\ issued = [p \in Proof |-> Never]
    /\ stage = [h \in Handler |-> "idle"]
    /\ carried = [h \in Handler |-> NoMessage]
    /\ reading = [h \in Handler |-> Never]
    /\ nonces = [m \in Message |-> Never]
    /\ replayed = [p \in Proof |-> Never]
    /\ admitted = [m \in Message |-> 0]
    /\ uses = [p \in Proof |-> 0]

\* A handler never works longer than Stall.
Tick ==
    /\ clock < MaxClock
    /\ \A h \in Handler : stage[h] # "idle" => clock < reading[h] + Stall
    /\ clock' = clock + 1
    /\ UNCHANGED <<sent, issued, stage, carried, reading, nonces, replayed, admitted, uses>>

(***************************************************************************)
(* Products: they obtain proofs and sign requests, with clocks of their own*)
(***************************************************************************)
Issue(p) ==
    /\ issued[p] = Never
    /\ issued' = [issued EXCEPT ![p] = clock + Lifetime]
    /\ UNCHANGED <<clock, sent, stage, carried, reading, nonces, replayed, admitted, uses>>

Send(m, at, p) ==
    /\ sent[m] = Unsent
    /\ p # NoProof => issued[p] # Never
    /\ m \in Command <=> p # NoProof
    /\ sent' = [sent EXCEPT ![m] = [at |-> at, proof |-> p]]
    /\ UNCHANGED <<clock, issued, stage, carried, reading, nonces, replayed, admitted, uses>>

(***************************************************************************)
(* The handlers                                                            *)
(***************************************************************************)
Finish(h) ==
    /\ stage' = [stage EXCEPT ![h] = "idle"]
    /\ carried' = [carried EXCEPT ![h] = NoMessage]
    /\ reading' = [reading EXCEPT ![h] = Never]

\* Mutant of Fresh: a timestamp may be arbitrarily old.
NotFromTheFuture(at) == at <= clock + Skew

Fresh(at) == clock <= at + Skew /\ at <= clock + Skew

\* Headers, key, timestamp and signature are in order.
Receive(h, m) ==
    /\ stage[h] = "idle"
    /\ sent[m] # Unsent
    /\ Fresh(sent[m].at)
    /\ stage' = [stage EXCEPT ![h] = "reserve"]
    /\ carried' = [carried EXCEPT ![h] = m]
    /\ reading' = [reading EXCEPT ![h] = clock]
    /\ UNCHANGED <<clock, sent, issued, nonces, replayed, admitted, uses>>

Drop(h) ==
    /\ stage[h] # "idle"
    /\ Finish(h)
    /\ UNCHANGED <<clock, sent, issued, nonces, replayed, admitted, uses>>

\* The command handler reserves with the reading it took on arrival, the read
\* handler with a new one.
ReservedAt(h) == IF carried[h] \in Command THEN reading[h] ELSE clock

Expired(m, t) == nonces[m] # Never /\ NotAfterAsText(nonces[m], t)

\* ReserveReadAuthorityNonce: expired rows go first, then the nonce is looked
\* up.  A replay rolls the transaction back, the deletions included.
ReserveReadAuthorityNonce(h) ==
    LET m == carried[h]
        t == ReservedAt(h)
    IN
    /\ stage[h] = "reserve"
    /\ \/ /\ nonces[m] = Never \/ Expired(m, t)
          /\ nonces' = [k \in Message |-> IF k = m THEN t + NonceLife
                                          ELSE IF Expired(k, t) THEN Never ELSE nonces[k]]
          /\ admitted' = [admitted EXCEPT ![m] = @ + 1]
          /\ \/ /\ m \in Command
                /\ stage' = [stage EXCEPT ![h] = "verify"]
                /\ UNCHANGED <<carried, reading>>
             \/ m \notin Command /\ Finish(h)
       \/ /\ nonces[m] # Never /\ ~Expired(m, t)
          /\ Finish(h)
          /\ UNCHANGED <<nonces, admitted>>
    /\ UNCHANGED <<clock, sent, issued, replayed, uses>>

\* Mutant of StillReplayed: entries are pruned when half their life is over.
StillReplayedHalfLife(p, t) == replayed[p] # Never /\ replayed[p] > t + Lifetime \div 2

\* What is left of the replay map after the pruning at time t.
StillReplayed(p, t) == replayed[p] # Never /\ replayed[p] > t

\* Issuer.Verify: the claims are judged and the map is pruned at the handler's
\* reading.  Whether the proof's audience and scope fit the request is looked at
\* afterwards, when the proof is already used up.
Verify(h) ==
    LET p == sent[carried[h]].proof
        t == reading[h]
    IN
    /\ stage[h] = "verify"
    /\ Finish(h)
    /\ \/ issued[p] <= t /\ UNCHANGED <<replayed, uses>>
       \/ /\ issued[p] > t
          /\ replayed' = [q \in Proof |-> IF q = p THEN issued[p]
                                          ELSE IF StillReplayed(q, t) THEN replayed[q] ELSE Never]
          /\ uses' = [uses EXCEPT ![p] = IF StillReplayed(p, t) THEN @ ELSE @ + 1]
    /\ UNCHANGED <<clock, sent, issued, nonces, admitted>>

\* The process dies: handlers and replay map are gone, the nonce table stays.
Restart ==
    /\ stage' = [h \in Handler |-> "idle"]
    /\ carried' = [h \in Handler |-> NoMessage]
    /\ reading' = [h \in Handler |-> Never]
    /\ replayed' = [p \in Proof |-> Never]
    /\ uses' = [p \in Proof |-> 0]
    /\ UNCHANGED <<clock, sent, issued, nonces, admitted>>

SigNext ==
    \/ Tick
    \/ \E p \in Proof : Issue(p)
    \/ \E m \in Message, at \in 0..MaxClock, p \in Proof \cup {NoProof} : Send(m, at, p)
    \/ \E h \in Handler :
          \/ \E m \in Message : Receive(h, m)
          \/ Drop(h)
          \/ ReserveReadAuthorityNonce(h)
          \/ Verify(h)
    \/ Restart

SigSpec == SigInit /\ [][SigNext]_sigVars

(***************************************************************************)
(* Properties                                                              *)
(***************************************************************************)
SigTypeOK ==
    /\ clock \in Nat
    /\ sent \in [Message -> [at : Nat, proof : Proof \cup {NoProof}]]
    /\ issued \in [Proof -> Nat]
    /\ stage \in [Handler -> {"idle", "reserve", "verify"}]
    /\ carried \in [Handler -> Message \cup {NoMessage}]
    /\ reading \in [Handler -> Nat]
    /\ nonces \in [Message -> Nat]
    /\ replayed \in [Proof -> Nat]
    /\ admitted \in [Message -> Nat]
    /\ uses \in [Proof -> Nat]

\* A handler holds a request that was fresh at its reading, and is not older than
\* Stall.
HandlersAreFresh ==
    \A h \in Handler : stage[h] # "idle" =>
        /\ carried[h] \in Message
        /\ sent[carried[h]] # Unsent
        /\ reading[h] <= clock /\ clock <= reading[h] + Stall
        /\ reading[h] <= sent[carried[h]].at + Skew
        /\ sent[carried[h]].at <= reading[h] + Skew

\* The row of an admitted request outlives the time in which a copy is fresh;
\* once it is gone, that time is over.
NonceOutlivesFreshness ==
    \A m \in Message :
        /\ admitted[m] = 0 => nonces[m] = Never
        /\ admitted[m] # 0 => sent[m] # Unsent
        /\ nonces[m] # Never => sent[m].at + NonceLife <= nonces[m] + Skew
        /\ (admitted[m] # 0 /\ nonces[m] = Never)
           => sent[m].at + NonceLife <= clock + TicksPerSecond + Skew

\* A signed request passes the nonce table at most once, for ever: however late
\* a copy arrives, whichever handlers overtake it, and over restarts.
AdmittedOnce == \A m \in Message : admitted[m] <= 1

\* As long as a proof has not expired, a running process accepts it at most once.
ProofUsedOnceWhileValid ==
    \A p \in Proof : clock < issued[p] => uses[p] <= 1

\* A running process never accepts a proof twice.
ReplayedProofsAreRejected == \A p \in Proof : uses[p] <= 1
=============================================================================
