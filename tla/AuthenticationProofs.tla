------------------------- MODULE AuthenticationProofs -------------------------
(***************************************************************************)
(* What makes an authentication good for one use: signed requests and      *)
(* actor proofs of machines (SignedRequests), the second factor of people  *)
(* (SignIn); and how often a password may be guessed (LoginLimiter).  The  *)
(* three share no state; their proofs share this module.                   *)
(***************************************************************************)
EXTENDS SignedRequests, SignIn, LoginLimiter, FiniteSetTheorems, WellFoundedInduction, TLAPS

(***************************************************************************)
(* A signed request is admitted at most once, for every number of messages *)
(* and handlers and every choice of the periods that SignedAssumption      *)
(* allows: the life of a nonce exceeds twice the tolerated clock difference*)
(* plus the longest stall plus the second by which the comparison of       *)
(* formatted times may err.  While a proof is valid, a running process     *)
(* accepts it at most once.                                                *)
(***************************************************************************)
SigInv == SigTypeOK /\ HandlersAreFresh /\ NonceOutlivesFreshness /\ AdmittedOnce

\* The comparison of formatted times errs by no more than a second.
LEMMA TextOrderErrsByASecond ==
    ASSUME NEW t \in Nat, NEW u \in Nat, NotAfterAsText(t, u)
    PROVE  t <= u + TicksPerSecond
BY TicksAssumption DEF NotAfterAsText, TextRank

LEMMA SigInvInitially == SigInit => SigInv
BY TicksAssumption, SignedAssumption
   DEF SigInit, SigInv, SigTypeOK, HandlersAreFresh, NonceOutlivesFreshness,
       AdmittedOnce, Unsent, Never

\* A handler that holds an admitted request finds its nonce in the table, and
\* finds it unexpired at every time it may use.
LEMMA AdmittedIsReplay ==
    ASSUME SigInv, NEW h \in Handler, stage[h] # "idle", admitted[carried[h]] # 0
    PROVE  nonces[carried[h]] # Never /\ ~Expired(carried[h], ReservedAt(h))
<1> DEFINE m == carried[h]
<1>1. /\ m \in Message /\ sent[m] \in [at : Nat, proof : Proof \cup {NoProof}]
      /\ clock \in Nat /\ reading[h] \in Nat /\ nonces[m] \in Nat
  BY DEF SigInv, SigTypeOK, HandlersAreFresh
<1>2. sent[m].at \in Nat
  BY <1>1
<1>3. clock <= sent[m].at + Skew + Stall /\ reading[h] <= clock
  BY <1>1, <1>2, SignedAssumption DEF SigInv, HandlersAreFresh
<1>4. sent[m].at + NonceLife > clock + TicksPerSecond + Skew
  BY <1>1, <1>2, <1>3, SignedAssumption, TicksAssumption
<1>5. nonces[m] # Never
  BY <1>1, <1>2, <1>4, SignedAssumption, TicksAssumption DEF SigInv, NonceOutlivesFreshness
<1>6. sent[m].at + NonceLife <= nonces[m] + Skew
  BY <1>1, <1>5 DEF SigInv, NonceOutlivesFreshness
<1>7. ReservedAt(h) \in Nat /\ ReservedAt(h) <= clock
  BY <1>1, <1>3 DEF ReservedAt
<1>8. ~Expired(m, ReservedAt(h))
  <2> SUFFICES ASSUME NotAfterAsText(nonces[m], ReservedAt(h)) PROVE FALSE
    BY DEF Expired
  <2>1. nonces[m] <= ReservedAt(h) + TicksPerSecond
    BY <1>1, <1>7, TextOrderErrsByASecond
  <2> QED
    BY <2>1, <1>1, <1>2, <1>4, <1>6, <1>7, SignedAssumption, TicksAssumption
<1> QED
  BY <1>5, <1>8

\* The types survive every step.
LEMMA SigTypeStep == SigTypeOK /\ HandlersAreFresh /\ [SigNext]_sigVars => SigTypeOK'
<1> SUFFICES ASSUME SigTypeOK, HandlersAreFresh, [SigNext]_sigVars PROVE SigTypeOK'
  OBVIOUS
<1> USE TicksAssumption, SignedAssumption DEF SigTypeOK, Never
<1>1. CASE Tick
  BY <1>1 DEF Tick
<1>2. ASSUME NEW p \in Proof, Issue(p) PROVE SigTypeOK'
  BY <1>2 DEF Issue
<1>3. ASSUME NEW m \in Message, NEW at \in 0..MaxClock, NEW p \in Proof \cup {NoProof},
             Send(m, at, p)
      PROVE  SigTypeOK'
  BY <1>3 DEF Send
<1>4. ASSUME NEW h \in Handler, NEW m \in Message, Receive(h, m) PROVE SigTypeOK'
  BY <1>4 DEF Receive
<1>5. ASSUME NEW h \in Handler, Drop(h) PROVE SigTypeOK'
  BY <1>5 DEF Drop, Finish
<1>6. ASSUME NEW h \in Handler, ReserveReadAuthorityNonce(h) PROVE SigTypeOK'
  <2>1. carried[h] \in Message /\ ReservedAt(h) \in Nat
    BY <1>6 DEF ReserveReadAuthorityNonce, HandlersAreFresh, ReservedAt
  <2>2. nonces' \in [Message -> Nat] /\ admitted' \in [Message -> Nat]
    BY <1>6, <2>1 DEF ReserveReadAuthorityNonce
  <2>3. /\ stage' \in [Handler -> {"idle", "reserve", "verify"}]
        /\ carried' \in [Handler -> Message \cup {NoMessage}]
        /\ reading' \in [Handler -> Nat]
    <3>1. \/ Finish(h)
          \/ stage' = [stage EXCEPT ![h] = "verify"] /\ UNCHANGED <<carried, reading>>
      BY <1>6 DEF ReserveReadAuthorityNonce
    <3>2. CASE Finish(h)
      BY <3>2 DEF Finish
    <3>3. CASE stage' = [stage EXCEPT ![h] = "verify"] /\ UNCHANGED <<carried, reading>>
      BY <3>3
    <3> QED
      BY <3>1, <3>2, <3>3
  <2> QED
    BY <1>6, <2>2, <2>3 DEF ReserveReadAuthorityNonce
<1>7. ASSUME NEW h \in Handler, Verify(h) PROVE SigTypeOK'
  BY <1>7 DEF Verify, Finish
<1>8. CASE Restart
  BY <1>8 DEF Restart
<1>9. CASE UNCHANGED sigVars
  BY <1>9 DEF sigVars
<1> QED
  BY <1>1, <1>2, <1>3, <1>4, <1>5, <1>6, <1>7, <1>8, <1>9 DEF SigNext

\* What a handler holds stays fresh: only an arrival gives it a request, and the
\* clock waits for it.
LEMMA FreshStep == SigInv /\ [SigNext]_sigVars => HandlersAreFresh'
<1> SUFFICES ASSUME SigInv, [SigNext]_sigVars,
                    NEW g \in Handler, stage'[g] # "idle"
             PROVE  /\ carried'[g] \in Message
                    /\ sent'[carried'[g]] # Unsent
                    /\ reading'[g] <= clock' /\ clock' <= reading'[g] + Stall
                    /\ reading'[g] <= sent'[carried'[g]].at + Skew
                    /\ sent'[carried'[g]].at <= reading'[g] + Skew
  BY DEF HandlersAreFresh, Unsent
<1> USE TicksAssumption, SignedAssumption DEF SigInv, SigTypeOK, HandlersAreFresh
<1>1. CASE Tick
  BY <1>1 DEF Tick
<1>2. ASSUME NEW p \in Proof, Issue(p)
      PROVE  UNCHANGED <<stage, carried, reading, sent, clock>>
  BY <1>2 DEF Issue
<1>3. ASSUME NEW m \in Message, NEW at \in 0..MaxClock, NEW p \in Proof \cup {NoProof},
             Send(m, at, p)
      PROVE  /\ UNCHANGED <<stage, carried, reading, clock>>
             /\ \A k \in Message : sent[k] # Unsent => sent'[k] = sent[k]
  BY <1>3 DEF Send
<1>4. ASSUME NEW h \in Handler, NEW m \in Message, Receive(h, m)
      PROVE  /\ carried'[g] \in Message
             /\ sent'[carried'[g]] # Unsent
             /\ reading'[g] <= clock' /\ clock' <= reading'[g] + Stall
             /\ reading'[g] <= sent'[carried'[g]].at + Skew
             /\ sent'[carried'[g]].at <= reading'[g] + Skew
  BY <1>4 DEF Receive, Fresh
<1>5. ASSUME NEW h \in Handler, Drop(h) \/ Verify(h) \/ ReserveReadAuthorityNonce(h)
      PROVE  /\ UNCHANGED <<sent, clock>>
             /\ stage[g] # "idle"
             /\ carried'[g] = carried[g] /\ reading'[g] = reading[g]
  <2>1. CASE Drop(h)
    BY <2>1 DEF Drop, Finish
  <2>2. CASE Verify(h)
    BY <2>2 DEF Verify, Finish
  <2>3. CASE ReserveReadAuthorityNonce(h)
    BY <2>3 DEF ReserveReadAuthorityNonce, Finish
  <2> QED
    BY <1>5, <2>1, <2>2, <2>3
<1>6. CASE Restart
  BY <1>6 DEF Restart
<1>7. CASE UNCHANGED sigVars
  BY <1>7 DEF sigVars
<1> QED
  BY <1>1, <1>2, <1>3, <1>4, <1>5, <1>6, <1>7 DEF SigNext

\* The nonce table keeps its promise, and with it no request is admitted again.
LEMMA NonceStep == SigInv /\ [SigNext]_sigVars => NonceOutlivesFreshness' /\ AdmittedOnce'
<1> SUFFICES ASSUME SigInv, [SigNext]_sigVars PROVE NonceOutlivesFreshness' /\ AdmittedOnce'
  OBVIOUS
<1> DEFINE Kept == /\ UNCHANGED <<nonces, admitted>>
                   /\ clock' \in Nat /\ clock <= clock'
                   /\ \A k \in Message : sent[k] # Unsent => sent'[k] = sent[k]
<1>1. ASSUME Kept PROVE NonceOutlivesFreshness' /\ AdmittedOnce'
  <2> SUFFICES ASSUME NEW m \in Message
               PROVE  /\ admitted'[m] = 0 => nonces'[m] = Never
                      /\ admitted'[m] # 0 => sent'[m] # Unsent
                      /\ nonces'[m] # Never => sent'[m].at + NonceLife <= nonces'[m] + Skew
                      /\ (admitted'[m] # 0 /\ nonces'[m] = Never)
                         => sent'[m].at + NonceLife <= clock' + TicksPerSecond + Skew
                      /\ admitted'[m] <= 1
    BY DEF NonceOutlivesFreshness, AdmittedOnce, Never, Unsent
  <2>1. sent[m].at \in Nat /\ clock \in Nat
    BY DEF SigInv, SigTypeOK
  <2> QED
    BY <1>1, <2>1, SignedAssumption, TicksAssumption
       DEF SigInv, NonceOutlivesFreshness, AdmittedOnce
<1>2. ASSUME NEW h \in Handler, ReserveReadAuthorityNonce(h)
      PROVE  NonceOutlivesFreshness' /\ AdmittedOnce'
  <2> DEFINE t == ReservedAt(h)
             c == carried[h]
  <2>1. /\ c \in Message /\ sent[c] # Unsent /\ sent[c].at \in Nat
        /\ t \in Nat /\ t <= clock /\ clock \in Nat /\ sent[c].at <= t + Skew
    BY <1>2, SignedAssumption
       DEF ReserveReadAuthorityNonce, SigInv, SigTypeOK, HandlersAreFresh, ReservedAt
  <2>2. UNCHANGED <<sent, clock>>
    BY <1>2 DEF ReserveReadAuthorityNonce
  <2>3. CASE UNCHANGED <<nonces, admitted>>
    BY <1>1, <2>1, <2>2, <2>3
  <2>4. CASE /\ nonces[c] = Never \/ Expired(c, t)
             /\ nonces' = [k \in Message |-> IF k = c THEN t + NonceLife
                                             ELSE IF Expired(k, t) THEN Never ELSE nonces[k]]
             /\ admitted' = [admitted EXCEPT ![c] = @ + 1]
    <3>1. admitted[c] = 0
      BY <1>2, <2>4, AdmittedIsReplay DEF ReserveReadAuthorityNonce
    <3> SUFFICES ASSUME NEW m \in Message
                 PROVE  /\ admitted'[m] = 0 => nonces'[m] = Never
                        /\ admitted'[m] # 0 => sent'[m] # Unsent
                        /\ nonces'[m] # Never => sent'[m].at + NonceLife <= nonces'[m] + Skew
                        /\ (admitted'[m] # 0 /\ nonces'[m] = Never)
                           => sent'[m].at + NonceLife <= clock' + TicksPerSecond + Skew
                        /\ admitted'[m] <= 1
      BY DEF NonceOutlivesFreshness, AdmittedOnce, Never, Unsent
    <3>2. CASE m = c
      <4>1. admitted'[m] = 1 /\ nonces'[m] = t + NonceLife
        BY <2>1, <2>4, <3>1, <3>2 DEF SigInv, SigTypeOK
      <4>2. nonces'[m] # Never
        BY <4>1, <2>1, SignedAssumption, TicksAssumption DEF Never
      <4> QED
        BY <4>1, <4>2, <2>1, <2>2, <3>2, SignedAssumption
    <3>3. CASE m # c /\ Expired(m, t)
      <4>1. admitted'[m] = admitted[m] /\ nonces'[m] = Never
        BY <2>4, <3>3 DEF SigInv, SigTypeOK
      <4>2. nonces[m] \in Nat /\ sent[m].at \in Nat /\ nonces[m] # Never
        BY <3>3 DEF SigInv, SigTypeOK, Expired
      <4>3. nonces[m] <= t + TicksPerSecond
        BY <3>3, <4>2, <2>1, TextOrderErrsByASecond DEF Expired
      <4>4. sent[m].at + NonceLife <= nonces[m] + Skew
        BY <4>2 DEF SigInv, NonceOutlivesFreshness
      <4>5. sent[m].at + NonceLife <= clock + TicksPerSecond + Skew
        BY <4>2, <4>3, <4>4, <2>1, SignedAssumption, TicksAssumption
      <4> QED
        BY <4>1, <4>5, <2>2 DEF SigInv, NonceOutlivesFreshness, AdmittedOnce
    <3>4. CASE m # c /\ ~Expired(m, t)
      <4>1. admitted'[m] = admitted[m] /\ nonces'[m] = nonces[m]
        BY <2>4, <3>4 DEF SigInv, SigTypeOK
      <4> QED
        BY <4>1, <2>2 DEF SigInv, NonceOutlivesFreshness, AdmittedOnce
    <3> QED
      BY <3>2, <3>3, <3>4
  <2> QED
    BY <1>2, <2>3, <2>4 DEF ReserveReadAuthorityNonce
<1> USE DEF SigInv, SigTypeOK
<1>3. CASE Tick
  BY <1>1, <1>3 DEF Tick
<1>4. ASSUME NEW p \in Proof, Issue(p) PROVE Kept
  BY <1>4 DEF Issue
<1>5. ASSUME NEW m \in Message, NEW at \in 0..MaxClock, NEW p \in Proof \cup {NoProof},
             Send(m, at, p)
      PROVE  Kept
  BY <1>5 DEF Send
<1>6. ASSUME NEW h \in Handler, NEW m \in Message, Receive(h, m) PROVE Kept
  BY <1>6 DEF Receive
<1>7. ASSUME NEW h \in Handler, Drop(h) \/ Verify(h) PROVE Kept
  BY <1>7 DEF Drop, Verify
<1>8. CASE Restart
  BY <1>1, <1>8 DEF Restart
<1>9. CASE UNCHANGED sigVars
  BY <1>1, <1>9 DEF sigVars
<1> HIDE DEF Kept
<1> QED
  BY <1>1, <1>2, <1>3, <1>4, <1>5, <1>6, <1>7, <1>8, <1>9 DEF SigNext

LEMMA SigInvStep == SigInv /\ [SigNext]_sigVars => SigInv'
BY SigTypeStep, FreshStep, NonceStep DEF SigInv

\* A signed request passes the nonce table at most once, whatever is delayed,
\* repeated, overtaken or restarted (ReserveReadAuthorityNonce and the timestamp
\* windows of the two handlers).
THEOREM AdmittedOnceAlways == SigSpec => []AdmittedOnce
<1>1. SigInit => SigInv
  BY SigInvInitially
<1>2. SigInv /\ [SigNext]_sigVars => SigInv'
  BY SigInvStep
<1>3. SigInv => AdmittedOnce
  BY DEF SigInv
<1> QED
  BY <1>1, <1>2, <1>3, PTL DEF SigSpec

(***************************************************************************)
(* Actor proofs.  The replay map is pruned at the reading of some handler, *)
(* and no reading is ahead of the clock: while a used proof is valid, its  *)
(* entry is there.                                                         *)
(***************************************************************************)
UsedIsRemembered ==
    \A p \in Proof :
        /\ issued[p] = Never => uses[p] = 0
        /\ clock < issued[p] => \/ uses[p] = 0
                                \/ uses[p] = 1 /\ replayed[p] = issued[p]

\* Each step keeps the replay map's promise.
LEMMA RememberedStep ==
    SigInv /\ UsedIsRemembered /\ [SigNext]_sigVars => UsedIsRemembered'
<1> SUFFICES ASSUME SigInv, UsedIsRemembered, [SigNext]_sigVars, NEW q \in Proof
             PROVE  /\ issued'[q] = Never => uses'[q] = 0
                    /\ clock' < issued'[q] => \/ uses'[q] = 0
                                              \/ uses'[q] = 1 /\ replayed'[q] = issued'[q]
  BY DEF UsedIsRemembered, Never
<1>1. /\ clock \in Nat /\ issued \in [Proof -> Nat] /\ replayed \in [Proof -> Nat]
      /\ uses \in [Proof -> Nat] /\ reading \in [Handler -> Nat]
      /\ issued[q] \in Nat
  BY DEF SigInv, SigTypeOK
<1>2. /\ issued[q] = Never => uses[q] = 0
      /\ clock < issued[q] => uses[q] = 0 \/ (uses[q] = 1 /\ replayed[q] = issued[q])
  BY DEF UsedIsRemembered
<1>3. CASE Tick
  BY <1>1, <1>2, <1>3 DEF Tick
<1>4. ASSUME NEW p \in Proof, Issue(p)
      PROVE  /\ UNCHANGED <<clock, replayed, uses>>
             /\ q # p => issued'[q] = issued[q]
             /\ q = p => uses[q] = 0
             /\ q = p => issued'[q] # Never
  BY <1>1, <1>2, <1>4, SignedAssumption DEF Issue, Never
<1>5. ASSUME NEW m \in Message, NEW at \in 0..MaxClock, NEW p \in Proof \cup {NoProof},
             Send(m, at, p)
      PROVE  UNCHANGED <<clock, issued, replayed, uses>>
  BY <1>5 DEF Send
<1>6. ASSUME NEW h \in Handler, NEW m \in Message, Receive(h, m)
      PROVE  UNCHANGED <<clock, issued, replayed, uses>>
  BY <1>6 DEF Receive
<1>7. ASSUME NEW h \in Handler, Drop(h) \/ ReserveReadAuthorityNonce(h)
      PROVE  UNCHANGED <<clock, issued, replayed, uses>>
  BY <1>7 DEF Drop, ReserveReadAuthorityNonce
<1>8. ASSUME NEW h \in Handler, Verify(h)
      PROVE  /\ UNCHANGED <<clock, issued>>
             /\ issued[q] = Never => uses'[q] = 0
             /\ clock < issued[q] => uses'[q] = 0 \/ (uses'[q] = 1 /\ replayed'[q] = issued[q])
  <2> DEFINE p == sent[carried[h]].proof
             t == reading[h]
  <2>1. UNCHANGED <<clock, issued>>
    BY <1>8 DEF Verify
  <2>2. t \in Nat /\ t <= clock
    BY <1>1, <1>8 DEF Verify, SigInv, HandlersAreFresh
  <2>3. CASE UNCHANGED <<replayed, uses>>
    BY <1>2, <2>1, <2>3
  <2>4. CASE /\ issued[p] > t
             /\ replayed' = [r \in Proof |-> IF r = p THEN issued[p]
                                             ELSE IF StillReplayed(r, t) THEN replayed[r] ELSE Never]
             /\ uses' = [uses EXCEPT ![p] = IF StillReplayed(p, t) THEN @ ELSE @ + 1]
    <3>1. clock < issued[q] /\ uses[q] # 0 => StillReplayed(q, t)
      BY <1>1, <1>2, <2>2 DEF StillReplayed, Never
    <3>2. CASE q = p
      <4>1. replayed'[q] = issued[q]
        BY <2>4, <3>2
      <4>2. uses'[q] = IF StillReplayed(q, t) THEN uses[q] ELSE uses[q] + 1
        BY <1>1, <2>4, <3>2
      <4>3. issued[q] # Never
        BY <1>1, <2>2, <2>4, <3>2 DEF Never
      <4>4. clock < issued[q] => uses'[q] = 0 \/ uses'[q] = 1
        BY <1>1, <1>2, <3>1, <4>2
      <4> QED BY <2>1, <4>1, <4>3, <4>4
    <3>3. CASE q # p
      <4>1. uses'[q] = uses[q]
        BY <1>1, <2>4, <3>3
      <4>2. replayed'[q] = IF StillReplayed(q, t) THEN replayed[q] ELSE Never
        BY <2>4, <3>3
      <4> QED BY <1>2, <2>1, <3>1, <4>1, <4>2
    <3> QED BY <3>2, <3>3
  <2> QED BY <1>8, <2>3, <2>4 DEF Verify
<1>9. CASE Restart
  BY <1>9 DEF Restart
<1>10. CASE UNCHANGED sigVars
  BY <1>2, <1>10 DEF sigVars
<1> QED BY <1>2, <1>3, <1>4, <1>5, <1>6, <1>7, <1>8, <1>9, <1>10 DEF SigNext

\* While an actor proof is valid a running process accepts it at most once, whichever
\* handler prunes the replay map with however old a reading (Issuer.Verify).
THEOREM ProofUsedOnceWhileValidAlways == SigSpec => []ProofUsedOnceWhileValid
<1>1. SigInit => SigInv /\ UsedIsRemembered
  BY SigInvInitially DEF SigInit, UsedIsRemembered, Never
<1>2. SigInv /\ UsedIsRemembered /\ [SigNext]_sigVars => SigInv' /\ UsedIsRemembered'
  BY SigInvStep, RememberedStep
<1>3. SigInv /\ UsedIsRemembered => ProofUsedOnceWhileValid
  BY DEF UsedIsRemembered, ProofUsedOnceWhileValid
<1> QED
  BY <1>1, <1>2, <1>3, PTL DEF SigSpec

(***************************************************************************)
(* Sign-in with a second factor, for any number of login handlers, signed- *)
(* in requests, sessions, enrollments and recovery codes: one factor per   *)
(* session, the newest enrollment wins, the current code stays usable.     *)
(*                                                                         *)
(* A factor is accepted in one transaction and the session made in another *)
(* one, so that SecondFactorPerSession has to follow a factor through the  *)
(* handler that carries it: what a handler or a session has was accepted   *)
(* and nobody else has it (HeldOnce), and what was accepted is spent: a    *)
(* step is not after last_used_step, a code is used (AcceptedIsSpent).     *)
(* That a new enrollment, which starts both again, does not free a spent   *)
(* factor rests on the second factor being switched on once.               *)
(***************************************************************************)
Factor == {NoFactor} \cup ({"totp"} \X Int) \cup ({"recovery"} \X Code)

Account == [active : BOOLEAN, mfa : BOOLEAN, secret : Nat, lastStep : Int]
Enrollment == [open : BOOLEAN, attempts : Nat, expires : Nat]
Session == [factor : Factor, mfa : BOOLEAN, expires : Nat, live : BOOLEAN]
Logging == [pc : {"totp", "recovery", "establish"}, mfa : BOOLEAN, factor : Factor, began : Nat]
Asking == [pc : {"setup", "confirm", "logout"}, session : Nat, token : Nat]

SITypes ==
    /\ step \in Nat
    /\ user \in Account
    /\ enrollments \in Seq(Enrollment)
    /\ unused \subseteq Code
    /\ sessions \in Seq(Session)
    /\ login \in [Login -> {Idle} \cup Logging]
    /\ request \in [Request -> {Idle} \cup Asking]
    /\ accepted \subseteq Factor \ {NoFactor}

\* A request names a session and an enrollment that exist.
RequestsFit ==
    \A r \in Request :
        /\ request[r].pc = "logout" => request[r].session \in 1..Len(sessions)
        /\ request[r].pc = "confirm" => request[r].token \in 1..Len(enrollments)

\* Accepted factors cannot be used again, and none is accepted while there is none.
AcceptedIsSpent ==
    /\ ~user.mfa => accepted = {}
    /\ \A s \in Int : <<"totp", s>> \in accepted => s <= user.lastStep
    /\ \A c \in Code : <<"recovery", c>> \in accepted => c \notin unused

\* A login has a factor when it establishes its session, and not before.
LoginsCarry ==
    \A l \in Login :
        /\ login[l].pc \in {"totp", "recovery"} => login[l].mfa /\ login[l].factor = NoFactor
        /\ login[l].pc = "establish" =>
              IF login[l].mfa THEN login[l].factor \in accepted ELSE login[l].factor = NoFactor

SessionsCarry ==
    \A s \in 1..Len(sessions) :
        IF sessions[s].mfa THEN sessions[s].factor \in accepted ELSE sessions[s].factor = NoFactor

\* A factor is in the hands of one login or session.
HeldOnce ==
    /\ \A l, k \in Login :
          (l # k /\ login[l].pc # "idle" /\ login[k].pc # "idle" /\ login[l].factor # NoFactor)
             => login[l].factor # login[k].factor
    /\ \A l \in Login, s \in 1..Len(sessions) :
          (login[l].pc # "idle" /\ login[l].factor # NoFactor)
             => login[l].factor # sessions[s].factor
    /\ \A s, t \in 1..Len(sessions) :
          (s # t /\ sessions[s].factor # NoFactor) => sessions[s].factor # sessions[t].factor

\* Only the newest enrollment can be open.
NewestIsOpen == \A e \in 1..Len(enrollments) : enrollments[e].open => e = Len(enrollments)

SIInv == /\ SITypes /\ RequestsFit /\ AcceptedIsSpent /\ LoginsCarry /\ SessionsCarry
         /\ HeldOnce /\ NewestIsOpen /\ EnrolledIsNewest /\ CurrentCodeUsable

\* Steps and codes make different factors.
LEMMA Factors ==
    /\ \A s \in Int : <<"totp", s>> \in Factor /\ <<"totp", s>> # NoFactor
    /\ \A c \in Code : <<"recovery", c>> \in Factor /\ <<"recovery", c>> # NoFactor
    /\ \A s, t : <<"totp", s>> = <<"totp", t>> => s = t
    /\ \A c, d : <<"recovery", c>> = <<"recovery", d>> => c = d
    /\ \A s, c : <<"totp", s>> # <<"recovery", c>>
    /\ \A s : <<"totp", s>>[1] = "totp"
    /\ NoFactor \in Factor
BY DEF Factor, NoFactor

LEMMA LoginShapes ==
    ASSUME SITypes, NEW l \in Login, login[l].pc # "idle"
    PROVE  login[l] \in Logging
BY DEF SITypes, Idle

LEMMA RequestShapes ==
    ASSUME SITypes, NEW r \in Request, request[r].pc # "idle"
    PROVE  request[r] \in Asking
BY DEF SITypes, Idle

\* Whoever holds a factor holds an accepted one.
LEMMA HeldIsAccepted ==
    ASSUME SIInv
    PROVE  /\ \A l \in Login : (login[l].pc # "idle" /\ login[l].factor # NoFactor)
                                  => login[l].factor \in accepted
           /\ \A s \in 1..Len(sessions) : sessions[s].factor # NoFactor
                                             => sessions[s].factor \in accepted
<1>1. SITypes /\ LoginsCarry /\ SessionsCarry
  BY DEF SIInv
<1>2. ASSUME NEW l \in Login, login[l].pc # "idle", login[l].factor # NoFactor
      PROVE  login[l].factor \in accepted
  <2>1. login[l].pc \in {"totp", "recovery", "establish"}
    BY <1>1, <1>2, LoginShapes DEF Logging
  <2> QED BY <1>1, <1>2, <2>1 DEF LoginsCarry
<1> QED BY <1>1, <1>2 DEF SessionsCarry

\* A login moves on, perhaps with a factor nobody has.
LEMMA LoginMoves ==
    ASSUME SIInv, NEW l \in Login, NEW w \in {Idle} \cup Logging, login' = [login EXCEPT ![l] = w],
           sessions' = sessions, accepted \subseteq accepted',
           w.pc \in {"totp", "recovery"} => w.mfa /\ w.factor = NoFactor,
           w.pc = "establish" => IF w.mfa THEN w.factor \in accepted' ELSE w.factor = NoFactor,
           (w.pc # "idle" /\ w.factor # NoFactor) => w.factor \notin accepted
    PROVE  /\ login' \in [Login -> {Idle} \cup Logging]
           /\ LoginsCarry' /\ SessionsCarry' /\ HeldOnce'
<1>1. SITypes /\ LoginsCarry /\ SessionsCarry /\ HeldOnce
  BY DEF SIInv
<1>2. login \in [Login -> {Idle} \cup Logging]
  BY <1>1 DEF SITypes
<1>3. /\ login' \in [Login -> {Idle} \cup Logging] /\ login'[l] = w
      /\ \A k \in Login : k # l => login'[k] = login[k]
  BY <1>2
<1>4. LoginsCarry'
  <2> SUFFICES ASSUME NEW k \in Login
               PROVE  /\ login'[k].pc \in {"totp", "recovery"}
                            => login'[k].mfa /\ login'[k].factor = NoFactor
                      /\ login'[k].pc = "establish" =>
                            IF login'[k].mfa THEN login'[k].factor \in accepted'
                            ELSE login'[k].factor = NoFactor
    BY DEF LoginsCarry
  <2>1. CASE k = l
    BY <1>3, <2>1
  <2>2. CASE k # l
    BY <1>1, <1>3, <2>2 DEF LoginsCarry
  <2> QED BY <2>1, <2>2
<1>5. SessionsCarry'
  BY <1>1 DEF SessionsCarry
<1>6. /\ \A k \in Login : (login[k].pc # "idle" /\ login[k].factor # NoFactor)
                              => login[k].factor \in accepted
      /\ \A s \in 1..Len(sessions) : sessions[s].factor # NoFactor
                                        => sessions[s].factor \in accepted
  BY HeldIsAccepted
<1>7. HeldOnce'
  <2>1. ASSUME NEW j \in Login, NEW k \in Login, j # k, login'[j].pc # "idle",
               login'[k].pc # "idle", login'[j].factor # NoFactor
        PROVE  login'[j].factor # login'[k].factor
    <3>1. CASE j = l
      BY <1>3, <1>6, <2>1, <3>1
    <3>2. CASE k = l
      BY <1>3, <1>6, <2>1, <3>2
    <3>3. CASE j # l /\ k # l
      BY <1>1, <1>3, <2>1, <3>3 DEF HeldOnce
    <3> QED BY <3>1, <3>2, <3>3
  <2>2. ASSUME NEW k \in Login, NEW s \in 1..Len(sessions), login'[k].pc # "idle",
               login'[k].factor # NoFactor
        PROVE  login'[k].factor # sessions[s].factor
    <3>1. CASE k = l
      BY <1>3, <1>6, <2>2, <3>1
    <3>2. CASE k # l
      BY <1>1, <1>3, <2>2, <3>2 DEF HeldOnce
    <3> QED BY <3>1, <3>2
  <2>3. \A s, t \in 1..Len(sessions) :
           (s # t /\ sessions[s].factor # NoFactor) => sessions[s].factor # sessions[t].factor
    BY <1>1 DEF HeldOnce
  <2> QED BY <2>1, <2>2, <2>3 DEF HeldOnce
<1> QED BY <1>3, <1>4, <1>5, <1>7

\* Sessions are ended or forgotten.
LEMMA SessionsEnd ==
    ASSUME SIInv, Len(sessions') = Len(sessions), login' = login, accepted' = accepted,
           \A s \in 1..Len(sessions) : /\ sessions'[s].factor = sessions[s].factor
                                       /\ sessions'[s].mfa = sessions[s].mfa
    PROVE  LoginsCarry' /\ SessionsCarry' /\ HeldOnce'
<1>1. LoginsCarry /\ SessionsCarry /\ HeldOnce
  BY DEF SIInv
<1>2. LoginsCarry' /\ SessionsCarry'
  BY <1>1 DEF LoginsCarry, SessionsCarry
<1>3. HeldOnce'
  BY <1>1 DEF HeldOnce
<1> QED BY <1>2, <1>3

\* What a login step leaves alone.
LEMMA EnrollmentsLeft ==
    ASSUME SIInv, enrollments' = enrollments, step' = step, user'.mfa = user.mfa,
           user'.secret = user.secret
    PROVE  NewestIsOpen' /\ EnrolledIsNewest'
BY DEF SIInv, NewestIsOpen, EnrolledIsNewest

LEMMA RequestsLeft ==
    ASSUME SIInv, request' = request, Len(sessions) <= Len(sessions'),
           Len(enrollments) <= Len(enrollments'), Len(sessions') \in Nat, Len(enrollments') \in Nat
    PROVE  RequestsFit'
<1>1. Len(sessions) \in Nat /\ Len(enrollments) \in Nat
  BY DEF SIInv, SITypes
<1> QED BY <1>1 DEF SIInv, RequestsFit

\* A login step without a new factor.
LEMMA PlainLogin ==
    ASSUME SIInv, NEW l \in Login, NEW w \in {Idle} \cup Logging, login' = [login EXCEPT ![l] = w],
           UNCHANGED <<step, user, enrollments, unused, sessions, request, accepted>>,
           w.pc \in {"totp", "recovery"} => w.mfa,
           w.pc = "establish" => ~w.mfa,
           w.pc # "idle" => w.factor = NoFactor
    PROVE  SIInv'
<1>1. SITypes /\ RequestsFit /\ AcceptedIsSpent /\ NewestIsOpen /\ EnrolledIsNewest /\ CurrentCodeUsable
  BY DEF SIInv
<1>2. /\ login' \in [Login -> {Idle} \cup Logging]
      /\ LoginsCarry' /\ SessionsCarry' /\ HeldOnce'
  BY LoginMoves
<1>3. SITypes'
  BY <1>1, <1>2 DEF SITypes
<1>4. RequestsFit' /\ AcceptedIsSpent' /\ NewestIsOpen' /\ EnrolledIsNewest' /\ CurrentCodeUsable'
  BY <1>1 DEF RequestsFit, AcceptedIsSpent, NewestIsOpen, EnrolledIsNewest, CurrentCodeUsable, Replayed
<1> QED BY <1>2, <1>3, <1>4 DEF SIInv

LEMMA FindStep ==
    ASSUME SIInv, NEW l \in Login, FindLoginCredential(l)
    PROVE  SIInv'
<1>1. step \in Nat /\ user \in Account
  BY DEF SIInv, SITypes
<1>2. PICK w : w = [pc |-> IF user.mfa THEN "totp" ELSE "establish", mfa |-> user.mfa,
                    factor |-> NoFactor, began |-> step]
  OBVIOUS
<1>3. user.mfa \in BOOLEAN
  BY <1>1 DEF Account
<1>4. /\ w \in Logging /\ w.factor = NoFactor /\ w.mfa = user.mfa
      /\ w.pc = IF user.mfa THEN "totp" ELSE "establish"
  <2>1. w.factor \in Factor
    BY <1>2, Factors
  <2> QED BY <1>1, <1>2, <1>3, <2>1 DEF Logging
<1>5. /\ login' = [login EXCEPT ![l] = w]
      /\ UNCHANGED <<step, user, enrollments, unused, sessions, request, accepted>>
  BY <1>2 DEF FindLoginCredential
<1>6. (w.pc \in {"totp", "recovery"} => w.mfa) /\ (w.pc = "establish" => ~w.mfa)
  BY <1>3, <1>4
<1> QED BY <1>4, <1>5, <1>6, PlainLogin

\* A login gives up, is refused or dies.
LEMMA LoginEnds ==
    ASSUME SIInv, NEW l \in Login, login' = [login EXCEPT ![l] = Idle],
           UNCHANGED <<step, user, enrollments, unused, sessions, request, accepted>>
    PROVE  SIInv'
<1>1. Idle.pc = "idle"
  BY DEF Idle
<1> QED BY <1>1, PlainLogin

\* A login gets a factor that was not accepted before.
LEMMA FactorStep ==
    ASSUME SIInv, NEW l \in Login, login[l].pc \in {"totp", "recovery"},
           NEW f \in Factor, f # NoFactor, f \notin accepted, user.mfa,
           accepted' = accepted \cup {f},
           login' = [login EXCEPT ![l].pc = "establish", ![l].factor = f],
           sessions' = sessions
    PROVE  /\ login' \in [Login -> {Idle} \cup Logging]
           /\ LoginsCarry' /\ SessionsCarry' /\ HeldOnce'
           /\ accepted' \subseteq Factor \ {NoFactor}
<1>1. SITypes /\ LoginsCarry
  BY DEF SIInv
<1>2. login[l] \in Logging
  BY <1>1, LoginShapes
<1>3. PICK w : w = [login[l] EXCEPT !.pc = "establish", !.factor = f]
  OBVIOUS
<1>4. w \in Logging /\ w.pc = "establish" /\ w.factor = f /\ w.mfa = login[l].mfa
  BY <1>2, <1>3 DEF Logging
<1>5. login[l].mfa
  BY <1>1 DEF LoginsCarry
<1>6. login' = [login EXCEPT ![l] = w]
  BY <1>1, <1>3 DEF SITypes
<1>7. accepted' \subseteq Factor \ {NoFactor}
  BY <1>1 DEF SITypes
<1> QED BY <1>4, <1>5, <1>6, <1>7, LoginMoves

\* The recovery code is tried next.
LEMMA TryRecovery ==
    ASSUME SIInv, NEW l \in Login, login[l].pc = "totp",
           login' = [login EXCEPT ![l].pc = "recovery"],
           UNCHANGED <<step, user, enrollments, unused, sessions, request, accepted>>
    PROVE  SIInv'
<1>1. SITypes /\ LoginsCarry
  BY DEF SIInv
<1>2. login[l] \in Logging
  BY <1>1, LoginShapes
<1>3. PICK w : w = [login[l] EXCEPT !.pc = "recovery"]
  OBVIOUS
<1>4. w \in Logging /\ w.pc = "recovery" /\ w.factor = login[l].factor /\ w.mfa = login[l].mfa
  BY <1>2, <1>3 DEF Logging
<1>5. login[l].mfa /\ login[l].factor = NoFactor
  BY <1>1 DEF LoginsCarry
<1>6. login' = [login EXCEPT ![l] = w]
  BY <1>1, <1>3 DEF SITypes
<1> QED BY <1>4, <1>5, <1>6, PlainLogin

LEMMA VerifyStep ==
    ASSUME SIInv, NEW l \in Login, NEW s \in Int, VerifyMFA(l, s)
    PROVE  SIInv'
<1>1. SITypes /\ RequestsFit /\ AcceptedIsSpent /\ NewestIsOpen /\ EnrolledIsNewest /\ CurrentCodeUsable
  BY DEF SIInv
<1>2. PICK f : f = <<"totp", s>>
  OBVIOUS
<1>3. CASE /\ user' = [user EXCEPT !.lastStep = s] /\ accepted' = accepted \cup {f}
           /\ login' = [login EXCEPT ![l].pc = "establish", ![l].factor = f]
           /\ user.mfa /\ s \in MatchTOTP(step) /\ ~Replayed(s)
           /\ login[l].pc = "totp"
           /\ UNCHANGED <<step, enrollments, unused, sessions, request>>
  <2>1. /\ step \in Nat /\ user \in Account /\ user.lastStep \in Int
    BY <1>1 DEF SITypes, Account
  <2>2. user.lastStep < s /\ s <= step + 1
    BY <1>3, <2>1 DEF Replayed, MatchTOTP
  <2>3. f \in Factor /\ f # NoFactor /\ f[1] = "totp"
    BY <1>2, Factors
  <2>4. f \notin accepted
    BY <1>1, <1>2, <2>1, <2>2 DEF AcceptedIsSpent
  <2>5. /\ login' \in [Login -> {Idle} \cup Logging]
        /\ LoginsCarry' /\ SessionsCarry' /\ HeldOnce'
        /\ accepted' \subseteq Factor \ {NoFactor}
    BY <1>3, <2>3, <2>4, FactorStep
  <2>6. /\ user' \in Account /\ user'.mfa = user.mfa /\ user'.secret = user.secret
        /\ user'.lastStep = s
    BY <1>3, <2>1 DEF Account
  <2>7. SITypes'
    BY <1>1, <1>3, <2>5, <2>6 DEF SITypes
  <2>8. AcceptedIsSpent'
    <3>1. ASSUME NEW t \in Int, <<"totp", t>> \in accepted' PROVE t <= s
      <4>1. <<"totp", t>> \in accepted \/ t = s
        BY <1>2, <1>3, <3>1, Factors
      <4> QED BY <1>1, <2>1, <2>2, <4>1 DEF AcceptedIsSpent
    <3>2. ASSUME NEW c \in Code, <<"recovery", c>> \in accepted' PROVE c \notin unused
      <4>1. <<"recovery", c>> \in accepted
        BY <1>2, <1>3, <3>2, Factors
      <4> QED BY <1>1, <4>1 DEF AcceptedIsSpent
    <3> QED BY <1>3, <2>6, <3>1, <3>2 DEF AcceptedIsSpent
  <2>9. RequestsFit' /\ NewestIsOpen' /\ EnrolledIsNewest'
    BY <1>1, <1>3, <2>6 DEF RequestsFit, NewestIsOpen, EnrolledIsNewest
  <2>10. CurrentCodeUsable'
    <3>1. f \in accepted'
      BY <1>3
    <3> QED BY <1>3, <2>2, <2>3, <2>6, <3>1 DEF CurrentCodeUsable
  <2> QED BY <2>5, <2>7, <2>8, <2>9, <2>10 DEF SIInv
<1>4. CASE /\ login[l].pc = "totp" /\ login' = [login EXCEPT ![l].pc = "recovery"]
           /\ UNCHANGED <<step, user, enrollments, unused, sessions, request, accepted>>
  BY <1>4, TryRecovery
<1> QED BY <1>2, <1>3, <1>4 DEF VerifyMFA

LEMMA RecoveryStep ==
    ASSUME SIInv, NEW l \in Login, NEW c \in Code \cup {NoRecovery}, UseRecoveryCode(l, c)
    PROVE  SIInv'
<1>1. SITypes /\ RequestsFit /\ AcceptedIsSpent /\ NewestIsOpen /\ EnrolledIsNewest /\ CurrentCodeUsable
  BY DEF SIInv
<1>2. PICK f : f = <<"recovery", c>>
  OBVIOUS
<1>3. CASE /\ unused' = unused \ {c} /\ accepted' = accepted \cup {f}
           /\ login' = [login EXCEPT ![l].pc = "establish", ![l].factor = f]
           /\ user.mfa /\ c \in unused /\ login[l].pc = "recovery"
           /\ UNCHANGED <<step, user, enrollments, sessions, request>>
  <2>1. c \in Code
    BY <1>1, <1>3 DEF SITypes
  <2>2. f \in Factor /\ f # NoFactor
    BY <1>2, <2>1, Factors
  <2>3. f \notin accepted
    BY <1>1, <1>2, <1>3, <2>1 DEF AcceptedIsSpent
  <2>4. /\ login' \in [Login -> {Idle} \cup Logging]
        /\ LoginsCarry' /\ SessionsCarry' /\ HeldOnce'
        /\ accepted' \subseteq Factor \ {NoFactor}
    BY <1>3, <2>2, <2>3, FactorStep
  <2>5. SITypes'
    BY <1>1, <1>3, <2>4 DEF SITypes
  <2>6. AcceptedIsSpent'
    <3>1. ASSUME NEW t \in Int, <<"totp", t>> \in accepted' PROVE t <= user.lastStep
      <4>1. <<"totp", t>> \in accepted
        BY <1>2, <1>3, <3>1, Factors
      <4> QED BY <1>1, <4>1 DEF AcceptedIsSpent
    <3>2. ASSUME NEW d \in Code, <<"recovery", d>> \in accepted' PROVE d \notin unused'
      <4>1. <<"recovery", d>> \in accepted \/ d = c
        BY <1>2, <1>3, <3>2, Factors
      <4> QED BY <1>1, <1>3, <4>1 DEF AcceptedIsSpent
    <3> QED BY <1>3, <3>1, <3>2 DEF AcceptedIsSpent
  <2>7. RequestsFit' /\ NewestIsOpen' /\ EnrolledIsNewest'
    BY <1>1, <1>3 DEF RequestsFit, NewestIsOpen, EnrolledIsNewest
  <2>8. CurrentCodeUsable'
    BY <1>1, <1>3 DEF CurrentCodeUsable, Replayed
  <2> QED BY <2>4, <2>5, <2>6, <2>7, <2>8 DEF SIInv
<1>4. CASE /\ login' = [login EXCEPT ![l] = Idle]
           /\ UNCHANGED <<step, user, enrollments, unused, sessions, request, accepted>>
  BY <1>4, LoginEnds
<1> QED BY <1>2, <1>3, <1>4 DEF UseRecoveryCode

LEMMA EstablishStep ==
    ASSUME SIInv, NEW l \in Login, EstablishSession(l)
    PROVE  SIInv'
<1>1. SITypes /\ RequestsFit /\ AcceptedIsSpent /\ LoginsCarry /\ SessionsCarry /\ HeldOnce
      /\ NewestIsOpen /\ EnrolledIsNewest /\ CurrentCodeUsable
  BY DEF SIInv
<1>2. /\ login[l].pc = "establish" /\ login' = [login EXCEPT ![l] = Idle]
      /\ UNCHANGED <<step, user, enrollments, unused, request, accepted>>
  BY DEF EstablishSession
<1>3. CASE ~user.active
  <2>1. sessions' = sessions
    BY <1>3 DEF EstablishSession
  <2> QED BY <1>2, <2>1, LoginEnds
<1>4. CASE user.active
  <2>1. PICK new : new = [factor |-> login[l].factor, mfa |-> login[l].mfa,
                          expires |-> login[l].began + SessionTTL, live |-> TRUE]
    OBVIOUS
  <2>2. sessions' = Append(sessions, new)
    BY <1>4, <2>1 DEF EstablishSession
  <2>3. login[l] \in Logging
    BY <1>1, <1>2, LoginShapes
  <2>4. new \in Session /\ new.factor = login[l].factor /\ new.mfa = login[l].mfa
    <3>1. /\ login[l].factor \in Factor /\ login[l].mfa \in BOOLEAN /\ login[l].began \in Nat
          /\ SessionTTL \in Nat
      BY <2>3, SignInAssumption DEF Logging
    <3>2. login[l].began + SessionTTL \in Nat
      BY <3>1
    <3> QED BY <2>1, <3>1, <3>2 DEF Session
  <2>5. /\ sessions \in Seq(Session) /\ Len(sessions) \in Nat
        /\ sessions' \in Seq(Session) /\ Len(sessions') = Len(sessions) + 1
        /\ \A s \in 1..Len(sessions) : sessions'[s] = sessions[s]
        /\ sessions'[Len(sessions) + 1] = new
    BY <1>1, <2>2, <2>4 DEF SITypes
  <2>6. /\ login' \in [Login -> {Idle} \cup Logging] /\ login'[l] = Idle /\ Idle.pc = "idle"
        /\ \A k \in Login : k # l => login'[k] = login[k]
    BY <1>1, <1>2 DEF SITypes, Idle
  <2>7. SITypes'
    BY <1>1, <1>2, <2>5, <2>6 DEF SITypes
  <2>8. RequestsFit'
    BY <1>2, <2>5, RequestsLeft DEF SITypes, SIInv
  <2>9. AcceptedIsSpent' /\ NewestIsOpen' /\ EnrolledIsNewest' /\ CurrentCodeUsable'
    BY <1>1, <1>2 DEF AcceptedIsSpent, NewestIsOpen, EnrolledIsNewest, CurrentCodeUsable, Replayed
  <2>10. LoginsCarry'
    <3> SUFFICES ASSUME NEW k \in Login
                 PROVE  /\ login'[k].pc \in {"totp", "recovery"}
                              => login'[k].mfa /\ login'[k].factor = NoFactor
                        /\ login'[k].pc = "establish" =>
                              IF login'[k].mfa THEN login'[k].factor \in accepted
                              ELSE login'[k].factor = NoFactor
      BY <1>2 DEF LoginsCarry
    <3>1. CASE k = l
      BY <2>6, <3>1
    <3>2. CASE k # l
      BY <1>1, <2>6, <3>2 DEF LoginsCarry
    <3> QED BY <3>1, <3>2
  <2>11. SessionsCarry'
    <3> SUFFICES ASSUME NEW s \in 1..Len(sessions')
                 PROVE  IF sessions'[s].mfa THEN sessions'[s].factor \in accepted
                        ELSE sessions'[s].factor = NoFactor
      BY <1>2 DEF SessionsCarry
    <3>1. CASE s = Len(sessions) + 1
      BY <1>1, <1>2, <2>4, <2>5, <3>1 DEF LoginsCarry
    <3>2. CASE s \in 1..Len(sessions)
      BY <1>1, <2>5, <3>2 DEF SessionsCarry
    <3> QED BY <2>5, <3>1, <3>2
  <2>12. HeldOnce'
    <3>1. ASSUME NEW j \in Login, NEW k \in Login, j # k, login'[j].pc # "idle",
                 login'[k].pc # "idle", login'[j].factor # NoFactor
          PROVE  login'[j].factor # login'[k].factor
      <4>1. j # l /\ k # l
        BY <2>6, <3>1
      <4> QED BY <1>1, <2>6, <3>1, <4>1 DEF HeldOnce
    <3>2. ASSUME NEW k \in Login, NEW s \in 1..Len(sessions'), login'[k].pc # "idle",
                 login'[k].factor # NoFactor
          PROVE  login'[k].factor # sessions'[s].factor
      <4>1. k # l /\ login'[k] = login[k]
        BY <2>6, <3>2
      <4>2. CASE s = Len(sessions) + 1
        BY <1>1, <1>2, <2>4, <2>5, <3>2, <4>1, <4>2 DEF HeldOnce
      <4>3. CASE s \in 1..Len(sessions)
        BY <1>1, <2>5, <3>2, <4>1, <4>3 DEF HeldOnce
      <4> QED BY <2>5, <4>2, <4>3
    <3>3. ASSUME NEW s \in 1..Len(sessions'), NEW t \in 1..Len(sessions'), s # t,
                 sessions'[s].factor # NoFactor
          PROVE  sessions'[s].factor # sessions'[t].factor
      <4>1. CASE s = Len(sessions) + 1
        <5>1. t \in 1..Len(sessions)
          BY <2>5, <3>3, <4>1
        <5> QED BY <1>1, <1>2, <2>4, <2>5, <3>3, <4>1, <5>1 DEF HeldOnce
      <4>2. CASE t = Len(sessions) + 1
        <5>1. s \in 1..Len(sessions)
          BY <2>5, <3>3, <4>2
        <5>2. sessions'[t].factor = login[l].factor /\ sessions'[s] = sessions[s]
          BY <2>4, <2>5, <4>2, <5>1
        <5> QED BY <1>1, <1>2, <3>3, <5>1, <5>2 DEF HeldOnce
      <4>3. CASE s \in 1..Len(sessions) /\ t \in 1..Len(sessions)
        BY <1>1, <2>5, <3>3, <4>3 DEF HeldOnce
      <4> QED BY <2>5, <4>1, <4>2, <4>3
    <3> QED BY <3>1, <3>2, <3>3 DEF HeldOnce
  <2> QED BY <2>7, <2>8, <2>9, <2>10, <2>11, <2>12 DEF SIInv
<1> QED BY <1>3, <1>4

\* A request of a browser moves on; sessions and enrollments do not get fewer.
LEMMA RequestMoves ==
    ASSUME SIInv, NEW r \in Request, NEW w \in {Idle} \cup Asking,
           request' = [request EXCEPT ![r] = w],
           w.pc = "logout" => w.session \in 1..Len(sessions),
           w.pc = "confirm" => w.token \in 1..Len(enrollments),
           Len(sessions) <= Len(sessions'), Len(enrollments) <= Len(enrollments'),
           Len(sessions') \in Nat, Len(enrollments') \in Nat
    PROVE  request' \in [Request -> {Idle} \cup Asking] /\ RequestsFit'
<1>1. /\ request \in [Request -> {Idle} \cup Asking] /\ RequestsFit
      /\ Len(sessions) \in Nat /\ Len(enrollments) \in Nat
  BY DEF SIInv, SITypes
<1>2. /\ request' \in [Request -> {Idle} \cup Asking] /\ request'[r] = w
      /\ \A q \in Request : q # r => request'[q] = request[q]
  BY <1>1
<1>3. ASSUME NEW q \in Request
      PROVE  /\ request'[q].pc = "logout" => request'[q].session \in 1..Len(sessions')
             /\ request'[q].pc = "confirm" => request'[q].token \in 1..Len(enrollments')
  <2>1. CASE q = r
    BY <1>1, <1>2, <2>1
  <2>2. CASE q # r
    BY <1>1, <1>2, <2>2 DEF RequestsFit
  <2> QED BY <2>1, <2>2
<1> QED BY <1>2, <1>3 DEF RequestsFit

LEMMA RequestStarts ==
    ASSUME SIInv, NEW r \in Request, NEW s \in 1..Len(sessions), NEW e \in Nat,
           NEW asked \in {"setup", "logout", "confirm"},
           asked = "confirm" => e \in 1..Len(enrollments),
           AuthenticatedSession(r, s, asked, e)
    PROVE  SIInv'
<1>1. SITypes /\ AcceptedIsSpent /\ LoginsCarry /\ SessionsCarry /\ HeldOnce
      /\ NewestIsOpen /\ EnrolledIsNewest /\ CurrentCodeUsable
  BY DEF SIInv
<1>2. PICK w : w = [pc |-> asked, session |-> s, token |-> e]
  OBVIOUS
<1>3. /\ request' = [request EXCEPT ![r] = w]
      /\ UNCHANGED <<step, user, enrollments, unused, sessions, login, accepted>>
  BY <1>2 DEF AuthenticatedSession
<1>4. Len(sessions) \in Nat /\ Len(enrollments) \in Nat
  BY <1>1 DEF SITypes
<1>5. w \in Asking /\ w.pc = asked /\ w.session = s /\ w.token = e
  BY <1>2, <1>4 DEF Asking
<1>6. request' \in [Request -> {Idle} \cup Asking] /\ RequestsFit'
  <2>1. w \in {Idle} \cup Asking
    BY <1>5
  <2>2. w.pc = "logout" => w.session \in 1..Len(sessions)
    BY <1>5
  <2>3. w.pc = "confirm" => w.token \in 1..Len(enrollments)
    BY <1>5
  <2>4. /\ Len(sessions) <= Len(sessions') /\ Len(enrollments) <= Len(enrollments')
        /\ Len(sessions') \in Nat /\ Len(enrollments') \in Nat
    BY <1>3, <1>4
  <2> QED BY <1>3, <2>1, <2>2, <2>3, <2>4, RequestMoves, Zenon
<1>7. SITypes'
  BY <1>1, <1>3, <1>6 DEF SITypes
<1>8. LoginsCarry' /\ SessionsCarry' /\ HeldOnce'
  BY <1>1, <1>3 DEF LoginsCarry, SessionsCarry, HeldOnce
<1>9. AcceptedIsSpent' /\ NewestIsOpen' /\ EnrolledIsNewest' /\ CurrentCodeUsable'
  BY <1>1, <1>3 DEF AcceptedIsSpent, NewestIsOpen, EnrolledIsNewest, CurrentCodeUsable, Replayed
<1> QED BY <1>6, <1>7, <1>8, <1>9 DEF SIInv

\* A request ends; what it may have changed besides is listed.
LEMMA RequestEnds ==
    ASSUME SIInv, NEW r \in Request, request' = [request EXCEPT ![r] = Idle],
           UNCHANGED <<step, user, unused, login, accepted>>,
           sessions' \in Seq(Session), Len(sessions') = Len(sessions),
           \A s \in 1..Len(sessions) : /\ sessions'[s].factor = sessions[s].factor
                                       /\ sessions'[s].mfa = sessions[s].mfa,
           enrollments' \in Seq(Enrollment), Len(enrollments) <= Len(enrollments'),
           NewestIsOpen', EnrolledIsNewest'
    PROVE  SIInv'
<1>1. SITypes /\ AcceptedIsSpent /\ CurrentCodeUsable
  BY DEF SIInv
<1>2. Idle.pc = "idle"
  BY DEF Idle
<1>3. /\ Len(sessions) \in Nat /\ Len(enrollments) \in Nat
      /\ Len(sessions') \in Nat /\ Len(enrollments') \in Nat
  BY <1>1 DEF SITypes
<1>4. request' \in [Request -> {Idle} \cup Asking] /\ RequestsFit'
  <2>1. /\ Idle \in {Idle} \cup Asking /\ Len(sessions) <= Len(sessions')
        /\ Idle.pc = "logout" => Idle.session \in 1..Len(sessions)
        /\ Idle.pc = "confirm" => Idle.token \in 1..Len(enrollments)
    BY <1>2, <1>3
  <2> QED BY <1>3, <2>1, RequestMoves, Zenon
<1>5. SITypes'
  BY <1>1, <1>4 DEF SITypes
<1>6. LoginsCarry' /\ SessionsCarry' /\ HeldOnce'
  BY SessionsEnd
<1>7. AcceptedIsSpent' /\ CurrentCodeUsable'
  BY <1>1 DEF AcceptedIsSpent, CurrentCodeUsable, Replayed
<1> QED BY <1>4, <1>5, <1>6, <1>7 DEF SIInv

LEMMA RequestGivesUp ==
    ASSUME SIInv, NEW r \in Request, request' = [request EXCEPT ![r] = Idle],
           UNCHANGED <<step, user, enrollments, unused, sessions, login, accepted>>
    PROVE  SIInv'
<1>1. SITypes /\ NewestIsOpen' /\ EnrolledIsNewest'
  BY DEF SIInv, NewestIsOpen, EnrolledIsNewest
<1>2. sessions \in Seq(Session) /\ enrollments \in Seq(Enrollment) /\ Len(enrollments) \in Nat
  BY <1>1 DEF SITypes
<1>3. /\ sessions' \in Seq(Session) /\ Len(sessions') = Len(sessions)
      /\ \A s \in 1..Len(sessions) : /\ sessions'[s].factor = sessions[s].factor
                                     /\ sessions'[s].mfa = sessions[s].mfa
      /\ enrollments' \in Seq(Enrollment) /\ Len(enrollments) <= Len(enrollments')
      /\ UNCHANGED <<step, user, unused, login, accepted>>
  BY <1>2
<1> QED BY <1>1, <1>3, RequestEnds, Zenon

\* A request ends that touches the enrollments only.
LEMMA EnrollmentsMove ==
    ASSUME SIInv, NEW r \in Request, request' = [request EXCEPT ![r] = Idle],
           UNCHANGED <<step, user, unused, sessions, login, accepted>>,
           enrollments' \in Seq(Enrollment), Len(enrollments) <= Len(enrollments'),
           NewestIsOpen', EnrolledIsNewest'
    PROVE  SIInv'
<1>1. sessions \in Seq(Session)
  BY DEF SIInv, SITypes
<1>2. /\ sessions' \in Seq(Session) /\ Len(sessions') = Len(sessions)
      /\ \A s \in 1..Len(sessions) : /\ sessions'[s].factor = sessions[s].factor
                                     /\ sessions'[s].mfa = sessions[s].mfa
      /\ UNCHANGED <<step, user, unused, login, accepted>>
  BY <1>1
<1> QED BY <1>2, RequestEnds, Zenon

LEMMA CreateStep ==
    ASSUME SIInv, NEW r \in Request, CreateMFAEnrollment(r)
    PROVE  SIInv'
<1>1. SITypes /\ NewestIsOpen /\ EnrolledIsNewest
  BY DEF SIInv
<1>2. /\ request' = [request EXCEPT ![r] = Idle]
      /\ UNCHANGED <<step, user, unused, sessions, login, accepted>>
  BY DEF CreateMFAEnrollment
<1>3. CASE ~(user.active /\ ~user.mfa)
  <2>1. enrollments' = enrollments
    BY <1>3 DEF CreateMFAEnrollment
  <2> QED BY <1>2, <2>1, RequestGivesUp
<1>4. CASE user.active /\ ~user.mfa
  <2>1. PICK new : new = [open |-> TRUE, attempts |-> 0, expires |-> step + EnrollLife]
    OBVIOUS
  <2>2. PICK old : old = [e \in 1..Len(enrollments) |-> Superseded(enrollments[e])]
    OBVIOUS
  <2>3. enrollments' = Append(old, new)
    BY <1>4, <2>1, <2>2 DEF CreateMFAEnrollment
  <2>4. new \in Enrollment
    <3>1. step + EnrollLife \in Nat
      BY <1>1, SignInAssumption DEF SITypes
    <3> QED BY <2>1, <3>1 DEF Enrollment
  <2>5. ASSUME NEW e \in 1..Len(enrollments)
        PROVE  Superseded(enrollments[e]) \in Enrollment /\ ~Superseded(enrollments[e]).open
    <3>1. enrollments[e] \in Enrollment
      BY <1>1 DEF SITypes
    <3> QED BY <3>1 DEF Enrollment, Superseded
  <2>6. Len(enrollments) \in Nat
    BY <1>1 DEF SITypes
  <2>7. old \in Seq(Enrollment) /\ Len(old) = Len(enrollments)
        /\ \A e \in 1..Len(enrollments) : ~old[e].open
    BY <2>2, <2>5, <2>6
  <2>8. /\ enrollments' \in Seq(Enrollment) /\ Len(enrollments') = Len(enrollments) + 1
        /\ \A e \in 1..Len(enrollments) : ~enrollments'[e].open
    BY <2>3, <2>4, <2>6, <2>7
  <2>9. NewestIsOpen'
    BY <2>6, <2>8 DEF NewestIsOpen
  <2>10. EnrolledIsNewest'
    BY <1>2, <1>4 DEF EnrolledIsNewest
  <2>11. Len(enrollments) <= Len(enrollments')
    BY <2>6, <2>8
  <2> QED BY <1>2, <2>8, <2>9, <2>10, <2>11, EnrollmentsMove
<1> QED BY <1>3, <1>4

\* The enrollment of the request is closed or a wrong guess counted; the factor stays off
\* or on.
LEMMA OneEnrollment ==
    ASSUME SITypes, NewestIsOpen, NEW e \in 1..Len(enrollments), NEW new \in Enrollment,
           new.open => enrollments[e].open,
           enrollments' = [enrollments EXCEPT ![e] = new]
    PROVE  /\ enrollments' \in Seq(Enrollment) /\ Len(enrollments') = Len(enrollments)
           /\ enrollments'[e] = new
           /\ \A d \in 1..Len(enrollments) : d # e => enrollments'[d] = enrollments[d]
           /\ NewestIsOpen'
<1>1. enrollments \in Seq(Enrollment)
  BY DEF SITypes
<1>2. /\ enrollments' \in Seq(Enrollment) /\ Len(enrollments') = Len(enrollments)
      /\ enrollments'[e] = new
      /\ \A d \in 1..Len(enrollments) : d # e => enrollments'[d] = enrollments[d]
  BY <1>1
<1>3. NewestIsOpen'
  BY <1>2 DEF NewestIsOpen
<1> QED BY <1>2, <1>3

LEMMA CompleteStep ==
    ASSUME SIInv, NEW r \in Request, NEW right \in BOOLEAN, CompleteMFAEnrollment(r, right)
    PROVE  SIInv'
<1>1. SITypes /\ RequestsFit /\ AcceptedIsSpent /\ NewestIsOpen /\ EnrolledIsNewest
      /\ CurrentCodeUsable
  BY DEF SIInv
<1>2. PICK e : e = request[r].token
  OBVIOUS
<1>3. /\ request[r].pc = "confirm" /\ request' = [request EXCEPT ![r] = Idle]
      /\ UNCHANGED <<step, sessions, login, accepted>>
  BY DEF CompleteMFAEnrollment
<1>4. e \in 1..Len(enrollments)
  BY <1>1, <1>2, <1>3 DEF RequestsFit
<1>5. /\ enrollments \in Seq(Enrollment) /\ Len(enrollments) \in Nat /\ enrollments[e] \in Enrollment
      /\ sessions \in Seq(Session) /\ step \in Nat /\ user \in Account
  BY <1>1, <1>4 DEF SITypes
<1>6. enrollments[e].open \in BOOLEAN /\ enrollments[e].attempts \in Nat
  BY <1>5 DEF Enrollment
<1>7. PICK closed : closed = [enrollments[e] EXCEPT !.open = FALSE]
  OBVIOUS
<1>8. /\ closed \in Enrollment /\ ~closed.open /\ closed.attempts = enrollments[e].attempts
  BY <1>5, <1>7 DEF Enrollment
<1>9. CASE UNCHANGED <<user, enrollments, unused>>
  BY <1>3, <1>9, RequestGivesUp
<1>10. CASE /\ enrollments' = [enrollments EXCEPT ![e].open = FALSE] /\ enrollments[e].open
            /\ UNCHANGED <<user, unused>>
  <2>1. enrollments' = [enrollments EXCEPT ![e] = closed]
    BY <1>5, <1>7, <1>10
  <2>2. /\ enrollments' \in Seq(Enrollment) /\ Len(enrollments') = Len(enrollments)
        /\ NewestIsOpen'
    BY <1>1, <1>4, <1>8, <2>1, OneEnrollment
  <2>3. EnrolledIsNewest'
    BY <1>1, <1>4, <1>10 DEF EnrolledIsNewest
  <2>4. /\ Len(enrollments) <= Len(enrollments')
        /\ UNCHANGED <<step, user, unused, sessions, login, accepted>>
    BY <1>3, <1>5, <1>10, <2>2
  <2> QED BY <1>3, <2>2, <2>3, <2>4, EnrollmentsMove
<1>11. CASE /\ ~user.mfa /\ UNCHANGED <<user, unused>>
            /\ enrollments[e].open
            /\ enrollments' = [enrollments EXCEPT
                  ![e].attempts = @ + 1, ![e].open = ~Exhausted(enrollments[e].attempts + 1)]
  <2>1. PICK a : a = enrollments[e].attempts + 1
    OBVIOUS
  <2>2. PICK b \in BOOLEAN : b = (~Exhausted(enrollments[e].attempts + 1))
    BY DEF Exhausted
  <2>3. PICK new : new = [enrollments[e] EXCEPT !.attempts = a, !.open = b]
    OBVIOUS
  <2>4. new \in Enrollment
    <3>1. a \in Nat
      BY <1>6, <2>1
    <3> QED BY <1>5, <2>2, <2>3, <3>1 DEF Enrollment
  <2>5. enrollments' = [enrollments EXCEPT ![e] = new]
    BY <1>5, <1>11, <2>1, <2>2, <2>3
  <2>6. /\ enrollments' \in Seq(Enrollment) /\ Len(enrollments') = Len(enrollments)
        /\ NewestIsOpen'
    BY <1>1, <1>4, <1>11, <2>4, <2>5, OneEnrollment
  <2>7. EnrolledIsNewest'
    BY <1>11 DEF EnrolledIsNewest
  <2>8. /\ Len(enrollments) <= Len(enrollments')
        /\ UNCHANGED <<step, user, unused, sessions, login, accepted>>
    BY <1>3, <1>5, <1>11, <2>6
  <2> QED BY <1>3, <2>6, <2>7, <2>8, EnrollmentsMove
<1>12. CASE /\ ~user.mfa /\ enrollments[e].open /\ ~Exhausted(enrollments[e].attempts)
            /\ user' = [user EXCEPT !.mfa = TRUE, !.secret = e, !.lastStep = FirstLastStep]
            /\ unused' = Code
            /\ enrollments' = [enrollments EXCEPT ![e].open = FALSE]
  <2>1. enrollments' = [enrollments EXCEPT ![e] = closed]
    BY <1>5, <1>7, <1>12
  <2>2. /\ enrollments' \in Seq(Enrollment) /\ Len(enrollments') = Len(enrollments)
        /\ enrollments'[e] = closed
        /\ \A d \in 1..Len(enrollments) : d # e => enrollments'[d] = enrollments[d]
        /\ NewestIsOpen'
    BY <1>1, <1>4, <1>8, <2>1, OneEnrollment
  <2>3. PICK s : s = FirstLastStep
    OBVIOUS
  <2>4. s \in Int /\ s < step
    BY <1>5, <2>3 DEF FirstLastStep
  <2>5. user' \in Account /\ user'.mfa /\ user'.secret = e /\ user'.lastStep = s
    <3>1. e \in Nat
      BY <1>4, <1>5
    <3>2. user' = [user EXCEPT !.mfa = TRUE, !.secret = e, !.lastStep = s]
      BY <1>12, <2>3
    <3> QED BY <1>5, <2>4, <3>1, <3>2 DEF Account
  <2>6. e = Len(enrollments) /\ accepted = {}
    BY <1>1, <1>4, <1>12 DEF NewestIsOpen, AcceptedIsSpent
  <2>7. EnrolledIsNewest'
    <3>1. enrollments'[e].attempts < Attempts
      <4>1. Attempts \in Nat
        BY SignInAssumption
      <4> QED BY <1>6, <1>8, <1>12, <2>2, <4>1 DEF Exhausted
    <3>2. ASSUME NEW d \in 1..Len(enrollments) PROVE ~enrollments'[d].open
      BY <1>1, <1>8, <2>2, <2>6 DEF NewestIsOpen
    <3> QED BY <2>2, <2>5, <2>6, <3>1, <3>2 DEF EnrolledIsNewest
  <2>8. request' \in [Request -> {Idle} \cup Asking] /\ RequestsFit'
    <3>1. Idle.pc = "idle" /\ Len(sessions') = Len(sessions) /\ Len(sessions) \in Nat
      BY <1>3, <1>5 DEF Idle
    <3>2. /\ Idle \in {Idle} \cup Asking
          /\ Idle.pc = "logout" => Idle.session \in 1..Len(sessions)
          /\ Idle.pc = "confirm" => Idle.token \in 1..Len(enrollments)
      BY <3>1
    <3>3. /\ Len(sessions) <= Len(sessions') /\ Len(enrollments) <= Len(enrollments')
          /\ Len(sessions') \in Nat /\ Len(enrollments') \in Nat
      BY <1>5, <2>2, <3>1
    <3> QED BY <1>3, <3>2, <3>3, RequestMoves, Zenon
  <2>9. SITypes'
    BY <1>1, <1>3, <1>12, <2>2, <2>5, <2>8 DEF SITypes
  <2>10. AcceptedIsSpent'
    BY <1>3, <2>5, <2>6 DEF AcceptedIsSpent
  <2>11. CurrentCodeUsable'
    BY <1>3, <1>5, <2>4, <2>5 DEF CurrentCodeUsable, Replayed
  <2>12. LoginsCarry' /\ SessionsCarry' /\ HeldOnce'
    BY <1>3, SessionsEnd
  <2> QED BY <2>2, <2>7, <2>8, <2>9, <2>10, <2>11, <2>12 DEF SIInv
<1> QED BY <1>2, <1>9, <1>10, <1>11, <1>12 DEF CompleteMFAEnrollment

LEMMA LogoutStep ==
    ASSUME SIInv, NEW r \in Request, RevokeSessionAndRecordLogout(r)
    PROVE  SIInv'
<1>1. SITypes /\ RequestsFit
  BY DEF SIInv
<1>2. PICK s : s = request[r].session
  OBVIOUS
<1>3. /\ request[r].pc = "logout" /\ request' = [request EXCEPT ![r] = Idle]
      /\ sessions' = [sessions EXCEPT ![s].live = FALSE]
      /\ UNCHANGED <<step, user, enrollments, unused, login, accepted>>
  BY <1>2 DEF RevokeSessionAndRecordLogout
<1>4. s \in 1..Len(sessions)
  BY <1>1, <1>2, <1>3 DEF RequestsFit
<1>5. /\ sessions \in Seq(Session) /\ sessions[s] \in Session
      /\ enrollments \in Seq(Enrollment) /\ Len(enrollments) \in Nat
  BY <1>1, <1>4 DEF SITypes
<1>6. PICK ended : ended = [sessions[s] EXCEPT !.live = FALSE]
  OBVIOUS
<1>7. ended \in Session /\ ended.factor = sessions[s].factor /\ ended.mfa = sessions[s].mfa
  BY <1>5, <1>6 DEF Session
<1>8. sessions' = [sessions EXCEPT ![s] = ended]
  BY <1>3, <1>5, <1>6
<1>9. /\ sessions' \in Seq(Session) /\ Len(sessions') = Len(sessions)
      /\ \A t \in 1..Len(sessions) : /\ sessions'[t].factor = sessions[t].factor
                                     /\ sessions'[t].mfa = sessions[t].mfa
  BY <1>4, <1>5, <1>7, <1>8
<1>10. NewestIsOpen' /\ EnrolledIsNewest'
  BY <1>3, EnrollmentsLeft
<1>11. /\ enrollments' \in Seq(Enrollment) /\ Len(enrollments) <= Len(enrollments')
       /\ UNCHANGED <<step, user, unused, login, accepted>>
  BY <1>3, <1>5
<1> QED BY <1>3, <1>9, <1>10, <1>11, RequestEnds, Zenon

LEMMA CleanupStep ==
    ASSUME SIInv, CleanupExpiredSessions
    PROVE  SIInv'
<1>1. SITypes /\ RequestsFit /\ AcceptedIsSpent /\ NewestIsOpen /\ EnrolledIsNewest
      /\ CurrentCodeUsable
  BY DEF SIInv
<1>2. UNCHANGED <<step, user, enrollments, unused, login, request, accepted>>
  BY DEF CleanupExpiredSessions
<1>3. sessions \in Seq(Session) /\ Len(sessions) \in Nat /\ step \in Nat
  BY <1>1 DEF SITypes
<1> DEFINE Swept(s) == [sessions[s] EXCEPT !.live = @ /\ sessions[s].expires > step]
<1>4. sessions' = [s \in 1..Len(sessions) |-> Swept(s)]
  BY DEF CleanupExpiredSessions
<1>5. ASSUME NEW s \in 1..Len(sessions)
      PROVE  /\ Swept(s) \in Session /\ Swept(s).factor = sessions[s].factor
             /\ Swept(s).mfa = sessions[s].mfa
  <2>1. sessions[s] \in Session
    BY <1>3
  <2>2. PICK b \in BOOLEAN : b = (sessions[s].live /\ sessions[s].expires > step)
    OBVIOUS
  <2>3. Swept(s) = [sessions[s] EXCEPT !.live = b]
    BY <2>1, <2>2 DEF Session
  <2>4. PICK new : new = [sessions[s] EXCEPT !.live = b]
    OBVIOUS
  <2>5. new \in Session /\ new.factor = sessions[s].factor /\ new.mfa = sessions[s].mfa
    BY <2>1, <2>2, <2>4 DEF Session
  <2> QED BY <2>3, <2>4, <2>5
<1> HIDE DEF Swept
<1>6. /\ sessions' \in Seq(Session) /\ Len(sessions') = Len(sessions)
      /\ \A s \in 1..Len(sessions) : /\ sessions'[s].factor = sessions[s].factor
                                     /\ sessions'[s].mfa = sessions[s].mfa
  BY <1>3, <1>4, <1>5
<1>7. LoginsCarry' /\ SessionsCarry' /\ HeldOnce'
  BY <1>2, <1>6, SessionsEnd
<1>8. SITypes'
  BY <1>1, <1>2, <1>6 DEF SITypes
<1>9. RequestsFit'
  BY <1>1, <1>2, <1>6 DEF RequestsFit
<1>10. AcceptedIsSpent' /\ NewestIsOpen' /\ EnrolledIsNewest' /\ CurrentCodeUsable'
  BY <1>1, <1>2 DEF AcceptedIsSpent, NewestIsOpen, EnrolledIsNewest, CurrentCodeUsable, Replayed
<1> QED BY <1>7, <1>8, <1>9, <1>10 DEF SIInv

LEMMA PassStep == ASSUME SIInv, Pass PROVE SIInv'
<1>1. SITypes /\ RequestsFit /\ AcceptedIsSpent /\ LoginsCarry /\ SessionsCarry /\ HeldOnce
      /\ NewestIsOpen /\ EnrolledIsNewest /\ CurrentCodeUsable
  BY DEF SIInv
<1>2. /\ step' = step + 1
      /\ UNCHANGED <<user, enrollments, unused, sessions, login, request, accepted>>
  BY DEF Pass
<1>3. SITypes'
  BY <1>1, <1>2 DEF SITypes
<1>4. CurrentCodeUsable'
  <2>1. step \in Nat /\ user.lastStep \in Int
    BY <1>1 DEF SITypes, Account
  <2> QED BY <1>1, <1>2, <2>1 DEF CurrentCodeUsable, Replayed
<1>5. RequestsFit' /\ AcceptedIsSpent' /\ NewestIsOpen' /\ EnrolledIsNewest'
  BY <1>1, <1>2 DEF RequestsFit, AcceptedIsSpent, NewestIsOpen, EnrolledIsNewest
<1>6. LoginsCarry' /\ SessionsCarry' /\ HeldOnce'
  BY <1>1, <1>2 DEF LoginsCarry, SessionsCarry, HeldOnce
<1> QED BY <1>3, <1>4, <1>5, <1>6 DEF SIInv

LEMMA SwitchStep ==
    ASSUME SIInv, NEW active \in BOOLEAN, SetUserActive(active)
    PROVE  SIInv'
<1>1. SITypes /\ RequestsFit /\ AcceptedIsSpent /\ LoginsCarry /\ SessionsCarry /\ HeldOnce
      /\ NewestIsOpen /\ EnrolledIsNewest /\ CurrentCodeUsable
  BY DEF SIInv
<1>2. /\ user' = [user EXCEPT !.active = active]
      /\ UNCHANGED <<step, enrollments, unused, sessions, login, request, accepted>>
  BY DEF SetUserActive
<1>3. /\ user' \in Account /\ user'.mfa = user.mfa /\ user'.secret = user.secret
      /\ user'.lastStep = user.lastStep
  BY <1>1, <1>2 DEF SITypes, Account
<1>4. SITypes'
  BY <1>1, <1>2, <1>3 DEF SITypes
<1>5. AcceptedIsSpent' /\ NewestIsOpen' /\ EnrolledIsNewest' /\ CurrentCodeUsable' /\ RequestsFit'
  BY <1>1, <1>2, <1>3
     DEF AcceptedIsSpent, NewestIsOpen, EnrolledIsNewest, CurrentCodeUsable, Replayed, RequestsFit
<1>6. LoginsCarry' /\ SessionsCarry' /\ HeldOnce'
  BY <1>1, <1>2 DEF LoginsCarry, SessionsCarry, HeldOnce
<1> QED BY <1>4, <1>5, <1>6 DEF SIInv

LEMMA SIInitInv == SIInit => SIInv
<1> SUFFICES ASSUME SIInit PROVE SIInv
  OBVIOUS
<1>1. /\ step = 1 /\ enrollments = << >> /\ unused = {} /\ sessions = << >> /\ accepted = {}
      /\ login = [l \in Login |-> Idle] /\ request = [r \in Request |-> Idle]
      /\ user = [active |-> TRUE, mfa |-> FALSE, secret |-> 0, lastStep |-> -1]
  BY DEF SIInit
<1>2. user \in Account /\ ~user.mfa
  BY <1>1 DEF Account
<1>3. Idle.pc = "idle"
  BY DEF Idle
<1>4. SITypes
  BY <1>1, <1>2 DEF SITypes
<1>5. RequestsFit /\ LoginsCarry /\ SessionsCarry /\ HeldOnce
  BY <1>1, <1>3 DEF RequestsFit, LoginsCarry, SessionsCarry, HeldOnce
<1>6. AcceptedIsSpent /\ NewestIsOpen /\ EnrolledIsNewest /\ CurrentCodeUsable
  BY <1>1, <1>2 DEF AcceptedIsSpent, NewestIsOpen, EnrolledIsNewest, CurrentCodeUsable
<1> QED BY <1>4, <1>5, <1>6 DEF SIInv

LEMMA SINextInv == SIInv /\ [SINext]_siVars => SIInv'
<1> SUFFICES ASSUME SIInv, [SINext]_siVars PROVE SIInv'
  OBVIOUS
<1>1. ASSUME NEW l \in Login, LoginNext(l) PROVE SIInv'
  <2>1. ASSUME NEW s \in (0..(MaxStep + 1)) \cup {NoTOTP}, VerifyMFA(l, s) PROVE SIInv'
    <3>1. s \in Int
      BY SignInAssumption DEF NoTOTP
    <3> QED BY <2>1, <3>1, VerifyStep
  <2>2. CASE LoginDies(l)
    BY <2>2, LoginEnds DEF LoginDies
  <2> QED BY <1>1, <2>1, <2>2, FindStep, RecoveryStep, EstablishStep DEF LoginNext
<1>2. ASSUME NEW r \in Request, RequestNext(r) PROVE SIInv'
  <2>1. ASSUME NEW s \in 1..Len(sessions), NEW asked \in {"setup", "logout"},
               AuthenticatedSession(r, s, asked, 0)
        PROVE  SIInv'
    BY <2>1, RequestStarts
  <2>2. ASSUME NEW s \in 1..Len(sessions), NEW e \in 1..Len(enrollments),
               AuthenticatedSession(r, s, "confirm", e)
        PROVE  SIInv'
    <3>1. e \in Nat
      BY DEF SIInv, SITypes
    <3> QED BY <2>2, <3>1, RequestStarts
  <2>3. CASE RequestDies(r)
    BY <2>3, RequestGivesUp DEF RequestDies
  <2> QED BY <1>2, <2>1, <2>2, <2>3, CreateStep, CompleteStep, LogoutStep DEF RequestNext
<1>3. CASE UNCHANGED siVars
  BY <1>3 DEF siVars, SIInv, SITypes, RequestsFit, AcceptedIsSpent, LoginsCarry, SessionsCarry,
              HeldOnce, NewestIsOpen, EnrolledIsNewest, CurrentCodeUsable, Replayed
<1> QED BY <1>1, <1>2, <1>3, PassStep, SwitchStep, CleanupStep DEF SINext

\* The whole invariant, from which the theorems below are read off.
LEMMA SIInvariance == SISpec => []SIInv
BY SIInitInv, SINextInv, PTL DEF SISpec

\* No TOTP step and no recovery code is good for two sessions, however logins,
\* enrollments, deactivations and deaths come between VerifyMFA, UseRecoveryCode and
\* EstablishSession.
THEOREM SecondFactorPerSessionAlways == SISpec => []SecondFactorPerSession
<1>1. SIInv => SecondFactorPerSession
  <2> SUFFICES ASSUME SIInv, NEW s \in 1..Len(sessions), sessions[s].mfa
               PROVE  /\ sessions[s].factor \in accepted
                      /\ \A t \in 1..Len(sessions) : t # s => sessions[t].factor # sessions[s].factor
    BY DEF SecondFactorPerSession
  <2>1. sessions[s].factor \in accepted /\ sessions[s].factor # NoFactor
    BY DEF SIInv, SessionsCarry, SITypes
  <2> QED BY <2>1 DEF SIInv, HeldOnce
<1> QED BY <1>1, SIInvariance, PTL

\* Of any number of setup pages only the last one can be confirmed, once and with fewer
\* wrong guesses than the limit (CreateMFAEnrollment, CompleteMFAEnrollment).
THEOREM EnrolledIsNewestAlways == SISpec => []EnrolledIsNewest
<1>1. SIInv => EnrolledIsNewest
  BY DEF SIInv
<1> QED BY <1>1, SIInvariance, PTL

\* CompleteMFAEnrollment leaves the current step for the first login, and no accepted
\* code shuts out codes beyond the next step.
THEOREM CurrentCodeUsableAlways == SISpec => []CurrentCodeUsable
<1>1. SIInv => CurrentCodeUsable
  BY DEF SIInv
<1> QED BY <1>1, SIInvariance, PTL

(***************************************************************************)
(* The login limiter.                                                      *)
(*                                                                         *)
(* A stretch of time as long as the first block is looked at from when it  *)
(* begins.  The handlers that read the clock before are its stragglers.    *)
(* Once one that is none has guessed, the block outlasts the stretch, and  *)
(* only those that have passed already guess, until a straggler records    *)
(* its old time and cuts the block short; it is then free itself.  With t  *)
(* handlers that are no stragglers the guesses made and those still to     *)
(* come are at most t + (t - 1) + ... + 1 (Budget).                        *)
(*                                                                         *)
(* That a block is never shorter than the first follows from the loop that *)
(* doubles it, a recursive function; AllNaturals is the induction.         *)
(***************************************************************************)
Less == OpToRel(<, Nat)

LEMMA LessIsWellFounded == IsWellFoundedOn(Less, Nat)
BY NatLessThanWellFounded, Zenon DEF Less

LEMMA LeastInLess ==
    ASSUME NEW T, T \subseteq Nat, T # {}
    PROVE  \E k \in T : \A l \in T : ~(<<l, k>> \in Less)
BY LessIsWellFounded, WFMin, Zenon

\* A set of naturals that holds 0, and with every number its successor, holds all.
LEMMA AllNaturals ==
    ASSUME NEW S, 0 \in S, \A n \in Nat : n \in S => n + 1 \in S
    PROVE  \A n \in Nat : n \in S
<1> DEFINE T == {n \in Nat : n \notin S}
<1> SUFFICES ASSUME T # {} PROVE FALSE
  OBVIOUS
<1>1. PICK k \in T : \A l \in T : ~(<<l, k>> \in Less)
  <2>1. T \subseteq Nat
    OBVIOUS
  <2> HIDE DEF T
  <2> QED BY <2>1, LeastInLess
<1>2. k \in Nat /\ k # 0 /\ k \notin S
  OBVIOUS
<1>3. k - 1 \in Nat /\ (k - 1) + 1 = k
  BY <1>2
<1>4. k - 1 \notin S
  BY <1>2, <1>3
<1>5. <<k - 1, k>> \in Less
  BY <1>2, <1>3 DEF Less, OpToRel
<1> QED BY <1>1, <1>3, <1>4, <1>5

LEMMA SmallerOfTwo ==
    ASSUME NEW a \in Nat, NEW b \in Nat
    PROVE  Min({a, b}) = IF a <= b THEN a ELSE b
<1> DEFINE m == IF a <= b THEN a ELSE b
<1>1. m \in {a, b} /\ \A y \in {a, b} : m <= y
  OBVIOUS
<1>2. \A x \in {a, b} : (\A y \in {a, b} : x <= y) => x = m
  OBVIOUS
<1> HIDE DEF m
<1>3. Min({a, b}) = m
  BY <1>1, <1>2 DEF Min
<1> QED BY <1>3 DEF m

\* A turn of the loop never makes the delay shorter.
LEMMA DoubledGrows ==
    ASSUME NEW d \in Nat
    PROVE  Doubled(d) \in Nat /\ Doubled(d) >= d
BY LimiterAssumption, SmallerOfTwo DEF Doubled

\* The delays of the first n turns.
Delays(n, s) ==
    /\ s \in [0..n -> Nat]
    /\ s[0] = BaseBackoff
    /\ \A m \in 1..n : s[m] = Doubled(s[m - 1])

LEMMA DelaysExist == \A n \in Nat : \E s : Delays(n, s)
<1> DEFINE S == {n \in Nat : \E s : Delays(n, s)}
<1>1. 0 \in S
  <2>1. Delays(0, [i \in 0..0 |-> BaseBackoff])
    BY LimiterAssumption DEF Delays
  <2> QED BY <2>1
<1>2. ASSUME NEW n \in Nat, n \in S PROVE n + 1 \in S
  <2>1. PICK s : Delays(n, s)
    BY <1>2
  <2> DEFINE t == [i \in 0..(n + 1) |-> IF i = n + 1 THEN Doubled(s[n]) ELSE s[i]]
  <2>2. s \in [0..n -> Nat] /\ s[n] \in Nat
    BY <2>1 DEF Delays
  <2>3. t \in [0..(n + 1) -> Nat]
    <3>1. Doubled(s[n]) \in Nat
      BY <2>2, DoubledGrows
    <3>2. \A i \in 0..(n + 1) : i # n + 1 => i \in 0..n
      OBVIOUS
    <3>3. \A i \in 0..n : s[i] \in Nat
      BY <2>2
    <3> QED BY <3>1, <3>2, <3>3
  <2>4. t[0] = BaseBackoff
    BY <2>1 DEF Delays
  <2>5. ASSUME NEW m \in 1..(n + 1) PROVE t[m] = Doubled(t[m - 1])
    <3>1. CASE m = n + 1
      BY <3>1
    <3>2. CASE m # n + 1
      <4>1. m \in 1..n /\ m - 1 \in 0..n
        BY <3>2
      <4>2. s[m] = Doubled(s[m - 1])
        BY <2>1, <4>1 DEF Delays
      <4> QED BY <3>2, <4>1, <4>2
    <3> QED BY <3>1, <3>2
  <2> HIDE DEF t
  <2>6. Delays(n + 1, t)
    BY <2>3, <2>4, <2>5 DEF Delays
  <2> QED BY <2>6
<1> HIDE DEF S
<1>3. \A n \in Nat : n \in S
  BY <1>1, <1>2, AllNaturals
<1> QED BY <1>3 DEF S

LEMMA DelaysAgree ==
    ASSUME NEW n \in Nat, NEW s, Delays(n, s), NEW m \in Nat, NEW t, Delays(m, t),
           NEW i \in 0..n, i <= m
    PROVE  s[i] = t[i]
<1> DEFINE S == {j \in Nat : j <= n /\ j <= m => s[j] = t[j]}
<1>1. 0 \in S
  BY DEF Delays
<1>2. ASSUME NEW j \in Nat, j \in S PROVE j + 1 \in S
  <2> SUFFICES ASSUME j + 1 <= n, j + 1 <= m PROVE s[j + 1] = t[j + 1]
    OBVIOUS
  <2>1. j + 1 \in 1..n /\ j + 1 \in 1..m /\ (j + 1) - 1 = j
    OBVIOUS
  <2>2. s[j + 1] = Doubled(s[j]) /\ t[j + 1] = Doubled(t[j])
    BY <2>1 DEF Delays
  <2>3. s[j] = t[j]
    BY <1>2
  <2> QED BY <2>2, <2>3
<1> HIDE DEF S
<1>3. i \in S
  BY <1>1, <1>2, AllNaturals
<1> QED BY <1>3 DEF S

\* The loop has the delays its definition says.
LEMMA DelayUnfolds ==
    Delay = [n \in Nat |-> IF n = 0 THEN BaseBackoff ELSE Doubled(Delay[n - 1])]
<1> DEFINE first(n) == CHOOSE s : Delays(n, s)
           f == [n \in Nat |-> first(n)[n]]
<1>1. ASSUME NEW n \in Nat PROVE Delays(n, first(n))
  BY DelaysExist, Zenon
<1> HIDE DEF first
<1>2. f = [n \in Nat |-> IF n = 0 THEN BaseBackoff ELSE Doubled(f[n - 1])]
  <2>1. ASSUME NEW n \in Nat
        PROVE  f[n] = IF n = 0 THEN BaseBackoff ELSE Doubled(f[n - 1])
    <3>1. CASE n = 0
      BY <1>1, <3>1 DEF Delays
    <3>2. CASE n # 0
      <4>1. n - 1 \in Nat /\ n - 1 \in 0..(n - 1) /\ n - 1 <= n /\ n \in 1..n
        BY <3>2
      <4>2. Delays(n, first(n)) /\ Delays(n - 1, first(n - 1))
        BY <1>1, <4>1
      <4>3. first(n - 1)[n - 1] = first(n)[n - 1]
        BY <4>1, <4>2, DelaysAgree
      <4>4. first(n)[n] = Doubled(first(n)[n - 1])
        BY <4>1, <4>2 DEF Delays
      <4> QED BY <3>2, <4>1, <4>3, <4>4
    <3> QED BY <3>1, <3>2
  <2> QED BY <2>1
<1> HIDE DEF f
<1>3. \E g : g = [n \in Nat |-> IF n = 0 THEN BaseBackoff ELSE Doubled(g[n - 1])]
  BY <1>2
<1> QED BY <1>3, Zenon DEF Delay

\* No block is shorter than the first.
LEMMA DelayAtLeastBase ==
    ASSUME NEW n \in Nat
    PROVE  Delay[n] \in Nat /\ Delay[n] >= BaseBackoff
<1> DEFINE S == {m \in Nat : Delay[m] \in Nat /\ Delay[m] >= BaseBackoff}
<1>1. 0 \in S
  BY DelayUnfolds, LimiterAssumption
<1>2. ASSUME NEW m \in Nat, m \in S PROVE m + 1 \in S
  <2>1. m + 1 \in Nat /\ m + 1 # 0 /\ (m + 1) - 1 = m
    OBVIOUS
  <2>2. Delay[m + 1] = Doubled(Delay[m])
    BY <2>1, DelayUnfolds
  <2>3. Delay[m] \in Nat /\ Delay[m] >= BaseBackoff
    BY <1>2
  <2> QED BY <2>1, <2>2, <2>3, DoubledGrows, LimiterAssumption
<1> HIDE DEF S
<1>3. n \in S
  BY <1>1, <1>2, AllNaturals
<1> QED BY <1>3 DEF S

(***************************************************************************)
(* A stretch of time as long as the first block.                           *)
(***************************************************************************)
EntryRecord == [failures : Nat, blockedUntil : Nat, lastSeen : Nat]
Busy == [pc : {"asks", "hashes"}, key : Key, now : Nat]

LLTypes ==
    /\ time \in Nat
    /\ DOMAIN entries \subseteq Key
    /\ \A k \in DOMAIN entries : entries[k] \in EntryRecord
    /\ attempt \in [LoginHandler -> {Waiting} \cup Busy]
    /\ guesses \in [Key -> Seq(Nat)]

\* Nobody is ahead of the clock.
InThePast ==
    /\ \A h \in LoginHandler : attempt[h].pc # "idle" => attempt[h].now <= time
    /\ \A k \in Key : \A i \in 1..Len(guesses[k]) : guesses[k][i] <= time

\* What is remembered are guesses beyond the threshold of an entry that is there.
GuessedBeyond ==
    \A k \in Key :
        guesses[k] # << >> => k \in DOMAIN entries /\ entries[k].failures > FailureThreshold

\* The handlers that are no stragglers from before the stretch,
Ready(from) == {h \in LoginHandler : attempt[h].pc = "idle" \/ attempt[h].now >= from}

\* those of them that have been let pass within it,
Passed(k, from) ==
    {h \in LoginHandler :
        /\ attempt[h].pc = "hashes" /\ attempt[h].key = k
        /\ attempt[h].now \in from..(from + BaseBackoff - 1)}

\* and the guesses made in it.
Spent(k, from) ==
    {i \in 1..Len(guesses[k]) : guesses[k][i] \in from..(from + BaseBackoff - 1)}

\* Who may still guess before another straggler records its failure: while the
\* block lasts beyond the stretch only those that have passed.
Loose(k, from) ==
    IF entries[k].blockedUntil >= from + BaseBackoff
    THEN Cardinality(Passed(k, from)) ELSE Cardinality(Ready(from))

Twice(n) == n * (n + 1)

\* The number of those that are no stragglers bounds the guesses, those to come
\* included.
Budget(k, from) ==
    Spent(k, from) # {}
    => 2 * (Cardinality(Spent(k, from)) + Loose(k, from)) <= Twice(Cardinality(Ready(from)))

LLInv ==
    /\ LLTypes
    /\ InThePast
    /\ GuessedBeyond
    /\ \A k \in Key, from \in 0..time : Budget(k, from)

LEMMA TwiceFacts ==
    ASSUME NEW n \in Nat
    PROVE  /\ Twice(n) \in Nat /\ 2 * n <= Twice(n)
           /\ Twice(n + 1) = Twice(n) + 2 * n + 2
<1>1. Twice(n) = n * n + n /\ Twice(n + 1) = n * n + n + 2 * n + 2
  BY DEF Twice
<1>2. n * n \in Nat /\ n * n >= n
  <2>1. CASE n = 0
    BY <2>1
  <2>2. CASE n # 0
    <3>1. n - 1 \in Nat
      BY <2>2
    <3>2. n * (n - 1) \in Nat
      BY <3>1
    <3>3. n * (n - 1) = n * n - n
      OBVIOUS
    <3> QED BY <3>2, <3>3
  <2> QED BY <2>1, <2>2
<1> QED BY <1>1, <1>2

LEMMA TwiceGrows ==
    ASSUME NEW n \in Nat, NEW m \in Nat, n <= m
    PROVE  Twice(n) <= Twice(m)
<1>1. (m - n) * (m + n + 1) \in Nat
  <2>1. m - n \in Nat /\ m + n + 1 \in Nat
    OBVIOUS
  <2> QED BY <2>1
<1>2. (m - n) * (m + n + 1) = Twice(m) - Twice(n)
  BY DEF Twice
<1> QED BY <1>1, <1>2, TwiceFacts

\* Every set here is finite, and who has passed is no straggler.
LEMMA Counts ==
    ASSUME LLTypes, NEW k \in Key, NEW from \in Nat
    PROVE  /\ IsFiniteSet(Ready(from)) /\ IsFiniteSet(Passed(k, from))
           /\ IsFiniteSet(Spent(k, from))
           /\ Cardinality(Ready(from)) \in Nat
           /\ Cardinality(Passed(k, from)) \in Nat
           /\ Cardinality(Spent(k, from)) \in Nat
           /\ Cardinality(Passed(k, from)) <= Cardinality(Ready(from))
           /\ Cardinality(Ready(from)) <= Cardinality(LoginHandler)
           /\ Spent(k, from) # {} => Cardinality(Spent(k, from)) > 0
           /\ Spent(k, from) = {} => Cardinality(Spent(k, from)) = 0
           /\ Loose(k, from) \in Nat
           /\ Loose(k, from) <= Cardinality(Ready(from))
           /\ Loose(k, from) >= Cardinality(Passed(k, from))
<1>0. BaseBackoff \in Nat \ {0} /\ IsFiniteSet(LoginHandler)
  BY LimiterAssumption
<1>1. Ready(from) \subseteq LoginHandler
  BY DEF Ready
<1>2. Passed(k, from) \subseteq Ready(from)
  <2>1. ASSUME NEW h \in Passed(k, from) PROVE h \in Ready(from)
    <3>1. h \in LoginHandler /\ attempt[h].now \in from..(from + BaseBackoff - 1)
      BY <2>1 DEF Passed
    <3>2. attempt[h].now >= from
      BY <1>0, <3>1
    <3> QED BY <3>1, <3>2 DEF Ready
  <2> QED BY <2>1
<1>3. IsFiniteSet(Ready(from)) /\ Cardinality(Ready(from)) <= Cardinality(LoginHandler)
  BY <1>0, <1>1, FS_Subset
<1>4. IsFiniteSet(Passed(k, from)) /\ Cardinality(Passed(k, from)) <= Cardinality(Ready(from))
  BY <1>2, <1>3, FS_Subset
<1>5. IsFiniteSet(Spent(k, from))
  <2>1. Len(guesses[k]) \in Nat
    BY DEF LLTypes
  <2>2. IsFiniteSet(1..Len(guesses[k]))
    BY <2>1, FS_Interval
  <2>3. Spent(k, from) \subseteq 1..Len(guesses[k])
    BY DEF Spent
  <2> QED BY <2>2, <2>3, FS_Subset
<1>6. /\ Cardinality(Ready(from)) \in Nat
      /\ Cardinality(Passed(k, from)) \in Nat
      /\ Cardinality(Spent(k, from)) \in Nat
  BY <1>3, <1>4, <1>5, FS_CardinalityType
<1>7. Spent(k, from) = {} <=> Cardinality(Spent(k, from)) = 0
  BY <1>5, FS_EmptySet
<1>8. /\ Loose(k, from) \in Nat
      /\ Loose(k, from) <= Cardinality(Ready(from))
      /\ Loose(k, from) >= Cardinality(Passed(k, from))
  BY <1>4, <1>6 DEF Loose
<1> QED BY <1>3, <1>4, <1>5, <1>6, <1>7, <1>8

(***************************************************************************)
(* The table and the times.                                                *)
(***************************************************************************)
LEMMA PrunedTable ==
    ASSUME LLTypes, NEW now
    PROVE  /\ DOMAIN Pruned(now) \subseteq DOMAIN entries
           /\ \A k \in DOMAIN Pruned(now) : Pruned(now)[k] = entries[k]
BY DEF Pruned, Restrict

\* Whatever is evicted, the others stay as they are.
LEMMA KeptTable ==
    ASSUME LLTypes, NEW now, NEW kept,
           kept \in EvictOldest(Pruned(now)) \/ kept = Pruned(now)
    PROVE  /\ DOMAIN kept \subseteq DOMAIN entries
           /\ \A k \in DOMAIN kept : kept[k] = entries[k]
<1>1. CASE kept = Pruned(now)
  BY <1>1, PrunedTable
<1>2. CASE kept \in EvictOldest(Pruned(now))
  <2>1. PICK k : kept = Restrict(Pruned(now), DOMAIN Pruned(now) \ {k})
    BY <1>2 DEF EvictOldest
  <2>2. DOMAIN kept \subseteq DOMAIN Pruned(now)
        /\ \A j \in DOMAIN kept : kept[j] = Pruned(now)[j]
    BY <2>1 DEF Restrict
  <2> QED BY <2>2, PrunedTable
<1> QED BY <1>1, <1>2

LEMMA BusyHandler ==
    ASSUME LLTypes, NEW h \in LoginHandler, attempt[h].pc \in {"asks", "hashes"}
    PROVE  /\ attempt[h] \in Busy
           /\ attempt[h].key \in Key /\ attempt[h].now \in Nat
<1>1. attempt[h] \in {Waiting} \cup Busy
  BY DEF LLTypes
<1>2. attempt[h] # Waiting
  BY DEF Waiting
<1>3. attempt[h] \in Busy
  BY <1>1, <1>2
<1> QED BY <1>3 DEF Busy

\* A failure is recorded with a block, once the threshold is reached, that is no
\* shorter than the first.
LEMMA FailedEntry ==
    ASSUME NEW entry \in EntryRecord, NEW now \in Nat
    PROVE  /\ Failed(entry, now) \in EntryRecord
           /\ Failed(entry, now).failures = entry.failures + 1
           /\ entry.failures + 1 > FailureThreshold
              => Failed(entry, now).blockedUntil >= now + BaseBackoff
<1> DEFINE n == entry.failures + 1
           until == IF Blocks(n) THEN now + Backoff(n) ELSE entry.blockedUntil
<1>1. entry.failures \in Nat /\ entry.blockedUntil \in Nat
  BY DEF EntryRecord
<1>2. n \in Nat /\ FailureThreshold \in Nat /\ BaseBackoff \in Nat
  BY <1>1, LimiterAssumption
<1>3. Blocks(n) => Backoff(n) \in Nat /\ Backoff(n) >= BaseBackoff
  <2> SUFFICES ASSUME Blocks(n) PROVE Backoff(n) \in Nat /\ Backoff(n) >= BaseBackoff
    OBVIOUS
  <2>1. n - FailureThreshold \in Nat
    BY <1>2 DEF Blocks
  <2> HIDE DEF n
  <2> QED BY <2>1, DelayAtLeastBase DEF Backoff
<1>4. until \in Nat /\ (n > FailureThreshold => until >= now + BaseBackoff)
  <2>1. n > FailureThreshold => Blocks(n)
    BY <1>2 DEF Blocks
  <2> HIDE DEF n
  <2> QED BY <1>1, <1>2, <1>3, <2>1
<1>5. Failed(entry, now) = [failures |-> n, lastSeen |-> now, blockedUntil |-> until]
  BY DEF Failed
<1> HIDE DEF n, until
<1>6. /\ Failed(entry, now) \in EntryRecord
      /\ Failed(entry, now).failures = n /\ Failed(entry, now).blockedUntil = until
  BY <1>2, <1>4, <1>5 DEF EntryRecord
<1> QED BY <1>4, <1>6 DEF n

LEMMA NoEntryRecord == NoEntry \in EntryRecord /\ NoEntry.failures = 0
BY DEF NoEntry, EntryRecord

\* Remembering yields sequences of times.
LEMMA RememberedTypes ==
    ASSUME LLTypes, NEW table
    PROVE  /\ Remembered(table) \in [Key -> Seq(Nat)]
           /\ \A k \in Key : Remembered(table)[k] = IF k \in DOMAIN table THEN guesses[k] ELSE << >>
<1>1. << >> \in Seq(Nat)
  OBVIOUS
<1> QED BY <1>1 DEF Remembered, LLTypes

\* What RecordFailure does to the key of its handler and to the others.
LEMMA FailureRecorded ==
    ASSUME LLTypes, NEW h \in LoginHandler, RecordFailure(h), NEW k \in Key
    PROVE  LET now == attempt[h].now IN
           /\ DOMAIN entries' \subseteq Key
           /\ k \in DOMAIN entries' => entries'[k] \in EntryRecord
           /\ guesses'[k] \in Seq(Nat)
           /\ \/ guesses'[k] = << >>
              \/ /\ k # attempt[h].key /\ guesses'[k] = guesses[k]
                 /\ k \in DOMAIN entries /\ k \in DOMAIN entries' /\ entries'[k] = entries[k]
              \/ /\ k = attempt[h].key /\ k \in DOMAIN entries /\ k \in DOMAIN entries'
                 /\ entries'[k].failures = entries[k].failures + 1
                 /\ IF entries'[k].failures > FailureThreshold
                    THEN /\ guesses'[k] = Append(guesses[k], now)
                         /\ entries'[k].blockedUntil >= now + BaseBackoff
                    ELSE guesses'[k] = guesses[k]
<1> DEFINE key == attempt[h].key
           now == attempt[h].now
<1>0. key \in Key /\ now \in Nat
  BY BusyHandler DEF RecordFailure
<1>1. PICK kept :
        /\ kept \in EvictOldest(Pruned(now)) \/ kept = Pruned(now)
        /\ LET entry == Failed(IF key \in DOMAIN kept THEN kept[key] ELSE NoEntry, now) IN
           /\ entries' = With(kept, key, entry)
           /\ guesses' = IF entry.failures > FailureThreshold
                         THEN [Remembered(kept) EXCEPT ![key] = Append(@, now)]
                         ELSE Remembered(kept)
  BY DEF RecordFailure
<1> DEFINE old == IF key \in DOMAIN kept THEN kept[key] ELSE NoEntry
           entry == Failed(old, now)
<1>2. /\ entries' = With(kept, key, entry)
      /\ guesses' = IF entry.failures > FailureThreshold
                    THEN [Remembered(kept) EXCEPT ![key] = Append(@, now)]
                    ELSE Remembered(kept)
  BY <1>1
<1>3. DOMAIN kept \subseteq DOMAIN entries /\ \A j \in DOMAIN kept : kept[j] = entries[j]
  BY <1>1, KeptTable
<1>4. old \in EntryRecord
  BY <1>3, NoEntryRecord DEF LLTypes
<1> HIDE DEF old, now, key
<1>5. /\ entry \in EntryRecord /\ entry.failures = old.failures + 1
      /\ entry.failures > FailureThreshold => entry.blockedUntil >= now + BaseBackoff
  BY <1>0, <1>4, FailedEntry
<1> HIDE DEF entry
<1>6. /\ DOMAIN entries' = DOMAIN kept \cup {key} /\ entries'[key] = entry
      /\ \A j \in DOMAIN kept : j # key => entries'[j] = kept[j]
  BY <1>2 DEF With
<1>7. /\ Remembered(kept) \in [Key -> Seq(Nat)]
      /\ Remembered(kept)[k] = IF k \in DOMAIN kept THEN guesses[k] ELSE << >>
  BY RememberedTypes
<1>8. /\ k # key => guesses'[k] = Remembered(kept)[k]
      /\ k = key => guesses'[k] = IF entry.failures > FailureThreshold
                                  THEN Append(Remembered(kept)[k], now) ELSE Remembered(kept)[k]
  BY <1>0, <1>2, <1>7
<1>9. DOMAIN entries' \subseteq Key /\ (k \in DOMAIN entries' => entries'[k] \in EntryRecord)
  <2>1. DOMAIN entries \subseteq Key /\ \A j \in DOMAIN entries : entries[j] \in EntryRecord
    BY DEF LLTypes
  <2> QED BY <1>0, <1>3, <1>5, <1>6, <2>1
<1>10. guesses'[k] \in Seq(Nat)
  <2>1. Remembered(kept)[k] \in Seq(Nat)
    BY <1>7
  <2>2. Append(Remembered(kept)[k], now) \in Seq(Nat)
    BY <1>0, <2>1
  <2> QED BY <1>8, <2>1, <2>2
<1>11. CASE k # key
  BY <1>3, <1>6, <1>7, <1>8, <1>9, <1>10, <1>11 DEF key, now
<1>12. CASE k = key /\ k \in DOMAIN kept
  <2>1. old = entries[k]
    BY <1>3, <1>12 DEF old
  <2> QED BY <1>3, <1>5, <1>6, <1>7, <1>8, <1>9, <1>10, <1>12, <2>1 DEF key, now
<1>13. CASE k = key /\ k \notin DOMAIN kept
  <2>1. old.failures = 0
    BY <1>13, NoEntryRecord DEF old
  <2>2. ~(entry.failures > FailureThreshold)
    BY <1>5, <2>1, LimiterAssumption
  <2>3. guesses'[k] = << >>
    BY <1>7, <1>8, <1>13, <2>2
  <2> QED BY <1>9, <1>10, <2>3
<1> QED BY <1>11, <1>12, <1>13

\* RetryAfter forgets entries or keeps them with their block; whom it lets pass
\* has not been blocked.
LEMMA Asked ==
    ASSUME LLTypes, NEW h \in LoginHandler, RetryAfter(h), NEW k \in Key
    PROVE  /\ DOMAIN entries' \subseteq Key
           /\ k \in DOMAIN entries' => entries'[k] \in EntryRecord
           /\ guesses' \in [Key -> Seq(Nat)]
           /\ \/ guesses'[k] = << >>
              \/ /\ guesses'[k] = guesses[k]
                 /\ k \in DOMAIN entries /\ k \in DOMAIN entries'
                 /\ entries'[k].blockedUntil = entries[k].blockedUntil
                 /\ entries'[k].failures = entries[k].failures
                 /\ \/ attempt' = [attempt EXCEPT ![h] = Waiting]
                    \/ /\ attempt' = [attempt EXCEPT ![h].pc = "hashes"]
                       /\ attempt[h].key = k => ~(attempt[h].now < entries[k].blockedUntil)
           /\ \/ attempt' = [attempt EXCEPT ![h] = Waiting]
              \/ attempt' = [attempt EXCEPT ![h].pc = "hashes"]
<1> DEFINE key == attempt[h].key
           now == attempt[h].now
           table == Pruned(now)
           blocked == key \in DOMAIN table /\ now < table[key].blockedUntil
<1>0. key \in Key /\ now \in Nat
  BY BusyHandler DEF RetryAfter
<1>1. /\ entries' = IF blocked THEN [table EXCEPT ![key].lastSeen = now] ELSE table
      /\ attempt' = [attempt EXCEPT ![h] = IF blocked THEN Waiting ELSE [@ EXCEPT !.pc = "hashes"]]
      /\ guesses' = Remembered(table)
  BY DEF RetryAfter
<1>2. DOMAIN table \subseteq DOMAIN entries /\ \A j \in DOMAIN table : table[j] = entries[j]
  BY PrunedTable
<1>3. /\ guesses' \in [Key -> Seq(Nat)]
      /\ guesses'[k] = IF k \in DOMAIN table THEN guesses[k] ELSE << >>
  BY <1>1, RememberedTypes
<1>4. /\ DOMAIN entries' = DOMAIN table
      /\ k \in DOMAIN table => /\ entries'[k] \in EntryRecord
                               /\ entries'[k].blockedUntil = entries[k].blockedUntil
                               /\ entries'[k].failures = entries[k].failures
  <2>1. ASSUME k \in DOMAIN table
        PROVE  entries[k] \in EntryRecord
    BY <1>2, <2>1 DEF LLTypes
  <2> HIDE DEF table, now, key
  <2>2. CASE ~blocked
    <3>1. entries' = table
      BY <1>1, <2>2
    <3> QED BY <1>2, <2>1, <3>1
  <2>3. CASE blocked
    <3>1. entries' = [table EXCEPT ![key] = [table[key] EXCEPT !.lastSeen = now]]
      BY <1>1, <2>3
    <3> HIDE DEF blocked
    <3>2. CASE k = key
      <4>1. k \in DOMAIN table => entries'[k] = [entries[k] EXCEPT !.lastSeen = now]
        BY <1>2, <3>1, <3>2
      <4> QED BY <1>0, <2>1, <3>1, <4>1 DEF EntryRecord
    <3>3. CASE k # key
      BY <1>2, <2>1, <3>1, <3>3
    <3> QED BY <3>2, <3>3
  <2> QED BY <2>2, <2>3
<1>5. \/ blocked /\ attempt' = [attempt EXCEPT ![h] = Waiting]
      \/ ~blocked /\ attempt' = [attempt EXCEPT ![h].pc = "hashes"]
  BY <1>1
<1>6. k \in DOMAIN table /\ key = k /\ ~blocked => ~(now < entries[k].blockedUntil)
  BY <1>2
<1>7. DOMAIN entries' \subseteq Key /\ (k \in DOMAIN entries' => entries'[k] \in EntryRecord)
  BY <1>2, <1>4 DEF LLTypes
<1> QED BY <1>2, <1>3, <1>4, <1>5, <1>6, <1>7

\* How a handler moves on: done, let pass, or arrived.
Moves(h) ==
    \/ attempt' = [attempt EXCEPT ![h] = Waiting]
    \/ attempt[h].pc = "asks" /\ attempt' = [attempt EXCEPT ![h].pc = "hashes"]
    \/ /\ attempt[h].pc = "idle"
       /\ \E k \in Key : attempt' = [attempt EXCEPT ![h] = [pc |-> "asks", key |-> k, now |-> time]]

LEMMA MovesTypes ==
    ASSUME LLTypes, InThePast, NEW h \in LoginHandler, Moves(h), time' = time
    PROVE  /\ attempt' \in [LoginHandler -> {Waiting} \cup Busy]
           /\ \A g \in LoginHandler : attempt'[g].pc # "idle" => attempt'[g].now <= time'
<1>0. attempt \in [LoginHandler -> {Waiting} \cup Busy] /\ time \in Nat
  BY DEF LLTypes
<1>1. Waiting.pc = "idle"
  BY DEF Waiting
<1> DEFINE fine(a) == a \in {Waiting} \cup Busy /\ (a.pc # "idle" => a.now <= time)
<1>2. \A g \in LoginHandler : fine(attempt[g])
  BY <1>0 DEF InThePast
<1>3. PICK a : attempt' = [attempt EXCEPT ![h] = a] /\ fine(a)
  <2>1. CASE attempt' = [attempt EXCEPT ![h] = Waiting]
    BY <1>1, <2>1
  <2>2. CASE attempt[h].pc = "asks" /\ attempt' = [attempt EXCEPT ![h].pc = "hashes"]
    <3>1. attempt[h] \in Busy
      BY <2>2, BusyHandler
    <3>2. /\ [attempt[h] EXCEPT !.pc = "hashes"] \in Busy
          /\ [attempt[h] EXCEPT !.pc = "hashes"].now = attempt[h].now
      BY <3>1 DEF Busy
    <3>3. attempt[h].now <= time
      BY <2>2 DEF InThePast
    <3> QED BY <2>2, <3>2, <3>3
  <2>3. CASE \E k \in Key : attempt' = [attempt EXCEPT ![h] = [pc |-> "asks", key |-> k, now |-> time]]
    <3>1. PICK k \in Key : attempt' = [attempt EXCEPT ![h] = [pc |-> "asks", key |-> k, now |-> time]]
      BY <2>3
    <3>2. fine([pc |-> "asks", key |-> k, now |-> time])
      BY <1>0 DEF Busy
    <3> QED BY <3>1, <3>2
  <2> QED BY <2>1, <2>2, <2>3 DEF Moves
<1>4. \A g \in LoginHandler : attempt'[g] = IF g = h THEN a ELSE attempt[g]
  BY <1>0, <1>3
<1>5. DOMAIN attempt' = LoginHandler /\ attempt' = [g \in LoginHandler |-> attempt'[g]]
  BY <1>0, <1>3
<1>6. \A g \in LoginHandler : fine(attempt'[g])
  BY <1>2, <1>3, <1>4
<1> HIDE DEF fine
<1>7. \A g \in LoginHandler : attempt'[g] \in {Waiting} \cup Busy
                              /\ (attempt'[g].pc # "idle" => attempt'[g].now <= time)
  BY <1>6 DEF fine
<1> QED BY <1>5, <1>7

\* What the table and the history may become: forgotten, kept, or one more guess.
Recounts(k) ==
    /\ k \in DOMAIN entries' => entries'[k] \in EntryRecord
    /\ guesses'[k] \in Seq(Nat)
    /\ \/ guesses'[k] = << >>
       \/ /\ guesses'[k] = guesses[k]
          /\ k \in DOMAIN entries => k \in DOMAIN entries' /\ entries'[k].failures >= entries[k].failures
       \/ /\ k \in DOMAIN entries' /\ entries'[k].failures > FailureThreshold
          /\ \E t \in 0..time : guesses'[k] = Append(guesses[k], t)

LEMMA RecountsTypes ==
    ASSUME LLTypes, InThePast, GuessedBeyond, time' = time,
           DOMAIN entries' \subseteq Key, DOMAIN guesses' = Key,
           guesses' = [k \in Key |-> guesses'[k]],
           \A k \in Key : Recounts(k)
    PROVE  /\ \A k \in DOMAIN entries' : entries'[k] \in EntryRecord
           /\ guesses' \in [Key -> Seq(Nat)]
           /\ \A k \in Key : \A i \in 1..Len(guesses'[k]) : guesses'[k][i] <= time'
           /\ GuessedBeyond'
<1>1. \A k \in DOMAIN entries' : entries'[k] \in EntryRecord
  BY DEF Recounts
<1>2. guesses' \in [Key -> Seq(Nat)]
  BY DEF Recounts
<1>3. ASSUME NEW k \in Key
      PROVE  /\ \A i \in 1..Len(guesses'[k]) : guesses'[k][i] <= time'
             /\ guesses'[k] # << >>
                => k \in DOMAIN entries' /\ entries'[k].failures > FailureThreshold
  <2>0. /\ guesses[k] \in Seq(Nat) /\ time \in Nat /\ FailureThreshold \in Nat
        /\ k \in DOMAIN entries => entries[k].failures \in Nat
        /\ k \in DOMAIN entries' => entries'[k].failures \in Nat
    BY <1>1, LimiterAssumption DEF LLTypes, EntryRecord
  <2>1. CASE guesses'[k] = << >>
    BY <2>1
  <2>2. CASE /\ guesses'[k] = guesses[k]
             /\ k \in DOMAIN entries => k \in DOMAIN entries' /\ entries'[k].failures >= entries[k].failures
    <3>1. /\ \A i \in 1..Len(guesses[k]) : guesses[k][i] <= time
          /\ guesses[k] # << >> => k \in DOMAIN entries /\ entries[k].failures > FailureThreshold
      BY DEF InThePast, GuessedBeyond
    <3> QED BY <2>0, <2>2, <3>1
  <2>3. CASE /\ k \in DOMAIN entries' /\ entries'[k].failures > FailureThreshold
             /\ \E t \in 0..time : guesses'[k] = Append(guesses[k], t)
    <3>1. PICK t \in 0..time : guesses'[k] = Append(guesses[k], t)
      BY <2>3
    <3>2. \A i \in 1..Len(guesses[k]) : guesses[k][i] <= time
      BY DEF InThePast
    <3>3. \A i \in 1..Len(guesses'[k]) : guesses'[k][i] <= time
      BY <2>0, <3>1, <3>2
    <3> QED BY <2>3, <3>3
  <2> QED BY <2>1, <2>2, <2>3 DEF Recounts
<1>4. GuessedBeyond'
  BY <1>3 DEF GuessedBeyond
<1> QED BY <1>1, <1>2, <1>3, <1>4

\* The part of the invariant that is not about a stretch.
Sound == LLTypes /\ InThePast /\ GuessedBeyond

LEMMA HandlerSound ==
    ASSUME Sound, NEW h \in LoginHandler, HandlerNext(h)
    PROVE  Sound' /\ Moves(h) /\ time' = time
<1>0. LLTypes /\ InThePast /\ GuessedBeyond
  BY DEF Sound
<1> SUFFICES /\ Moves(h) /\ time' = time /\ DOMAIN entries' \subseteq Key
             /\ guesses' = [k \in Key |-> guesses'[k]]
             /\ \A k \in Key : Recounts(k)
  <2>1. DOMAIN guesses' = Key
    OBVIOUS
  <2>2. time' \in Nat
    BY <1>0 DEF LLTypes
  <2> QED BY <1>0, <2>1, <2>2, MovesTypes, RecountsTypes DEF Sound, LLTypes, InThePast
<1>1. ASSUME UNCHANGED <<time, entries, guesses>>, Moves(h)
      PROVE  /\ Moves(h) /\ time' = time /\ DOMAIN entries' \subseteq Key
             /\ guesses' = [k \in Key |-> guesses'[k]]
             /\ \A k \in Key : Recounts(k)
  <2>1. \A k \in Key : k \in DOMAIN entries => entries[k].failures >= entries[k].failures
    BY <1>0 DEF LLTypes, EntryRecord
  <2> QED BY <1>0, <1>1, <2>1 DEF Recounts, LLTypes
<1>2. CASE \E k \in Key : Arrive(h, k)
  <2>1. UNCHANGED <<time, entries, guesses>> /\ Moves(h)
    BY <1>2 DEF Arrive, Moves
  <2> QED BY <1>1, <2>1
<1>3. CASE LoginFails(h)
  <2>1. UNCHANGED <<time, entries, guesses>> /\ Moves(h)
    BY <1>3 DEF LoginFails, Moves
  <2> QED BY <1>1, <2>1
<1>4. CASE RetryAfter(h)
  <2>2. attempt[h].key \in Key /\ attempt[h].pc = "asks" /\ time' = time
    BY <1>0, <1>4, BusyHandler DEF RetryAfter
  <2>3. DOMAIN entries' \subseteq Key /\ guesses' \in [Key -> Seq(Nat)] /\ Moves(h)
    BY <1>0, <1>4, <2>2, Asked DEF Moves
  <2>4. ASSUME NEW k \in Key PROVE Recounts(k)
    <3>1. /\ k \in DOMAIN entries' => entries'[k] \in EntryRecord
          /\ \/ guesses'[k] = << >>
             \/ /\ guesses'[k] = guesses[k]
                /\ k \in DOMAIN entries /\ k \in DOMAIN entries'
                /\ entries'[k].failures = entries[k].failures
      BY <1>0, <1>4, Asked
    <3>2. k \in DOMAIN entries => entries[k].failures >= entries[k].failures
      BY <1>0 DEF LLTypes, EntryRecord
    <3> QED BY <2>3, <3>1, <3>2 DEF Recounts
  <2> QED BY <2>2, <2>3, <2>4
<1>5. CASE RecordFailure(h)
  <2>1. /\ attempt[h].key \in Key /\ attempt[h].now \in Nat
        /\ attempt[h].pc = "hashes" /\ time' = time
    BY <1>0, <1>5, BusyHandler DEF RecordFailure
  <2>2. attempt[h].now \in 0..time
    BY <1>0, <2>1 DEF InThePast, LLTypes
  <2>3. Moves(h)
    BY <1>5 DEF RecordFailure, Moves
  <2>4. DOMAIN entries' \subseteq Key
    BY <1>0, <1>5, <2>1, FailureRecorded
  <2>5. guesses' = [k \in Key |-> guesses'[k]]
    <3>1. \A table : Remembered(table) = [k \in Key |-> Remembered(table)[k]]
      BY DEF Remembered
    <3> QED BY <1>5, <3>1 DEF RecordFailure
  <2>6. ASSUME NEW k \in Key PROVE Recounts(k)
    <3>1. /\ k \in DOMAIN entries' => entries'[k] \in EntryRecord
          /\ guesses'[k] \in Seq(Nat)
          /\ \/ guesses'[k] = << >>
             \/ /\ guesses'[k] = guesses[k]
                /\ k \in DOMAIN entries /\ k \in DOMAIN entries' /\ entries'[k] = entries[k]
             \/ /\ k \in DOMAIN entries /\ k \in DOMAIN entries'
                /\ entries'[k].failures = entries[k].failures + 1
                /\ IF entries'[k].failures > FailureThreshold
                   THEN guesses'[k] = Append(guesses[k], attempt[h].now)
                   ELSE guesses'[k] = guesses[k]
      BY <1>0, <1>5, FailureRecorded
    <3>2. k \in DOMAIN entries => entries[k].failures \in Nat
      BY <1>0 DEF LLTypes, EntryRecord
    <3> QED BY <2>2, <3>1, <3>2 DEF Recounts
  <2> QED BY <2>1, <2>3, <2>4, <2>5, <2>6
<1>6. CASE RecordSuccess(h)
  <2>1. /\ entries' = Restrict(entries, DOMAIN entries \ {attempt[h].key})
        /\ guesses' = Remembered(entries') /\ Moves(h) /\ time' = time
    BY <1>6 DEF RecordSuccess, Moves
  <2>2. /\ DOMAIN entries' \subseteq DOMAIN entries
        /\ \A k \in DOMAIN entries' : entries'[k] = entries[k]
    BY <2>1 DEF Restrict
  <2>3. DOMAIN entries' \subseteq Key /\ guesses' = [k \in Key |-> guesses'[k]]
    BY <1>0, <2>1, <2>2 DEF LLTypes, Remembered
  <2>4. ASSUME NEW k \in Key PROVE Recounts(k)
    <3>1. guesses'[k] = IF k \in DOMAIN entries' THEN guesses[k] ELSE << >>
      BY <2>1 DEF Remembered
    <3>2. /\ k \in DOMAIN entries' => entries'[k] \in EntryRecord
          /\ k \in DOMAIN entries' => entries'[k].failures >= entries[k].failures
      BY <1>0, <2>2 DEF LLTypes, EntryRecord
    <3>3. guesses'[k] \in Seq(Nat)
      BY <1>0, <3>1 DEF LLTypes
    <3> QED BY <3>1, <3>2, <3>3 DEF Recounts
  <2> QED BY <2>1, <2>3, <2>4
<1> QED BY <1>2, <1>3, <1>4, <1>5, <1>6 DEF HandlerNext

(***************************************************************************)
(* The budget of a stretch.                                                *)
(***************************************************************************)
\* A handler that is done is no straggler any more, and has not passed any more.
LEMMA DoneCounts ==
    ASSUME LLTypes, NEW h \in LoginHandler, NEW k \in Key, NEW from \in Nat,
           attempt' = [attempt EXCEPT ![h] = Waiting]
    PROVE  /\ Cardinality(Ready(from))' = IF h \in Ready(from) THEN Cardinality(Ready(from))
                                          ELSE Cardinality(Ready(from)) + 1
           /\ Cardinality(Passed(k, from))' = IF h \in Passed(k, from)
                                              THEN Cardinality(Passed(k, from)) - 1
                                              ELSE Cardinality(Passed(k, from))
<1>1. \A g \in LoginHandler : attempt'[g] = IF g = h THEN Waiting ELSE attempt[g]
  BY DEF LLTypes
<1>2. Waiting.pc = "idle"
  BY DEF Waiting
<1>3. Ready(from)' = Ready(from) \cup {h}
  BY <1>1, <1>2 DEF Ready
<1>4. Passed(k, from)' = Passed(k, from) \ {h}
  BY <1>1, <1>2 DEF Passed
<1>5. IsFiniteSet(Ready(from)) /\ IsFiniteSet(Passed(k, from))
  BY Counts
<1>6. /\ Cardinality(Ready(from) \cup {h}) = IF h \in Ready(from) THEN Cardinality(Ready(from))
                                             ELSE Cardinality(Ready(from)) + 1
      /\ Cardinality(Passed(k, from) \ {h}) = IF h \in Passed(k, from)
                                              THEN Cardinality(Passed(k, from)) - 1
                                              ELSE Cardinality(Passed(k, from))
  BY <1>5, FS_AddElement, FS_RemoveElement
<1> QED BY <1>3, <1>4, <1>6

\* Nothing is added to the history of the key, and its block stays.
LEMMA QuietBudget ==
    ASSUME LLTypes, LLTypes', NEW h \in LoginHandler, NEW k \in Key, NEW from \in Nat,
           attempt' = [attempt EXCEPT ![h] = Waiting],
           guesses'[k] = guesses[k], entries'[k].blockedUntil = entries[k].blockedUntil,
           Budget(k, from)
    PROVE  Budget(k, from)'
<1> DEFINE t == Cardinality(Ready(from))
           x == Cardinality(Passed(k, from))
           c == Cardinality(Spent(k, from))
<1>1. t \in Nat /\ x \in Nat /\ c \in Nat /\ x <= t
  BY Counts
<1>2. t' \in {t, t + 1} /\ x' \in {x, x - 1}
  BY DoneCounts
<1>3. Spent(k, from)' = Spent(k, from)
  BY DEF Spent
<1> SUFFICES ASSUME Spent(k, from) # {} PROVE 2 * (c + Loose(k, from)') <= Twice(t')
  BY <1>3 DEF Budget
<1>4. 2 * (c + Loose(k, from)) <= Twice(t)
  BY DEF Budget
<1>5. /\ Twice(t) \in Nat /\ Twice(t + 1) = Twice(t) + 2 * t + 2
  BY <1>1, TwiceFacts
<1>6. \/ Loose(k, from) = x /\ Loose(k, from)' = x'
      \/ Loose(k, from) = t /\ Loose(k, from)' = t'
  BY DEF Loose
<1> HIDE DEF t, x, c
<1>7. CASE t' = t
  BY <1>1, <1>2, <1>4, <1>5, <1>6, <1>7
<1>8. CASE t' = t + 1
  <2>1. Twice(t') = Twice(t) + 2 * t + 2
    BY <1>5, <1>8
  <2> QED BY <1>1, <1>2, <1>4, <1>5, <1>6, <1>8, <2>1
<1> QED BY <1>2, <1>7, <1>8

\* A handler asks and is let pass: not past a block that outlasts the stretch.
LEMMA PassingBudget ==
    ASSUME LLTypes, LLTypes', NEW h \in LoginHandler, NEW k \in Key, NEW from \in Nat,
           attempt[h].pc = "asks", attempt' = [attempt EXCEPT ![h].pc = "hashes"],
           guesses'[k] = guesses[k], entries'[k].blockedUntil = entries[k].blockedUntil,
           k \in DOMAIN entries,
           attempt[h].key = k => ~(attempt[h].now < entries[k].blockedUntil),
           Budget(k, from)
    PROVE  Budget(k, from)'
<1>0. attempt[h] \in Busy /\ attempt[h].now \in Nat /\ entries[k].blockedUntil \in Nat
      /\ BaseBackoff \in Nat
  BY BusyHandler, LimiterAssumption DEF LLTypes, EntryRecord
<1>1. /\ \A g \in LoginHandler : g # h => attempt'[g] = attempt[g]
      /\ attempt'[h].pc = "hashes" /\ attempt'[h].key = attempt[h].key
      /\ attempt'[h].now = attempt[h].now
  BY <1>0 DEF LLTypes, Busy
<1>2. Ready(from)' = Ready(from)
  BY <1>1 DEF Ready
<1>3. Spent(k, from)' = Spent(k, from)
  BY DEF Spent
<1>4. CASE entries[k].blockedUntil >= from + BaseBackoff
  <2>1. ~(attempt[h].key = k /\ attempt[h].now \in from..(from + BaseBackoff - 1))
    BY <1>0, <1>4
  <2>2. Passed(k, from)' = Passed(k, from)
    BY <1>1, <2>1 DEF Passed
  <2> QED BY <1>2, <1>3, <2>2 DEF Budget, Loose
<1>5. CASE ~(entries[k].blockedUntil >= from + BaseBackoff)
  <2>1. Loose(k, from)' = Loose(k, from)
    BY <1>2, <1>5 DEF Loose
  <2> QED BY <1>2, <1>3, <2>1 DEF Budget
<1> QED BY <1>4, <1>5

\* A handler arrives at the time it reads, within the stretch or after it.
LEMMA ArrivingBudget ==
    ASSUME LLTypes, NEW h \in LoginHandler, NEW k \in Key, NEW from \in 0..time,
           attempt[h].pc = "idle", UNCHANGED <<time, entries, guesses>>, NEW key \in Key,
           attempt' = [attempt EXCEPT ![h] = [pc |-> "asks", key |-> key, now |-> time]],
           Budget(k, from)
    PROVE  Budget(k, from)'
<1>1. /\ \A g \in LoginHandler : g # h => attempt'[g] = attempt[g]
      /\ attempt'[h].pc = "asks" /\ attempt'[h].now = time
  BY DEF LLTypes
<1>2. Ready(from)' = Ready(from)
  <2>1. time >= from
    BY DEF LLTypes
  <2> QED BY <1>1, <2>1 DEF Ready
<1>3. Passed(k, from)' = Passed(k, from)
  BY <1>1 DEF Passed
<1>4. Spent(k, from)' = Spent(k, from)
  BY DEF Spent
<1> QED BY <1>2, <1>3, <1>4 DEF Budget, Loose

\* A guess within the stretch is one more that is spent; any other is not.
LEMMA GuessCounts ==
    ASSUME LLTypes, NEW k \in Key, NEW from \in Nat, NEW now \in Nat,
           guesses'[k] = Append(guesses[k], now)
    PROVE  IF now \in from..(from + BaseBackoff - 1)
           THEN Cardinality(Spent(k, from))' = Cardinality(Spent(k, from)) + 1
           ELSE Spent(k, from)' = Spent(k, from)
<1> DEFINE n == Len(guesses[k])
<1>1. guesses[k] \in Seq(Nat)
  BY DEF LLTypes
<1>2. /\ n \in Nat /\ Len(guesses'[k]) = n + 1 /\ guesses'[k][n + 1] = now
      /\ \A i \in 1..n : guesses'[k][i] = guesses[k][i]
  BY <1>1
<1>3. CASE now \in from..(from + BaseBackoff - 1)
  <2>1. Spent(k, from)' = Spent(k, from) \cup {n + 1}
    BY <1>2, <1>3 DEF Spent
  <2>2. n + 1 \notin Spent(k, from)
    BY <1>2 DEF Spent
  <2>3. IsFiniteSet(Spent(k, from))
    BY Counts
  <2>4. Cardinality(Spent(k, from) \cup {n + 1}) = Cardinality(Spent(k, from)) + 1
    BY <2>2, <2>3, FS_AddElement
  <2> QED BY <1>3, <2>1, <2>4
<1>4. CASE now \notin from..(from + BaseBackoff - 1)
  BY <1>2, <1>4 DEF Spent
<1> QED BY <1>3, <1>4

\* A failure beyond the threshold: a straggler's may reopen the stretch, but then
\* there is a straggler less; one within the stretch is one of those that had
\* passed, and blocks the others.
LEMMA GuessBudget ==
    ASSUME LLTypes, LLTypes', NEW h \in LoginHandler, NEW k \in Key, NEW from \in Nat,
           attempt[h].pc = "hashes", attempt[h].key = k,
           attempt' = [attempt EXCEPT ![h] = Waiting],
           guesses'[k] = Append(guesses[k], attempt[h].now), k \in DOMAIN entries',
           entries'[k].blockedUntil >= attempt[h].now + BaseBackoff,
           Budget(k, from)
    PROVE  Budget(k, from)'
<1> DEFINE t == Cardinality(Ready(from))
           x == Cardinality(Passed(k, from))
           c == Cardinality(Spent(k, from))
           now == attempt[h].now
<1>0. now \in Nat /\ entries'[k].blockedUntil \in Nat /\ BaseBackoff \in Nat
  BY BusyHandler, LimiterAssumption DEF LLTypes, EntryRecord
<1>1. /\ t \in Nat /\ x \in Nat /\ c \in Nat /\ x <= t
      /\ Loose(k, from) \in Nat /\ Loose(k, from) >= x
      /\ Spent(k, from) = {} => c = 0
  BY Counts
<1>2. /\ t' = IF h \in Ready(from) THEN t ELSE t + 1
      /\ x' = IF h \in Passed(k, from) THEN x - 1 ELSE x
  BY DoneCounts
<1>3. Loose(k, from)' \in {x', t'}
  BY DEF Loose
<1>4. /\ h \in Ready(from) <=> now >= from
      /\ h \in Passed(k, from) <=> now \in from..(from + BaseBackoff - 1)
  BY DEF Ready, Passed
<1>5. IF now \in from..(from + BaseBackoff - 1)
      THEN c' = c + 1 ELSE Spent(k, from)' = Spent(k, from)
  BY <1>0, GuessCounts
<1>6. /\ Twice(t) \in Nat /\ 2 * t <= Twice(t)
      /\ Twice(t + 1) = Twice(t) + 2 * t + 2
  BY <1>1, TwiceFacts
<1>7. 2 * (c + x) <= Twice(t)
  <2>1. Spent(k, from) # {} => 2 * (c + Loose(k, from)) <= Twice(t)
    BY DEF Budget
  <2> HIDE DEF t, x, c, now
  <2>2. CASE Spent(k, from) = {}
    <3>1. 2 * (c + x) = 2 * x
      BY <1>1, <2>2
    <3> QED BY <1>1, <1>6, <3>1
  <2>3. CASE Spent(k, from) # {}
    <3>1. 2 * (c + x) <= 2 * (c + Loose(k, from))
      BY <1>1
    <3> QED BY <1>1, <1>6, <2>1, <2>3, <3>1
  <2> QED BY <2>2, <2>3
<1> SUFFICES ASSUME Spent(k, from)' # {} PROVE 2 * (c' + Loose(k, from)') <= Twice(t')
  BY DEF Budget
<1>8. CASE now < from
  <2>1. t' = t + 1 /\ c' = c /\ x' = x
    BY <1>0, <1>2, <1>4, <1>5, <1>8
  <2>2. Twice(t') = Twice(t) + 2 * t + 2
    BY <1>6, <2>1
  <2> HIDE DEF t, x, c, now
  <2>3. Loose(k, from)' \in Nat /\ Loose(k, from)' <= t + 1
    BY <1>1, <1>3, <2>1
  <2>4. 2 * c <= Twice(t)
    BY <1>1, <1>6, <1>7
  <2>5. 2 * (c + Loose(k, from)') <= Twice(t) + 2 * t + 2
    BY <1>1, <1>6, <2>3, <2>4
  <2> QED BY <2>1, <2>2, <2>5
<1>9. CASE now >= from
  <2>1. t' = t /\ entries'[k].blockedUntil >= from + BaseBackoff
    BY <1>0, <1>2, <1>4, <1>9
  <2>2. Loose(k, from)' = x'
    BY <2>1 DEF Loose
  <2>3. \/ c' = c + 1 /\ x' = x - 1
        \/ c' = c /\ x' = x
    BY <1>2, <1>4, <1>5
  <2>4. Twice(t') = Twice(t)
    BY <2>1
  <2> HIDE DEF t, x, c, now
  <2> QED BY <1>1, <1>3, <1>6, <1>7, <2>2, <2>3, <2>4
<1> QED BY <1>0, <1>8, <1>9

LEMMA ForgottenBudget ==
    ASSUME NEW k \in Key, NEW from \in Nat, guesses'[k] = << >>
    PROVE  Budget(k, from)'
<1>1. Spent(k, from)' = {}
  BY DEF Spent
<1> QED BY <1>1 DEF Budget

LEMMA HandlerBudget ==
    ASSUME Sound, Sound', NEW h \in LoginHandler, HandlerNext(h),
           NEW k \in Key, NEW from \in 0..time, Budget(k, from)
    PROVE  Budget(k, from)'
<1>0. LLTypes /\ LLTypes' /\ from \in Nat
  BY DEF Sound, LLTypes
<1>1. CASE \E key \in Key : Arrive(h, key)
  <2>1. PICK key \in Key : Arrive(h, key)
    BY <1>1
  <2>2. /\ attempt[h].pc = "idle" /\ UNCHANGED <<time, entries, guesses>>
        /\ attempt' = [attempt EXCEPT ![h] = [pc |-> "asks", key |-> key, now |-> time]]
    BY <2>1 DEF Arrive
  <2> QED BY <1>0, <2>2, ArrivingBudget
<1>2. CASE LoginFails(h)
  <2>1. /\ attempt' = [attempt EXCEPT ![h] = Waiting]
        /\ guesses'[k] = guesses[k] /\ entries'[k].blockedUntil = entries[k].blockedUntil
    BY <1>2 DEF LoginFails
  <2> QED BY <1>0, <2>1, QuietBudget
<1>3. CASE RetryAfter(h)
  <2>1. CASE guesses'[k] = << >>
    BY <1>0, <2>1, ForgottenBudget
  <2>2. CASE /\ guesses'[k] = guesses[k] /\ entries'[k].blockedUntil = entries[k].blockedUntil
             /\ attempt' = [attempt EXCEPT ![h] = Waiting]
    BY <1>0, <2>2, QuietBudget
  <2>3. CASE /\ guesses'[k] = guesses[k] /\ entries'[k].blockedUntil = entries[k].blockedUntil
             /\ k \in DOMAIN entries
             /\ attempt' = [attempt EXCEPT ![h].pc = "hashes"]
             /\ attempt[h].key = k => ~(attempt[h].now < entries[k].blockedUntil)
    <3>1. attempt[h].pc = "asks"
      BY <1>3 DEF RetryAfter
    <3> QED BY <1>0, <2>3, <3>1, PassingBudget
  <2> QED BY <1>0, <1>3, <2>1, <2>2, <2>3, Asked
<1>4. CASE RecordFailure(h)
  <2>0. attempt[h].pc = "hashes" /\ attempt' = [attempt EXCEPT ![h] = Waiting]
    BY <1>4 DEF RecordFailure
  <2>1. CASE guesses'[k] = << >>
    BY <1>0, <2>1, ForgottenBudget
  <2>2. CASE guesses'[k] = guesses[k] /\ entries'[k] = entries[k]
    <3>1. entries'[k].blockedUntil = entries[k].blockedUntil
      BY <2>2
    <3> QED BY <1>0, <2>0, <2>2, <3>1, QuietBudget
  <2>3. CASE /\ k = attempt[h].key /\ k \in DOMAIN entries'
             /\ guesses'[k] = Append(guesses[k], attempt[h].now)
             /\ entries'[k].blockedUntil >= attempt[h].now + BaseBackoff
    BY <1>0, <2>0, <2>3, GuessBudget
  <2>4. CASE /\ guesses'[k] = guesses[k] /\ k \in DOMAIN entries /\ k \in DOMAIN entries'
             /\ entries'[k].failures = entries[k].failures + 1
             /\ ~(entries'[k].failures > FailureThreshold)
    <3>1. entries[k].failures \in Nat /\ FailureThreshold \in Nat
      BY <1>0, <2>4, LimiterAssumption DEF LLTypes, EntryRecord
    <3>2. ~(entries[k].failures > FailureThreshold)
      BY <2>4, <3>1
    <3>3. guesses'[k] = << >>
      BY <2>4, <3>2 DEF Sound, GuessedBeyond
    <3> QED BY <1>0, <3>3, ForgottenBudget
  <2> QED BY <1>0, <1>4, <2>1, <2>2, <2>3, <2>4, FailureRecorded
<1>5. CASE RecordSuccess(h)
  <2>1. /\ entries' = Restrict(entries, DOMAIN entries \ {attempt[h].key})
        /\ guesses' = Remembered(entries')
        /\ attempt' = [attempt EXCEPT ![h] = Waiting]
    BY <1>5 DEF RecordSuccess
  <2>2. guesses'[k] = IF k \in DOMAIN entries' THEN guesses[k] ELSE << >>
    BY <2>1 DEF Remembered
  <2>3. k \in DOMAIN entries' => entries'[k] = entries[k]
    BY <2>1 DEF Restrict
  <2>4. CASE k \in DOMAIN entries'
    <3>1. guesses'[k] = guesses[k] /\ entries'[k].blockedUntil = entries[k].blockedUntil
      BY <2>2, <2>3, <2>4
    <3> QED BY <1>0, <2>1, <3>1, QuietBudget
  <2>5. CASE k \notin DOMAIN entries'
    BY <1>0, <2>2, <2>5, ForgottenBudget
  <2> QED BY <2>4, <2>5
<1> QED BY <1>1, <1>2, <1>3, <1>4, <1>5 DEF HandlerNext

LEMMA LLNextInv == LLInv /\ [LLNext]_llVars => LLInv'
<1> SUFFICES ASSUME LLInv, [LLNext]_llVars PROVE LLInv'
  OBVIOUS
<1>0. Sound /\ \A k \in Key, from \in 0..time : Budget(k, from)
  BY DEF LLInv, Sound
<1>1. ASSUME NEW h \in LoginHandler, HandlerNext(h) PROVE LLInv'
  <2>1. Sound' /\ time' = time
    BY <1>0, <1>1, HandlerSound
  <2>2. ASSUME NEW k \in Key, NEW from \in 0..time PROVE Budget(k, from)'
    BY <1>0, <1>1, <2>1, HandlerBudget
  <2> QED BY <2>1, <2>2 DEF LLInv, Sound
<1>2. CASE ClockRuns
  <2>1. time' = time + 1 /\ entries' = entries /\ attempt' = attempt /\ guesses' = guesses
    BY <1>2 DEF ClockRuns
  <2>2. Sound'
    <3>1. time \in Nat
      BY <1>0 DEF Sound, LLTypes
    <3>2. LLTypes'
      BY <1>0, <2>1, <3>1 DEF Sound, LLTypes
    <3>3. InThePast'
      <4>1. ASSUME NEW h \in LoginHandler, attempt'[h].pc # "idle" PROVE attempt'[h].now <= time'
        <5>1. attempt[h] \in {Waiting} \cup Busy
          BY <1>0 DEF Sound, LLTypes
        <5>2. attempt[h].now \in Nat /\ attempt[h].now <= time
          BY <1>0, <2>1, <4>1, <5>1 DEF Sound, InThePast, Waiting, Busy
        <5> QED BY <2>1, <3>1, <5>2
      <4>2. ASSUME NEW k \in Key, NEW i \in 1..Len(guesses'[k]) PROVE guesses'[k][i] <= time'
        <5>1. guesses[k] \in Seq(Nat) /\ i \in 1..Len(guesses[k])
          BY <1>0, <2>1 DEF Sound, LLTypes
        <5>2. guesses[k][i] \in Nat /\ guesses[k][i] <= time
          BY <1>0, <5>1 DEF Sound, InThePast
        <5> QED BY <2>1, <3>1, <5>2
      <4> QED BY <4>1, <4>2 DEF InThePast
    <3>4. GuessedBeyond'
      BY <1>0, <2>1 DEF Sound, GuessedBeyond
    <3> QED BY <3>2, <3>3, <3>4 DEF Sound
  <2>3. ASSUME NEW k \in Key, NEW from \in 0..time' PROVE Budget(k, from)'
    <3>0. time \in Nat
      BY <1>0 DEF Sound, LLTypes
    <3>1. CASE from \in 0..time
      <4>1. Budget(k, from)
        BY <1>0, <3>1
      <4> QED BY <2>1, <4>1 DEF Budget, Spent, Loose, Ready, Passed
    <3>2. CASE from = time + 1
      <4>1. ASSUME NEW i \in Spent(k, from)' PROVE FALSE
        <5>1. /\ i \in 1..Len(guesses[k]) /\ guesses[k] \in Seq(Nat)
              /\ guesses[k][i] \in from..(from + BaseBackoff - 1)
          BY <1>0, <2>1, <4>1 DEF Spent, Sound, LLTypes
        <5>2. guesses[k][i] \in Nat /\ guesses[k][i] <= time
          BY <1>0, <5>1 DEF Sound, InThePast
        <5>3. guesses[k][i] >= from
          BY <3>0, <3>2, <5>1, <5>2
        <5> QED BY <3>0, <3>2, <5>2, <5>3
      <4> QED BY <4>1 DEF Budget
    <3> QED BY <2>1, <3>0, <3>1, <3>2
  <2> QED BY <2>2, <2>3 DEF LLInv, Sound
<1>3. CASE LimiterRestarts
  <2>1. /\ entries' = << >> /\ guesses' = [k \in Key |-> << >>]
        /\ attempt' = [h \in LoginHandler |-> Waiting] /\ time' = time
    BY <1>3 DEF LimiterRestarts
  <2>2. LLTypes' /\ InThePast' /\ GuessedBeyond'
    <3>1. time \in Nat
      BY <1>0 DEF Sound, LLTypes
    <3>2. Waiting.pc = "idle"
      BY DEF Waiting
    <3> QED BY <2>1, <3>1, <3>2 DEF LLTypes, InThePast, GuessedBeyond
  <2>3. ASSUME NEW k \in Key, NEW from \in 0..time' PROVE Budget(k, from)'
    <3>1. guesses'[k] = << >> /\ from \in Nat
      BY <1>0, <2>1 DEF Sound, LLTypes
    <3> QED BY <3>1, ForgottenBudget
  <2> QED BY <2>2, <2>3 DEF LLInv
<1>4. CASE UNCHANGED llVars
  <2>1. time' = time /\ entries' = entries /\ attempt' = attempt /\ guesses' = guesses
    BY <1>4 DEF llVars
  <2>2. LLTypes' /\ InThePast' /\ GuessedBeyond'
    BY <1>0, <2>1 DEF Sound, LLTypes, InThePast, GuessedBeyond
  <2>3. ASSUME NEW k \in Key, NEW from \in 0..time' PROVE Budget(k, from)'
    BY <1>0, <2>1 DEF Budget, Spent, Loose, Ready, Passed
  <2> QED BY <2>2, <2>3 DEF LLInv
<1> QED BY <1>1, <1>2, <1>3, <1>4 DEF LLNext

LEMMA LLInitInv == LLInit => LLInv
<1> SUFFICES ASSUME LLInit PROVE LLInv
  OBVIOUS
<1>1. /\ time = 0 /\ entries = << >> /\ attempt = [h \in LoginHandler |-> Waiting]
      /\ guesses = [k \in Key |-> << >>]
  BY DEF LLInit
<1>2. Waiting.pc = "idle"
  BY DEF Waiting
<1>3. LLTypes /\ InThePast /\ GuessedBeyond
  BY <1>1, <1>2 DEF LLTypes, InThePast, GuessedBeyond
<1>4. ASSUME NEW k \in Key, NEW from \in 0..time PROVE Budget(k, from)
  <2>1. Spent(k, from) = {}
    BY <1>1 DEF Spent
  <2> QED BY <2>1 DEF Budget
<1> QED BY <1>3, <1>4 DEF LLInv

\* However the handlers of POST /login interleave with each other, with pruning,
\* eviction and restarts of the limiter, and however long each of them hashes: for
\* any number of handlers, keys and entries and any lengths of the blocks, the
\* guesses beyond an entry's threshold within one BaseBackoff are at most
\* C + (C - 1) + ... + 1 for C handlers.
THEOREM BurstsAreBoundedAlways == LLSpec => []BurstsAreBounded
<1>1. LLInv => BurstsAreBounded
  <2> SUFFICES ASSUME LLInv, NEW k \in Key, NEW from \in 0..time
               PROVE  2 * Cardinality(Spent(k, from))
                      <= Cardinality(LoginHandler) * (Cardinality(LoginHandler) + 1)
    BY DEF BurstsAreBounded, Spent
  <2> DEFINE t == Cardinality(Ready(from))
             c == Cardinality(Spent(k, from))
             C == Cardinality(LoginHandler)
  <2>1. LLTypes /\ Budget(k, from) /\ from \in Nat
    BY DEF LLInv, LLTypes
  <2>2. /\ t \in Nat /\ c \in Nat /\ t <= C /\ Loose(k, from) \in Nat
        /\ Spent(k, from) = {} => c = 0
    BY <2>1, Counts
  <2>3. C \in Nat
    BY LimiterAssumption, FS_CardinalityType
  <2>4. Twice(t) <= Twice(C) /\ Twice(t) \in Nat /\ Twice(C) \in Nat
    BY <2>2, <2>3, TwiceGrows, TwiceFacts
  <2>5. 2 * c <= Twice(C)
    <3>1. CASE Spent(k, from) = {}
      BY <2>2, <2>4, <3>1
    <3>2. CASE Spent(k, from) # {}
      <4>1. 2 * (c + Loose(k, from)) <= Twice(t)
        BY <2>1, <3>2 DEF Budget
      <4> HIDE DEF t, c, C
      <4> QED BY <2>2, <2>4, <4>1
    <3> QED BY <3>1, <3>2
  <2> QED BY <2>5 DEF Twice
<1> QED BY <1>1, LLInitInv, LLNextInv, PTL DEF LLSpec
=============================================================================
