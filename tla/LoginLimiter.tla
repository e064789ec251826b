----------------------------- MODULE LoginLimiter -----------------------------
(***************************************************************************)
(* The limiter of password logins (auth/limiter.go) between the handlers   *)
(* of POST /login that use it (platform/http/server.go, login).            *)
(*                                                                         *)
(* A handler reads the clock once, asks RetryAfter, hashes the password    *)
(* for as long as that takes, and records its outcome with the time it     *)
(* read at the start.  Each call of the limiter holds its mutex, so it is  *)
(* one step; between the calls any number of other handlers may pass and   *)
(* the clock may run.  The table is in memory: a restart empties it.       *)
(* What the handler does besides (SignIn) does not touch the limiter.      *)
(***************************************************************************)
EXTENDS Integers, Sequences, FiniteSets, FiniteSetsExt, Functions

CONSTANTS
    Key,               \* LoginAbuseKey: identity and host, hashed
    LoginHandler,      \* concurrent POST /login handlers
    FailureThreshold,  \* failures before the first block
    BaseBackoff,       \* length of the first block
    MaxBackoff,        \* longest block
    EntryTTL,          \* idle entries are forgotten
    MaxEntries,        \* entries kept
    MaxTime            \* bound: the last moment

ASSUME LimiterAssumption ==
    /\ {FailureThreshold, BaseBackoff, EntryTTL, MaxEntries} \subseteq Nat \ {0}
    /\ {MaxBackoff, MaxTime} \subseteq Nat
    /\ IsFiniteSet(LoginHandler)

VARIABLES
    time,       \* time.Now()
    entries,    \* the limiter's map: failures, blockedUntil, lastSeen
    attempt,    \* the handlers: pc, key, now (the time read at the start)
    guesses     \* history: the times of an entry's failures beyond its threshold

llVars == <<time, entries, attempt, guesses>>

Waiting == [pc |-> "idle"]

LLInit ==
    /\ time = 0
    /\ entries = << >>
    /\ attempt = [h \in LoginHandler |-> Waiting]
    /\ guesses = [k \in Key |-> << >>]

ClockRuns ==
    /\ time < MaxTime
    /\ time' = time + 1
    /\ UNCHANGED <<entries, attempt, guesses>>

(***************************************************************************)
(* The limiter.  Every operator yields the map after the call.             *)
(***************************************************************************)
Pruned(now) ==
    Restrict(entries, {k \in DOMAIN entries : now - entries[k].lastSeen < EntryTTL})

\* The oldest goes; of several equally old ones, any.
EvictOldest(table) ==
    {Restrict(table, DOMAIN table \ {k}) :
        k \in {k \in DOMAIN table : \A o \in DOMAIN table : table[k].lastSeen <= table[o].lastSeen}}

\* One turn of the loop: doubled, up to MaxBackoff.
Doubled(delay) == IF delay < MaxBackoff THEN Min({MaxBackoff, 2 * delay}) ELSE delay

Delay[n \in Nat] == IF n = 0 THEN BaseBackoff ELSE Doubled(Delay[n - 1])

\* A turn for every failure beyond the threshold.
Backoff(failures) == Delay[failures - FailureThreshold]

\* Mutant of Blocks: only the failure that reaches the threshold blocks.
BlocksOnce(failures) == failures = FailureThreshold

Blocks(failures) == failures >= FailureThreshold

NoEntry == [failures |-> 0, blockedUntil |-> 0, lastSeen |-> 0]

Failed(entry, now) ==
    LET failures == entry.failures + 1 IN
    [failures |-> failures, lastSeen |-> now,
     blockedUntil |-> IF Blocks(failures) THEN now + Backoff(failures) ELSE entry.blockedUntil]

With(table, k, entry) == [j \in DOMAIN table \cup {k} |-> IF j = k THEN entry ELSE table[j]]

\* What is remembered of guesses ends with the entry.
Remembered(table) == [k \in Key |-> IF k \in DOMAIN table THEN guesses[k] ELSE << >>]

(***************************************************************************)
(* The handler                                                             *)
(***************************************************************************)
Arrive(h, k) ==
    /\ attempt[h].pc = "idle"
    /\ attempt' = [attempt EXCEPT ![h] = [pc |-> "asks", key |-> k, now |-> time]]
    /\ UNCHANGED <<time, entries, guesses>>

\* The block may end at this very moment; an entry that lets nobody pass stays.
RetryAfter(h) ==
    LET k == attempt[h].key
        now == attempt[h].now
        table == Pruned(now)
        blocked == k \in DOMAIN table /\ now < table[k].blockedUntil
    IN
    /\ attempt[h].pc = "asks"
    /\ entries' = IF blocked THEN [table EXCEPT ![k].lastSeen = now] ELSE table
    /\ attempt' = [attempt EXCEPT ![h] = IF blocked THEN Waiting ELSE [@ EXCEPT !.pc = "hashes"]]
    /\ guesses' = Remembered(table)
    /\ UNCHANGED time

RecordFailure(h) ==
    LET k == attempt[h].key
        now == attempt[h].now
        table == Pruned(now)
    IN
    /\ attempt[h].pc = "hashes"
    /\ \E kept \in IF k \notin DOMAIN table /\ Cardinality(DOMAIN table) >= MaxEntries
                   THEN EvictOldest(table) ELSE {table} :
          LET entry == Failed(IF k \in DOMAIN kept THEN kept[k] ELSE NoEntry, now) IN
          /\ entries' = With(kept, k, entry)
          /\ guesses' = IF entry.failures > FailureThreshold
                        THEN [Remembered(kept) EXCEPT ![k] = Append(@, now)]
                        ELSE Remembered(kept)
    /\ attempt' = [attempt EXCEPT ![h] = Waiting]
    /\ UNCHANGED time

RecordSuccess(h) ==
    /\ attempt[h].pc = "hashes"
    /\ entries' = Restrict(entries, DOMAIN entries \ {attempt[h].key})
    /\ guesses' = Remembered(entries')
    /\ attempt' = [attempt EXCEPT ![h] = Waiting]
    /\ UNCHANGED time

\* A statement of the store fails before the outcome is recorded.
LoginFails(h) ==
    /\ attempt[h].pc = "hashes"
    /\ attempt' = [attempt EXCEPT ![h] = Waiting]
    /\ UNCHANGED <<time, entries, guesses>>

LimiterRestarts ==
    /\ entries # << >>
    /\ entries' = << >>
    /\ guesses' = [k \in Key |-> << >>]
    /\ attempt' = [h \in LoginHandler |-> Waiting]
    /\ UNCHANGED time

HandlerNext(h) ==
    \/ \E k \in Key : Arrive(h, k)
    \/ RetryAfter(h)
    \/ RecordFailure(h)
    \/ RecordSuccess(h)
    \/ LoginFails(h)

LLNext ==
    \/ ClockRuns
    \/ \E h \in LoginHandler : HandlerNext(h)
    \/ LimiterRestarts

LLSpec == LLInit /\ [][LLNext]_llVars

(***************************************************************************)
(* Property                                                                *)
(***************************************************************************)
\* Attempts in flight slip past a block, and one that started long ago may even
\* cut a block short by recording its old time; but however long handlers take,
\* in no stretch of time as long as the first block do C handlers spend more than
\* C + (C - 1) + ... + 1 guesses beyond the threshold of an entry: each straggler
\* from before the stretch reopens it once, and is a handler that was not free to
\* guess until then.
BurstsAreBounded ==
    LET C == Cardinality(LoginHandler) IN
    \A k \in Key, from \in 0..time :
        2 * Cardinality({i \in 1..Len(guesses[k]) :
                            guesses[k][i] \in from..(from + BaseBackoff - 1)})
        <= C * (C + 1)
=============================================================================
