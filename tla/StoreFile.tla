------------------------------- MODULE StoreFile -------------------------------
(***************************************************************************)
(* Opening the database file (db/sqlite/store.go): the migration ledger is *)
(* read, a ledger that is not the beginning of the migrations this release *)
(* knows is refused, and the missing migrations are applied, each with its *)
(* ledger row in a transaction of its own; and the copies of the file      *)
(* (db/sqlite/backup.go).                                                  *)
(*                                                                         *)
(* The server, the import command and the demo seed all open the file so,  *)
(* in processes of their own that may be of different releases and may die *)
(* anywhere.  The ledger is read in one query and nothing is locked before *)
(* the first migration begins.  A migration stands for its version, name   *)
(* and the checksum of its statements; its version is its place.           *)
(***************************************************************************)
EXTENDS Naturals, Sequences, SequencesExt

CONSTANTS
    Process,      \* processes that open the file
    Release,      \* Release[p]: supportedMigrations of the release p runs
    MaxDeaths     \* bound: processes that end

ASSUME StoreFileAssumption ==
    /\ MaxDeaths \in Nat
    /\ \A p \in Process : Release[p] \in Seq(ToSet(Release[p])) /\ Len(Release[p]) > 0

VARIABLES
    migrated, \* schema_migrations by version: what took effect in this file
    proc,     \* the processes: down, reading the ledger, migrating (next version), open
    copy,     \* the backup, if there is one
    deaths

sfVars == <<migrated, proc, copy, deaths>>

Down == [pc |-> "down", next |-> 0]
NoCopy == <<"none">>

SFInit ==
    /\ migrated = << >>
    /\ proc = [p \in Process |-> Down]
    /\ copy = NoCopy
    /\ deaths = 0

Set(p, pc, next) == proc' = [proc EXCEPT ![p] = [pc |-> pc, next |-> next]]

\* After `done` migrations the store is open or the next one is due.
Proceed(p, done) ==
    IF done = Len(Release[p]) THEN Set(p, "open", done) ELSE Set(p, "migrating", done + 1)

\* Connection, pragmas and, if need be, an empty ledger.
OpenFile(p) ==
    /\ proc[p].pc = "down"
    /\ Set(p, "reading", 0)
    /\ UNCHANGED <<migrated, copy, deaths>>

\* Mutant of Agrees: versions are compared, names and checksums are not.
AgreesInVersion(ledger, p) == Len(ledger) <= Len(Release[p])

\* Mutant of Agrees: a ledger that stops half-way is taken for a foreign one.
AgreesOrEmpty(ledger, p) == ledger \in {<< >>, Release[p]}

Agrees(ledger, p) == IsPrefix(ledger, Release[p])

ReadLedger(p) ==
    /\ proc[p].pc = "reading"
    /\ IF Agrees(migrated, p) THEN Proceed(p, Len(migrated)) ELSE proc' = [proc EXCEPT ![p] = Down]
    /\ UNCHANGED <<migrated, copy, deaths>>

\* The version is the primary key of the ledger.
Entered(v) == v \in DOMAIN migrated

\* A migration that another process has entered meanwhile is rolled back, statements
\* and all, and opening fails.
ApplyMigration(p) ==
    LET v == proc[p].next IN
    /\ proc[p].pc = "migrating"
    /\ IF Entered(v)
       THEN proc' = [proc EXCEPT ![p] = Down] /\ UNCHANGED migrated
       ELSE migrated' = Append(migrated, Release[p][v]) /\ Proceed(p, v)
    /\ UNCHANGED <<copy, deaths>>

\* The process is stopped or dies, or a statement meets a lock for too long.
Ends(p) ==
    /\ proc[p].pc # "down" /\ deaths < MaxDeaths
    /\ deaths' = deaths + 1
    /\ proc' = [proc EXCEPT ![p] = Down]
    /\ UNCHANGED <<migrated, copy>>

\* VACUUM INTO reads one state of the file; a destination that exists is refused.
Backup(p) ==
    /\ proc[p].pc = "open"
    /\ copy = NoCopy
    /\ copy' = migrated
    /\ UNCHANGED <<migrated, proc, deaths>>

\* The copy is put in place of the file while nobody has it open.
Restore ==
    /\ \A p \in Process : proc[p].pc = "down"
    /\ copy # NoCopy
    /\ migrated' = copy
    /\ copy' = NoCopy
    /\ UNCHANGED <<proc, deaths>>

ProcessNext(p) == OpenFile(p) \/ ReadLedger(p) \/ ApplyMigration(p)

SFNext ==
    \/ \E p \in Process : ProcessNext(p) \/ Ends(p) \/ Backup(p)
    \/ Restore

\* Whoever operates the processes starts again what is down.
SFFairness == \A p \in Process : WF_sfVars(ProcessNext(p))

SFSpec == SFInit /\ [][SFNext]_sfVars /\ SFFairness

(***************************************************************************)
(* Properties                                                              *)
(***************************************************************************)
\* However releases start, die and race for the file: a process that has it open
\* finds every migration it knows, entered under its version and none of another
\* branch in between or twice.  (An older release that is open goes on while a
\* newer one migrates further.)
OpenedIsMigrated ==
    \A p \in Process : proc[p].pc = "open" => IsPrefix(Release[p], migrated)

\* No death between two migrations and no lost race leaves a file that nobody can
\* open: as long as processes are started again, one of them gets it open.
SomeReleaseOpens ==
    (\E p \in Process : proc[p].pc # "down") ~> (\E p \in Process : proc[p].pc = "open")
=============================================================================
