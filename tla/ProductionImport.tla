--------------------------- MODULE ProductionImport ---------------------------
(***************************************************************************)
(* The production import: signed manifests applied record by record with a *)
(* durable checkpoint, resumed after a crash, and rolled back              *)
(* (db/sqlite/platform_import.go, cmd/platform-import).                    *)
(*                                                                         *)
(* Every operation is a run of the command, a process of its own beside    *)
(* the server.  An apply loads the run, commits one record with ledger     *)
(* entry and checkpoint per transaction and writes its receipt at the end, *)
(* from what it counted itself; a rollback loads the run, lists what is to *)
(* be compensated, compensates one record per transaction and writes the   *)
(* receipt.  A process may die between any two of them.                    *)
(*                                                                         *)
(* A canonical row is reduced to who created it and whether its fields are *)
(* those of the manifests.  Signature, approval and checkpoint MAC are     *)
(* valid: an operation without them changes nothing.  FixtureImporter is   *)
(* the same without processes, rows of others and failures.                *)
(***************************************************************************)
EXTENDS Integers, Sequences, FiniteSets

CONSTANTS
    Operator,     \* processes that run the command
    Manifest,     \* manifest ids
    Id,           \* platform ids
    Records,      \* Records[m]: the ids of manifest m in dependency order
    Policy,       \* Policy[m][i]: "create_or_reconcile" or "reconcile_only"
    Rank,         \* Rank[x]: the place of x's kind in the order of kinds
    Parents,      \* Parents[x]: rows that must come before x in a manifest
    Needs,        \* Needs[x]: rows (parents, actors) looked up when x is created
    Refs,         \* Refs[x]: rows that x references with a foreign key
    MaxStarts     \* bound: operations started

Absent == "absent"
Platform == "platform"

ASSUME ProductionImportAssumption ==
    /\ MaxStarts \in Nat
    /\ \A x \in Id : /\ Rank[x] \in Nat
                    /\ Parents[x] \subseteq Needs[x] /\ Refs[x] \subseteq Needs[x]
                    /\ Needs[x] \subseteq Id
    /\ \A m \in Manifest : Records[m] \in Seq(Id) /\ m \notin {Absent, Platform}

VARIABLES
    rows,     \* rows[x]: by whom x was created (or Absent), and if it is as in the manifests
    pinned,   \* rows that rows from outside of the manifests reference
    run,      \* platform_import_runs: status, next, created
    ledger,   \* platform_import_records: created and compensated per record applied
    op,       \* the processes
    starts    \* operations started so far

imVars == <<rows, pinned, run, ledger, op, starts>>

Idle == [pc |-> "idle"]
NoRun == [status |-> "none", next |-> 0, created |-> 0]

ImInit ==
    /\ rows \in [Id -> {[by |-> Absent, same |-> TRUE], [by |-> Platform, same |-> TRUE]}]
    /\ \A x \in Id : rows[x].by # Absent => \A y \in Refs[x] : rows[y].by # Absent
    /\ pinned = {}
    /\ run = [m \in Manifest |-> NoRun]
    /\ ledger = [m \in Manifest |-> << >>]
    /\ op = [o \in Operator |-> Idle]
    /\ starts = 0

Present(x) == rows[x].by # Absent
Stop(o) == op' = [op EXCEPT ![o] = Idle]

(***************************************************************************)
(* Which manifests are accepted                                            *)
(***************************************************************************)
\* ValidateProductionManifest: records of known policies, sorted by kind, each id
\* once.  (Ids of one kind are sorted by their text.)
ValidManifest(m) ==
    /\ Records[m] # << >>
    /\ \A i \in 1..Len(Records[m]) :
          /\ Policy[m][i] \in {"create_or_reconcile", "reconcile_only"}
          /\ \A j \in 1..(i - 1) : /\ Rank[Records[m][j]] <= Rank[Records[m][i]]
                                  /\ Records[m][j] # Records[m][i]

\* validateProductionDependencies: parents come first, in the same manifest.
DependenciesFirst(m) ==
    \A i \in 1..Len(Records[m]) :
        Parents[Records[m][i]] \subseteq {Records[m][j] : j \in 1..(i - 1)}

(***************************************************************************)
(* Apply                                                                   *)
(***************************************************************************)
\* The run is loaded, or created with status running.
LoadOrCreate(m) ==
    IF run[m] = NoRun THEN [status |-> "running", next |-> 0, created |-> 0] ELSE run[m]

\* A limit of 0 means all that is left.
StartApply(o, m, limit) ==
    LET r == LoadOrCreate(m)
        left == Len(Records[m]) - r.next
    IN
    /\ op[o].pc = "idle" /\ starts < MaxStarts
    /\ ValidManifest(m) /\ DependenciesFirst(m)
    /\ starts' = starts + 1
    /\ run' = [run EXCEPT ![m] = r]
    /\ IF r.status \in {"rolled_back", "completed"}
       THEN UNCHANGED op
       ELSE op' = [op EXCEPT ![o] =
                     [pc |-> "apply", m |-> m, run |-> r,
                      limit |-> IF limit = 0 \/ limit > left THEN left ELSE limit]]
    /\ UNCHANGED <<rows, pinned, ledger>>

\* applyProductionRecordTx: the row is there as the manifest has it, or it is
\* created; otherwise the record conflicts and the transaction is rolled back.
Reconciles(m, i) == Present(Records[m][i]) /\ rows[Records[m][i]].same

Creates(m, i) ==
    /\ ~Present(Records[m][i])
    /\ Policy[m][i] = "create_or_reconcile"
    /\ \A x \in Needs[Records[m][i]] : Present(x)

\* The ledger takes a record once: UNIQUE(manifest_id, record_order).
Unapplied(m, i) == i > Len(ledger[m])

\* Mutant of Checkpoint: the checkpoint is left to the receipt.
CheckpointAtTheEnd(r, m, i, created) == r

\* The checkpoint written with a record, from the stored counts.
Checkpoint(r, m, i, created) ==
    [status |-> IF i = Len(Records[m]) THEN "completed" ELSE "paused",
     next |-> i,
     created |-> IF created THEN r.created + 1 ELSE r.created]

\* Record, ledger entry and checkpoint in one transaction.
ApplyProductionRecord(o) ==
    LET m == op[o].m
        i == op[o].run.next + 1
        created == ~Present(Records[m][i])
    IN
    /\ op[o].pc = "apply" /\ op[o].limit > 0
    /\ IF Unapplied(m, i) /\ (Reconciles(m, i) \/ Creates(m, i))
       THEN /\ rows' = IF created
                       THEN [rows EXCEPT ![Records[m][i]] = [by |-> m, same |-> TRUE]]
                       ELSE rows
            /\ ledger' = [ledger EXCEPT ![m] =
                            Append(@, [created |-> created, compensated |-> FALSE])]
            /\ run' = [run EXCEPT ![m] = Checkpoint(@, m, i, created)]
            /\ op' = [op EXCEPT ![o].run.next = i,
                                ![o].run.created = IF created THEN @ + 1 ELSE @,
                                ![o].limit = @ - 1]
       ELSE Stop(o) /\ UNCHANGED <<rows, ledger, run>>
    /\ UNCHANGED <<pinned, starts>>

\* persistProductionRunReceipt after an apply: the whole run is overwritten with
\* the counts of this process.
PersistApply(o) ==
    LET m == op[o].m IN
    /\ op[o].pc = "apply" /\ op[o].limit = 0
    /\ run' = [run EXCEPT ![m] =
                 [op[o].run EXCEPT !.status =
                    IF op[o].run.next = Len(Records[m]) THEN "completed" ELSE "paused"]]
    /\ Stop(o)
    /\ UNCHANGED <<rows, pinned, ledger, starts>>

(***************************************************************************)
(* Rollback                                                                *)
(***************************************************************************)
StartRollback(o, m) ==
    /\ op[o].pc = "idle" /\ starts < MaxStarts
    /\ ValidManifest(m)
    /\ starts' = starts + 1
    /\ run[m] # NoRun
    /\ op' = IF run[m].status = "rolled_back" THEN op
             ELSE [op EXCEPT ![o] = [pc |-> "list", m |-> m, run |-> run[m], items |-> {}]]
    /\ UNCHANGED <<rows, pinned, run, ledger>>

\* Mutant of ToCompensate: orders are taken to end before the last one.
ToCompensateButLast(m) ==
    {i \in 1..(Len(ledger[m]) - 1) : ledger[m][i].created /\ ~ledger[m][i].compensated}

\* Mutant of ToCompensate: reconciled records are listed too.
ToCompensateAll(m) == {i \in 1..Len(ledger[m]) : ~ledger[m][i].compensated}

ToCompensate(m) ==
    {i \in 1..Len(ledger[m]) : ledger[m][i].created /\ ~ledger[m][i].compensated}

ListCompensations(o) ==
    /\ op[o].pc = "list"
    /\ op' = [op EXCEPT ![o].pc = "rollback", ![o].items = ToCompensate(op[o].m)]
    /\ UNCHANGED <<rows, pinned, run, ledger, starts>>

\* SQLite refuses to delete a row that is referenced.
Deletable(x) ==
    /\ Present(x)
    /\ x \notin pinned
    /\ \A y \in Id : Present(y) => x \notin Refs[y]

\* Mutant of NextItem: the oldest record first.
OldestItem(items) == CHOOSE i \in items : \A j \in items : i <= j

NextItem(items) == CHOOSE i \in items : \A j \in items : j <= i

\* One record is deleted, marked and entered as compensated in a transaction;
\* a second entry for the same record is refused.
CompensateRecord(o) ==
    LET m == op[o].m
        i == NextItem(op[o].items)
    IN
    /\ op[o].pc = "rollback" /\ op[o].items # {}
    /\ IF Deletable(Records[m][i]) /\ ~ledger[m][i].compensated
       THEN /\ rows' = [rows EXCEPT ![Records[m][i]].by = Absent]
            /\ ledger' = [ledger EXCEPT ![m][i].compensated = TRUE]
            /\ op' = [op EXCEPT ![o].items = @ \ {i}]
       ELSE Stop(o) /\ UNCHANGED <<rows, ledger>>
    /\ UNCHANGED <<pinned, run, starts>>

PersistRollback(o) ==
    /\ op[o].pc = "rollback" /\ op[o].items = {}
    /\ run' = [run EXCEPT ![op[o].m] = [op[o].run EXCEPT !.status = "rolled_back"]]
    /\ Stop(o)
    /\ UNCHANGED <<rows, pinned, ledger, starts>>

(***************************************************************************)
(* The surroundings                                                        *)
(***************************************************************************)
Dies(o) ==
    /\ op[o].pc # "idle"
    /\ Stop(o)
    /\ UNCHANGED <<rows, pinned, run, ledger, starts>>

\* The server changes a row.
Change(x) ==
    /\ Present(x) /\ rows[x].same
    /\ rows' = [rows EXCEPT ![x].same = FALSE]
    /\ UNCHANGED <<pinned, run, ledger, op, starts>>

\* The server adds a row of its own that references x.
Reference(x) ==
    /\ Present(x) /\ x \notin pinned
    /\ pinned' = pinned \cup {x}
    /\ UNCHANGED <<rows, run, ledger, op, starts>>

ImNext ==
    \/ \E o \in Operator, m \in Manifest :
          \/ \E limit \in 0..1 : StartApply(o, m, limit)
          \/ StartRollback(o, m)
    \/ \E o \in Operator :
          \/ ApplyProductionRecord(o)
          \/ PersistApply(o)
          \/ ListCompensations(o)
          \/ CompensateRecord(o)
          \/ PersistRollback(o)
          \/ Dies(o)
    \/ \E x \in Id : Change(x) \/ Reference(x)

ImSpec == ImInit /\ [][ImNext]_imVars

(***************************************************************************)
(* Properties                                                              *)
(***************************************************************************)
\* An interrupted apply resumes after the last committed record: whatever died
\* where, the checkpoint counts the records in the ledger and the rows created.
ResumesAfterLastCommitted ==
    \A m \in Manifest :
        /\ run[m].next = Len(ledger[m])
        /\ run[m].created = Cardinality({i \in 1..Len(ledger[m]) : ledger[m][i].created})

\* How far a run is, as its rehearsal would tell it: a run without a record in its
\* ledger has done nothing yet, also when it was rolled back.
Stage(m) ==
    IF ledger[m] = << >> THEN [status |-> "new", next |-> 0]
    ELSE [status |-> run[m].status,
          next |-> IF run[m].status = "rolled_back" THEN 0 ELSE run[m].next]

\* The records a run holds: what a rolled back run holds are the rows it created
\* that are still there.
Held(m) ==
    {i \in 1..Len(ledger[m]) : run[m].status = "rolled_back" => rows[Records[m][i]].by = m}

Rehearsal ==
    INSTANCE FixtureImporter WITH
        Length <- [m \in Manifest |-> Len(Records[m])],
        checkpoint <- [m \in Manifest |-> Stage(m)],
        records <- [m \in Manifest |-> Held(m)]

\* An import goes the way of its rehearsal, though its processes die, resume, are
\* stopped by conflicts and leave rollbacks half done: it moves forward record by
\* record from where the ledger ends, is completed once, and a rolled back one has
\* left none of the rows it created and is never applied again.  A run counts as
\* holding its records until its rollback is finished, also the ones that a rollback
\* which died has taken back.
ImplementsRehearsal == Rehearsal!FixtureSpec

\* A rollback removes only what its own manifest created: rows that were there
\* before, that the server or another manifest created, also again under the
\* same id after an earlier rollback, stay.
OnlyOwnRowsAreRemoved ==
    [][\A x \in Id :
          (Present(x) /\ rows'[x].by = Absent) =>
              \E o \in Operator : op[o].pc = "rollback" /\ rows[x].by = op[o].m]_imVars

\* A rollback deletes children before parents: while no row of others references
\* the next one, the foreign keys do not stop it half-way.
RollbackIsNotBlocked ==
    \A o \in Operator :
        (op[o].pc = "rollback" /\ op[o].items # {} /\ pinned = {}) =>
            LET x == Records[op[o].m][NextItem(op[o].items)]
            IN (\A y \in Id : (Present(y) /\ x \in Refs[y]) => rows[y].by = op[o].m)
                  => Deletable(x)
=============================================================================
