----------------------------- MODULE Migrations -----------------------------
(***************************************************************************)
(* apply_pending: what becomes of the database when migrations/*.sql are   *)
(* applied by runners that may overlap, fail and come from old checkouts.  *)
(*                                                                         *)
(* The connection is not in autocommit mode.  Creating the table of        *)
(* applied files is a transaction of its own, but reading that table opens *)
(* a transaction that lasts to the end of the connection: the transaction  *)
(* block around each file is then only a savepoint, and all files of a run *)
(* commit together or not at all.                                          *)
(*                                                                         *)
(* Files are numbered in the order of their names, in which they appear.   *)
(***************************************************************************)
EXTENDS Naturals, FiniteSetsExt

CONSTANTS
    Runners,     \* concurrent runs of scripts/migrate.py
    MaxFiles,    \* bound: migration files there will ever be
    MaxRuns      \* bound: runs started

MigrationFiles == 1..MaxFiles

ASSUME MigrationsAssumption == MaxFiles \in Nat /\ MaxRuns \in Nat

VARIABLES
    released,  \* files 1..released are in the repository
    faulty,    \* those of them whose text raises: bad SQL, an unknown placeholder
    table,     \* schema_migrations exists
    recorded,  \* the files it names, as committed
    effects,   \* effects[f]: how often the statements of f have been committed
    run,       \* run[r]: what runner r is at
    runs       \* runs started so far

database    == <<table, recorded, effects>>
migrateVars == <<released, faulty, database, run, runs>>

\* A runner's checkout is that of the moment it starts; todo
\* are the files it still has to apply, mine those its transaction has applied.
Run == [pc: {"idle", "ensure", "list", "apply"}, files: SUBSET MigrationFiles,
        bad: SUBSET MigrationFiles, todo: SUBSET MigrationFiles,
        mine: SUBSET MigrationFiles]

Idle == [pc |-> "idle", files |-> {}, bad |-> {}, todo |-> {}, mine |-> {}]

MigrateTypeOK ==
    /\ released \in 0..MaxFiles
    /\ faulty \subseteq MigrationFiles
    /\ table \in BOOLEAN
    /\ recorded \subseteq MigrationFiles
    /\ effects \in [MigrationFiles -> Nat]
    /\ run \in [Runners -> Run]
    /\ runs \in 0..MaxRuns

MigrateInit ==
    /\ released = 0 /\ faulty = {}
    /\ table = FALSE /\ recorded = {} /\ effects = [f \in MigrationFiles |-> 0]
    /\ run = [r \in Runners |-> Idle]
    /\ runs = 0

-----------------------------------------------------------------------------
(* Around the runner.                                                      *)

\* A file is added to the repository, perhaps with a mistake in it.
ReleaseFile(isFaulty) ==
    /\ released < MaxFiles
    /\ released' = released + 1
    /\ faulty' = IF isFaulty THEN faulty \cup {released + 1} ELSE faulty
    /\ UNCHANGED <<database, run, runs>>

FixFile(f) ==
    /\ f \in faulty
    /\ faulty' = faulty \ {f}
    /\ UNCHANGED <<released, database, run, runs>>

-----------------------------------------------------------------------------
(* One run.                                                                *)

\* main: the files of some checkout, not necessarily the newest.
StartRun(r, n) ==
    /\ run[r].pc = "idle" /\ runs < MaxRuns
    /\ run' = [run EXCEPT ![r] =
          [Idle EXCEPT !.pc = "ensure", !.files = 1..n, !.bad = faulty]]
    /\ runs' = runs + 1
    /\ UNCHANGED <<released, faulty, database>>

\* _ensure_migrations_table, which commits.
EnsureMigrationsTable(r) ==
    /\ run[r].pc = "ensure"
    /\ table' = TRUE
    /\ run' = [run EXCEPT ![r].pc = "list"]
    /\ UNCHANGED <<released, faulty, recorded, effects, runs>>

\* _applied_filenames, which opens the transaction, and the list of pending files.
ListPending(r) ==
    /\ run[r].pc = "list"
    /\ run' = [run EXCEPT ![r].pc = "apply", ![r].todo = run[r].files \ recorded]
    /\ UNCHANGED <<released, faulty, database, runs>>

\* MUTANT of NextFile: glob's order, which differs from one checkout to another.
UnsortedFile(r) ==
    IF Cardinality(run[r].files) % 2 = 0 THEN Max(run[r].todo) ELSE Min(run[r].todo)

NextFile(r) == Min(run[r].todo)

\* Somebody else's transaction has created the same objects or the same row.
Waits(r, s) ==
    /\ r # s
    /\ run[r].pc = "apply" /\ run[r].todo # {} /\ NextFile(r) \notin run[r].bad
    /\ NextFile(r) \in run[s].mine

\* MUTANT of ApplyFile: statements and record that do not mind being repeated.
ApplyFileAgain(r) ==
    /\ run[r].pc = "apply" /\ run[r].todo # {}
    /\ NextFile(r) \notin run[r].bad
    /\ run' = [run EXCEPT ![r].mine = @ \cup {NextFile(r)}, ![r].todo = @ \ {NextFile(r)}]
    /\ UNCHANGED <<released, faulty, database, runs>>

\* One file: its statements and its row, inside a savepoint.
ApplyFile(r) ==
    /\ run[r].pc = "apply" /\ run[r].todo # {}
    /\ NextFile(r) \notin run[r].bad \cup recorded
    /\ \A s \in Runners : ~ Waits(r, s)
    /\ run' = [run EXCEPT ![r].mine = @ \cup {NextFile(r)}, ![r].todo = @ \ {NextFile(r)}]
    /\ UNCHANGED <<released, faulty, database, runs>>

\* MUTANT of Raise: every file before the failing one has been committed.
RaiseKeepsFiles(r) ==
    /\ run[r].pc = "apply" /\ run[r].todo # {}
    /\ NextFile(r) \in run[r].bad \cup recorded
    /\ recorded' = recorded \cup run[r].mine
    /\ effects' = [f \in MigrationFiles |->
                      IF f \in run[r].mine THEN effects[f] + 1 ELSE effects[f]]
    /\ run' = [run EXCEPT ![r] = Idle]
    /\ UNCHANGED <<released, faulty, table, runs>>

\* The file raises, or another run has committed it since the list was read:
\* the exception leaves the connection's context, which rolls everything back.
Raise(r) ==
    /\ run[r].pc = "apply" /\ run[r].todo # {}
    /\ NextFile(r) \in run[r].bad \cup recorded
    /\ run' = [run EXCEPT ![r] = Idle]
    /\ UNCHANGED <<released, faulty, database, runs>>

\* The process dies or loses its connection.
CrashRun(r) ==
    /\ run[r].pc # "idle"
    /\ run' = [run EXCEPT ![r] = Idle]
    /\ UNCHANGED <<released, faulty, database, runs>>

\* The connection's context ends without an exception, and commits.
CommitRun(r) ==
    /\ run[r].pc = "apply" /\ run[r].todo = {}
    /\ recorded' = recorded \cup run[r].mine
    /\ effects' = [f \in MigrationFiles |->
                      IF f \in run[r].mine THEN effects[f] + 1 ELSE effects[f]]
    /\ run' = [run EXCEPT ![r] = Idle]
    /\ UNCHANGED <<released, faulty, table, runs>>

RunStep(r) ==
    \/ EnsureMigrationsTable(r) \/ ListPending(r) \/ ApplyFile(r) \/ Raise(r)
    \/ CommitRun(r)

MigrateNext ==
    \/ \E isFaulty \in BOOLEAN : ReleaseFile(isFaulty)
    \/ \E f \in faulty : FixFile(f)
    \/ \E r \in Runners :
          (\E n \in 0..released : StartRun(r, n)) \/ RunStep(r) \/ CrashRun(r)

MigrateSpec == MigrateInit /\ [][MigrateNext]_migrateVars

-----------------------------------------------------------------------------
(* Properties.                                                             *)

\* The statements of a migration have been committed once if it is recorded and
\* never if it is not, however runs overlap, fail and are repeated.
AppliedOnce ==
    \A f \in MigrationFiles : effects[f] = IF f \in recorded THEN 1 ELSE 0

\* A runner that waits for another waits for one that is ahead of it, so that
\* runners never wait for each other.
RunnersDoNotDeadlock ==
    \A r, s \in Runners : Waits(r, s) => ~ Waits(s, r)

\* A run that succeeds leaves nothing of its checkout out and a run that fails
\* leaves nothing behind: what is recorded changes only to include a checkout, so
\* that no migration is ever there without those before it.
RunIsAllOrNothing ==
    [][recorded' # recorded =>
          \E r \in Runners : run'[r] = Idle /\ recorded' = recorded \cup run[r].files]_migrateVars
=============================================================================
