--------------------------- MODULE DatabaseProofs ---------------------------
(***************************************************************************)
(* Theorems of Migrations, for any number of runners, files and runs; of   *)
(* TechnologyLocks, for any projects, manifests and order of the           *)
(* technologies; and of their composition with Retrieval, MCDatabase.      *)
(***************************************************************************)
EXTENDS MCDatabase, RetrievalProofs, WellFoundedInduction, FiniteSetTheorems, TLAPS

-----------------------------------------------------------------------------
(* Migrations.                                                             *)

\* What holds of a run that applies files: every file of its checkout is recorded,
\* applied by it or still to apply, and those it has applied come first.
RunsInOrder ==
    \A r \in Runners : run[r].pc = "apply" =>
        /\ run[r].mine \cup run[r].todo \subseteq run[r].files
        /\ run[r].files \subseteq recorded \cup run[r].mine \cup run[r].todo
        /\ \A m \in run[r].mine, t \in run[r].todo : m < t

MineOnlyWhileApplying == \A r \in Runners : run[r].pc # "apply" => run[r].mine = {}

\* What a run has applied, nobody has recorded and no other run has applied.
MineIsMine ==
    \A r \in Runners :
        /\ run[r].mine \cap recorded = {}
        /\ \A s \in Runners : r # s => run[r].mine \cap run[s].mine = {}

MigrateInv ==
    /\ MigrateTypeOK
    /\ AppliedOnce
    /\ RunsInOrder
    /\ MineOnlyWhileApplying
    /\ MineIsMine

-----------------------------------------------------------------------------
\* The order of the natural numbers as a set of pairs, and that it is well-founded.
Smaller == {p \in Nat \X Nat : p[1] < p[2]}

\* The order of the natural numbers is well-founded.
LEMMA SmallerIsWellFounded == IsWellFoundedOn(Smaller, Nat)
<1>1. Smaller = OpToRel(<, Nat)
  BY Zenon DEF OpToRel, Smaller
<1>. QED
  BY <1>1, NatLessThanWellFounded, Zenon

\* So a set of numbers has a least one, and Min is it.
LEMMA MinIsLeast ==
  ASSUME NEW S \in SUBSET Nat, S # {}
  PROVE  Min(S) \in S /\ \A s \in S : Min(S) <= s
<1>1. PICK m \in S : \A n \in S : ~(<<n, m>> \in Smaller)
  BY SmallerIsWellFounded, WFMin, Zenon
<1>2. \A n \in S : m <= n
  <2>1. TAKE n \in S
  <2>2. <<n, m>> \in Nat \X Nat /\ <<n, m>>[1] = n /\ <<n, m>>[2] = m
    OBVIOUS
  <2>3. ~ (n < m)
    BY <1>1, <2>2, Zenon DEF Smaller
  <2>. QED
    BY <2>3
<1>. QED
  BY <1>2, Zenon DEF Min

\* The next file of a list is on it, and comes before the others.
LEMMA NextIsFirst ==
  ASSUME MigrationsAssumption, MigrateTypeOK, NEW r \in Runners, run[r].todo # {}
  PROVE  /\ NextFile(r) \in run[r].todo
         /\ NextFile(r) \in MigrationFiles
         /\ \A t \in run[r].todo : NextFile(r) <= t
<1>1. run[r].todo \subseteq MigrationFiles
  BY DEF MigrateTypeOK, Run
<1>2. run[r].todo \in SUBSET Nat
  BY <1>1 DEF MigrationFiles
<1>. QED
  BY <1>1, <1>2, MinIsLeast, Zenon DEF NextFile

-----------------------------------------------------------------------------
\* Nothing is recorded or applied at the start.
LEMMA InitEstablishes ==
  ASSUME MigrationsAssumption, MigrateInit
  PROVE  MigrateInv
<1>1. Idle \in Run /\ Idle.pc # "apply" /\ Idle.mine = {}
  BY DEF Idle, Run
<1>2. MigrateTypeOK
  <2>1. 0 \in 0..MaxFiles /\ 0 \in 0..MaxRuns
    BY DEF MigrationsAssumption
  <2>2. run \in [Runners -> Run] /\ effects \in [MigrationFiles -> Nat]
    BY <1>1 DEF MigrateInit
  <2>3. recorded \subseteq MigrationFiles /\ faulty \subseteq MigrationFiles
    BY DEF MigrateInit
  <2>. QED
    BY <2>1, <2>2, <2>3, Zenon DEF MigrateInit, MigrateTypeOK
<1>3. AppliedOnce
  BY DEF MigrateInit, AppliedOnce
<1>4. RunsInOrder /\ MineOnlyWhileApplying /\ MineIsMine
  BY <1>1 DEF MigrateInit, RunsInOrder, MineOnlyWhileApplying, MineIsMine
<1>. QED
  BY <1>2, <1>3, <1>4 DEF MigrateInv

\* A step that leaves the database and the runners alone.
LEMMA StutterKeeps ==
  ASSUME MigrateInv, UNCHANGED <<database, run>>, released' \in 0..MaxFiles,
         faulty' \subseteq MigrationFiles, runs' \in 0..MaxRuns
  PROVE  MigrateInv'
  BY DEF MigrateInv, MigrateTypeOK, AppliedOnce, RunsInOrder, MineOnlyWhileApplying,
         MineIsMine, database

\* A new file is recorded by nobody.
LEMMA ReleaseFileKeeps ==
  ASSUME MigrationsAssumption, MigrateInv, NEW isFaulty \in BOOLEAN,
         ReleaseFile(isFaulty)
  PROVE  MigrateInv'
<1>1. released \in 0..MaxFiles /\ faulty \subseteq MigrationFiles /\ runs \in 0..MaxRuns
  BY DEF MigrateInv, MigrateTypeOK
<1>2. released' \in 0..MaxFiles /\ released + 1 \in MigrationFiles
  BY <1>1 DEF MigrationsAssumption, ReleaseFile, MigrationFiles
<1>. QED
  BY <1>1, <1>2, StutterKeeps DEF ReleaseFile

\* The text of a faulty file may be mended.
LEMMA FixFileKeeps ==
  ASSUME MigrateInv, NEW f \in faulty, FixFile(f)
  PROVE  MigrateInv'
  BY StutterKeeps DEF FixFile, MigrateInv, MigrateTypeOK

\* A run that begins or ends without committing, or moves on before it applies:
\* it has applied nothing.
LEMMA EmptyRunKeeps ==
  ASSUME MigrateInv, NEW r \in Runners, NEW next \in Run,
         run' = [run EXCEPT ![r] = next], next.pc # "apply", next.mine = {},
         UNCHANGED <<released, faulty, recorded, effects>>,
         table' \in BOOLEAN, runs' \in 0..MaxRuns
  PROVE  MigrateInv'
<1>1. run \in [Runners -> Run]
  BY DEF MigrateInv, MigrateTypeOK
<1>2. /\ run'[r] = next
      /\ \A s \in Runners : s # r => run'[s] = run[s]
  BY <1>1
<1>3. MigrateTypeOK'
  BY <1>1 DEF MigrateInv, MigrateTypeOK
<1>4. AppliedOnce'
  BY DEF MigrateInv, AppliedOnce
<1>5. RunsInOrder'
  BY <1>2 DEF MigrateInv, RunsInOrder
<1>6. MineOnlyWhileApplying'
  BY <1>2 DEF MigrateInv, MineOnlyWhileApplying
<1>7. MineIsMine'
  BY <1>2 DEF MigrateInv, MineIsMine
<1>. QED
  BY <1>3, <1>4, <1>5, <1>6, <1>7 DEF MigrateInv

\* A run starts with nothing applied.
LEMMA StartRunKeeps ==
  ASSUME MigrationsAssumption, MigrateInv, NEW r \in Runners, NEW n \in 0..released,
         StartRun(r, n)
  PROVE  MigrateInv'
<1>. DEFINE next == [Idle EXCEPT !.pc = "ensure", !.files = 1..n, !.bad = faulty]
<1>1. released \in 0..MaxFiles /\ faulty \subseteq MigrationFiles /\ runs \in 0..MaxRuns
  BY DEF MigrateInv, MigrateTypeOK
<1>2. 1..n \subseteq MigrationFiles
  BY <1>1 DEF MigrationFiles, MigrationsAssumption
<1>3. next \in Run /\ next.pc # "apply" /\ next.mine = {}
  BY <1>1, <1>2 DEF Idle, Run
<1>4. runs' \in 0..MaxRuns
  BY <1>1 DEF StartRun, MigrationsAssumption
<1>5. table' \in BOOLEAN
  BY DEF StartRun, database, MigrateInv, MigrateTypeOK
<1>. QED
  BY <1>3, <1>4, <1>5, EmptyRunKeeps DEF StartRun, database

\* Creating the table of migrations records nothing.
LEMMA EnsureKeeps ==
  ASSUME MigrateInv, NEW r \in Runners, EnsureMigrationsTable(r)
  PROVE  MigrateInv'
<1>. DEFINE next == [run[r] EXCEPT !.pc = "list"]
<1>1. run \in [Runners -> Run] /\ runs \in 0..MaxRuns
  BY DEF MigrateInv, MigrateTypeOK
<1>2. run[r].mine = {}
  BY DEF MigrateInv, MineOnlyWhileApplying, EnsureMigrationsTable
<1>3. next \in Run /\ next.pc # "apply" /\ next.mine = {}
  BY <1>1, <1>2 DEF Run
<1>4. run' = [run EXCEPT ![r] = next]
  BY <1>1 DEF EnsureMigrationsTable
<1>. QED
  BY <1>1, <1>3, <1>4, EmptyRunKeeps DEF EnsureMigrationsTable

\* The end of a run that is rolled back.
LEMMA RollBackKeeps ==
  ASSUME MigrateInv, NEW r \in Runners, Raise(r) \/ CrashRun(r)
  PROVE  MigrateInv'
<1>1. Idle \in Run /\ Idle.pc # "apply" /\ Idle.mine = {}
  BY DEF Idle, Run
<1>2. table' \in BOOLEAN /\ runs' \in 0..MaxRuns
  BY DEF Raise, CrashRun, database, MigrateInv, MigrateTypeOK
<1>. QED
  BY <1>1, <1>2, EmptyRunKeeps DEF Raise, CrashRun, database

\* What a run has to apply is its checkout without what is recorded.
LEMMA ListPendingKeeps ==
  ASSUME MigrateInv, NEW r \in Runners, ListPending(r)
  PROVE  MigrateInv'
<1>. DEFINE next == [run[r] EXCEPT !.pc = "apply", !.todo = run[r].files \ recorded]
<1>1. run \in [Runners -> Run]
  BY DEF MigrateInv, MigrateTypeOK
<1>2. run[r].mine = {}
  BY DEF MigrateInv, MineOnlyWhileApplying, ListPending
<1>3. run' = [run EXCEPT ![r] = next]
  BY <1>1 DEF ListPending
<1>4. /\ next \in Run /\ next.pc = "apply" /\ next.mine = {}
      /\ next.files = run[r].files /\ next.todo = run[r].files \ recorded
  BY <1>1, <1>2 DEF Run
<1>5. /\ run'[r] = next
      /\ \A s \in Runners : s # r => run'[s] = run[s]
  BY <1>1, <1>3
<1>6. MigrateTypeOK'
  BY <1>1, <1>3, <1>4 DEF MigrateInv, MigrateTypeOK, ListPending, database
<1>7. AppliedOnce'
  BY DEF MigrateInv, AppliedOnce, ListPending, database
<1>8. RunsInOrder'
  BY <1>4, <1>5, ZenonT(40) DEF MigrateInv, RunsInOrder, ListPending, database
<1>9. MineOnlyWhileApplying' /\ MineIsMine'
  BY <1>2, <1>4, <1>5, ZenonT(40)
     DEF MigrateInv, MineOnlyWhileApplying, MineIsMine, ListPending, database
<1>. QED
  BY <1>6, <1>7, <1>8, <1>9 DEF MigrateInv

\* A file is applied by one open run at a time, and only if it is not recorded.
LEMMA ApplyFileKeeps ==
  ASSUME MigrationsAssumption, MigrateInv, NEW r \in Runners, ApplyFile(r)
  PROVE  MigrateInv'
<1>. DEFINE file == NextFile(r)
            next == [run[r] EXCEPT !.mine = @ \cup {file}, !.todo = @ \ {file}]
<1>1. run \in [Runners -> Run]
  BY DEF MigrateInv, MigrateTypeOK
<1>2. /\ file \in run[r].todo /\ file \in MigrationFiles
      /\ \A t \in run[r].todo : file <= t
  BY NextIsFirst DEF MigrateInv, ApplyFile
<1>3. /\ run[r].pc = "apply"
      /\ file \notin recorded
      /\ \A s \in Runners : s # r => file \notin run[s].mine
  BY DEF ApplyFile, Waits
<1>4. run' = [run EXCEPT ![r] = next]
  BY <1>1 DEF ApplyFile
<1>5. /\ next \in Run /\ next.pc = "apply" /\ next.files = run[r].files
      /\ next.mine = run[r].mine \cup {file} /\ next.todo = run[r].todo \ {file}
  BY <1>1, <1>2, <1>3 DEF Run
<1>6. /\ run'[r] = next
      /\ \A s \in Runners : s # r => run'[s] = run[s]
  BY <1>1, <1>4
<1>7. recorded' = recorded /\ effects' = effects /\ table' = table
  BY DEF ApplyFile, database
<1>. HIDE DEF file, next
<1>8. MigrateTypeOK'
  BY <1>1, <1>4, <1>5, <1>7 DEF MigrateInv, MigrateTypeOK, ApplyFile
<1>9. AppliedOnce'
  BY <1>7 DEF MigrateInv, AppliedOnce
<1>10. RunsInOrder'
  <2>1. ASSUME NEW m \in next.mine, NEW t \in next.todo
        PROVE  m < t
    <3>1. t \in run[r].todo /\ t # file /\ file <= t
      BY <1>2, <1>5
    <3>2. t \in Nat /\ file \in Nat
      BY <1>1, <1>2, <3>1 DEF Run, MigrationFiles
    <3>3. CASE m = file
      BY <3>1, <3>2, <3>3
    <3>4. CASE m \in run[r].mine
      BY <1>3, <3>1, <3>4 DEF MigrateInv, RunsInOrder
    <3>. QED
      BY <1>5, <3>3, <3>4
  <2>2. /\ next.mine \cup next.todo \subseteq next.files
        /\ next.files \subseteq recorded \cup next.mine \cup next.todo
    BY <1>2, <1>3, <1>5 DEF MigrateInv, RunsInOrder
  <2>. QED
    BY <1>6, <1>7, <2>1, <2>2 DEF MigrateInv, RunsInOrder
<1>11. MineOnlyWhileApplying'
  BY <1>5, <1>6 DEF MigrateInv, MineOnlyWhileApplying
<1>12. MineIsMine'
  BY <1>3, <1>5, <1>6, <1>7 DEF MigrateInv, MineIsMine
<1>. QED
  BY <1>8, <1>9, <1>10, <1>11, <1>12 DEF MigrateInv

\* A commit records exactly what the run has applied.
LEMMA CommitRunKeeps ==
  ASSUME MigrateInv, NEW r \in Runners, CommitRun(r)
  PROVE  MigrateInv'
<1>1. run \in [Runners -> Run] /\ effects \in [MigrationFiles -> Nat]
  BY DEF MigrateInv, MigrateTypeOK
<1>2. /\ run'[r] = Idle
      /\ \A s \in Runners : s # r => run'[s] = run[s]
  BY <1>1 DEF CommitRun
<1>3. Idle \in Run /\ Idle.pc # "apply" /\ Idle.mine = {}
  BY DEF Idle, Run
<1>4. run[r].mine \subseteq MigrationFiles
  BY <1>1 DEF Run
<1>5. recorded' = recorded \cup run[r].mine
  BY DEF CommitRun
<1>6. MigrateTypeOK'
  BY <1>1, <1>3, <1>4 DEF MigrateInv, MigrateTypeOK, CommitRun
<1>7. AppliedOnce'
  <2>1. \A f \in run[r].mine : f \notin recorded
    BY DEF MigrateInv, MineIsMine
  <2>. QED
    BY <1>5, <2>1 DEF MigrateInv, AppliedOnce, CommitRun
<1>8. RunsInOrder'
  BY <1>2, <1>3, <1>5 DEF MigrateInv, RunsInOrder
<1>9. MineOnlyWhileApplying'
  BY <1>2, <1>3 DEF MigrateInv, MineOnlyWhileApplying
<1>10. MineIsMine'
  BY <1>2, <1>3, <1>5 DEF MigrateInv, MineIsMine
<1>. QED
  BY <1>6, <1>7, <1>8, <1>9, <1>10 DEF MigrateInv

\* Every step keeps the invariant.
LEMMA NextKeeps ==
  ASSUME MigrationsAssumption
  PROVE  MigrateInv /\ [MigrateNext]_migrateVars => MigrateInv'
<1>. SUFFICES ASSUME MigrateInv, [MigrateNext]_migrateVars
              PROVE  MigrateInv'
  OBVIOUS
<1>1. CASE \E isFaulty \in BOOLEAN : ReleaseFile(isFaulty)
  BY <1>1, ReleaseFileKeeps
<1>2. CASE \E f \in faulty : FixFile(f)
  BY <1>2, FixFileKeeps
<1>3. ASSUME NEW r \in Runners, NEW n \in 0..released, StartRun(r, n)
      PROVE  MigrateInv'
  BY <1>3, StartRunKeeps
<1>4. ASSUME NEW r \in Runners, RunStep(r)
      PROVE  MigrateInv'
  BY <1>4, EnsureKeeps, ListPendingKeeps, ApplyFileKeeps, RollBackKeeps, CommitRunKeeps
     DEF RunStep
<1>5. ASSUME NEW r \in Runners, CrashRun(r)
      PROVE  MigrateInv'
  BY <1>5, RollBackKeeps
<1>6. CASE UNCHANGED migrateVars
  <2>1. released' \in 0..MaxFiles /\ faulty' \subseteq MigrationFiles /\ runs' \in 0..MaxRuns
    BY <1>6 DEF migrateVars, MigrateInv, MigrateTypeOK
  <2>. QED
    BY <1>6, <2>1, StutterKeeps DEF migrateVars
<1>. QED
  BY <1>1, <1>2, <1>3, <1>4, <1>5, <1>6 DEF MigrateNext

\* The invariant of migration runs, for any runners, files, crashes and checkouts.
THEOREM MigrateInvHolds == ASSUME MigrationsAssumption PROVE MigrateSpec => []MigrateInv
  BY InitEstablishes, NextKeeps, PTL DEF MigrateSpec

-----------------------------------------------------------------------------
\* Every variable of the migration runner keeps its type.
THEOREM MigrateTypeSafe ==
  ASSUME MigrationsAssumption PROVE MigrateSpec => []MigrateTypeOK
<1>1. MigrateInv => MigrateTypeOK
  BY DEF MigrateInv
<1>. QED
  BY <1>1, MigrateInvHolds, PTL

\* However many runners overlap, crash and are started again, from whatever
\* checkouts, the statements of a file are committed once if it is recorded and
\* never if it is not.
THEOREM EffectsMatchRecords ==
  ASSUME MigrationsAssumption PROVE MigrateSpec => []AppliedOnce
<1>1. MigrateInv => AppliedOnce
  BY DEF MigrateInv
<1>. QED
  BY <1>1, MigrateInvHolds, PTL

\* Runners never wait for each other: the order of the file names makes the one that
\* waits wait for a file that comes before all it could hold up.
THEOREM NoDeadlock ==
  ASSUME MigrationsAssumption PROVE MigrateSpec => []RunnersDoNotDeadlock
<1>1. MigrateInv => RunnersDoNotDeadlock
  <2>. SUFFICES ASSUME MigrateInv, NEW r \in Runners, NEW s \in Runners,
                       Waits(r, s), Waits(s, r)
                PROVE  FALSE
    BY DEF RunnersDoNotDeadlock
  <2>1. /\ NextFile(r) \in run[r].todo /\ NextFile(r) \in MigrationFiles
        /\ NextFile(s) \in run[s].todo /\ NextFile(s) \in MigrationFiles
    BY NextIsFirst DEF MigrateInv, Waits
  <2>2. NextFile(r) < NextFile(s)
    BY <2>1 DEF MigrateInv, RunsInOrder, Waits
  <2>3. NextFile(s) < NextFile(r)
    BY <2>1 DEF MigrateInv, RunsInOrder, Waits
  <2>. QED
    BY <2>1, <2>2, <2>3 DEF MigrationFiles
<1>. QED
  BY <1>1, MigrateInvHolds, PTL

\* What is recorded changes only when a run ends well, and then to include the whole
\* of its checkout.
THEOREM AllOrNothing ==
  ASSUME MigrationsAssumption PROVE MigrateSpec => RunIsAllOrNothing
<1>1. ASSUME MigrateInv, [MigrateNext]_migrateVars, recorded' # recorded
      PROVE  \E r \in Runners : run'[r] = Idle /\ recorded' = recorded \cup run[r].files
  <2>1. PICK r \in Runners : CommitRun(r)
    BY <1>1 DEF MigrateNext, RunStep, ReleaseFile, FixFile, StartRun, CrashRun,
                EnsureMigrationsTable, ListPending, ApplyFile, Raise, database, migrateVars
  <2>2. run'[r] = Idle
    BY <1>1, <2>1 DEF CommitRun, MigrateInv, MigrateTypeOK
  <2>3. recorded \cup run[r].mine = recorded \cup run[r].files
    BY <1>1, <2>1 DEF CommitRun, MigrateInv, RunsInOrder
  <2>. QED
    BY <2>1, <2>2, <2>3 DEF CommitRun
<1>2. MigrateInv /\ [MigrateNext]_migrateVars
      => [recorded' # recorded =>
            \E r \in Runners : run'[r] = Idle
                               /\ recorded' = recorded \cup run[r].files]_migrateVars
  BY <1>1
<1>. QED
  BY <1>2, MigrateInvHolds, PTL DEF MigrateSpec, RunIsAllOrNothing

-----------------------------------------------------------------------------
(* TechnologyLocks: manifests in one order never wait for each other in a  *)
(* circle.                                                                 *)

\* The inductive invariant.
LockInv ==
    /\ LockTypeOK
    /\ \A p \in Projects : done[p] <= Len(declared[p])
    /\ OwnersAreOpen
    /\ AlignedNeverFail
    /\ NeverBack

\* Climbing inside a finite set comes to an end: of the members above a member, those
\* above one of them are fewer.
LEMMA ClimbsEnd ==
  ASSUME NEW c, IsFiniteSet(c), c # {}, NEW f, \A p \in c : f[p] \in Nat
  PROVE  \E p \in c : \A q \in c : ~(f[p] < f[q])
<1>. DEFINE Above(p) == {q \in c : f[p] < f[q]}
            U == {Above(p) : p \in c}
<1>1. U \subseteq FiniteSubsetsOf(c) /\ U # {}
  <2>1. FiniteSubsetsOf(c) = SUBSET c
    BY FS_FiniteSubsetsOfFinite
  <2>2. U \subseteq SUBSET c /\ U # {}
    OBVIOUS
  <2>. QED
    BY <2>1, <2>2, Zenon
<1>2. PICK u \in U : \A v \in U : <<v, u>> \notin StrictSubsetOrdering(c)
  BY <1>1, FS_StrictSubsetOrderingWellFounded, WFMin, Zenon
<1>3. PICK p \in c : u = Above(p)
  BY <1>2
<1>4. ASSUME NEW q \in c, f[p] < f[q] PROVE FALSE
  <2>1. Above(q) \subseteq Above(p) /\ q \in Above(p) /\ q \notin Above(q)
    BY <1>4
  <2>2. <<Above(q), u>> \in StrictSubsetOrdering(c)
    BY <1>3, <2>1 DEF StrictSubsetOrdering
  <2>. QED
    BY <1>2, <2>2
<1>. QED
  BY <1>4

-----------------------------------------------------------------------------
(* What a transaction waits for.                                           *)

\* What an unfinished transaction wants is on its list.
LEMMA WantedIsListed ==
  ASSUME LocksAssumption, LockTypeOK, NEW p \in Projects, Unfinished(p)
  PROVE  /\ done[p] + 1 \in DOMAIN declared[p] /\ Wanted(p) = declared[p][done[p] + 1]
         /\ Wanted(p) \in Technologies
<1>1. declared[p] \in Seq(Technologies) /\ done[p] \in Nat
  BY DEF LocksAssumption, LockTypeOK
<1>. QED
  BY <1>1 DEF Unfinished, Wanted

\* Aligned manifests: the one waited for wants something later, since it has upserted
\* what is wanted of it and does not hold what it waits for.
LEMMA InvClimbs == ASSUME LocksAssumption, LockInv PROVE WaitingClimbs
<1> SUFFICES ASSUME Aligned, NEW p \in Projects, NEW q \in Projects, NEW r \in Projects,
                    WaitsFor(p, q), WaitsFor(q, r)
             PROVE  Rank[Wanted(p)] < Rank[Wanted(q)]
  BY DEF WaitingClimbs
<1>1. /\ Unfinished(p) /\ Unfinished(q)
      /\ owner[Wanted(p)] = q /\ owner[Wanted(q)] = r /\ r # q
  BY DEF WaitsFor
<1>2. /\ Wanted(p) \in Technologies
      /\ done[q] + 1 \in DOMAIN declared[q] /\ Wanted(q) = declared[q][done[q] + 1]
  BY <1>1, WantedIsListed DEF LockInv
<1>3. q # Nobody
  BY DEF LocksAssumption
<1>4. PICK i \in DOMAIN declared[q] : i <= done[q] + 1 /\ declared[q][i] = Wanted(p)
  BY <1>1, <1>2, <1>3 DEF LockInv, OwnersAreOpen
<1>5. i # done[q] + 1
  BY <1>1, <1>2, <1>4
<1>6. i \in Nat /\ done[q] \in Nat
  BY DEF LockInv, LockTypeOK, LocksAssumption
<1>7. i < done[q] + 1
  BY <1>4, <1>5, <1>6
<1>. QED
  BY <1>2, <1>4, <1>7 DEF Aligned

\* So that there is no circle.
LEMMA NoCircle ==
  ASSUME LocksAssumption, LockInv, Aligned, NEW c \in SUBSET Projects
  PROVE  ~IsCircle(c)
<1> SUFFICES ASSUME IsCircle(c) PROVE FALSE
  OBVIOUS
<1>. DEFINE f == [p \in c |-> Rank[Wanted(p)]]
<1>1. c # {} /\ \A p \in c : \E q \in c : WaitsFor(p, q)
  BY DEF IsCircle
<1>2. \A p \in c : Unfinished(p)
  BY <1>1 DEF WaitsFor
<1>3. \A p \in c : f[p] \in Nat
  BY <1>2, WantedIsListed DEF LockInv, LocksAssumption
<1>4. \A p, q \in c : WaitsFor(p, q) => f[p] < f[q]
  BY <1>1, InvClimbs DEF WaitingClimbs
<1>5. IsFiniteSet(c)
  BY FS_Subset DEF LocksAssumption
<1>. HIDE DEF f
<1>. QED
  BY <1>1, <1>3, <1>4, <1>5, ClimbsEnd

-----------------------------------------------------------------------------
(* The invariant is one.                                                   *)

\* No lock is held at the start,
LEMMA InitLocks == ASSUME LocksAssumption, LockInit PROVE LockInv
<1>1. \A p \in Projects : declared[p] \in Seq(Technologies) /\ Len(declared[p]) \in Nat
  BY DEF LockInit, LocksAssumption
<1>2. LockTypeOK
  BY DEF LockInit, LockTypeOK, Stages, LocksAssumption
<1>. QED
  BY <1>1, <1>2 DEF LockInit, LockInv, OwnersAreOpen, AlignedNeverFail, NeverBack

\* A transaction that ends leaves nothing locked, and what it had locked goes to
\* those that waited for it.
LEMMA EndKeepsOwners ==
  ASSUME LocksAssumption, LockInv, NEW p \in Projects, NEW s, s # "open",
         owner' \in Released(p), stage' = [stage EXCEPT ![p] = s],
         done' = [done EXCEPT ![p] = 0], declared' = declared
  PROVE  /\ owner' \in [Technologies -> Projects \cup {Nobody}]
         /\ OwnersAreOpen'
<1>1. owner' \in [Technologies -> Projects \cup {Nobody}]
  BY DEF Released
<1>2. ASSUME NEW t \in Technologies, owner'[t] # Nobody
      PROVE  LET q == owner'[t] IN
             /\ stage'[q] = "open"
             /\ \E i \in DOMAIN declared'[q] : i <= done'[q] + 1 /\ declared'[q][i] = t
  <2>. DEFINE q == owner'[t]
  <2>1. \/ owner[t] # p /\ q = owner[t]
        \/ WaitsFor(q, p) /\ Wanted(q) = t
    BY <1>2 DEF Released
  <2>2. q \in Projects
    BY <1>1, <1>2
  <2>. HIDE DEF q
  <2>3. /\ q # p /\ stage[q] = "open"
        /\ \E i \in DOMAIN declared[q] : i <= done[q] + 1 /\ declared[q][i] = t
    <3>1. CASE owner[t] # p /\ q = owner[t]
      BY <1>2, <2>2, <3>1 DEF LockInv, OwnersAreOpen, q
    <3>2. CASE WaitsFor(q, p) /\ Wanted(q) = t
      <4>1. Unfinished(q) /\ q # p
        BY <3>2 DEF WaitsFor
      <4>2. done[q] + 1 \in DOMAIN declared[q] /\ t = declared[q][done[q] + 1]
        BY <2>2, <3>2, <4>1, WantedIsListed DEF LockInv
      <4>3. done[q] + 1 <= done[q] + 1
        BY <2>2 DEF LockInv, LockTypeOK
      <4>. QED
        BY <4>1, <4>2, <4>3 DEF Unfinished
    <3>. QED
      BY <2>1, <3>1, <3>2
  <2>4. stage'[q] = stage[q] /\ done'[q] = done[q] /\ declared'[q] = declared[q]
    BY <2>2, <2>3 DEF LockInv, LockTypeOK
  <2>. QED
    BY <2>3, <2>4 DEF q
<1>. QED
  BY <1>1, <1>2 DEF OwnersAreOpen

\* A worker starts a transaction, which has locked nothing.
LEMMA ReceiveLocks ==
  ASSUME LocksAssumption, LockInv, NEW p \in Projects, Receive(p) PROVE LockInv'
<1>1. LockTypeOK'
  BY DEF Receive, LockInv, LockTypeOK, Stages, LocksAssumption
<1>2. OwnersAreOpen'
  BY DEF Receive, LockInv, LockTypeOK, OwnersAreOpen
<1>3. AlignedNeverFail' /\ NeverBack'
  BY DEF Receive, LockInv, LockTypeOK, AlignedNeverFail, NeverBack, Aligned
<1>4. (\A q \in Projects : done[q] <= Len(declared[q]))'
  BY DEF Receive, LockInv
<1>. QED
  BY <1>1, <1>2, <1>3, <1>4 DEF LockInv

\* It locks what it upserts.
LEMMA UpsertLocks ==
  ASSUME LocksAssumption, LockInv, NEW p \in Projects, UpsertTechnology(p) PROVE LockInv'
<1>1. /\ Unfinished(p) /\ owner' = [owner EXCEPT ![Wanted(p)] = p]
      /\ done' = [done EXCEPT ![p] = @ + 1] /\ UNCHANGED <<declared, stage, attempts>>
  BY DEF UpsertTechnology
<1>2. /\ done[p] + 1 \in DOMAIN declared[p] /\ Wanted(p) = declared[p][done[p] + 1]
      /\ Wanted(p) \in Technologies
  BY <1>1, WantedIsListed DEF LockInv
<1>3. done \in [Projects -> Nat] /\ \A q \in Projects : declared[q] \in Seq(Technologies)
  BY DEF LockInv, LockTypeOK, LocksAssumption
<1>4. LockTypeOK'
  BY <1>1, <1>2, <1>3 DEF LockInv, LockTypeOK
<1>5. OwnersAreOpen'
  <2> SUFFICES ASSUME NEW t \in Technologies, owner'[t] # Nobody
               PROVE  LET q == owner'[t] IN
                      /\ stage[q] = "open"
                      /\ \E i \in DOMAIN declared[q] : i <= done'[q] + 1 /\ declared[q][i] = t
    BY <1>1 DEF OwnersAreOpen
  <2>1. CASE t = Wanted(p)
    <3>1. owner'[t] = p /\ stage[p] = "open" /\ done'[p] = done[p] + 1
      BY <1>1, <1>2, <1>3, <2>1 DEF Unfinished, LockInv, LockTypeOK
    <3>2. done[p] + 1 <= done'[p] + 1
      BY <1>3, <3>1
    <3>. QED
      BY <1>2, <2>1, <3>1, <3>2
  <2>2. CASE t # Wanted(p)
    <3>. DEFINE q == owner[t]
    <3>1. owner'[t] = q /\ q \in Projects
      BY <1>1, <2>2 DEF LockInv, LockTypeOK
    <3>2. stage[q] = "open" /\ \E i \in DOMAIN declared[q] : i <= done[q] + 1 /\ declared[q][i] = t
      BY <3>1 DEF LockInv, OwnersAreOpen
    <3>. HIDE DEF q
    <3>3. done[q] <= done'[q] /\ done'[q] \in Nat /\ DOMAIN declared[q] \subseteq Nat
      BY <1>1, <1>3, <3>1
    <3>. QED
      BY <1>3, <3>1, <3>2, <3>3
  <2>. QED
    BY <2>1, <2>2
<1>6. AlignedNeverFail' /\ NeverBack'
  BY <1>1 DEF LockInv, AlignedNeverFail, NeverBack, Aligned
<1>7. (\A q \in Projects : done[q] <= Len(declared[q]))'
  BY <1>1, <1>2, <1>3 DEF LockInv, Unfinished
<1>. QED
  BY <1>4, <1>5, <1>6, <1>7 DEF LockInv

\* It ends: by committing, or as one of a circle, of which there is none if the
\* manifests are aligned.
LEMMA EndLocks ==
  ASSUME LocksAssumption, LockInv, NEW p \in Projects, CommitProject(p) \/ FailDeadlocked(p)
  PROVE  LockInv'
<1>1. PICK s \in {"committed", "queued"} :
         /\ owner' \in Released(p) /\ stage' = [stage EXCEPT ![p] = s]
         /\ done' = [done EXCEPT ![p] = 0] /\ UNCHANGED <<declared, attempts>>
         /\ s = "queued" => \E c \in SUBSET Projects : IsCircle(c)
  BY DEF CommitProject, FailDeadlocked
<1>2. owner' \in [Technologies -> Projects \cup {Nobody}] /\ OwnersAreOpen'
  BY <1>1, EndKeepsOwners
<1>3. LockTypeOK'
  BY <1>1, <1>2 DEF LockInv, LockTypeOK, Stages
<1>4. Aligned' => Aligned /\ s # "queued"
  BY <1>1, NoCircle DEF Aligned
<1>5. AlignedNeverFail' /\ NeverBack'
  BY <1>1, <1>4 DEF LockInv, LockTypeOK, AlignedNeverFail, NeverBack
<1>6. \A q \in Projects : declared[q] \in Seq(Technologies)
  BY DEF LockInv, LockTypeOK, LocksAssumption
<1>7. (\A q \in Projects : done[q] <= Len(declared[q]))'
  BY <1>1, <1>6 DEF LockInv, LockTypeOK
<1>. QED
  BY <1>2, <1>3, <1>5, <1>7 DEF LockInv

\* and every step keeps the order in which aligned projects climb.
LEMMA NextLocks == ASSUME LocksAssumption, LockInv, [LockNext]_lockVars PROVE LockInv'
<1>1. CASE UNCHANGED lockVars
  BY <1>1 DEF lockVars, LockInv, LockTypeOK, OwnersAreOpen, AlignedNeverFail, NeverBack, Aligned
<1>2. ASSUME NEW p \in Projects, MoveToDeadLetters(p) PROVE LockInv'
  <2>1. LockTypeOK'
    BY <1>2 DEF MoveToDeadLetters, LockInv, LockTypeOK, Stages
  <2>2. OwnersAreOpen'
    BY <1>2 DEF MoveToDeadLetters, LockInv, LockTypeOK, OwnersAreOpen
  <2>3. AlignedNeverFail' /\ NeverBack' /\ (\A q \in Projects : done[q] <= Len(declared[q]))'
    BY <1>2 DEF MoveToDeadLetters, LockInv, LockTypeOK, AlignedNeverFail, NeverBack, Aligned
  <2>. QED
    BY <2>1, <2>2, <2>3 DEF LockInv
<1>. QED
  BY <1>1, <1>2, ReceiveLocks, UpsertLocks, EndLocks DEF LockNext, ProjectStep

\* A lock is held by an open transaction that has upserted its row, or is about to.
THEOREM LocksAreOwned == ASSUME LocksAssumption PROVE LockSpec => []LockInv
BY InitLocks, NextLocks, PTL DEF LockSpec

\* Among manifests in one common order, waiting only leads to later wants.
THEOREM WaitingNeverReturns == ASSUME LocksAssumption PROVE LockSpec => []WaitingClimbs
BY InvClimbs, LocksAreOwned, PTL

\* Manifests in one common order never deadlock, however many projects are ingested
\* at once: every push is handled at its first receive.
THEOREM AlignedManifestsNeverDeadlock ==
  ASSUME LocksAssumption PROVE LockSpec => []AlignedNeverFail
<1>1. LockInv => AlignedNeverFail
  BY DEF LockInv
<1>. QED
  BY <1>1, LocksAreOwned, PTL

-----------------------------------------------------------------------------
(* The three together.                                                     *)

\* Composing them takes nothing away from what each does by itself: a step of one
\* leaves the state of the others alone.
LEMMA CompositionImplements == MCSpec => MigrateSpec /\ LockSpec /\ ReadSpec
<1>1. MCInit => MigrateInit /\ LockInit /\ ReadInit
  BY DEF MCInit
<1>2. [MCNext]_mcVars
        => [MigrateNext]_migrateVars /\ [LockNext]_lockVars /\ [ReadNext]_readVars
  BY DEF MCNext, mcVars
<1>. QED
  BY <1>1, <1>2, PTL DEF MCSpec, MigrateSpec, LockSpec, ReadSpec

\* Every variable of the three keeps its type.
THEOREM DatabaseTypes ==
  ASSUME MigrationsAssumption, LocksAssumption PROVE MCSpec => []DatabaseTypeOK
<1>1. MigrateTypeOK /\ LockInv /\ ReadTypeOK => DatabaseTypeOK
  BY DEF DatabaseTypeOK, LockInv
<1>. QED
  BY <1>1, CompositionImplements, MigrateTypeSafe, LocksAreOwned, ReadTypes, PTL

=============================================================================
