----------------------- MODULE DependencyGraphProofs -----------------------
(***************************************************************************)
(* Theorems of DependencyGraph, for any projects, contents, agents and     *)
(* number of pushes: no row of the graph is invented, a pass leaves what   *)
(* it looked at complete, and a broken manifest does not go unmarked.      *)
(***************************************************************************)
EXTENDS DependencyGraph, TLAPS

\* NothingFabricated for one row: H is what the branch has held, K the catalogue.
NeedSound(H, n, need, K) ==
    /\ need.provider # Outside =>
          /\ need.source = "manifest" /\ need.provider \in K
          /\ \E c \in H : c.manifest.state = "valid" /\ c.manifest.consumes[n] = need.provider
    /\ need.source = "manifest" => \E c \in H : Declares(c.manifest, n)
    /\ need.source = "static_analysis" =>
          \E c \in H : n \in c.packages \cup c.links \cup UrlsIn(c.manifest)

ExposedSound(H, e, source) ==
    /\ source = "manifest" => \E c \in H : c.manifest.state = "valid" /\ e \in c.manifest.exposes
    /\ source = "static_analysis" => \E c \in H : e \in c.routes

Sound(H, row, K) ==
    /\ row \in GraphRow
    /\ \A n \in Needs : NeedSound(H, n, row.needs[n], K)
    /\ \A e \in Endpoints : ExposedSound(H, e, row.exposed[e])

\* The inductive invariant: the same of rows not yet committed, which may lead to
\* the project of their own transaction too.
GraphInv ==
    /\ TypeOK
    /\ \A p \in Projects : content[p] \in past[p] /\ Sound(past[p], rows[p], Known)
    /\ \A a \in Agents : txn[a].open =>
          LET p == txn[a].event.project
          IN  txn[a].row.known /\ Sound(past[p], txn[a].row, Known \cup {p})

-----------------------------------------------------------------------------
(* The statements of an ingestion keep rows sound.                         *)

\* What was sound stays so while branches and the catalogue grow.
LEMMA SoundGrows ==
  ASSUME NEW H, NEW I, H \subseteq I, NEW K, NEW L, K \subseteq L, NEW row, Sound(H, row, K)
  PROVE  Sound(I, row, L)
  BY DEF Sound, NeedSound, ExposedSound

\* A row without anything is sound.
LEMMA NothingIsSound ==
  ASSUME NEW H, NEW K PROVE Sound(H, NoRow, K)
  BY DEF Sound, NeedSound, ExposedSound, NoRow, NoNeed, GraphRow, NeedRow, Providers, Sources

\* upsert_project keeps the graph rows.
LEMMA UpsertSound ==
  ASSUME NEW H, NEW K, NEW row, Sound(H, row, K)
  PROVE  /\ Sound(H, [row EXCEPT !.known = TRUE], K)
         /\ [row EXCEPT !.known = TRUE].known
  BY DEF Sound, GraphRow

\* A manifest's rows are those it declares.
LEMMA ManifestSound ==
  ASSUME GraphAssumption, NEW H, NEW K, K \subseteq Projects, NEW row, Sound(H, row, K),
         NEW c \in H, c \in Content
  PROVE  /\ Sound(H, SyncManifestForRepo(row, c.manifest, K), K)
         /\ SyncManifestForRepo(row, c.manifest, K).known = row.known
<1>. DEFINE m == c.manifest
            new == SyncManifest(row, m, K)
<1>1. row \in GraphRow /\ m \in ManifestRec
  BY DEF Sound, Content
<1>2. CASE m.state # "valid"
  <2>1. SyncManifestForRepo(row, m, K) = [row EXCEPT !.missing = TRUE]
    BY <1>2 DEF SyncManifestForRepo
  <2>. QED
    BY <1>1, <2>1 DEF Sound, GraphRow
<1>3. CASE m.state = "valid"
  <2>1. SyncManifestForRepo(row, m, K) = new
    BY <1>3 DEF SyncManifestForRepo
  <2>. DEFINE x == [e \in Endpoints |-> IF e \in m.exposes THEN "manifest" ELSE row.exposed[e]]
              y == [n \in Needs |->
                      IF Declares(m, n)
                      THEN [source |-> "manifest", provider |-> Resolved(m.consumes[n], K)]
                      ELSE row.needs[n]]
  <2>2. x \in [Endpoints -> Sources]
    BY <1>1 DEF GraphRow, Sources
  <2>3. y \in [Needs -> NeedRow]
    BY <1>1 DEF GraphRow, NeedRow, Sources, Providers, Resolved
  <2>4. new = [row EXCEPT !.missing = FALSE, !.exposed = x, !.needs = y]
    BY DEF SyncManifest
  <2>. HIDE DEF new, x, y
  <2>5. /\ new \in GraphRow /\ new.known = row.known
        /\ new.exposed = x /\ new.needs = y
    BY <1>1, <2>2, <2>3, <2>4 DEF GraphRow
  <2>6. ASSUME NEW n \in Needs PROVE NeedSound(H, n, new.needs[n], K)
    <3>1. CASE Declares(m, n)
      <4>1. new.needs[n] = [source |-> "manifest", provider |-> Resolved(m.consumes[n], K)]
        BY <2>5, <3>1 DEF y
      <4>2. Resolved(m.consumes[n], K) # Outside =>
               Resolved(m.consumes[n], K) = m.consumes[n] /\ m.consumes[n] \in K
        BY DEF Resolved
      <4>. QED
        BY <1>3, <3>1, <4>1, <4>2 DEF NeedSound
    <3>2. CASE ~Declares(m, n)
      BY <2>5, <3>2 DEF Sound, y
    <3>. QED
      BY <3>1, <3>2
  <2>7. ASSUME NEW e \in Endpoints PROVE ExposedSound(H, e, new.exposed[e])
    BY <1>3, <2>5 DEF Sound, ExposedSound, x
  <2>. QED
    BY <2>1, <2>5, <2>6, <2>7 DEF Sound
<1>. QED
  BY <1>2, <1>3

\* Static analysis adds what it found.
LEMMA StaticSound ==
  ASSUME NEW H, NEW K, NEW row, Sound(H, row, K), NEW c \in H,
         NEW R, R \subseteq c.routes,
         NEW F, F \subseteq c.packages \cup c.links \cup UrlsIn(c.manifest)
  PROVE  Sound(H, SyncStatic(row, R, F), K) /\ SyncStatic(row, R, F).known = row.known
<1>. DEFINE new == SyncStatic(row, R, F)
<1>1. row \in GraphRow
  BY DEF Sound
<1>. DEFINE x == [e \in Endpoints |-> IF e \in R THEN "static_analysis" ELSE row.exposed[e]]
            y == [n \in Needs |->
                    IF n \in F THEN [source |-> "static_analysis", provider |-> Outside]
                    ELSE row.needs[n]]
<1>2. x \in [Endpoints -> Sources] /\ y \in [Needs -> NeedRow]
  BY <1>1 DEF GraphRow, NeedRow, Sources, Providers
<1>3. new = [row EXCEPT !.exposed = x, !.needs = y]
  BY DEF SyncStatic
<1>. HIDE DEF new, x, y
<1>4. new \in GraphRow /\ new.known = row.known /\ new.exposed = x /\ new.needs = y
  BY <1>1, <1>2, <1>3 DEF GraphRow
<1>5. ASSUME NEW n \in Needs PROVE NeedSound(H, n, new.needs[n], K)
  <2>1. CASE n \in F
    BY <1>4, <2>1 DEF NeedSound, y
  <2>2. CASE n \notin F
    BY <1>4, <2>2 DEF Sound, y
  <2>. QED
    BY <2>1, <2>2
<1>6. ASSUME NEW e \in Endpoints PROVE ExposedSound(H, e, new.exposed[e])
  BY <1>4 DEF Sound, ExposedSound, x
<1>. QED
  BY <1>4, <1>5, <1>6 DEF Sound, new

\* A purge leaves nothing.
LEMMA PurgeSound ==
  ASSUME NEW H, NEW K, NEW row, Sound(H, row, K)
  PROVE  Sound(H, PurgeProjectData(row), K) /\ PurgeProjectData(row).known = row.known
<1>1. row \in GraphRow
  BY DEF Sound
<1>2. NoRow.exposed \in [Endpoints -> Sources] /\ NoRow.needs \in [Needs -> NeedRow]
  BY NothingIsSound DEF Sound, GraphRow
<1>3. /\ PurgeProjectData(row) \in GraphRow /\ PurgeProjectData(row).known = row.known
      /\ PurgeProjectData(row).exposed = NoRow.exposed /\ PurgeProjectData(row).needs = NoRow.needs
  BY <1>1, <1>2 DEF PurgeProjectData, GraphRow
<1>. QED
  BY <1>3, NothingIsSound DEF Sound

\* The handler of a push keeps rows sound.
LEMMA HandlePushSound ==
  ASSUME GraphAssumption, NEW H, NEW K, K \subseteq Projects, NEW row, Sound(H, row, K),
         NEW c \in H, c \in Content, NEW T
  PROVE  Sound(H, HandlePush(row, c, T, K), K) /\ HandlePush(row, c, T, K).known = row.known
<1>. DEFINE F == (IF "manifest" \in T THEN UrlsIn(c.manifest) ELSE {})
                 \cup (IF "packages" \in T THEN c.packages ELSE {})
            new == SyncManifestForRepo(row, c.manifest, K)
<1>1. Sound(H, new, K) /\ new.known = row.known
  BY ManifestSound
<1>2. F \subseteq c.packages \cup c.links \cup UrlsIn(c.manifest) /\ {} \subseteq c.routes
  OBVIOUS
<1>3. HandlePush(row, c, T, K) =
         IF c.excluded THEN PurgeProjectData(row)
         ELSE IF T # {} THEN SyncStatic(new, {}, F) ELSE row
  BY DEF HandlePush
<1>. HIDE DEF F, new
<1>4. Sound(H, SyncStatic(new, {}, F), K) /\ SyncStatic(new, {}, F).known = new.known
  BY <1>1, <1>2, StaticSound
<1>. QED
  BY <1>1, <1>3, <1>4, PurgeSound

\* A visit of the seed sync keeps rows sound.
LEMMA SyncRepoSound ==
  ASSUME GraphAssumption, NEW H, NEW K, K \subseteq Projects, NEW row, Sound(H, row, K),
         NEW c \in H, c \in Content
  PROVE  Sound(H, SyncRepo(row, c, K), K) /\ SyncRepo(row, c, K).known = row.known
<1>. DEFINE new == SyncManifestForRepo(row, c.manifest, K)
            F == c.packages \cup c.links
<1>1. Sound(H, new, K) /\ new.known = row.known
  BY ManifestSound
<1>2. F \subseteq c.packages \cup c.links \cup UrlsIn(c.manifest)
  OBVIOUS
<1>3. SyncRepo(row, c, K) =
         IF c.excluded THEN PurgeProjectData(row) ELSE SyncStatic(new, c.routes, F)
  BY DEF SyncRepo
<1>. HIDE DEF F, new
<1>4. Sound(H, SyncStatic(new, c.routes, F), K) /\ SyncStatic(new, c.routes, F).known = new.known
  BY <1>1, <1>2, StaticSound
<1>. QED
  BY <1>1, <1>3, <1>4, PurgeSound

-----------------------------------------------------------------------------
(* The invariant is one.                                                   *)

\* The initial state.
LEMMA InitGraph == ASSUME GraphAssumption, Init PROVE GraphInv
<1>1. \A p \in Projects : content[p] \in Content /\ content[p] \in past[p] /\ past[p] \subseteq Content
  BY DEF Init, GraphAssumption
<1>2. NoRow \in GraphRow /\ \A p \in Projects : Sound(past[p], NoRow, Known)
  BY NothingIsSound DEF Sound
<1>3. content \in [Projects -> Content] /\ past \in [Projects -> SUBSET Content]
  BY <1>1 DEF Init
<1>4. TypeOK
  BY <1>2, <1>3 DEF Init, TypeOK, GraphAssumption
<1>. QED
  BY <1>1, <1>2, <1>4 DEF Init, GraphInv, NoTxn

\* An agent's transaction opens on sound rows.
LEMMA OpenSound ==
  ASSUME GraphInv, GraphAssumption, NEW a \in Agents, NEW e \in Event, NEW row, NEW raises \in BOOLEAN,
         row.known, Sound(past[e.project], row, Known \cup {e.project}),
         Open(a, e, row, raises), UNCHANGED <<content, pushes, rows, past, catalogue, quiet>>,
         UNCHANGED <<seed, todo>>, events' \subseteq Event, missed' \subseteq Projects
  PROVE  GraphInv'
<1>1. Known' = Known /\ row \in GraphRow
  BY DEF Known, Sound
<1>2. txn' \in [Agents -> {NoTxn} \cup Txn]
  BY <1>1 DEF GraphInv, TypeOK, Open, Txn
<1>3. TypeOK'
  BY <1>2 DEF GraphInv, TypeOK
<1>4. ASSUME NEW b \in Agents, txn'[b].open
      PROVE  LET p == txn'[b].event.project
             IN  txn'[b].row.known /\ Sound(past[p], txn'[b].row, Known \cup {p})
  <2>1. CASE b = a
    BY <2>1 DEF Open, GraphInv, TypeOK
  <2>2. CASE b # a
    <3>1. txn'[b] = txn[b]
      BY <2>2 DEF Open, GraphInv, TypeOK
    <3>. QED
      BY <1>4, <3>1 DEF GraphInv
  <2>. QED
    BY <2>1, <2>2
<1>5. ASSUME NEW p \in Projects PROVE content'[p] \in past'[p] /\ Sound(past'[p], rows'[p], Known')
  BY <1>1 DEF GraphInv
<1>. QED
  BY <1>1, <1>3, <1>4, <1>5 DEF GraphInv

\* A transaction ends without a trace.
LEMMA CloseSound ==
  ASSUME GraphInv, NEW a \in Agents, Close(a), UNCHANGED <<content, pushes, rows, past, catalogue, quiet>>,
         events' \subseteq Event, missed' \subseteq Projects, todo' \subseteq Projects,
         seed' \in {"never", "running", "done", "aborted"}
  PROVE  GraphInv'
<1>1. Known' = Known
  BY DEF Known
<1>2. txn' \in [Agents -> {NoTxn} \cup Txn] /\ \A b \in Agents : txn'[b].open => txn'[b] = txn[b]
  BY DEF Close, GraphInv, TypeOK, NoTxn
<1>3. TypeOK'
  BY <1>2 DEF GraphInv, TypeOK
<1>. QED
  BY <1>1, <1>2, <1>3 DEF GraphInv

\* A transaction commits its sound rows; the catalogue only grows.
LEMMA CommitSound ==
  ASSUME GraphInv, NEW a \in Agents, txn[a].open,
         rows' = [rows EXCEPT ![txn[a].event.project] = txn[a].row], Close(a),
         UNCHANGED <<content, pushes, events, missed, past, catalogue, quiet>>,
         todo' \subseteq Projects, seed' \in {"never", "running", "done", "aborted"}
  PROVE  GraphInv'
<1>. DEFINE p == txn[a].event.project
<1>1. p \in Projects /\ txn[a].row \in GraphRow /\ txn[a].row.known
      /\ Sound(past[p], txn[a].row, Known \cup {p})
  <2>1. txn[a] \in Txn
    BY DEF GraphInv, TypeOK, NoTxn
  <2>2. p \in Projects /\ txn[a].row \in GraphRow
    BY <2>1 DEF Txn, Event
  <2>. QED
    BY <2>2 DEF GraphInv
<1>2. \A q \in Projects : rows'[q] = IF q = p THEN txn[a].row ELSE rows[q]
  BY <1>1 DEF GraphInv, TypeOK
<1>3. Known' = Known \cup {p}
  BY <1>1, <1>2 DEF Known
<1>4. txn' \in [Agents -> {NoTxn} \cup Txn] /\ \A b \in Agents : txn'[b].open => txn'[b] = txn[b]
  BY DEF Close, GraphInv, TypeOK, NoTxn
<1>5. TypeOK'
  BY <1>1, <1>4 DEF GraphInv, TypeOK
<1>. HIDE DEF p
<1>6. ASSUME NEW q \in Projects PROVE content'[q] \in past'[q] /\ Sound(past'[q], rows'[q], Known')
  <2>1. CASE q = p
    BY <1>1, <1>2, <1>3, <2>1 DEF GraphInv
  <2>2. CASE q # p
    <3>1. Sound(past[q], rows[q], Known) /\ content[q] \in past[q]
      BY DEF GraphInv
    <3>2. Sound(past[q], rows[q], Known \cup {p})
      BY <3>1, SoundGrows
    <3>. QED
      BY <1>2, <1>3, <2>2, <3>1, <3>2
  <2>. QED
    BY <2>1, <2>2
<1>7. ASSUME NEW b \in Agents, txn'[b].open
      PROVE  LET q == txn'[b].event.project
             IN  txn'[b].row.known /\ Sound(past[q], txn'[b].row, Known' \cup {q})
  <2>. DEFINE q == txn[b].event.project
  <2>1. txn'[b] = txn[b] /\ txn[b].row.known /\ Sound(past[q], txn[b].row, Known \cup {q})
    BY <1>4, <1>7 DEF GraphInv
  <2>2. Sound(past[q], txn[b].row, (Known \cup {p}) \cup {q})
    BY <2>1, SoundGrows
  <2>. QED
    BY <1>3, <2>1, <2>2
<1>. QED
  BY <1>5, <1>6, <1>7 DEF GraphInv

\* A push only adds to what a branch has held.
LEMMA PushSound ==
  ASSUME GraphAssumption, GraphInv, NEW q \in Projects, Push(q) PROVE GraphInv'
<1>1. PICK c \in Contents[q] :
         /\ content' = [content EXCEPT ![q] = c]
         /\ past' = [past EXCEPT ![q] = @ \cup {c}]
         /\ LET e == [project |-> q, touched |-> Touched(content[q], c)]
            IN  Send(e) \/ FailToSend(e)
  BY DEF Push
<1>2. c \in Content
  BY DEF GraphAssumption
<1>3. content' \in [Projects -> Content] /\ past' \in [Projects -> SUBSET Content]
  BY <1>1, <1>2 DEF GraphInv, TypeOK
<1>4. Touched(content[q], c) \subseteq FileKinds
  BY DEF Touched, FileKinds
<1>5. events' \subseteq Event /\ missed' \subseteq Projects
  BY <1>1, <1>4 DEF GraphInv, TypeOK, Event, Send, FailToSend
<1>6. pushes' \in 0..MaxPushes
  BY DEF Push, GraphInv, TypeOK, GraphAssumption
<1>7. TypeOK' /\ Known' = Known
  BY <1>3, <1>5, <1>6 DEF Push, GraphInv, TypeOK, Known
<1>8. \A p \in Projects : past[p] \subseteq past'[p] /\ content'[p] \in past'[p]
  BY <1>1 DEF GraphInv, TypeOK
<1>9. \A p \in Projects : Sound(past'[p], rows'[p], Known')
  <2>1. \A p \in Projects : Sound(past[p], rows[p], Known)
    BY DEF GraphInv
  <2>2. \A p \in Projects : Sound(past'[p], rows[p], Known)
    BY <1>8, <2>1, SoundGrows
  <2>. QED
    BY <1>7, <2>2 DEF Push
<1>10. ASSUME NEW b \in Agents, txn'[b].open
       PROVE  LET p == txn'[b].event.project
              IN  txn'[b].row.known /\ Sound(past'[p], txn'[b].row, Known' \cup {p})
  <2>. DEFINE p == txn[b].event.project
  <2>1. txn' = txn
    BY DEF Push
  <2>2. p \in Projects
    <3>1. txn[b] \in Txn
      BY <1>10, <2>1 DEF GraphInv, TypeOK, NoTxn
    <3>. QED
      BY <3>1 DEF Txn, Event
  <2>3. txn[b].row.known /\ Sound(past[p], txn[b].row, Known \cup {p})
    BY <1>10, <2>1 DEF GraphInv
  <2>4. Sound(past'[p], txn[b].row, Known \cup {p})
    BY <1>8, <2>2, <2>3, SoundGrows
  <2>. QED
    BY <1>7, <2>1, <2>3, <2>4
<1>. QED
  BY <1>7, <1>8, <1>9, <1>10 DEF GraphInv

\* The row an ingestion of p starts from.
LEMMA UpsertedSound ==
  ASSUME GraphInv, NEW p \in Projects
  PROVE  /\ Sound(past[p], [rows[p] EXCEPT !.known = TRUE], Known \cup {p})
         /\ [rows[p] EXCEPT !.known = TRUE].known
         /\ content[p] \in past[p] /\ content[p] \in Content
         /\ Known \cup {p} \subseteq Projects
<1>1. Sound(past[p], rows[p], Known) /\ content[p] \in past[p] /\ content[p] \in Content
  BY DEF GraphInv, TypeOK
<1>2. Sound(past[p], rows[p], Known \cup {p})
  BY <1>1, SoundGrows
<1>. QED
  BY <1>1, <1>2, UpsertSound DEF Known

\* A worker takes a message.
LEMMA WorkerBeginsSound ==
  ASSUME GraphAssumption, GraphInv, NEW w \in Agents, WorkerBegins(w) PROVE GraphInv'
<1>1. PICK e \in events :
         /\ Open(w, e,
                 HandlePush([rows[e.project] EXCEPT !.known = TRUE], content[e.project],
                            e.touched, Known \cup {e.project}),
                 /\ ~content[e.project].excluded
                 /\ content[e.project].manifest.state = "poison"
                 /\ e.touched # {})
         /\ events' = events \ {e}
  BY DEF WorkerBegins
<1>. DEFINE p == e.project
            base == [rows[p] EXCEPT !.known = TRUE]
            row == HandlePush(base, content[p], e.touched, Known \cup {p})
            raises == /\ ~content[p].excluded
                      /\ content[p].manifest.state = "poison"
                      /\ e.touched # {}
<1>2. e \in Event /\ p \in Projects
  BY DEF GraphInv, TypeOK, Event
<1>3. row.known /\ Sound(past[p], row, Known \cup {p})
  <2>. HIDE DEF p, base
  <2>1. /\ Sound(past[p], base, Known \cup {p}) /\ base.known
        /\ content[p] \in past[p] /\ content[p] \in Content /\ Known \cup {p} \subseteq Projects
    BY <1>2, UpsertedSound DEF base
  <2>2. Sound(past[p], row, Known \cup {p}) /\ row.known = base.known
    BY <2>1, HandlePushSound, ZenonT(40)
  <2>. QED
    BY <2>1, <2>2, Zenon
<1>4. raises \in BOOLEAN /\ Open(w, e, row, raises)
  BY <1>1
<1>5. events' \subseteq Event /\ missed' \subseteq Projects
  BY <1>1 DEF WorkerBegins, GraphInv, TypeOK
<1>. HIDE DEF p, row, raises
<1>6. Sound(past[e.project], row, Known \cup {e.project})
  BY <1>3 DEF p
<1>. QED
  BY <1>2, <1>3, <1>4, <1>5, <1>6, OpenSound DEF WorkerBegins

\* The seed pass visits a project.
LEMMA SeedBeginsSound ==
  ASSUME GraphAssumption, GraphInv, NEW p \in Projects, SeedBegins(p) PROVE GraphInv'
<1>. DEFINE e == [project |-> p, touched |-> {}]
            base == [rows[p] EXCEPT !.known = TRUE]
            row == SyncRepo(base, content[p], Known \cup {p})
            raises == ~content[p].excluded /\ content[p].manifest.state = "poison"
<1>1. e \in Event /\ e.project = p /\ Seed \in Agents
  BY DEF Event, GraphAssumption
<1>2. row.known /\ Sound(past[p], row, Known \cup {p})
  <2>. HIDE DEF base
  <2>1. /\ Sound(past[p], base, Known \cup {p}) /\ base.known
        /\ content[p] \in past[p] /\ content[p] \in Content /\ Known \cup {p} \subseteq Projects
    BY UpsertedSound DEF base
  <2>2. Sound(past[p], row, Known \cup {p}) /\ row.known = base.known
    BY <2>1, SyncRepoSound, ZenonT(40)
  <2>. QED
    BY <2>1, <2>2, Zenon
<1>3. raises \in BOOLEAN /\ Open(Seed, e, row, raises)
  BY DEF SeedBegins
<1>4. events' \subseteq Event /\ missed' \subseteq Projects
  BY DEF SeedBegins, GraphInv, TypeOK
<1>. HIDE DEF e, row, raises
<1>5. Sound(past[e.project], row, Known \cup {e.project})
  BY <1>1, <1>2
<1>. QED
  BY <1>1, <1>2, <1>3, <1>4, <1>5, OpenSound DEF SeedBegins

\* What an open transaction handles is a message about a project.
LEMMA OpenHasEvent ==
  ASSUME GraphInv, NEW a \in Agents, txn[a].open
  PROVE  txn[a].event \in Event /\ txn[a].event.project \in Projects
<1>1. txn[a] \in Txn
  BY DEF GraphInv, TypeOK, NoTxn
<1>. QED
  BY <1>1 DEF Txn, Event

\* Every step keeps the rows sound.
LEMMA NextGraph == ASSUME GraphAssumption, GraphInv, [Next]_vars PROVE GraphInv'
<1>1. ASSUME NEW p \in Projects, Push(p) PROVE GraphInv'
  BY <1>1, PushSound
<1>2. ASSUME NEW p \in Projects, SeedBegins(p) PROVE GraphInv'
  BY <1>2, SeedBeginsSound
<1>3. ASSUME NEW w \in Agents, WorkerBegins(w) PROVE GraphInv'
  BY <1>3, WorkerBeginsSound
<1>4. ASSUME NEW w \in Agents, WorkerCommits(w) PROVE GraphInv'
  <2>1. todo' \subseteq Projects /\ seed' \in {"never", "running", "done", "aborted"}
    BY <1>4 DEF WorkerCommits, GraphInv, TypeOK
  <2>. QED
    BY <1>4, <2>1, CommitSound DEF WorkerCommits
<1>5. ASSUME NEW w \in Agents, WorkerFails(w) PROVE GraphInv'
  <2>1. /\ events' \subseteq Event /\ missed' \subseteq Projects /\ todo' \subseteq Projects
        /\ seed' \in {"never", "running", "done", "aborted"}
    BY <1>5, OpenHasEvent DEF WorkerFails, GraphInv, TypeOK
  <2>. QED
    BY <1>5, <2>1, CloseSound DEF WorkerFails
<1>6. ASSUME NEW w \in Agents, DeadLetter(w) PROVE GraphInv'
  <2>1. /\ events' \subseteq Event /\ missed' \subseteq Projects /\ todo' \subseteq Projects
        /\ seed' \in {"never", "running", "done", "aborted"}
    BY <1>6, OpenHasEvent DEF DeadLetter, GraphInv, TypeOK
  <2>. QED
    BY <1>6, <2>1, CloseSound DEF DeadLetter
<1>7. CASE StartPass
  <2>1. TypeOK' /\ Known' = Known
    BY <1>7 DEF StartPass, GraphInv, TypeOK, Known
  <2>. QED
    BY <1>7, <2>1 DEF StartPass, GraphInv
<1>8. CASE SeedCommits
  <2>1. todo' \subseteq Projects /\ seed' \in {"never", "running", "done", "aborted"}
    BY <1>8 DEF SeedCommits, GraphInv, TypeOK
  <2>2. Seed \in Agents /\ rows' = [rows EXCEPT ![txn[Seed].event.project] = txn[Seed].row]
    BY <1>8 DEF SeedCommits, GraphAssumption
  <2>. QED
    BY <1>8, <2>1, <2>2, CommitSound DEF SeedCommits
<1>9. CASE SeedRaises
  <2>1. /\ events' \subseteq Event /\ missed' \subseteq Projects /\ todo' \subseteq Projects
        /\ seed' \in {"never", "running", "done", "aborted"} /\ Seed \in Agents
    BY <1>9 DEF SeedRaises, GraphInv, TypeOK, GraphAssumption
  <2>. QED
    BY <1>9, <2>1, CloseSound DEF SeedRaises
<1>10. CASE UNCHANGED vars
  <2>1. TypeOK' /\ Known' = Known
    BY <1>10 DEF vars, GraphInv, TypeOK, Known
  <2>. QED
    BY <1>10, <2>1 DEF vars, GraphInv
<1>. QED
  BY <1>1, <1>2, <1>3, <1>4, <1>5, <1>6, <1>7, <1>8, <1>9, <1>10 DEF Next

\* The rows of the graph, committed or about to be, are of their type and sound
\* in every reachable state.
THEOREM GraphInvariant == ASSUME GraphAssumption PROVE Spec => []GraphInv
<1>. QED
  BY InitGraph, NextGraph, PTL DEF Spec

\* "Never fabricate edges" (graph.py:3): a manifest row stands for a declaration
\* its repository made, an edge leads to the project that declaration named, and
\* that project is in the catalogue, however webhooks and seed passes interleave.
THEOREM NoFabrication == ASSUME GraphAssumption PROVE Spec => []NothingFabricated
<1>1. GraphInv => NothingFabricated
  BY DEF GraphInv, Sound, NeedSound, ExposedSound, NothingFabricated
<1>. QED
  BY <1>1, GraphInvariant, PTL

\* Every variable keeps its type.
THEOREM GraphTypes == ASSUME GraphAssumption PROVE Spec => []TypeOK
<1>1. GraphInv => TypeOK
  BY DEF GraphInv
<1>. QED
  BY <1>1, GraphInvariant, PTL

-----------------------------------------------------------------------------
(* What the statements of an ingestion leave in a row.                     *)

\* The flag, and what a valid manifest declares.
LEMMA ManifestFields ==
  ASSUME NEW row \in GraphRow, NEW m, NEW K
  PROVE  LET new == SyncManifestForRepo(row, m, K)
         IN  /\ new.missing = (m.state # "valid")
             /\ m.state = "valid" =>
                  /\ \A e \in Endpoints : e \in m.exposes => new.exposed[e] = "manifest"
                  /\ \A n \in Needs : Declares(m, n) => new.needs[n] =
                        [source |-> "manifest", provider |-> Resolved(m.consumes[n], K)]
<1>. DEFINE x == [e \in Endpoints |-> IF e \in m.exposes THEN "manifest" ELSE row.exposed[e]]
            y == [n \in Needs |->
                    IF Declares(m, n)
                    THEN [source |-> "manifest", provider |-> Resolved(m.consumes[n], K)]
                    ELSE row.needs[n]]
<1>1. SyncManifestForRepo(row, m, K) =
         IF m.state = "valid" THEN [row EXCEPT !.missing = FALSE, !.exposed = x, !.needs = y]
         ELSE [row EXCEPT !.missing = TRUE]
  BY DEF SyncManifestForRepo, SyncManifest
<1>2. /\ \A e \in Endpoints : e \in m.exposes => x[e] = "manifest"
      /\ \A n \in Needs : Declares(m, n) => y[n] =
            [source |-> "manifest", provider |-> Resolved(m.consumes[n], K)]
  OBVIOUS
<1>. DEFINE valid == [row EXCEPT !.missing = FALSE, !.exposed = x, !.needs = y]
            other == [row EXCEPT !.missing = TRUE]
<1>. HIDE DEF x, y
<1>3. valid.missing = FALSE /\ valid.exposed = x /\ valid.needs = y /\ other.missing = TRUE
  BY DEF GraphRow
<1>. HIDE DEF valid, other
<1>4. CASE m.state = "valid"
  <2>1. SyncManifestForRepo(row, m, K) = valid
    BY <1>1, <1>4 DEF valid
  <2>. QED
    BY <1>2, <1>3, <1>4, <2>1
<1>5. CASE m.state # "valid"
  <2>1. SyncManifestForRepo(row, m, K) = other
    BY <1>1, <1>5 DEF other
  <2>. QED
    BY <1>3, <1>5, <2>1
<1>. QED
  BY <1>4, <1>5

\* Static analysis unmarks nothing, and touches only the needs it found.
LEMMA StaticFields ==
  ASSUME NEW row \in GraphRow, NEW R, NEW F
  PROVE  LET new == SyncStatic(row, R, F)
         IN  /\ new.missing = row.missing
             /\ \A e \in Endpoints : row.exposed[e] # "none" => new.exposed[e] # "none"
             /\ \A n \in Needs : n \notin F => new.needs[n] = row.needs[n]
<1>. DEFINE x == [e \in Endpoints |-> IF e \in R THEN "static_analysis" ELSE row.exposed[e]]
            y == [n \in Needs |->
                    IF n \in F THEN [source |-> "static_analysis", provider |-> Outside]
                    ELSE row.needs[n]]
<1>1. SyncStatic(row, R, F) = [row EXCEPT !.exposed = x, !.needs = y]
  BY DEF SyncStatic
<1>2. /\ \A e \in Endpoints : row.exposed[e] # "none" => x[e] # "none"
      /\ \A n \in Needs : n \notin F => y[n] = row.needs[n]
  OBVIOUS
<1>. HIDE DEF x, y
<1>. QED
  BY <1>1, <1>2 DEF GraphRow

\* The manifest and then the files make any row complete, for what was in the
\* catalogue, however the row was before.
LEMMA BothComplete ==
  ASSUME GraphAssumption, NEW H, NEW L, L \subseteq Projects, NEW row, Sound(H, row, L),
         NEW c \in H, c \in Content, NEW K, K \subseteq L, NEW R,
         NEW F, F \subseteq c.packages \cup c.links \cup UrlsIn(c.manifest)
  PROVE  LET new == SyncStatic(SyncManifestForRepo(row, c.manifest, L), R, F)
         IN  Complete(new, c, K)
<1>. DEFINE m   == c.manifest
            mid == SyncManifestForRepo(row, m, L)
            new == SyncStatic(mid, R, F)
<1>1. mid \in GraphRow
  BY ManifestSound DEF Sound
<1>2. /\ mid.missing = (m.state # "valid")
      /\ m.state = "valid" =>
           /\ \A e \in Endpoints : e \in m.exposes => mid.exposed[e] = "manifest"
           /\ \A n \in Needs : Declares(m, n) => mid.needs[n] =
                 [source |-> "manifest", provider |-> Resolved(m.consumes[n], L)]
  <2>1. row \in GraphRow
    BY DEF Sound
  <2>. QED
    BY <2>1, ManifestFields
<1>. HIDE DEF mid
<1>3. /\ new.missing = mid.missing
      /\ \A e \in Endpoints : mid.exposed[e] # "none" => new.exposed[e] # "none"
      /\ \A n \in Needs : n \notin F => new.needs[n] = mid.needs[n]
  BY <1>1, StaticFields
<1>. HIDE DEF new
<1>4. \A n \in OnlyDeclared(c) : Declares(m, n) /\ m.consumes[n] \in K =>
         new.needs[n] = [source |-> "manifest", provider |-> m.consumes[n]]
  BY <1>2, <1>3 DEF OnlyDeclared, Declares, Resolved
<1>5. Complete(new, c, K)
  BY <1>2, <1>3, <1>4 DEF Complete
<1>. QED
  BY <1>5 DEF new, mid

\* A worker leaves a row complete that was, or whose manifest it has looked at.
LEMMA HandlePushCompletes ==
  ASSUME GraphAssumption, NEW H, NEW L, L \subseteq Projects, NEW row, Sound(H, row, L),
         NEW c \in H, c \in Content, ~c.excluded, NEW K, K \subseteq L, NEW T,
         T = {} => Complete(row, c, K)
  PROVE  Complete(HandlePush(row, c, T, L), c, K)
<1>. DEFINE F == (IF "manifest" \in T THEN UrlsIn(c.manifest) ELSE {})
                 \cup (IF "packages" \in T THEN c.packages ELSE {})
            new == SyncStatic(SyncManifestForRepo(row, c.manifest, L), {}, F)
<1>1. HandlePush(row, c, T, L) = IF T # {} THEN new ELSE row
  BY DEF HandlePush
<1>2. F \subseteq c.packages \cup c.links \cup UrlsIn(c.manifest)
  OBVIOUS
<1>3. Complete(new, c, K)
  <2>. HIDE DEF F
  <2>. QED
    BY <1>2, BothComplete
<1>. HIDE DEF new
<1>. QED
  BY <1>1, <1>3

\* A visit of the seed sync leaves a row complete.
LEMMA SyncRepoCompletes ==
  ASSUME GraphAssumption, NEW H, NEW L, L \subseteq Projects, NEW row, Sound(H, row, L),
         NEW c \in H, c \in Content, ~c.excluded, NEW K, K \subseteq L
  PROVE  Complete(SyncRepo(row, c, L), c, K)
<1>. DEFINE F   == c.packages \cup c.links
            new == SyncStatic(SyncManifestForRepo(row, c.manifest, L), c.routes, F)
<1>1. SyncRepo(row, c, L) = new
  BY DEF SyncRepo
<1>2. F \subseteq c.packages \cup c.links \cup UrlsIn(c.manifest)
  OBVIOUS
<1>3. Complete(new, c, K)
  <2>. HIDE DEF F
  <2>. QED
    BY <1>2, BothComplete
<1>. QED
  BY <1>1, <1>3

-----------------------------------------------------------------------------
(* PassDiscipline and VisitedIsComplete are inductive.                     *)

PassInv == PassDiscipline /\ VisitedIsComplete

\* The row of p is complete if p is not excluded.
DoneWith(p, row) == ~content[p].excluded => Complete(row, content[p], catalogue)

\* No pass is under way at the start.
LEMMA InitPass == ASSUME GraphAssumption, Init PROVE PassInv
BY DEF Init, PassInv, PassDiscipline, VisitedIsComplete, NoTxn, GraphAssumption

\* An agent opens a transaction on a project nobody else is at.
LEMMA OpenPass ==
  ASSUME GraphAssumption, GraphInv, PassInv, NEW a \in Agents, NEW e \in Event, NEW row, NEW raises,
         Open(a, e, row, raises), UNCHANGED <<content, rows, seed, todo, catalogue, quiet>>,
         a = Seed => e.project \in todo,
         quiet /\ seed \in {"running", "done"} /\ (a = Seed \/ e.project \notin todo)
            => DoneWith(e.project, row)
  PROVE  PassInv'
<1>1. /\ txn'[a] = [open |-> TRUE, event |-> e, row |-> row, raises |-> raises]
      /\ \A b \in Agents \ {a} : txn'[b] = txn[b]
      /\ \A b \in Agents : txn[b].open => txn[b].event.project # e.project
  BY DEF Open, Unlocked, GraphInv, TypeOK
<1>2. /\ txn'[a].open /\ txn'[a].event = e /\ txn'[a].row = row
  BY <1>1
<1>3. Seed \in Agents /\ Known' = Known
  BY DEF GraphAssumption, Known
<1>4. PassDiscipline'
  <2>1. (\A b, d \in Agents : txn[b].open /\ txn[d].open /\ b # d =>
            txn[b].event.project # txn[d].event.project)'
    BY <1>1, <1>2 DEF PassInv, PassDiscipline
  <2>2. (txn[Seed].open => seed = "running" /\ txn[Seed].event.project \in todo)'
    BY <1>1, <1>2, <1>3 DEF PassInv, PassDiscipline
  <2>. QED
    BY <1>3, <2>1, <2>2 DEF PassInv, PassDiscipline
<1>5. VisitedIsComplete'
  <2> SUFFICES ASSUME quiet, seed \in {"running", "done"}
               PROVE  /\ \A p \in Projects \ todo : DoneWith(p, rows[p])
                      /\ \A b \in Agents : txn'[b].open =>
                            LET p == txn'[b].event.project
                            IN  (b = Seed \/ p \notin todo) => DoneWith(p, txn'[b].row)
    BY DEF VisitedIsComplete, DoneWith
  <2>1. \A p \in Projects \ todo : DoneWith(p, rows[p])
    BY DEF PassInv, VisitedIsComplete, DoneWith
  <2>2. \A b \in Agents : txn[b].open =>
            LET p == txn[b].event.project
            IN  (b = Seed \/ p \notin todo) => DoneWith(p, txn[b].row)
    BY DEF PassInv, VisitedIsComplete, DoneWith
  <2>. QED
    BY <1>1, <1>2, <2>1, <2>2
<1>. QED
  BY <1>4, <1>5 DEF PassInv

\* A transaction ends without a trace, the seed sync's with its pass.
LEMMA ClosePass ==
  ASSUME GraphAssumption, GraphInv, PassInv, NEW a \in Agents, Close(a),
         UNCHANGED <<content, rows, catalogue, quiet>>,
         \/ a # Seed /\ UNCHANGED <<seed, todo>>
         \/ a = Seed /\ seed' = "aborted" /\ todo' = {}
  PROVE  PassInv'
<1>1. /\ ~txn'[a].open
      /\ \A b \in Agents \ {a} : txn'[b] = txn[b]
  BY DEF Close, NoTxn, GraphInv, TypeOK
<1>2. Seed \in Agents /\ Known' = Known
  BY DEF GraphAssumption, Known
<1>3. PassDiscipline'
  BY <1>1, <1>2 DEF PassInv, PassDiscipline
<1>4. VisitedIsComplete'
  <2>1. CASE a # Seed
    BY <1>1, <2>1 DEF PassInv, VisitedIsComplete
  <2>2. CASE a = Seed
    BY <2>2 DEF VisitedIsComplete
  <2>. QED
    BY <2>1, <2>2
<1>. QED
  BY <1>3, <1>4 DEF PassInv

\* A transaction commits: a worker's on a project the pass has visited was complete,
\* and the seed sync's makes its project one of them.
LEMMA CommitPass ==
  ASSUME GraphAssumption, GraphInv, PassInv, NEW a \in Agents, txn[a].open, Close(a),
         rows' = [rows EXCEPT ![txn[a].event.project] = txn[a].row],
         UNCHANGED <<content, catalogue, quiet>>,
         \/ a # Seed /\ UNCHANGED <<seed, todo>>
         \/ /\ a = Seed /\ todo' = todo \ {txn[a].event.project}
            /\ seed' = IF todo = {txn[a].event.project} THEN "done" ELSE "running"
  PROVE  PassInv'
<1>. DEFINE p == txn[a].event.project
<1>1. /\ ~txn'[a].open
      /\ \A b \in Agents \ {a} : txn'[b] = txn[b]
  BY DEF Close, NoTxn, GraphInv, TypeOK
<1>2. p \in Projects /\ Seed \in Agents
  BY OpenHasEvent DEF GraphAssumption
<1>3. rows'[p] = txn[a].row /\ \A q \in Projects \ {p} : rows'[q] = rows[q]
  BY <1>2 DEF GraphInv, TypeOK
<1>4. Known \subseteq Known'
  BY <1>2, <1>3 DEF Known, GraphInv
<1>5. \A b \in Agents : txn'[b].open => b # a /\ txn[b].open /\ txn[b].event.project # p
  BY <1>1 DEF PassInv, PassDiscipline
<1>6. PassDiscipline'
  <2>1. (\A b, d \in Agents : txn[b].open /\ txn[d].open /\ b # d =>
            txn[b].event.project # txn[d].event.project)'
    BY <1>1 DEF PassInv, PassDiscipline
  <2>2. (txn[Seed].open => seed = "running" /\ txn[Seed].event.project \in todo)'
    BY <1>1, <1>2 DEF PassInv, PassDiscipline
  <2>3. seed' # "running" => todo' = {}
    BY DEF PassInv, PassDiscipline
  <2>4. catalogue' \subseteq Known'
    BY <1>4 DEF PassInv, PassDiscipline
  <2>. QED
    BY <2>1, <2>2, <2>3, <2>4 DEF PassDiscipline
<1>7. VisitedIsComplete'
  <2> SUFFICES ASSUME quiet, seed' \in {"running", "done"}
               PROVE  /\ \A q \in Projects \ todo' : DoneWith(q, rows'[q])
                      /\ \A b \in Agents : txn'[b].open =>
                            LET q == txn'[b].event.project
                            IN  (b = Seed \/ q \notin todo') => DoneWith(q, txn'[b].row)
    BY DEF VisitedIsComplete, DoneWith
  <2>1. seed \in {"running", "done"}
    BY DEF PassInv, PassDiscipline
  <2>2. \A q \in Projects \ todo : DoneWith(q, rows[q])
    BY <2>1 DEF PassInv, VisitedIsComplete, DoneWith
  <2>3. \A b \in Agents : txn[b].open =>
            LET q == txn[b].event.project
            IN  (b = Seed \/ q \notin todo) => DoneWith(q, txn[b].row)
    BY <2>1 DEF PassInv, VisitedIsComplete, DoneWith
  <2>4. \A q \in Projects : q \notin todo' => q \notin todo \/ (a = Seed /\ q = p)
    OBVIOUS
  <2>. HIDE DEF p
  <2>5. p \notin todo' => DoneWith(p, txn[a].row)
    BY <2>3, <2>4, <1>2 DEF p
  <2>6. \A q \in Projects \ todo' : DoneWith(q, rows'[q])
    BY <2>2, <2>4, <2>5, <1>3
  <2>7. \A b \in Agents : txn'[b].open =>
            txn'[b] = txn[b] /\ txn[b].open /\ txn[b].event.project # p
            /\ txn[b].event.project \in Projects
    BY <1>1, <1>5, OpenHasEvent
  <2>. QED
    BY <2>3, <2>4, <2>6, <2>7
<1>. QED
  BY <1>6, <1>7 DEF PassInv

\* A worker takes a message: on a project the pass has visited it starts from
\* complete rows and the contents the pass has seen.
LEMMA WorkerBeginsPass ==
  ASSUME GraphAssumption, GraphInv, PassInv, NEW w \in Agents, WorkerBegins(w) PROVE PassInv'
<1>1. PICK e \in events :
         \E raises : Open(w, e, HandlePush([rows[e.project] EXCEPT !.known = TRUE],
                                           content[e.project], e.touched, Known \cup {e.project}),
                          raises)
  BY DEF WorkerBegins
<1>. DEFINE p    == e.project
            L    == Known \cup {p}
            base == [rows[p] EXCEPT !.known = TRUE]
            row  == HandlePush(base, content[p], e.touched, L)
<1>2. e \in Event /\ p \in Projects
  BY DEF GraphInv, TypeOK, Event
<1>3. ASSUME quiet, seed \in {"running", "done"}, p \notin todo PROVE DoneWith(p, row)
  <2> SUFFICES ASSUME ~content[p].excluded PROVE Complete(row, content[p], catalogue)
    BY DEF DoneWith
  <2>1. Complete(rows[p], content[p], catalogue)
    BY <1>2, <1>3 DEF PassInv, VisitedIsComplete
  <2>2. rows[p] \in GraphRow
    BY <1>2 DEF GraphInv, TypeOK
  <2>3. base.missing = rows[p].missing /\ base.exposed = rows[p].exposed /\ base.needs = rows[p].needs
    BY <2>2 DEF GraphRow
  <2>. HIDE DEF p
  <2>4. /\ Sound(past[p], base, L) /\ content[p] \in past[p] /\ content[p] \in Content
        /\ L \subseteq Projects
    BY <1>2, UpsertedSound
  <2>. HIDE DEF base
  <2>5. Complete(base, content[p], catalogue)
    BY <2>1, <2>3 DEF Complete
  <2>6. catalogue \subseteq L
    BY DEF PassInv, PassDiscipline
  <2>. HIDE DEF L
  <2>. QED
    BY <2>4, <2>5, <2>6, HandlePushCompletes
<1>4. PICK raises : Open(w, e, row, raises)
  BY <1>1
<1>5. w # Seed /\ UNCHANGED <<content, rows, seed, todo, catalogue, quiet>>
  BY DEF WorkerBegins
<1>. HIDE DEF row
<1>. QED
  BY <1>2, <1>3, <1>4, <1>5, OpenPass

\* The pass visits a project.
LEMMA SeedBeginsPass ==
  ASSUME GraphAssumption, GraphInv, PassInv, NEW p \in Projects, SeedBegins(p) PROVE PassInv'
<1>. DEFINE e    == [project |-> p, touched |-> {}]
            L    == Known \cup {p}
            base == [rows[p] EXCEPT !.known = TRUE]
            row  == SyncRepo(base, content[p], L)
            raises == ~content[p].excluded /\ content[p].manifest.state = "poison"
<1>1. e \in Event /\ e.project = p /\ Seed \in Agents
  BY DEF Event, GraphAssumption
<1>2. DoneWith(p, row)
  <2> SUFFICES ASSUME ~content[p].excluded PROVE Complete(row, content[p], catalogue)
    BY DEF DoneWith
  <2>1. /\ Sound(past[p], base, L) /\ content[p] \in past[p] /\ content[p] \in Content
        /\ L \subseteq Projects
    BY UpsertedSound
  <2>2. catalogue \subseteq L
    BY DEF PassInv, PassDiscipline
  <2>. HIDE DEF base, L
  <2>. QED
    BY <2>1, <2>2, SyncRepoCompletes
<1>3. Open(Seed, e, row, raises) /\ p \in todo
  BY DEF SeedBegins
<1>4. UNCHANGED <<content, rows, seed, todo, catalogue, quiet>>
  BY DEF SeedBegins
<1>. HIDE DEF e, row, raises
<1>. QED
  BY <1>1, <1>2, <1>3, <1>4, OpenPass

\* Every step keeps what the pass has visited complete.
LEMMA NextPass == ASSUME GraphAssumption, GraphInv, PassInv, [Next]_vars PROVE PassInv'
<1>1. ASSUME NEW p \in Projects, Push(p) PROVE PassInv'
  <2>1. Known' = Known /\ ~quiet' /\ UNCHANGED <<txn, seed, todo, catalogue>>
    BY <1>1 DEF Push, Known
  <2>2. PassDiscipline'
    BY <2>1 DEF PassInv, PassDiscipline
  <2>3. VisitedIsComplete'
    BY <2>1 DEF VisitedIsComplete
  <2>. QED
    BY <2>2, <2>3 DEF PassInv
<1>2. CASE StartPass
  <2>1. /\ Known' = Known /\ seed' = "running" /\ todo' = Projects /\ catalogue' = Known
        /\ UNCHANGED <<content, rows, txn>> /\ ~txn[Seed].open
    BY <1>2 DEF StartPass, Known, PassInv, PassDiscipline
  <2>2. PassDiscipline'
    BY <2>1 DEF PassInv, PassDiscipline
  <2>3. VisitedIsComplete'
    BY <2>1, OpenHasEvent DEF VisitedIsComplete
  <2>. QED
    BY <2>2, <2>3 DEF PassInv
<1>3. ASSUME NEW p \in Projects, SeedBegins(p) PROVE PassInv'
  BY <1>3, SeedBeginsPass
<1>4. ASSUME NEW w \in Agents, WorkerBegins(w) PROVE PassInv'
  BY <1>4, WorkerBeginsPass
<1>5. ASSUME NEW w \in Agents, WorkerCommits(w) PROVE PassInv'
  BY <1>5, CommitPass DEF WorkerCommits
<1>6. ASSUME NEW w \in Agents, WorkerFails(w) \/ DeadLetter(w) PROVE PassInv'
  BY <1>6, ClosePass DEF WorkerFails, DeadLetter
<1>7. CASE SeedCommits
  BY <1>7, CommitPass DEF SeedCommits, GraphAssumption
<1>8. CASE SeedRaises
  BY <1>8, ClosePass DEF SeedRaises, GraphAssumption
<1>9. CASE UNCHANGED vars
  <2>1. Known' = Known
    BY <1>9 DEF vars, Known
  <2>. QED
    BY <1>9, <2>1 DEF vars, PassInv, PassDiscipline, VisitedIsComplete
<1>. QED
  BY <1>1, <1>2, <1>3, <1>4, <1>5, <1>6, <1>7, <1>8, <1>9 DEF Next

\* What a pass has visited stays complete until the next push.
THEOREM VisitedStaysComplete ==
  ASSUME GraphAssumption PROVE Spec => [](PassDiscipline /\ VisitedIsComplete)
<1>1. Init => GraphInv /\ PassInv
  BY InitGraph, InitPass
<1>2. GraphInv /\ PassInv /\ [Next]_vars => (GraphInv /\ PassInv)'
  BY NextGraph, NextPass
<1>3. PassInv <=> PassDiscipline /\ VisitedIsComplete
  BY DEF PassInv
<1>. QED
  BY <1>1, <1>2, <1>3, PTL DEF Spec

\* A pass during which nothing was pushed leaves the graph complete, although
\* workers take messages and commit while it goes on.
THEOREM PassesComplete == ASSUME GraphAssumption PROVE Spec => []PassCompletes
<1>1. PassDiscipline /\ VisitedIsComplete => PassCompletes
  BY DEF PassDiscipline, VisitedIsComplete, PassCompletes
<1>. QED
  BY <1>1, VisitedStaysComplete, PTL

-----------------------------------------------------------------------------
(* BrokenIsPending is inductive.                                           *)

\* The project is subject to it.
Broken(p) == content[p].manifest.state = "malformed" /\ ~BrokenUnseen(p)

AtIt(a, p) == txn[a].open /\ txn[a].event.project = p

\* What it says of one project.
Pending(p) ==
    /\ \/ rows[p].missing \/ WillLook(p)
       \/ \E a \in Agents : AtIt(a, p) /\ HasLooked(a)
    /\ \A a \in Agents : AtIt(a, p) => txn[a].row.missing \/ WillLook(p)

\* BrokenIsPending, project by project.
LEMMA PendingEach == BrokenIsPending <=> \A p \in Projects : Broken(p) => Pending(p)
BY DEF BrokenIsPending, Broken, Pending, AtIt

\* Looking at a broken manifest flags the row.
LEMMA LookingFlags ==
  ASSUME GraphAssumption, NEW H, NEW L, L \subseteq Projects, NEW row, Sound(H, row, L),
         NEW c \in H, c \in Content, ~c.excluded, c.manifest.state = "malformed"
  PROVE  /\ SyncRepo(row, c, L).missing
         /\ \A T : IF T = {} THEN HandlePush(row, c, T, L) = row
                             ELSE HandlePush(row, c, T, L).missing
<1>1. Complete(SyncRepo(row, c, L), c, {})
  BY SyncRepoCompletes
<1>2. ASSUME NEW T, T # {} PROVE Complete(HandlePush(row, c, T, L), c, {})
  BY <1>2, HandlePushCompletes
<1>. QED
  BY <1>1, <1>2 DEF Complete, HandlePush

\* An agent opens a transaction on a project nobody else is at: a message that will
\* have the manifest looked at is still waiting, or has had it looked at.
LEMMA OpenPending ==
  ASSUME GraphInv, BrokenIsPending, NEW a \in Agents, NEW e \in Event, NEW row, NEW raises,
         Open(a, e, row, raises), UNCHANGED <<content, rows, past>>,
         \/ events' = events \ {e} /\ missed' = missed
         \/ events' = events /\ missed' = missed \ {e.project} /\ a = Seed,
         Broken(e.project) =>
            \/ row.missing /\ (a = Seed => ~raises)
            \/ a # Seed /\ row.missing = rows[e.project].missing /\ "manifest" \notin e.touched
  PROVE  BrokenIsPending'
<1>. DEFINE p == e.project
<1>1. /\ txn'[a] = [open |-> TRUE, event |-> e, row |-> row, raises |-> raises]
      /\ \A b \in Agents \ {a} : txn'[b] = txn[b]
      /\ ~txn[a].open
      /\ \A b \in Agents : ~AtIt(b, p)
  BY DEF Open, Unlocked, GraphInv, TypeOK, AtIt
<1>2. /\ txn'[a].open /\ txn'[a].event = e /\ txn'[a].row = row
  BY <1>1
<1>3. \A q \in Projects : Broken(q)' <=> Broken(q)
  BY DEF Broken, BrokenUnseen
<1>4. \A q \in Projects :
         WillLook(q) => WillLook(q)' \/ (q = p /\ (a = Seed \/ "manifest" \in e.touched))
  BY DEF WillLook
<1>5. ASSUME NEW q \in Projects, Broken(q) PROVE Pending(q)'
  <2>1. Pending(q)
    BY <1>5, PendingEach
  <2>2. CASE q # p
    <3>1. WillLook(q) => WillLook(q)'
      BY <1>4, <2>2
    <3>2. \A b \in Agents : AtIt(b, q)' <=> b # a /\ AtIt(b, q)
      BY <1>1, <1>2, <2>2 DEF AtIt
    <3>3. ~AtIt(a, q)
      BY <1>1 DEF AtIt
    <3>4. \A b \in Agents \ {a} : HasLooked(b)' <=> HasLooked(b)
      BY <1>1 DEF HasLooked
    <3>. QED
      BY <1>1, <2>1, <3>1, <3>2, <3>3, <3>4 DEF Pending
  <2>3. CASE q = p
    <3>1. \A b \in Agents : AtIt(b, q)' <=> b = a
      BY <1>1, <1>2, <2>3 DEF AtIt
    <3>2. rows[q].missing \/ WillLook(q)
      BY <1>1, <2>1, <2>3 DEF Pending
    <3>3. rows[q].missing \/ WillLook(q)' \/ HasLooked(a)'
      BY <1>1, <1>2, <1>4, <1>5, <2>3, <3>2 DEF HasLooked
    <3>4. row.missing \/ WillLook(q)'
      BY <1>4, <1>5, <2>3, <3>2
    <3>. QED
      BY <1>2, <3>1, <3>3, <3>4 DEF Pending
  <2>. QED
    BY <2>2, <2>3
<1>. QED
  BY <1>3, <1>5, PendingEach DEF BrokenIsPending, Broken, Pending, AtIt

\* A transaction ends without a trace: a worker's message returns or is given up, and
\* the seed sync's raises.
LEMMA ClosePending ==
  ASSUME GraphInv, BrokenIsPending, NEW a \in Agents, txn[a].open, Close(a),
         UNCHANGED <<content, rows, past>>, events \subseteq events', missed \subseteq missed',
         \/ txn[a].event \in events' /\ a # Seed
         \/ txn[a].event.project \in missed'
         \/ ~HasLooked(a)
  PROVE  BrokenIsPending'
<1>1. ~txn'[a].open /\ \A b \in Agents \ {a} : txn'[b] = txn[b]
  BY DEF Close, NoTxn, GraphInv, TypeOK
<1>2. \A q \in Projects : /\ Broken(q)' <=> Broken(q)
                          /\ WillLook(q) => WillLook(q)'
  BY DEF Broken, BrokenUnseen, WillLook
<1>3. \A q \in Projects : AtIt(a, q) /\ HasLooked(a) => WillLook(q)'
  BY DEF WillLook, AtIt, HasLooked
<1>4. \A b \in Agents, q \in Projects : AtIt(b, q)' <=> b # a /\ AtIt(b, q)
  BY <1>1 DEF AtIt
<1>5. ASSUME NEW q \in Projects, Broken(q) PROVE Pending(q)'
  <2>1. Pending(q)
    BY <1>5, PendingEach
  <2>2. (\A b \in Agents : AtIt(b, q) => txn[b].row.missing \/ WillLook(q))'
    BY <1>1, <1>2, <1>4, <2>1 DEF Pending
  <2>3. (\/ rows[q].missing \/ WillLook(q)
         \/ \E b \in Agents : AtIt(b, q) /\ HasLooked(b))'
    <3>1. CASE rows[q].missing \/ WillLook(q)
      BY <1>2, <3>1
    <3>2. ASSUME NEW b \in Agents, AtIt(b, q), HasLooked(b)
          PROVE  WillLook(q)' \/ (AtIt(b, q)' /\ HasLooked(b)')
      <4>1. CASE b = a
        BY <1>3, <3>2, <4>1
      <4>2. CASE b # a
        BY <1>1, <1>4, <3>2, <4>2 DEF HasLooked
      <4>. QED
        BY <4>1, <4>2
    <3>. QED
      BY <2>1, <3>1, <3>2 DEF Pending
  <2>. QED
    BY <2>2, <2>3 DEF Pending
<1>. QED
  BY <1>2, <1>5, PendingEach DEF BrokenIsPending, Broken, Pending, AtIt

\* A transaction commits: its row is flagged, or a message is still waiting.
LEMMA CommitPending ==
  ASSUME GraphAssumption, GraphInv, BrokenIsPending, PassDiscipline,
         NEW a \in Agents, txn[a].open, Close(a),
         rows' = [rows EXCEPT ![txn[a].event.project] = txn[a].row],
         UNCHANGED <<content, past, events, missed>>
  PROVE  BrokenIsPending'
<1>. DEFINE p == txn[a].event.project
<1>1. ~txn'[a].open /\ \A b \in Agents \ {a} : txn'[b] = txn[b]
  BY DEF Close, NoTxn, GraphInv, TypeOK
<1>2. \A q \in Projects : /\ Broken(q)' <=> Broken(q)
                          /\ WillLook(q)' <=> WillLook(q)
  BY DEF Broken, BrokenUnseen, WillLook
<1>3. \A q \in Projects : rows'[q] = IF q = p THEN txn[a].row ELSE rows[q]
  BY OpenHasEvent DEF GraphInv, TypeOK
<1>4. \A b \in Agents, q \in Projects : AtIt(b, q)' <=> b # a /\ AtIt(b, q)
  BY <1>1 DEF AtIt
<1>5. ASSUME NEW q \in Projects, Broken(q) PROVE Pending(q)'
  <2>1. Pending(q)
    BY <1>5, PendingEach
  <2>2. (\A b \in Agents : AtIt(b, q) => txn[b].row.missing \/ WillLook(q))'
    BY <1>1, <1>2, <1>4, <2>1 DEF Pending
  <2>3. (\/ rows[q].missing \/ WillLook(q)
         \/ \E b \in Agents : AtIt(b, q) /\ HasLooked(b))'
    <3>1. CASE q = p
      <4>1. AtIt(a, q)
        BY <3>1 DEF AtIt
      <4>. QED
        BY <1>2, <1>3, <2>1, <3>1, <4>1 DEF Pending
    <3>2. CASE q # p
      <4>1. ~AtIt(a, q)
        BY <3>2 DEF AtIt
      <4>2. \A b \in Agents \ {a} : HasLooked(b)' <=> HasLooked(b)
        BY <1>1 DEF HasLooked
      <4>. QED
        BY <1>1, <1>2, <1>3, <1>4, <2>1, <3>2, <4>1, <4>2 DEF Pending
    <3>. QED
      BY <3>1, <3>2
  <2>. QED
    BY <2>2, <2>3 DEF Pending
<1>. QED
  BY <1>2, <1>5, PendingEach DEF BrokenIsPending, Broken, Pending, AtIt

\* A push that breaks a manifest touches it, so its message will have it looked at,
\* or is missed.
LEMMA PushPending ==
  ASSUME GraphAssumption, GraphInv, BrokenIsPending, NEW p \in Projects, Push(p)
  PROVE  BrokenIsPending'
<1>1. PICK c \in Contents[p] :
         /\ content' = [content EXCEPT ![p] = c]
         /\ past' = [past EXCEPT ![p] = @ \cup {c}]
         /\ LET e == [project |-> p, touched |-> Touched(content[p], c)]
            IN  Send(e) \/ FailToSend(e)
  BY DEF Push
<1>2. UNCHANGED <<rows, txn>>
  BY DEF Push
<1>3. \A q \in Projects : /\ past[q] \subseteq past'[q]
                          /\ WillLook(q) => WillLook(q)'
                          /\ \A a \in Agents : AtIt(a, q)' <=> AtIt(a, q)
  BY <1>1, <1>2 DEF WillLook, AtIt, GraphInv, TypeOK, Send, FailToSend
<1>4. \A q \in Projects : Pending(q) => Pending(q)'
  BY <1>2, <1>3 DEF Pending, HasLooked
<1>5. ASSUME NEW q \in Projects, Broken(q)' PROVE Pending(q)'
  <2>1. ~BrokenUnseen(q)
    BY <1>3, <1>5 DEF Broken, BrokenUnseen
  <2>2. CASE content[q].manifest.state = "malformed"
    BY <1>4, <1>5, <2>1, <2>2, PendingEach DEF Broken
  <2>3. CASE content[q].manifest.state # "malformed"
    <3>1. q = p /\ c.manifest.state = "malformed"
      BY <1>1, <1>5, <2>3 DEF Broken, GraphInv, TypeOK
    <3>. DEFINE T == Touched(content[p], c)
                e == [project |-> p, touched |-> T]
    <3>2. "manifest" \in T
      BY <2>3, <3>1 DEF Touched
    <3>. HIDE DEF T
    <3>3. /\ e \in events' \/ e.project \in missed'
          /\ e.project = q /\ "manifest" \in e.touched
      BY <1>1, <3>1, <3>2 DEF T, Send, FailToSend
    <3>. HIDE DEF e
    <3>4. WillLook(q)'
      BY <3>3 DEF WillLook
    <3>. QED
      BY <3>4 DEF Pending
  <2>. QED
    BY <2>2, <2>3
<1>. QED
  BY <1>5 DEF BrokenIsPending, Broken, Pending, AtIt

\* A worker takes a message; if any file that reaches the graph was touched, it looks
\* at the manifest.
LEMMA WorkerBeginsPending ==
  ASSUME GraphAssumption, GraphInv, BrokenIsPending, NEW w \in Agents, WorkerBegins(w)
  PROVE  BrokenIsPending'
<1>1. PICK e \in events :
         /\ \E raises : Open(w, e, HandlePush([rows[e.project] EXCEPT !.known = TRUE],
                                              content[e.project], e.touched,
                                              Known \cup {e.project}),
                             raises)
         /\ events' = events \ {e}
  BY DEF WorkerBegins
<1>. DEFINE p    == e.project
            L    == Known \cup {p}
            base == [rows[p] EXCEPT !.known = TRUE]
            row  == HandlePush(base, content[p], e.touched, L)
<1>2. e \in Event /\ p \in Projects
  BY DEF GraphInv, TypeOK, Event
<1>3. Broken(p) => row.missing \/ (row.missing = rows[p].missing /\ "manifest" \notin e.touched)
  <2> SUFFICES ASSUME Broken(p)
               PROVE  row.missing \/ (row.missing = rows[p].missing /\ "manifest" \notin e.touched)
    OBVIOUS
  <2>1. rows[p] \in GraphRow
    BY <1>2 DEF GraphInv, TypeOK
  <2>2. base.missing = rows[p].missing
    BY <2>1 DEF GraphRow
  <2>. HIDE DEF p
  <2>3. /\ Sound(past[p], base, L) /\ content[p] \in past[p] /\ content[p] \in Content
        /\ L \subseteq Projects
    BY <1>2, UpsertedSound
  <2>4. content[p].manifest.state = "malformed" /\ ~content[p].excluded
    BY <2>3 DEF Broken, BrokenUnseen
  <2>. HIDE DEF base, L
  <2>5. IF e.touched = {} THEN row = base ELSE row.missing
    BY <2>3, <2>4, LookingFlags
  <2>. HIDE DEF row
  <2>. QED
    BY <2>2, <2>5
<1>4. PICK raises : Open(w, e, row, raises)
  BY <1>1
<1>5. UNCHANGED <<content, rows, missed, past>> /\ w # Seed
  BY DEF WorkerBegins
<1>. HIDE DEF row
<1>. QED
  BY <1>1, <1>2, <1>3, <1>4, <1>5, OpenPending

\* The pass looks at every manifest.
LEMMA SeedBeginsPending ==
  ASSUME GraphAssumption, GraphInv, BrokenIsPending, NEW p \in Projects, SeedBegins(p)
  PROVE  BrokenIsPending'
<1>. DEFINE e    == [project |-> p, touched |-> {}]
            L    == Known \cup {p}
            base == [rows[p] EXCEPT !.known = TRUE]
            row  == SyncRepo(base, content[p], L)
            raises == ~content[p].excluded /\ content[p].manifest.state = "poison"
<1>1. e \in Event /\ e.project = p /\ Seed \in Agents
  BY DEF Event, GraphAssumption
<1>2. Broken(p) => row.missing /\ ~raises
  <2> SUFFICES ASSUME Broken(p) PROVE row.missing /\ ~raises
    OBVIOUS
  <2>1. /\ Sound(past[p], base, L) /\ content[p] \in past[p] /\ content[p] \in Content
        /\ L \subseteq Projects
    BY UpsertedSound
  <2>2. content[p].manifest.state = "malformed" /\ ~content[p].excluded
    BY <2>1 DEF Broken, BrokenUnseen
  <2>. HIDE DEF base, L
  <2>. QED
    BY <2>1, <2>2, LookingFlags
<1>3. Open(Seed, e, row, raises)
  BY DEF SeedBegins
<1>4. UNCHANGED <<content, rows, past, events>> /\ missed' = missed \ {p}
  BY DEF SeedBegins
<1>. HIDE DEF e, row, raises
<1>. QED
  BY <1>1, <1>2, <1>3, <1>4, OpenPending

\* The pass handles no message, so its transactions touch nothing by name.
NoMessageOfSeed == txn[Seed].open => txn[Seed].event.touched = {}

\* It stays so: only workers take events.
LEMMA NextNoMessage ==
  ASSUME GraphAssumption, GraphInv, NoMessageOfSeed, [Next]_vars PROVE NoMessageOfSeed'
<1>1. Seed \in Agents /\ txn \in [Agents -> {NoTxn} \cup Txn]
  BY DEF GraphAssumption, GraphInv, TypeOK
<1>2. CASE UNCHANGED txn
  BY <1>2 DEF NoMessageOfSeed
<1>3. ASSUME NEW p \in Projects, SeedBegins(p) PROVE NoMessageOfSeed'
  BY <1>1, <1>3 DEF SeedBegins, Open, NoMessageOfSeed
<1>4. ASSUME NEW w \in Agents, WorkerBegins(w) \/ WorkerCommits(w) \/ WorkerFails(w) \/ DeadLetter(w)
      PROVE  UNCHANGED txn[Seed]
  BY <1>1, <1>4 DEF WorkerBegins, WorkerCommits, WorkerFails, DeadLetter, Open, Close
<1>5. CASE SeedCommits \/ SeedRaises
  BY <1>1, <1>5 DEF SeedCommits, SeedRaises, Close, NoTxn, NoMessageOfSeed
<1>6. ASSUME NEW p \in Projects, Push(p) PROVE UNCHANGED txn
  BY <1>6 DEF Push
<1>7. (StartPass \/ UNCHANGED vars) => UNCHANGED txn
  BY DEF StartPass, vars
<1>. QED
  BY <1>2, <1>3, <1>4, <1>5, <1>6, <1>7 DEF Next, NoMessageOfSeed

\* A malformed manifest that is not marked stays one somebody will still look at.
LEMMA NextPending ==
  ASSUME GraphAssumption, GraphInv, BrokenIsPending, PassInv, NoMessageOfSeed, [Next]_vars
  PROVE  BrokenIsPending'
<1>1. ASSUME NEW p \in Projects, Push(p) PROVE BrokenIsPending'
  BY <1>1, PushPending
<1>2. ASSUME NEW p \in Projects, SeedBegins(p) PROVE BrokenIsPending'
  BY <1>2, SeedBeginsPending
<1>3. ASSUME NEW w \in Agents, WorkerBegins(w) PROVE BrokenIsPending'
  BY <1>3, WorkerBeginsPending
<1>4. ASSUME NEW w \in Agents, WorkerCommits(w) PROVE BrokenIsPending'
  BY <1>4, CommitPending DEF WorkerCommits, PassInv
<1>5. ASSUME NEW w \in Agents, WorkerFails(w) \/ DeadLetter(w) PROVE BrokenIsPending'
  BY <1>5, ClosePending DEF WorkerFails, DeadLetter
<1>6. CASE SeedCommits
  BY <1>6, CommitPending DEF SeedCommits, PassInv, GraphAssumption
<1>7. CASE SeedRaises
  BY <1>7, ClosePending DEF SeedRaises, GraphAssumption, NoMessageOfSeed, HasLooked
<1>8. CASE StartPass \/ UNCHANGED vars
  BY <1>8 DEF StartPass, vars, BrokenIsPending, BrokenUnseen, WillLook, HasLooked
<1>. QED
  BY <1>1, <1>2, <1>3, <1>4, <1>5, <1>6, <1>7, <1>8 DEF Next

\* A broken manifest is flagged or somebody is at it or will be, whatever pushes,
\* workers and passes do meanwhile, unless its message was missed and no pass has
\* looked at the project since.
THEOREM BrokenStaysPending == ASSUME GraphAssumption PROVE Spec => []BrokenIsPending
<1>1. Init => GraphInv /\ PassInv /\ NoMessageOfSeed /\ BrokenIsPending
  <2>1. Init => BrokenIsPending /\ NoMessageOfSeed
    BY DEF Init, BrokenIsPending, NoMessageOfSeed, NoRow, NoTxn, GraphAssumption
  <2>. QED
    BY <2>1, InitGraph, InitPass
<1>2. GraphInv /\ PassInv /\ NoMessageOfSeed /\ BrokenIsPending /\ [Next]_vars
        => (GraphInv /\ PassInv /\ NoMessageOfSeed /\ BrokenIsPending)'
  BY NextGraph, NextPass, NextNoMessage, NextPending
<1>. QED
  BY <1>1, <1>2, PTL DEF Spec

\* Once nothing of a project is under way, and a pass has looked at it since a
\* message about it was lost or given up, its row does not count a broken
\* project.yaml as a manifest.
THEOREM BrokenGetsMarked == ASSUME GraphAssumption PROVE Spec => []BrokenIsMarked
<1>1. BrokenIsPending => BrokenIsMarked
  BY DEF BrokenIsPending, BrokenIsMarked, Settled, Unlocked, WillLook
<1>. QED
  BY <1>1, BrokenStaysPending, PTL
=============================================================================
