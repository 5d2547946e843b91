------------------------ MODULE ImpactAnalysisProofs ------------------------
(***************************************************************************)
(* Theorems of ImpactAnalysis, for any projects, interfaces, dependencies  *)
(* and depth bound: the recursive query finds exactly the chains within    *)
(* the bound, and the public role sees nothing through a private project.  *)
(***************************************************************************)
EXTENDS ImpactAnalysis, TLAPS

\* The rows of depth d that the query has to find.
Level(d) == {r \in CteRow : r.depth = d /\ Chain(snap, r.project, d)}

\* After each iteration the result holds the chains found so far, and the working
\* table the longest of them; once it is empty there are no longer ones.
Traversed ==
    phase = "recurse" \/ (phase = "done" /\ round > 0) =>
        /\ round \in 1..MaxDepth
        /\ impacted = {r \in CteRow : r.depth <= round /\ Chain(snap, r.project, r.depth)}
        /\ \/ working = Level(round)
           \/ working = {} /\ \A c \in Projects : round < MaxDepth => ~Chain(snap, c, round + 1)
        /\ phase = "done" => working = {}

\* What a statement sees.
Screened ==
    /\ phase \in {"project", "interface", "cte", "list"} =>
          round = 0 /\ impacted = {} /\ answer.listed = NoAnswer.listed
    /\ phase = "recurse" => answer.listed = NoAnswer.listed
    /\ phase = "recurse" \/ (phase = "done" /\ round > 0) =>
          /\ snap.projects = snap.rows
          /\ snap.rows = IF role = "app_ro" THEN Projects ELSE Projects \ snap.private
    /\ phase = "done" /\ round = 0 => impacted = {}
    /\ role = "app_ro_public" =>
          \A i \in Interfaces :
              /\ answer.listed[i].provider \notin snap.private
              /\ phase = "done" /\ answer.listed[i].external \in snap.private =>
                    Target \notin snap.private /\ snap.deps[Target][i].provider = Null
              /\ phase # "done" => answer.listed[i].external \notin snap.private

ImpactInv == TypeOK /\ Traversed /\ Screened

-----------------------------------------------------------------------------
(* Chains.                                                                 *)

\* The chains of length one are the direct consumers.
LEMMA ShortChains ==
  ASSUME NEW s \in Snapshot, NEW c \in Projects
  PROVE  Chain(s, c, 1) <=> c \in DirectConsumers(s)
<1>1. ASSUME Chain(s, c, 1) PROVE c \in DirectConsumers(s)
  BY <1>1 DEF Chain, DirectConsumers
<1>2. ASSUME c \in DirectConsumers(s) PROVE Chain(s, c, 1)
  <2>. DEFINE w == [j \in 1..1 |-> c]
  <2>1. w \in [1..1 -> Projects] /\ w[1] = c
    OBVIOUS
  <2>2. c \in s.rows /\ s.deps[c][Asked].provider = Target
    BY <1>2 DEF DirectConsumers
  <2>3. 1..(1 - 1) = {}
    OBVIOUS
  <2>. QED
    BY <2>1, <2>2, <2>3 DEF Chain
<1>. QED
  BY <1>1, <1>2

\* A chain goes on where a project depends on its last one.
LEMMA ChainExtends ==
  ASSUME NEW s \in Snapshot, NEW k \in Nat \ {0}, NEW p \in Projects, NEW c \in Projects,
         Chain(s, p, k), DependsOn(s, c, p)
  PROVE  Chain(s, c, k + 1)
<1>1. PICK w \in [1..k -> Projects] :
         /\ w[k] = p
         /\ w[1] \in s.rows /\ s.deps[w[1]][Asked].provider = Target
         /\ \A j \in 1..(k - 1) : DependsOn(s, w[j + 1], w[j])
  BY DEF Chain
<1>. DEFINE v == [j \in 1..(k + 1) |-> IF j = k + 1 THEN c ELSE w[j]]
<1>2. v \in [1..(k + 1) -> Projects] /\ v[k + 1] = c /\ v[1] = w[1]
  BY <1>1
<1>3. ASSUME NEW j \in 1..((k + 1) - 1) PROVE DependsOn(s, v[j + 1], v[j])
  <2>1. CASE j = k
    <3>1. v[j + 1] = c /\ v[j] = p
      BY <1>1, <2>1
    <3>. QED
      BY <3>1
  <2>2. CASE j # k
    <3>1. j \in 1..(k - 1) /\ v[j + 1] = w[j + 1] /\ v[j] = w[j]
      BY <2>2
    <3>. QED
      BY <1>1, <3>1
  <2>. QED
    BY <2>1, <2>2
<1>. HIDE DEF v
<1>. QED
  BY <1>1, <1>2, <1>3 DEF Chain

\* A chain without its last project is one.
LEMMA ChainShortens ==
  ASSUME NEW s \in Snapshot, NEW k \in Nat \ {0}, NEW c \in Projects, Chain(s, c, k + 1)
  PROVE  \E p \in Projects : Chain(s, p, k) /\ DependsOn(s, c, p)
<1>1. PICK w \in [1..(k + 1) -> Projects] :
         /\ w[k + 1] = c
         /\ w[1] \in s.rows /\ s.deps[w[1]][Asked].provider = Target
         /\ \A j \in 1..((k + 1) - 1) : DependsOn(s, w[j + 1], w[j])
  BY DEF Chain
<1>. DEFINE v == [j \in 1..k |-> w[j]]
<1>2. v \in [1..k -> Projects] /\ v[k] = w[k] /\ v[1] = w[1] /\ w[k] \in Projects
  BY <1>1
<1>3. ASSUME NEW j \in 1..(k - 1) PROVE DependsOn(s, v[j + 1], v[j])
  <2>1. j \in 1..((k + 1) - 1) /\ v[j + 1] = w[j + 1] /\ v[j] = w[j]
    OBVIOUS
  <2>. QED
    BY <1>1, <2>1
<1>4. DependsOn(s, c, w[k])
  BY <1>1, k \in 1..((k + 1) - 1)
<1>. HIDE DEF v
<1>. QED
  BY <1>1, <1>2, <1>3, <1>4 DEF Chain

\* A chain begins with chains of every shorter length.
LEMMA ChainHasPrefixes ==
  ASSUME NEW s \in Snapshot, NEW k \in Nat \ {0}, NEW c \in Projects, Chain(s, c, k),
         NEW l \in 1..k
  PROVE  \E p \in Projects : Chain(s, p, l)
<1>1. PICK w \in [1..k -> Projects] :
         /\ w[k] = c
         /\ w[1] \in s.rows /\ s.deps[w[1]][Asked].provider = Target
         /\ \A j \in 1..(k - 1) : DependsOn(s, w[j + 1], w[j])
  BY DEF Chain
<1>. DEFINE v == [j \in 1..l |-> w[j]]
<1>2. v \in [1..l -> Projects] /\ v[l] = w[l] /\ v[1] = w[1] /\ w[l] \in Projects
  BY <1>1
<1>3. ASSUME NEW j \in 1..(l - 1) PROVE DependsOn(s, v[j + 1], v[j])
  <2>1. j \in 1..(k - 1) /\ v[j + 1] = w[j + 1] /\ v[j] = w[j]
    OBVIOUS
  <2>. QED
    BY <1>1, <2>1
<1>. HIDE DEF v
<1>. QED
  BY <1>1, <1>2, <1>3 DEF Chain

\* The projects of a chain are consumers whose rows the statement sees.
LEMMA ChainIsSeen ==
  ASSUME NEW s \in Snapshot, NEW k \in Nat \ {0}, NEW c \in Projects, Chain(s, c, k)
  PROVE  /\ c \in s.rows
         /\ \E w \in [1..k -> s.rows] :
               /\ w[k] = c
               /\ \A j \in 1..(k - 1) : \E i \in Interfaces : s.deps[w[j + 1]][i].provider = w[j]
<1>1. PICK w \in [1..k -> Projects] :
         /\ w[k] = c
         /\ w[1] \in s.rows /\ s.deps[w[1]][Asked].provider = Target
         /\ \A j \in 1..(k - 1) : DependsOn(s, w[j + 1], w[j])
  BY DEF Chain
<1>2. ASSUME NEW j \in 1..k PROVE w[j] \in s.rows
  <2>1. CASE j = 1
    BY <1>1, <2>1
  <2>2. CASE j # 1
    <3>1. j - 1 \in 1..(k - 1) /\ (j - 1) + 1 = j
      BY <2>2
    <3>2. DependsOn(s, w[(j - 1) + 1], w[j - 1])
      BY <1>1, <3>1
    <3>. QED
      BY <3>1, <3>2 DEF DependsOn
  <2>. QED
    BY <2>1, <2>2
<1>3. w \in [1..k -> s.rows] /\ c \in s.rows
  BY <1>1, <1>2
<1>4. \A j \in 1..(k - 1) : \E i \in Interfaces : s.deps[w[j + 1]][i].provider = w[j]
  BY <1>1 DEF DependsOn
<1>. QED
  BY <1>1, <1>3, <1>4

-----------------------------------------------------------------------------
(* The recursive query.                                                    *)

\* A chain gives a row of its level.
LEMMA LevelHasChains ==
  ASSUME NEW d \in 1..MaxDepth, NEW c \in Projects, Chain(snap, c, d)
  PROVE  [project |-> c, depth |-> d] \in Level(d)
  BY DEF Level, CteRow

\* Where there is no chain of a length, there is no longer one.
LEMMA NoLongerChains ==
  ASSUME NEW s \in Snapshot, NEW k \in Nat \ {0}, NEW l \in Nat, l >= k,
         \A p \in Projects : ~Chain(s, p, k)
  PROVE  \A c \in Projects : ~Chain(s, c, l)
  BY ChainHasPrefixes, k \in 1..l

\* One iteration joins a level with the dependencies and gives the next one.
LEMMA NextLevel ==
  ASSUME ImpactAssumption, TypeOK, round \in 1..MaxDepth
  PROVE  Consumers(snap, Level(round)) =
            IF round < MaxDepth THEN Level(round + 1) ELSE {}
<1>1. snap \in Snapshot /\ round \in Nat \ {0} /\ MaxDepth \in Nat
  BY DEF TypeOK, ImpactAssumption
<1>2. CASE round < MaxDepth
  <2>1. ASSUME NEW r \in Consumers(snap, Level(round)) PROVE r \in Level(round + 1)
    <3>1. PICK y \in Projects \X Level(round) :
             DependsOn(snap, y[1], y[2].project) /\ r = [project |-> y[1], depth |-> y[2].depth + 1]
      BY <2>1 DEF Consumers
    <3>2. /\ y[1] \in Projects /\ y[2].project \in Projects /\ y[2].depth = round
          /\ Chain(snap, y[2].project, round)
      BY <3>1 DEF Level, CteRow
    <3>3. Chain(snap, y[1], round + 1)
      BY <1>1, <3>1, <3>2, ChainExtends
    <3>. QED
      BY <1>1, <1>2, <3>1, <3>2, <3>3 DEF Level, CteRow
  <2>2. ASSUME NEW r \in Level(round + 1) PROVE r \in Consumers(snap, Level(round))
    <3>1. r.project \in Projects /\ Chain(snap, r.project, round + 1)
          /\ r = [project |-> r.project, depth |-> round + 1]
      BY DEF Level, CteRow
    <3>2. PICK p \in Projects : Chain(snap, p, round) /\ DependsOn(snap, r.project, p)
      BY <1>1, <3>1, ChainShortens
    <3>. DEFINE q == [project |-> p, depth |-> round]
    <3>3. q \in Level(round)
      BY <3>2 DEF Level, CteRow
    <3>4. <<r.project, q>> \in Projects \X Level(round) /\ q.depth < MaxDepth /\ q.project = p
      BY <1>2, <3>1, <3>3
    <3>. HIDE DEF q
    <3>5. <<r.project, q>>[1] = r.project /\ <<r.project, q>>[2] = q /\ q.depth = round
      BY DEF q
    <3>. QED
      BY <3>1, <3>2, <3>4, <3>5 DEF Consumers
  <2>. QED
    BY <1>2, <2>1, <2>2
<1>3. CASE round = MaxDepth
  BY <1>1, <1>3 DEF Consumers, Level
<1>. QED
  BY <1>1, <1>2, <1>3

\* One iteration takes the result from the chains up to a length to the chains up
\* to the next.
LEMMA RecurseTraverses ==
  ASSUME ImpactAssumption, ImpactInv, Recurse PROVE Traversed'
<1>1. round \in 1..MaxDepth /\ snap \in Snapshot /\ round \in Nat \ {0} /\ MaxDepth \in Nat
  BY DEF ImpactInv, TypeOK, Traversed, Recurse, ImpactAssumption
<1>2. working = Level(round) /\ working # {}
  BY DEF ImpactInv, Traversed, Recurse
<1>. DEFINE new == Consumers(snap, working) \ impacted
<1>3. /\ working' = new /\ impacted' = impacted \cup new
      /\ round' = IF new = {} THEN round ELSE round + 1
      /\ phase = "recurse" /\ phase' = phase /\ snap' = snap
  BY DEF Recurse
<1>4. impacted = {r \in CteRow : r.depth <= round /\ Chain(snap, r.project, r.depth)}
  BY <1>3 DEF ImpactInv, Traversed
<1>5. new = IF round < MaxDepth THEN Level(round + 1) ELSE {}
  <2>1. Consumers(snap, working) = IF round < MaxDepth THEN Level(round + 1) ELSE {}
    BY <1>1, <1>2, NextLevel DEF ImpactInv
  <2>2. Level(round + 1) \cap impacted = {}
    BY <1>1, <1>4 DEF Level
  <2>. QED
    BY <2>1, <2>2
<1>. HIDE DEF new
<1>6. CASE new = {}
  <2>1. \A c \in Projects : round < MaxDepth => ~Chain(snap, c, round + 1)
    <3>. SUFFICES ASSUME NEW c \in Projects, round < MaxDepth, Chain(snap, c, round + 1) PROVE FALSE
      OBVIOUS
    <3>1. [project |-> c, depth |-> round + 1] \in Level(round + 1)
      BY <1>1, LevelHasChains
    <3>. QED
      BY <1>5, <1>6, <3>1
  <2>. QED
    BY <1>1, <1>3, <1>4, <1>6, <2>1 DEF Traversed
<1>7. CASE new # {}
  <2>1. round < MaxDepth /\ new = Level(round + 1) /\ round' = round + 1 /\ round' \in 1..MaxDepth
    BY <1>1, <1>3, <1>5, <1>7
  <2>2. working' = Level(round + 1)
    BY <1>3, <2>1
  <2>3. working' = Level(round)'
    <3>1. Level(round)' = {r \in CteRow : r.depth = round' /\ Chain(snap', r.project, round')}
      BY DEF Level
    <3>2. Level(round + 1) = {r \in CteRow : r.depth = round' /\ Chain(snap', r.project, round')}
      BY <1>3, <2>1, Zenon DEF Level
    <3>. QED
      BY <2>2, <3>1, <3>2
  <2>4. impacted' = {r \in CteRow : r.depth <= round + 1 /\ Chain(snap, r.project, r.depth)}
    <3>1. \A r \in CteRow : r.depth <= round + 1 <=> r.depth <= round \/ r.depth = round + 1
      BY <1>1 DEF CteRow
    <3>. QED
      BY <1>3, <1>4, <2>1, <3>1 DEF Level
  <2>. QED
    BY <1>3, <2>1, <2>3, <2>4 DEF Traversed, Chain, DependsOn
<1>. QED
  BY <1>6, <1>7

-----------------------------------------------------------------------------
(* The invariant is one.                                                   *)

\* What a statement sees is a snapshot.
LEMMA SeenType == ASSUME TypeOK PROVE Seen \in Snapshot
  BY DEF TypeOK, Seen, Visible, Snapshot

\* The initial state.
LEMMA InitImpact == ASSUME ImpactAssumption, Init PROVE ImpactInv
<1>1. /\ NoAnswer \in Answer
      /\ \A i \in Interfaces : /\ NoAnswer.listed[i].provider = Null
                               /\ NoAnswer.listed[i].external = Null
  BY DEF NoAnswer, Answer, Sources, NoRow, Dependency
<1>2. deps \in [Projects -> Row]
  BY DEF Init, ImpactAssumption
<1>3. snap \in Snapshot /\ snap.private \subseteq Projects
  BY <1>2 DEF Init, Snapshot
<1>4. TypeOK
  BY <1>1, <1>2, <1>3 DEF Init, TypeOK, ImpactAssumption, Phases
<1>5. Traversed
  BY DEF Init, Traversed
<1>6. Screened
  BY <1>1, <1>3 DEF Init, Screened, ImpactAssumption
<1>. QED
  BY <1>4, <1>5, <1>6 DEF ImpactInv

\* The types.
LEMMA NextTypes == ASSUME ImpactAssumption, ImpactInv, [Next]_vars PROVE TypeOK'
<1>. USE DEF TypeOK, ImpactInv
<1>1. CASE FindProject
  BY <1>1 DEF FindProject, db, cte, Answer, Phases
<1>2. CASE FindInterface
  BY <1>2 DEF FindInterface, db, cte, Answer, Phases, Sources
<1>3. CASE StartCte
  <2>1. snap' \in Snapshot
    BY <1>3, SeenType DEF StartCte
  <2>2. working' \subseteq CteRow /\ impacted' = working' /\ round' \in 0..MaxDepth
    BY <1>3 DEF StartCte, DirectConsumers, Seen, Visible, CteRow, ImpactAssumption
  <2>. QED
    BY <1>3, <2>1, <2>2 DEF StartCte, db, Phases
<1>4. CASE Recurse
  <2>1. Consumers(snap, working) \subseteq CteRow
    BY DEF Consumers, CteRow, ImpactAssumption
  <2>2. working' \subseteq CteRow /\ impacted' \subseteq CteRow
    BY <1>4, <2>1 DEF Recurse
  <2>3. round' \in 0..MaxDepth
    <3>1. CASE round < MaxDepth
      BY <1>4, <3>1 DEF Recurse, ImpactAssumption
    <3>2. CASE round = MaxDepth
      <4>1. working = Level(round) \/ working = {}
        BY <1>4 DEF Traversed, Recurse
      <4>2. Consumers(snap, working) = {}
        BY <1>4, <3>2, <4>1, NextLevel DEF Traversed, Recurse, ImpactAssumption
      <4>. QED
        BY <1>4, <4>2 DEF Recurse
    <3>. QED
      BY <3>1, <3>2 DEF ImpactAssumption
  <2>. QED
    BY <1>4, <2>2, <2>3 DEF Recurse, db
<1>5. CASE EndCte
  BY <1>5 DEF EndCte, db, cte, Phases
<1>6. CASE ListDependencies
  <2>1. snap' \in Snapshot
    BY <1>6, SeenType DEF ListDependencies
  <2>2. \A i \in Interfaces : deps[Target][i] \in Dependency
    BY DEF ImpactAssumption, Row
  <2>3. \A d \in Dependency : Listed(d) \in Dependency
    BY DEF Dependency, Listed, Visible
  <2>4. NoRow \in Dependency
    BY DEF NoRow, Dependency
  <2>. DEFINE all == [i \in Interfaces |->
                        IF Target \in Visible THEN Listed(deps[Target][i]) ELSE NoRow]
  <2>5. all \in [Interfaces -> Dependency]
    BY <2>2, <2>3, <2>4
  <2>6. answer' = [answer EXCEPT !.listed = all]
    BY <1>6 DEF ListDependencies
  <2>. HIDE DEF all
  <2>7. answer' \in Answer
    BY <2>5, <2>6 DEF Answer
  <2>. QED
    BY <1>6, <2>1, <2>7 DEF ListDependencies, db, Phases
<1>7. CASE Ingest
  BY <1>7 DEF Ingest, cte, ImpactAssumption
<1>8. CASE UNCHANGED vars
  BY <1>8 DEF vars, db, cte
<1>. QED
  BY <1>1, <1>2, <1>3, <1>4, <1>5, <1>6, <1>7, <1>8 DEF Next

\* Steps that leave the query's tables alone.
LEMMA TablesUnmoved ==
  ASSUME Traversed, phase' = phase, UNCHANGED cte PROVE Traversed'
<1>1. UNCHANGED <<snap, round, working, impacted>>
  BY DEF cte
<1>2. \A d : Level(d)' = Level(d)
  BY <1>1 DEF Level, Chain, DependsOn
<1>. QED
  BY <1>1, <1>2 DEF Traversed, Chain, DependsOn

\* The tables hold the chains up to the round.
LEMMA NextTraverses == ASSUME ImpactAssumption, ImpactInv, [Next]_vars PROVE Traversed'
<1>. USE DEF ImpactInv
<1>1. CASE FindProject
  <2>1. round' = 0 /\ phase' # "recurse"
    BY <1>1 DEF FindProject, cte, Screened
  <2>. QED
    BY <2>1 DEF Traversed
<1>2. CASE FindInterface
  BY <1>2 DEF FindInterface, Traversed
<1>3. CASE StartCte
  <2>1. /\ snap' = Seen /\ Seen \in Snapshot /\ round' = 1 /\ phase' = "recurse"
        /\ working' = {[project |-> c, depth |-> 1] : c \in DirectConsumers(Seen)}
        /\ impacted' = working'
    BY <1>3, SeenType DEF StartCte
  <2>2. DirectConsumers(Seen) \subseteq Projects /\ 1 \in 1..MaxDepth /\ MaxDepth \in Nat
    BY DEF DirectConsumers, Seen, Visible, ImpactAssumption
  <2>3. working' = {r \in CteRow : r.depth = 1 /\ Chain(Seen, r.project, 1)}
    <3>1. \A c \in Projects : c \in DirectConsumers(Seen) <=> Chain(Seen, c, 1)
      BY <2>1, ShortChains
    <3>2. \A c \in Projects : [project |-> c, depth |-> 1] \in CteRow
      BY <2>2 DEF CteRow
    <3>3. \A r \in CteRow : r.depth = 1 => r = [project |-> r.project, depth |-> 1] /\ r.project \in Projects
      BY DEF CteRow
    <3>. QED
      BY <2>1, <2>2, <3>1, <3>2, <3>3
  <2>4. \A r \in CteRow : r.depth <= 1 <=> r.depth = 1
    BY DEF CteRow
  <2>5. impacted' = {r \in CteRow : r.depth <= 1 /\ Chain(Seen, r.project, r.depth)}
    BY <2>1, <2>3, <2>4
  <2>6. Level(round)' = {r \in CteRow : r.depth = round' /\ Chain(snap', r.project, round')}
    BY DEF Level
  <2>7. working' = Level(round)'
    BY <2>1, <2>3, <2>6
  <2>. QED
    BY <2>1, <2>2, <2>5, <2>7 DEF Traversed
<1>4. CASE Recurse
  BY <1>4, RecurseTraverses
<1>5. CASE EndCte
  <2>1. phase = "recurse" /\ phase' = "done" /\ working = {} /\ UNCHANGED <<snap, round, working, impacted>>
    BY <1>5 DEF EndCte, cte
  <2>2. round \in 1..MaxDepth
    BY <2>1 DEF Traversed
  <2>3. impacted' = {r \in CteRow : r.depth <= round' /\ Chain(snap', r.project, r.depth)}
    BY <2>1 DEF Traversed
  <2>4. working = Level(round) => \A c \in Projects : ~Chain(snap, c, round)
    BY <2>1, <2>2, LevelHasChains
  <2>5. \A c \in Projects : round < MaxDepth => ~Chain(snap, c, round + 1)
    <3>1. CASE working = Level(round)
      <4>1. round \in Nat \ {0} /\ round + 1 \in Nat /\ round + 1 >= round /\ snap \in Snapshot
        BY <2>2 DEF TypeOK
      <4>. QED
        BY <2>4, <3>1, <4>1, NoLongerChains
    <3>2. CASE working # Level(round)
      BY <2>1, <3>2 DEF Traversed
    <3>. QED
      BY <3>1, <3>2
  <2>. QED
    BY <2>1, <2>2, <2>3, <2>5 DEF Traversed
<1>6. CASE ListDependencies
  <2>1. round' = 0 /\ phase' = "done"
    BY <1>6 DEF ListDependencies, Screened
  <2>. QED
    BY <2>1 DEF Traversed
<1>7. CASE Ingest
  BY <1>7, TablesUnmoved DEF Ingest
<1>8. CASE UNCHANGED vars
  BY <1>8, TablesUnmoved DEF vars
<1>. QED
  BY <1>1, <1>2, <1>3, <1>4, <1>5, <1>6, <1>7, <1>8 DEF Next

\* A statement sees only what its role may.
LEMMA NextScreens == ASSUME ImpactAssumption, ImpactInv, [Next]_vars PROVE Screened'
<1>. USE DEF ImpactInv, Screened
<1>1. /\ \A i \in Interfaces : NoAnswer.listed[i].provider = Null /\ NoAnswer.listed[i].external = Null
      /\ Null \notin Projects
  BY DEF NoAnswer, NoRow, ImpactAssumption
<1>2. CASE FindProject
  <2>1. answer'.listed = answer.listed /\ phase' \in {"interface", "list", "done"}
    BY <1>2 DEF FindProject, TypeOK, Answer
  <2>2. UNCHANGED <<role, snap, round, impacted>> /\ round = 0 /\ impacted = {}
    BY <1>2 DEF FindProject, cte
  <2>. QED
    BY <1>2, <2>1, <2>2 DEF FindProject
<1>3. CASE FindInterface
  <2>1. answer'.listed = answer.listed /\ phase' = "cte"
    BY <1>3 DEF FindInterface, TypeOK, Answer
  <2>2. UNCHANGED <<role, snap, round, impacted>>
    BY <1>3 DEF FindInterface, cte
  <2>. QED
    BY <1>3, <2>1, <2>2 DEF FindInterface
<1>4. CASE StartCte
  <2>1. snap' = Seen /\ UNCHANGED <<role, answer>> /\ phase' = "recurse" /\ answer.listed = NoAnswer.listed
    BY <1>4 DEF StartCte
  <2>2. /\ Seen.projects = Seen.rows /\ Seen.private = private /\ private \subseteq Projects
        /\ Seen.rows = IF role = "app_ro" THEN Projects ELSE Projects \ Seen.private
    BY DEF Seen, Visible, TypeOK
  <2>. QED
    BY <1>1, <2>1, <2>2
<1>5. CASE Recurse
  BY <1>5 DEF Recurse
<1>6. CASE EndCte
  <2>1. round # 0
    BY <1>6 DEF EndCte, Traversed
  <2>. QED
    BY <1>6, <2>1 DEF EndCte, cte, db
<1>7. CASE ListDependencies
  <2>1. /\ phase' = "done" /\ round' = 0 /\ impacted' = {} /\ role' = role
        /\ snap'.private = private /\ private \subseteq Projects
    BY <1>7 DEF ListDependencies, Seen, TypeOK
  <2>2. ASSUME role = "app_ro_public", NEW i \in Interfaces
        PROVE  /\ answer'.listed[i].provider \notin private
               /\ answer'.listed[i].external \in private =>
                     Target \notin private /\ deps[Target][i].provider = Null
    <3>1. Visible = Projects \ private /\ Null \notin private
      BY <2>2 DEF Visible, TypeOK, ImpactAssumption
    <3>2. answer'.listed[i] = IF Target \in Visible THEN Listed(deps[Target][i]) ELSE NoRow
      BY <1>7 DEF ListDependencies, TypeOK, Answer
    <3>3. /\ deps[Target][i] \in Dependency
          /\ deps[Target][i].provider # Null => deps[Target][i].external = Null
      BY DEF TypeOK, Row, ImpactAssumption
    <3>4. CASE Target \in Visible
      <4>. DEFINE d == deps[Target][i]
      <4>1. d \in Dependency /\ (d.provider # Null => d.external = Null)
        BY <3>3
      <4>. HIDE DEF d
      <4>2. /\ Listed(d).provider = IF d.provider \in Visible THEN d.provider ELSE Null
            /\ Listed(d).external = d.external
        BY <4>1 DEF Listed, Dependency
      <4>3. answer'.listed[i] = Listed(d)
        BY <3>2, <3>4 DEF d
      <4>4. Listed(d).provider \notin private
        BY <3>1, <4>2
      <4>5. Listed(d).external \in private => Target \notin private /\ d.provider = Null
        BY <3>1, <3>4, <4>1, <4>2
      <4>. QED
        BY <4>3, <4>4, <4>5 DEF d
    <3>5. CASE Target \notin Visible
      BY <3>1, <3>2, <3>5 DEF NoRow
    <3>. QED
      BY <3>4, <3>5
  <2>3. snap'.deps = deps
    BY <1>7 DEF ListDependencies, Seen
  <2>. QED
    BY <2>1, <2>2, <2>3
<1>8. CASE Ingest
  BY <1>8 DEF Ingest, cte
<1>9. CASE UNCHANGED vars
  BY <1>9 DEF vars, db, cte
<1>. QED
  BY <1>2, <1>3, <1>4, <1>5, <1>6, <1>7, <1>8, <1>9 DEF Next

\* The result is the set of chains, and the role's alone.
THEOREM ImpactInvariant == ASSUME ImpactAssumption PROVE Spec => []ImpactInv
<1>1. ImpactInv /\ [Next]_vars => ImpactInv'
  BY NextTypes, NextTraverses, NextScreens DEF ImpactInv
<1>. QED
  BY <1>1, InitImpact, PTL DEF Spec

\* Type correctness: the variables and the rows of the query keep their types.
THEOREM ImpactTypes == ASSUME ImpactAssumption PROVE Spec => []TypeOK
<1>1. ImpactInv => TypeOK
  BY DEF ImpactInv
<1>. QED
  BY <1>1, ImpactInvariant, PTL

-----------------------------------------------------------------------------
(* What an answer promises.                                                *)

\* When the query is done, its result is the set of all chains within the bound.
LEMMA ResultIsChains ==
  ASSUME ImpactAssumption, ImpactInv, phase = "done", round > 0,
         NEW c \in Projects, NEW k \in 1..MaxDepth
  PROVE  [project |-> c, depth |-> k] \in impacted <=> Chain(snap, c, k)
<1>1. /\ round \in 1..MaxDepth /\ snap \in Snapshot /\ MaxDepth \in Nat
      /\ impacted = {r \in CteRow : r.depth <= round /\ Chain(snap, r.project, r.depth)}
      /\ \A p \in Projects : round < MaxDepth => ~Chain(snap, p, round + 1)
  <2>1. /\ round \in 1..MaxDepth /\ snap \in Snapshot /\ MaxDepth \in Nat
        /\ impacted = {r \in CteRow : r.depth <= round /\ Chain(snap, r.project, r.depth)}
        /\ working = {}
    BY DEF ImpactInv, TypeOK, Traversed, ImpactAssumption
  <2>2. CASE working = Level(round)
    <3>1. \A p \in Projects : ~Chain(snap, p, round)
      BY <2>1, <2>2, LevelHasChains
    <3>2. round \in Nat \ {0} /\ round + 1 \in Nat /\ round + 1 >= round
      BY <2>1
    <3>. QED
      BY <2>1, <3>1, <3>2, NoLongerChains
  <2>3. CASE working # Level(round)
    BY <2>1, <2>3 DEF ImpactInv, Traversed
  <2>. QED
    BY <2>1, <2>2, <2>3
<1>2. [project |-> c, depth |-> k] \in CteRow
  BY DEF CteRow
<1>3. ASSUME Chain(snap, c, k) PROVE k <= round
  <2>1. SUFFICES ASSUME k > round PROVE FALSE
    BY <1>1
  <2>2. round < MaxDepth /\ round + 1 \in Nat \ {0} /\ k \in Nat /\ k >= round + 1
    BY <1>1, <2>1
  <2>. QED
    BY <1>1, <1>3, <2>2, NoLongerChains
<1>. QED
  BY <1>1, <1>2, <1>3

\* The projects reported are exactly those with a chain within the bound, each at
\* its shortest chain's length, whatever the graph and whoever asks.
THEOREM ImpactShortest == ASSUME ImpactAssumption PROVE Spec => []ImpactIsShortest
<1>1. ASSUME ImpactInv PROVE ImpactIsShortest
  <2>. SUFFICES ASSUME phase = "done", round > 0 PROVE
          /\ \A r \in Distances : r.depth \in 1..MaxDepth
          /\ \A c \in Projects, k \in 1..MaxDepth :
                [project |-> c, depth |-> k] \in Distances
                    <=> Chain(snap, c, k) /\ \A j \in 1..(k - 1) : ~Chain(snap, c, j)
    BY DEF ImpactIsShortest
  <2>1. impacted \subseteq CteRow /\ snap \in Snapshot /\ snap.projects = snap.rows /\ MaxDepth \in Nat
    BY <1>1 DEF ImpactInv, TypeOK, Screened, ImpactAssumption
  <2>2. \A r \in Distances : r.depth \in 1..MaxDepth
    BY <2>1 DEF Distances, CteRow
  <2>3. ASSUME NEW c \in Projects, NEW k \in 1..MaxDepth,
               [project |-> c, depth |-> k] \in Distances
        PROVE  Chain(snap, c, k) /\ \A j \in 1..(k - 1) : ~Chain(snap, c, j)
    <3>1. [project |-> c, depth |-> k] \in impacted
      BY <2>3 DEF Distances
    <3>2. ASSUME NEW j \in 1..(k - 1), Chain(snap, c, j) PROVE FALSE
      <4>1. j \in 1..MaxDepth /\ j < k
        BY <2>1
      <4>2. [project |-> c, depth |-> j] \in impacted
        BY <1>1, <3>2, <4>1, ResultIsChains
      <4>3. [project |-> c, depth |-> k].depth <= [project |-> c, depth |-> j].depth
        BY <2>3, <4>2 DEF Distances
      <4>. QED
        BY <4>1, <4>3
    <3>. QED
      BY <1>1, <3>1, <3>2, ResultIsChains
  <2>4. ASSUME NEW c \in Projects, NEW k \in 1..MaxDepth, Chain(snap, c, k),
               \A j \in 1..(k - 1) : ~Chain(snap, c, j)
        PROVE  [project |-> c, depth |-> k] \in Distances
    <3>1. [project |-> c, depth |-> k] \in impacted
      BY <1>1, <2>4, ResultIsChains
    <3>2. c \in snap.projects
      BY <2>1, <2>4, ChainIsSeen
    <3>3. ASSUME NEW q \in impacted, q.project = c PROVE k <= q.depth
      <4>1. q = [project |-> c, depth |-> q.depth] /\ q.depth \in 1..MaxDepth
        BY <2>1, <3>3 DEF CteRow
      <4>2. Chain(snap, c, q.depth)
        BY <1>1, <4>1, ResultIsChains
      <4>. QED
        BY <2>1, <2>4, <4>1, <4>2
    <3>. QED
      BY <3>1, <3>2, <3>3 DEF Distances
  <2>. QED
    BY <2>2, <2>3, <2>4
<1>. QED
  BY <1>1, ImpactInvariant, PTL

\* The public role is told of public projects that a chain of public projects
\* leads to, and of no private provider.
THEOREM PublicSeesPublic == ASSUME ImpactAssumption PROVE Spec => []PublicSeesPublicChains
<1>1. ASSUME ImpactInv PROVE PublicSeesPublicChains
  <2>. SUFFICES ASSUME phase = "done", role = "app_ro_public", NEW r \in Distances
                PROVE  \E w \in [1..r.depth -> Projects \ snap.private] :
                          /\ w[r.depth] = r.project
                          /\ \A j \in 1..(r.depth - 1) :
                                \E i \in Interfaces : snap.deps[w[j + 1]][i].provider = w[j]
    BY <1>1 DEF PublicSeesPublicChains, ImpactInv, Screened
  <2>1. r \in impacted /\ r \in CteRow /\ snap \in Snapshot
    BY <1>1 DEF Distances, ImpactInv, TypeOK
  <2>2. round > 0
    BY <1>1, <2>1 DEF ImpactInv, Screened, TypeOK
  <2>3. Chain(snap, r.project, r.depth) /\ r.project \in Projects /\ r.depth \in Nat \ {0}
    BY <1>1, <2>1, <2>2 DEF ImpactInv, Traversed, CteRow
  <2>4. snap.rows = Projects \ snap.private
    BY <1>1, <2>2 DEF ImpactInv, Screened
  <2>5. \E w \in [1..r.depth -> snap.rows] :
           /\ w[r.depth] = r.project
           /\ \A j \in 1..(r.depth - 1) : \E i \in Interfaces : snap.deps[w[j + 1]][i].provider = w[j]
    <3>1. \A s \in Snapshot : \A k \in Nat \ {0} : \A c \in Projects : Chain(s, c, k) =>
             \E w \in [1..k -> s.rows] :
               /\ w[k] = c
               /\ \A j \in 1..(k - 1) : \E i \in Interfaces : s.deps[w[j + 1]][i].provider = w[j]
      BY ChainIsSeen
    <3>. QED
      BY <2>1, <2>3, <3>1
  <2>. QED
    BY <2>4, <2>5, Zenon
<1>. QED
  BY <1>1, ImpactInvariant, PTL

=============================================================================
