--------------------------- MODULE ImpactAnalysis ---------------------------
(***************************************************************************)
(* One question about the dependency graph, /v1/impact or                  *)
(* /v1/dependencies, over a connection of one of the two read-only roles.  *)
(*                                                                         *)
(* An answer takes several statements.  Under READ COMMITTED each of them  *)
(* sees what is committed when it starts, and what ingestion commits in    *)
(* between shows in the later ones.  The recursive CTE is evaluated as     *)
(* PostgreSQL does: a working table joined again and again with the        *)
(* dependencies the statement sees, the new rows united with the result.   *)
(***************************************************************************)
EXTENDS Naturals, FiniteSets

CONSTANTS
    Projects,    \* projects in the catalogue
    Interfaces,  \* identifiers of interfaces
    Target,      \* the project asked about
    Asked,       \* the interface of it that is asked about
    Outside,     \* a name that is no project's
    Null,        \* SQL's null
    Rows,        \* Rows: the dependencies a project may have
    MaxDepth,    \* the CTE's depth bound, 5
    MaxWrites    \* bound: transactions that ingestion commits meanwhile

Roles   == {"app_ro", "app_ro_public"}
Sources == {"none", "manifest", "static_analysis"}

\* provider: provider_project_id; external: external_name, where a project stands
\* for its name too.  sync_manifest sets one of them: the id if a projects row has
\* the declared name then, or else that name, which may come to be a project's
\* later; static analysis sets the name only.
Dependency == [provider: Projects \cup {Null}, external: Projects \cup {Outside, Null}]
NoRow      == [provider |-> Null, external |-> Null]
Row        == [Interfaces -> {d \in Dependency : d.provider # Null => d.external = Null}]

ASSUME ImpactAssumption ==
    /\ Target \in Projects /\ Asked \in Interfaces
    /\ Outside \notin Projects /\ Null \notin Projects \cup {Outside}
    /\ Rows \subseteq Row
    /\ MaxDepth \in Nat \ {0} /\ MaxWrites \in Nat

VARIABLES
    \* PostgreSQL, committed
    deps,      \* deps[p]: dependencies rows of consumer p
    private,   \* projects with is_private
    source,    \* source of the exposed_interfaces row asked about
    missing,   \* manifest_missing of the target
    writes,    \* transactions of ingestion so far
    \* The request
    role,      \* the role of its connection
    phase,     \* its next statement
    answer,    \* fields of the result so far
    \* The recursive CTE
    snap,      \* what the statement sees
    round,     \* iterations so far
    working,   \* the working table
    impacted   \* the result so far

db      == <<deps, private, source, missing, writes>>
cte     == <<snap, round, working, impacted>>
vars    == <<db, role, phase, answer, cte>>

\* rows: consumers whose dependencies rows the statement sees; projects: those it
\* sees the projects row of; private: who was private then (history).
Snapshot == [deps: [Projects -> Row], rows: SUBSET Projects,
             projects: SUBSET Projects, private: SUBSET Projects]
CteRow   == [project: Projects, depth: 1..MaxDepth]
Answer   == [found: BOOLEAN, missing: BOOLEAN, source: Sources,
             listed: [Interfaces -> Dependency]]

Phases == {"project", "interface", "cte", "recurse", "list", "done"}

TypeOK ==
    /\ deps \in [Projects -> Row]
    /\ private \subseteq Projects
    /\ source \in Sources
    /\ missing \in BOOLEAN
    /\ writes \in 0..MaxWrites
    /\ role \in Roles
    /\ phase \in Phases
    /\ answer \in Answer
    /\ snap \in Snapshot
    /\ round \in 0..MaxDepth
    /\ working \subseteq CteRow
    /\ impacted \subseteq CteRow

NoAnswer == [found |-> FALSE, missing |-> TRUE, source |-> "none",
             listed |-> [i \in Interfaces |-> NoRow]]

Init ==
    /\ deps \in [Projects -> Rows]
    /\ private \in SUBSET Projects
    /\ source \in Sources
    /\ missing \in BOOLEAN
    /\ writes = 0
    /\ role \in Roles
    /\ phase = "project"
    /\ answer = NoAnswer
    /\ snap = [deps |-> deps, rows |-> {}, projects |-> {}, private |-> private]
    /\ round = 0
    /\ working = {}
    /\ impacted = {}

-----------------------------------------------------------------------------
(* What the role sees: the row-level security policies                     *)

\* projects_privileged and projects_public.
Visible == IF role = "app_ro" THEN Projects ELSE Projects \ private

\* MUTANT of Seen: the public policy on dependencies was forgotten.
SeenUnfiltered == [deps |-> deps, rows |-> Projects, projects |-> Visible, private |-> private]

\* A dependencies row is visible if its consumer is, whatever its provider.
Seen == [deps |-> deps, rows |-> Visible, projects |-> Visible, private |-> private]

-----------------------------------------------------------------------------
(* impact_analysis                                                         *)

\* select id, manifest_missing from projects where name = ...
FindProject ==
    /\ phase = "project"
    /\ IF Target \in Visible
       THEN /\ answer' = [answer EXCEPT !.found = TRUE, !.missing = missing]
            /\ phase' \in {"interface", "list"}
       ELSE /\ phase' = "done"
            /\ UNCHANGED answer
    /\ UNCHANGED <<db, role, cte>>

\* select source from exposed_interfaces where project_id = ... and identifier = ...
FindInterface ==
    /\ phase = "interface"
    /\ answer' = [answer EXCEPT !.source = IF Target \in Visible THEN source ELSE "none"]
    /\ phase' = "cte"
    /\ UNCHANGED <<db, role, cte>>

DependsOn(s, c, p) == c \in s.rows /\ \E i \in Interfaces : s.deps[c][i].provider = p

\* MUTANT of DirectConsumers: the identifier is not compared.
DirectConsumersOfAny(s) == {c \in s.rows : DependsOn(s, c, Target)}

DirectConsumers(s) == {c \in s.rows : s.deps[c][Asked].provider = Target}

\* The non-recursive term: direct consumers of the interface.
StartCte ==
    /\ phase = "cte"
    /\ snap' = Seen
    /\ working' = {[project |-> c, depth |-> 1] : c \in DirectConsumers(Seen)}
    /\ impacted' = working'
    /\ round' = 1
    /\ phase' = "recurse"
    /\ UNCHANGED <<db, role, answer>>

\* MUTANT of Consumers: where i.depth <= 5.
ConsumersOneDeeper(s, rows) ==
    {[project |-> x[1], depth |-> x[2].depth + 1] :
        x \in {y \in Projects \X rows :
            y[2].depth <= MaxDepth /\ DependsOn(s, y[1], y[2].project)}}

\* The recursive term: consumers of any interface of the working table's projects.
Consumers(s, rows) ==
    {[project |-> x[1], depth |-> x[2].depth + 1] :
        x \in {y \in Projects \X rows :
            y[2].depth < MaxDepth /\ DependsOn(s, y[1], y[2].project)}}

\* MUTANT of Recurse: union all, and the consumers' depth is not counted up.
RecurseUnionAll ==
    /\ phase = "recurse" /\ working # {}
    /\ working' = {[r EXCEPT !.depth = 1] : r \in Consumers(snap, working)}
    /\ impacted' = impacted \cup working'
    /\ UNCHANGED <<db, role, phase, answer, snap, round>>

\* One iteration of the CTE; union drops what the result has already.
Recurse ==
    /\ phase = "recurse" /\ working # {}
    /\ LET new == Consumers(snap, working) \ impacted
       IN  /\ working' = new
           /\ impacted' = impacted \cup new
           /\ round' = IF new = {} THEN round ELSE round + 1
    /\ UNCHANGED <<db, role, phase, answer, snap>>

EndCte ==
    /\ phase = "recurse" /\ working = {}
    /\ phase' = "done"
    /\ UNCHANGED <<db, role, answer, cte>>

-----------------------------------------------------------------------------
(* list_dependencies                                                       *)

\* select p2.name, d.external_name: the left join finds a provider's name only
\* where the role sees the provider, and external_name is what it is.
Listed(d) == [d EXCEPT !.provider = IF @ \in Visible THEN @ ELSE Null]

ListDependencies ==
    /\ phase = "list"
    /\ answer' = [answer EXCEPT !.listed =
            [i \in Interfaces |->
                IF Target \in Visible THEN Listed(deps[Target][i]) ELSE NoRow]]
    /\ snap' = Seen
    /\ phase' = "done"
    /\ UNCHANGED <<db, role, round, working, impacted>>

-----------------------------------------------------------------------------
(* Ingestion commits meanwhile                                             *)

Ingest ==
    /\ writes < MaxWrites /\ phase # "done"
    /\ writes' = writes + 1
    /\ \/ /\ \E p \in Projects, r \in Rows : deps' = [deps EXCEPT ![p] = r]
          /\ UNCHANGED <<private, source, missing>>
       \/ /\ \E p \in Projects :
                private' = IF p \in private THEN private \ {p} ELSE private \cup {p}
          /\ UNCHANGED <<deps, source, missing>>
       \/ /\ source' \in Sources /\ missing' \in BOOLEAN
          /\ UNCHANGED <<deps, private>>
    /\ UNCHANGED <<role, phase, answer, cte>>

Next == FindProject \/ FindInterface \/ StartCte \/ Recurse \/ EndCte \/ ListDependencies \/ Ingest

Spec == Init /\ [][Next]_vars

\* A request runs to its end; nothing makes ingestion commit.
FairSpec == Spec /\ WF_vars(FindProject \/ FindInterface \/ StartCte \/ Recurse \/ EndCte
                            \/ ListDependencies)

-----------------------------------------------------------------------------
(* What an answer promises                                                 *)

\* Chain(s, c, k): the CTE statement sees a chain of k dependencies from project
\* c to the interface asked about.
Chain(s, c, k) ==
    \E w \in [1..k -> Projects] :
        /\ w[k] = c
        /\ w[1] \in s.rows /\ s.deps[w[1]][Asked].provider = Target
        /\ \A j \in 1..(k - 1) : DependsOn(s, w[j + 1], w[j])

\* select ..., min(i.depth) as distance ... join projects
Distances == {r \in impacted : /\ r.project \in snap.projects
                               /\ \A q \in impacted : q.project = r.project => r.depth <= q.depth}

\* The projects reported are exactly those with a chain of at most MaxDepth
\* dependencies through projects the role sees, each at its shortest chain's
\* length - cycles, several paths and concurrent commits notwithstanding.
ImpactIsShortest ==
    phase = "done" /\ round > 0 =>
        /\ \A r \in Distances : r.depth \in 1..MaxDepth
        /\ \A c \in Projects, k \in 1..MaxDepth :
              [project |-> c, depth |-> k] \in Distances
                  <=> Chain(snap, c, k) /\ \A j \in 1..(k - 1) : ~Chain(snap, c, j)

\* The public role is told of a project only if a chain of public projects leads
\* from it to the target: none that was private when the statement started, and
\* none known through a private one only.  A private project that a dependency
\* leads to is named in neither column of the listing.  What the listing may hold
\* is the name of a private project that its public consumer gave before there was
\* such a project, or that a package or host has: external_name is told as it is.
PublicSeesPublicChains ==
    phase = "done" /\ role = "app_ro_public" =>
        /\ \A r \in Distances : \E w \in [1..r.depth -> Projects \ snap.private] :
              /\ w[r.depth] = r.project
              /\ \A j \in 1..(r.depth - 1) :
                    \E i \in Interfaces : snap.deps[w[j + 1]][i].provider = w[j]
        /\ \A i \in Interfaces :
              /\ answer.listed[i].provider \notin snap.private
              /\ answer.listed[i].external \in snap.private =>
                    Target \notin snap.private /\ snap.deps[Target][i].provider = Null

\* "Must terminate" (tests/integration/test_graph_traversal.py:89): whatever the
\* graph, an answer comes.
Answers == <>(phase = "done")

=============================================================================
