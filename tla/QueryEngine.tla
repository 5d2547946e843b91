----------------------------- MODULE QueryEngine -----------------------------
(***************************************************************************)
(* One question to /v1/query: the router picks a route by the question's   *)
(* wording, the route's nodes consult the database, the embedding service  *)
(* and the language model, and the synthesizer rates what came of it.      *)
(*                                                                         *)
(*   router --+--> sql --(hybrid, or no rows)--> vector --+                *)
(*            +--> vector | time | latest | graph --------+--> synthesize  *)
(*                                                                         *)
(* The language model decides what SQL runs and whether it names a project *)
(* and an interface: every outcome is possible.  A failed statement leaves *)
(* the connection's transaction aborted until it is rolled back.           *)
(***************************************************************************)
EXTENDS Naturals, FiniteSets

CONSTANTS
    MaxAttempts,  \* MAX_ATTEMPTS of the self-healing loop, 3
    LayerSets     \* what a request may give as layers, {} for nothing

Layers == {"document", "code", "commit"}

ASSUME EngineAssumption ==
    /\ MaxAttempts \in Nat \ {0}
    /\ LayerSets \subseteq SUBSET (Layers \cup {"unknown"})

VARIABLES
    signals,   \* pattern groups of the router the question matches
    layers,    \* the request's layers
    intent,    \* the route
    node,      \* node that runs next
    attempts,  \* statements generated so far
    stmt,      \* the latest one
    everGood,  \* one of them could run                    (history)
    tx,        \* the connection's transaction
    sql,       \* sql_result
    searched,  \* the nodes that fill vector_results ran   (history)
    hits,      \* vector_results is not empty
    graph,     \* graph_result
    embeds,    \* calls of the embedding service
    reply      \* summary, confidence and coverage_note

question == <<signals, layers>>
healing  == <<attempts, stmt, everGood, tx, sql>>
search   == <<searched, hits>>
vars     == <<question, intent, node, healing, search, graph, embeds, reply>>

Signals == {"graph", "aggregate", "latest", "time", "sql", "hybrid"}
Intents == {"graph", "latest", "time", "hybrid", "sql", "vector"}
Nodes   == {"router", "schema", "generate", "execute", "vector", "time", "latest",
            "graph", "synthesize", "end", "raised"}

\* A statement selects rows, selects none (or returns no result set at all), or
\* fails: wrong SQL, or a write the role has no grant for.
Statements == {"none", "selects", "selectsNone", "fails"}
Results    == {"none", "rows", "empty", "error"}

\* graph_result: not asked for, nothing identified, or what impact_analysis says.
Graphs == [asked: {"no", "unidentified", "impact"}, found: BOOLEAN,
           source: {"none", "manifest", "static_analysis"}, missing: BOOLEAN]
NoGraph == [asked |-> "no", found |-> FALSE, source |-> "none", missing |-> TRUE]

\* What build_synthesis returns, and whether it called the language model.
Summaries == {"none", "unidentified", "unknown project", "impact", "gave up",
              "no rows", "from rows", "from context", "from both"}
Replies   == [summary: Summaries, confidence: {"none", "high", "medium", "low"},
              note: BOOLEAN, calls: BOOLEAN]
NoReply   == [summary |-> "none", confidence |-> "none", note |-> FALSE, calls |-> FALSE]

TypeOK ==
    /\ signals \subseteq Signals
    /\ layers \in LayerSets
    /\ intent \in Intents \cup {"none"}
    /\ node \in Nodes
    /\ attempts \in 0..MaxAttempts
    /\ stmt \in Statements
    /\ everGood \in BOOLEAN
    /\ tx \in {"idle", "open", "aborted"}
    /\ sql \in Results
    /\ searched \in BOOLEAN /\ hits \in BOOLEAN
    /\ graph \in Graphs
    /\ embeds \in 0..Cardinality(Layers)
    /\ reply \in Replies

Init ==
    /\ signals \in SUBSET Signals
    /\ layers \in LayerSets
    /\ intent = "none"
    /\ node = "router"
    /\ attempts = 0
    /\ stmt = "none"
    /\ everGood = FALSE
    /\ tx = "idle"
    /\ sql = "none"
    /\ searched = FALSE
    /\ hits = FALSE
    /\ graph = NoGraph
    /\ embeds = 0
    /\ reply = NoReply

-----------------------------------------------------------------------------
(* Router                                                                  *)

\* classify_intent, by the groups of patterns that match.
ClassifyIntent ==
    IF "graph" \in signals /\ "aggregate" \notin signals THEN "graph"
    ELSE IF "latest" \in signals THEN "latest"
    ELSE IF "time" \in signals THEN "time"
    ELSE IF signals \cap {"aggregate", "sql"} = {} THEN "vector"
    ELSE IF "hybrid" \in signals THEN "hybrid" ELSE "sql"

Route ==
    /\ node = "router"
    /\ intent' = ClassifyIntent
    /\ node' = IF intent' \in {"sql", "hybrid"} THEN "schema" ELSE intent'
    /\ UNCHANGED <<question, healing, search, graph, embeds, reply>>

-----------------------------------------------------------------------------
(* SQL: introspect_schema, then run_sql_with_self_heal                     *)

Introspect ==
    /\ node = "schema"
    /\ tx' = "open"
    /\ node' = "generate"
    /\ UNCHANGED <<question, intent, attempts, stmt, everGood, sql, search, graph, embeds, reply>>

Generate ==
    /\ node = "generate"
    /\ attempts' = attempts + 1
    /\ stmt' \in Statements \ {"none"}
    /\ everGood' = (everGood \/ stmt' # "fails")
    /\ node' = "execute"
    /\ UNCHANGED <<question, intent, tx, sql, search, graph, embeds, reply>>

\* MUTANT of AfterSql: rows is None after an error, too.
AfterSqlWithoutRows(result) ==
    IF intent = "hybrid" \/ result # "rows" THEN "vector" ELSE "synthesize"

\* Where the graph's conditional edge leads from the sql node.
AfterSql(result) ==
    IF intent = "hybrid" \/ result = "empty" THEN "vector" ELSE "synthesize"

\* The statement runs, in the transaction that introspect_schema or the
\* rollback of the attempt before has left.
Succeed ==
    /\ node = "execute"
    /\ stmt # "fails" /\ tx # "aborted"
    /\ tx' = "open"
    /\ sql' = IF stmt = "selects" THEN "rows" ELSE "empty"
    /\ node' = AfterSql(sql')
    /\ UNCHANGED <<question, intent, attempts, stmt, everGood, search, graph, embeds, reply>>

\* MUTANT of Heal: without the rollback.
HealUnrolled ==
    /\ node = "execute"
    /\ stmt = "fails" \/ tx = "aborted"
    /\ tx' = "aborted"
    /\ sql' = IF attempts = MaxAttempts THEN "error" ELSE "none"
    /\ node' = IF attempts = MaxAttempts THEN AfterSql("error") ELSE "generate"
    /\ UNCHANGED <<question, intent, attempts, stmt, everGood, search, graph, embeds, reply>>

\* MUTANT of Heal: one attempt more.
HealOnceMore ==
    /\ node = "execute"
    /\ stmt = "fails" \/ tx = "aborted"
    /\ tx' = "idle"
    /\ sql' = IF attempts > MaxAttempts THEN "error" ELSE "none"
    /\ node' = IF attempts > MaxAttempts THEN AfterSql("error") ELSE "generate"
    /\ UNCHANGED <<question, intent, attempts, stmt, everGood, search, graph, embeds, reply>>

\* MUTANT of Heal: it is tried until it succeeds.
HealForEver ==
    /\ node = "execute"
    /\ stmt = "fails" \/ tx = "aborted"
    /\ tx' = "idle"
    /\ attempts' = attempts - 1
    /\ node' = "generate"
    /\ UNCHANGED <<question, intent, stmt, everGood, sql, search, graph, embeds, reply>>

\* except psycopg.Error: roll back, and try again unless it was the last attempt.
Heal ==
    /\ node = "execute"
    /\ stmt = "fails" \/ tx = "aborted"
    /\ tx' = "idle"
    /\ sql' = IF attempts = MaxAttempts THEN "error" ELSE "none"
    /\ node' = IF attempts = MaxAttempts THEN AfterSql("error") ELSE "generate"
    /\ UNCHANGED <<question, intent, attempts, stmt, everGood, search, graph, embeds, reply>>

-----------------------------------------------------------------------------
(* The other nodes                                                         *)

\* search_all searches each active layer with an embedding of its own.
Active == IF layers = {} THEN Layers ELSE layers \cap Layers

\* The searches fail in an aborted transaction, and nothing catches that.
Vector ==
    /\ node = "vector" /\ tx # "aborted"
    /\ embeds' = embeds + Cardinality(Active)
    /\ hits' \in (IF Active = {} THEN {FALSE} ELSE BOOLEAN)
    /\ searched' = TRUE
    /\ tx' = IF Active = {} THEN tx ELSE "open"
    /\ node' = "synthesize"
    /\ UNCHANGED <<question, intent, attempts, stmt, everGood, sql, graph, reply>>

\* search_commits in the range of parse_time_range; search_latest_commits.
Commits ==
    /\ node \in {"time", "latest"}
    /\ embeds' = IF node = "time" THEN embeds + 1 ELSE embeds
    /\ hits' \in BOOLEAN
    /\ searched' = TRUE
    /\ tx' = "open"
    /\ node' = "synthesize"
    /\ UNCHANGED <<question, intent, attempts, stmt, everGood, sql, graph, reply>>

\* extract_impact_params, then impact_analysis (module ImpactAnalysis).
Graph ==
    /\ node = "graph"
    /\ \/ graph' = [NoGraph EXCEPT !.asked = "unidentified"] /\ UNCHANGED tx
       \/ /\ graph' \in {g \in Graphs : g.asked = "impact" /\ (g.found \/ g = [NoGraph EXCEPT !.asked = "impact"])}
          /\ tx' = "open"
    /\ node' = "synthesize"
    /\ UNCHANGED <<question, intent, attempts, stmt, everGood, sql, search, embeds, reply>>

-----------------------------------------------------------------------------
(* Synthesizer                                                             *)

Reply(summary, confidence, note, calls) ==
    [summary |-> summary, confidence |-> confidence, note |-> note, calls |-> calls]

GraphReply ==
    IF graph.asked = "unidentified" THEN Reply("unidentified", "low", FALSE, FALSE)
    ELSE IF ~graph.found THEN Reply("unknown project", "low", FALSE, FALSE)
    ELSE Reply("impact",
               IF graph.source = "none" THEN "low"
               ELSE IF graph.source = "manifest" THEN "high" ELSE "medium",
               graph.missing, FALSE)

\* MUTANT of SqlReply: nothing is special about a fallback.
SqlReplyPlain ==
    IF sql = "error" THEN Reply("gave up", "low", FALSE, FALSE)
    ELSE IF hits THEN Reply("from context", "high", FALSE, TRUE)
    ELSE IF sql = "empty" THEN Reply("no rows", "high", FALSE, FALSE)
    ELSE Reply("from rows", "high", FALSE, TRUE)

SqlReply ==
    IF sql = "error" THEN Reply("gave up", "low", FALSE, FALSE)
    ELSE IF sql = "empty" /\ hits THEN Reply("from context", "medium", TRUE, TRUE)
    ELSE IF sql = "empty" THEN Reply("no rows", "high", FALSE, FALSE)
    ELSE Reply("from rows", "high", FALSE, TRUE)

\* MUTANT of HybridReply: as confident after an error.
HybridReplyConfident == Reply("from both", "high", FALSE, TRUE)

HybridReply == Reply("from both", IF sql = "error" THEN "medium" ELSE "high", FALSE, TRUE)

\* build_synthesis.
BuildSynthesis ==
    CASE intent = "graph"  -> GraphReply
      [] intent = "sql"    -> SqlReply
      [] intent = "hybrid" -> HybridReply
      [] intent \in {"vector", "time", "latest"} -> Reply("from context", "medium", FALSE, TRUE)

Synthesize ==
    /\ node = "synthesize"
    /\ reply' = BuildSynthesis
    /\ node' = "end"
    /\ UNCHANGED <<question, intent, healing, search, graph, embeds>>

\* The language model, the embedding service or the database raises, or the
\* connection is lost, rollback included: the request fails.
Raise ==
    /\ \/ node \in {"schema", "generate", "execute", "time", "latest", "graph"}
       \/ node = "vector" /\ Active # {}
       \/ node = "synthesize" /\ BuildSynthesis.calls
    /\ node' = "raised"
    /\ UNCHANGED <<question, intent, healing, search, graph, embeds, reply>>

Next == \/ Route \/ Introspect \/ Generate \/ Succeed \/ Heal
        \/ Vector \/ Commits \/ Graph \/ Synthesize \/ Raise

Spec == Init /\ [][Next]_vars

\* The engine runs until it replies or raises.
FairSpec == Spec /\ WF_vars(Next)

-----------------------------------------------------------------------------
(* What the engine promises                                                *)

\* A question gets an answer or an error, whatever the model generates.
Ends == <>(node \in {"end", "raised"})

\* "This engine gives up on SQL" only if no statement it was given could run: a
\* failed attempt never spoils the next one's transaction (sql_exec.py:49).
GivesUpOnlyOnErrors == sql = "error" => ~everGood

\* "A genuine SQL error does NOT fall back" (query_engine.py:11): no search runs
\* for an sql question whose statements all failed, and the reply says so.
ErrorDoesNotFallBack ==
    intent = "sql" /\ sql = "error" =>
        ~searched /\ (node = "end" => reply.summary = "gave up" /\ reply.confidence = "low")

\* An sql question answered out of search results, not of rows, says so, and the
\* absence of rows is reported as certain only if the search found nothing either.
FallbackIsDisclosed ==
    node = "end" /\ intent = "sql" =>
        /\ reply.summary = "from context" <=> searched /\ hits
        /\ reply.summary = "from context" => reply.confidence = "medium" /\ reply.note

\* Calls of the language model.
Calls == attempts + (IF graph.asked = "no" THEN 0 ELSE 1) + (IF reply.calls THEN 1 ELSE 0)

\* "up to four LLM calls (three self-heal SQL attempts, one synthesis)"
\* (README.md:168), on every route.
CallsAreBounded == Calls <= MaxAttempts + 1

\* Some layer was really searched: a request that names only unknown layers
\* (schemas.py:22 checks no name) passes through Vector and searches none.
Looked == searched /\ (intent \in {"time", "latest"} \/ Active # {})

Evidence ==
    (CASE sql = "rows" -> {"rows"} [] sql = "empty" -> {"norows"}
       [] sql = "error" -> {"failed"} [] sql = "none" -> {})
    \cup (IF ~Looked THEN {} ELSE IF hits THEN {"found"} ELSE {"nothing"})
    \cup (IF graph.asked = "no" THEN {}
          ELSE IF graph.asked = "unidentified" \/ graph.source = "none" THEN {"unresolved"}
          ELSE IF graph.missing THEN {"uncovered"}
          ELSE IF graph.source = "manifest" THEN {"declared"} ELSE {"observed"})

\* The answers the code rates above what the documents say, and no others:
\*   a row of a project marked manifest_missing keeps the confidence of its
\*   source (query_synthesis.py:39; README.md:81 says low);
Uncovered == graph.source # "none" /\ graph.missing
\*   what rests on a search that looked at no layer is rated as if it had;
Unsearched == searched /\ ~Looked /\ sql # "rows"
\*   a hybrid answer drawn from the search alone is as certain as one drawn from
\*   rows (query_synthesis.py:109; README.md:117 says medium).
Sparse == intent = "hybrid" /\ sql = "empty" /\ hits

Departs == Uncovered \/ Unsearched \/ Sparse

\* An answer that departs is none of the contract's.
Rating == IF node = "raised" THEN "raised"
          ELSE IF Departs THEN "none" ELSE reply.confidence

Contract == INSTANCE AnswerContract WITH evidence <- Evidence, rating <- Rating

\* The confidence of every reply rests on evidence that the documents accept for
\* it, the three departures excepted (query_synthesis.py:26-127).
ImplementsContract == Contract!Spec

=============================================================================
