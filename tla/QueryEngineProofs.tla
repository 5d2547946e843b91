------------------------- MODULE QueryEngineProofs -------------------------
(***************************************************************************)
(* Theorems of QueryEngine, for any number of attempts and any layer       *)
(* lists, and that it implements AnswerContract.                           *)
(***************************************************************************)
EXTENDS QueryEngine, FiniteSetTheorems, TLAPS

\* Before a statement has run: nothing is known, and only failures lie behind.
Asking ==
    /\ node \in {"router", "schema", "generate"} => ~everGood
    /\ node \in {"router", "schema"} => attempts = 0
    /\ node = "generate" => attempts < MaxAttempts
    /\ node = "execute" => (everGood <=> stmt # "fails")
    /\ node \in {"schema", "generate", "execute"} => intent \in {"sql", "hybrid"}
    /\ node \in {"router", "schema", "generate", "execute"} => sql = "none"
    /\ intent \notin {"sql", "hybrid"} => sql = "none" /\ attempts = 0 /\ ~everGood
    /\ tx # "aborted"
    /\ sql = "error" => ~everGood

\* What has been consulted at each node of the graph.
Consulted ==
    /\ node = "router" <=> intent = "none"
    /\ node \notin {"synthesize", "end", "raised"} =>
          ~searched /\ ~hits /\ graph = NoGraph /\ embeds = 0
    /\ node \in {"time", "latest", "graph"} => intent = node
    /\ node = "vector" => \/ intent = "vector"
                          \/ intent = "hybrid" /\ sql # "none"
                          \/ intent = "sql" /\ sql = "empty"
    /\ hits => Looked
    /\ intent = "graph" => ~searched
    /\ intent = "sql" /\ searched => sql = "empty"
    /\ graph.asked # "no" => intent = "graph"
    /\ ~graph.found => graph.source = "none"
    /\ graph.asked # "impact" => ~graph.found

\* What the synthesizer finds on each route, and what it makes of it.
Synthesized ==
    /\ node \in {"synthesize", "end"} =>
          /\ intent = "sql" => sql # "none" /\ (sql = "empty" => searched)
          /\ intent = "hybrid" => sql # "none" /\ searched
          /\ intent \in {"vector", "time", "latest"} => searched
          /\ intent = "graph" => graph.asked # "no"
    /\ reply = IF node = "end" THEN BuildSynthesis ELSE NoReply

\* The inductive invariant.
EngineInv == TypeOK /\ Asking /\ Consulted /\ Synthesized

-----------------------------------------------------------------------------
(* Searches: at most one embedding a layer.                                *)

\* There are finitely many layers, at least one, and no more active than that.
LEMMA LayersCount ==
  /\ Cardinality(Layers) \in Nat /\ Cardinality(Layers) >= 1
  /\ Cardinality(Active) \in 0..Cardinality(Layers)
<1>1. IsFiniteSet(Layers)
  <2>1. Layers = (({} \cup {"document"}) \cup {"code"}) \cup {"commit"}
    BY DEF Layers
  <2>. QED
    BY <2>1, FS_EmptySet, FS_AddElement
<1>2. Cardinality(Layers) \in Nat /\ Cardinality(Layers) # 0
  BY <1>1, FS_CardinalityType, FS_EmptySet, "code" \in Layers DEF Layers
<1>3. Active \in SUBSET Layers
  BY DEF Active
<1>4. Cardinality(Active) <= Cardinality(Layers) /\ Cardinality(Active) \in Nat
  BY <1>1, <1>3, FS_Subset, FS_CardinalityType
<1>. QED
  BY <1>2, <1>4

\* Whatever the route, the synthesizer gives a reply of the type.
LEMMA ReplyTypes ==
  ASSUME TypeOK, intent # "none"
  PROVE  BuildSynthesis \in Replies
<1>1. intent \in Intents
  BY DEF TypeOK
<1>2. GraphReply \in Replies
  BY DEF GraphReply, Reply, Replies, Summaries, TypeOK, Graphs
<1>3. SqlReply \in Replies /\ HybridReply \in Replies
  BY DEF SqlReply, HybridReply, Reply, Replies, Summaries
<1>4. Reply("from context", "medium", FALSE, TRUE) \in Replies
  BY DEF Reply, Replies, Summaries
<1>. QED
  BY <1>1, <1>2, <1>3, <1>4 DEF BuildSynthesis, Intents

-----------------------------------------------------------------------------
(* The invariant is one.                                                   *)

\* The initial state.
LEMMA InitEngine == ASSUME EngineAssumption, Init PROVE EngineInv
<1>1. embeds \in 0..Cardinality(Layers)
  BY LayersCount DEF Init
<1>2. graph \in Graphs /\ reply \in Replies
  BY DEF Init, Graphs, NoGraph, Replies, NoReply, Summaries
<1>3. attempts \in 0..MaxAttempts
  BY DEF Init, EngineAssumption
<1>4. TypeOK
  BY <1>1, <1>2, <1>3 DEF Init, TypeOK, Nodes, Statements, Results
<1>5. Asking
  BY DEF Init, Asking
<1>6. Consulted /\ Synthesized
  BY DEF Init, Consulted, Synthesized, NoGraph
<1>. QED
  BY <1>4, <1>5, <1>6 DEF EngineInv

\* The types.
LEMMA NextTypes ==
  ASSUME EngineAssumption, EngineInv, [Next]_vars PROVE TypeOK'
<1>. USE DEF TypeOK, EngineInv
<1>1. CASE Route
  BY <1>1 DEF Route, ClassifyIntent, question, healing, search, Intents, Nodes
<1>2. CASE Introspect
  BY <1>2 DEF Introspect, question, search, Nodes
<1>3. CASE Generate
  BY <1>3 DEF Generate, question, search, Nodes, Statements, Asking, EngineAssumption
<1>4. CASE Succeed
  BY <1>4 DEF Succeed, AfterSql, question, search, Nodes, Results
<1>5. CASE Heal
  BY <1>5 DEF Heal, AfterSql, question, search, Nodes, Results
<1>6. CASE Vector
  <2>1. embeds' \in 0..Cardinality(Layers)
    BY <1>6, LayersCount DEF Vector, Consulted
  <2>. QED
    BY <1>6, <2>1 DEF Vector, question, Nodes
<1>7. CASE Commits
  <2>1. embeds' \in 0..Cardinality(Layers)
    BY <1>7, LayersCount DEF Commits, Consulted
  <2>. QED
    BY <1>7, <2>1 DEF Commits, question, Nodes
<1>8. CASE Graph
  BY <1>8 DEF Graph, Graphs, NoGraph, question, search, Nodes
<1>9. CASE Synthesize
  BY <1>9, ReplyTypes DEF Synthesize, Consulted, question, healing, search, Nodes
<1>10. CASE Raise
  BY <1>10 DEF Raise, question, healing, search, Nodes
<1>11. CASE UNCHANGED vars
  BY <1>11 DEF vars, question, healing, search
<1>. QED
  BY <1>1, <1>2, <1>3, <1>4, <1>5, <1>6, <1>7, <1>8, <1>9, <1>10, <1>11 DEF Next

\* What is known of the statements.
LEMMA NextAsks ==
  ASSUME EngineAssumption, EngineInv, [Next]_vars PROVE Asking'
<1>. USE DEF TypeOK, EngineInv, Asking
<1>1. CASE Route
  BY <1>1 DEF Route, ClassifyIntent, question, healing, search, Consulted, EngineAssumption
<1>2. CASE Introspect
  BY <1>2 DEF Introspect, question, search, EngineAssumption
<1>3. CASE Generate
  BY <1>3 DEF Generate, question, search
<1>4. CASE Succeed
  BY <1>4 DEF Succeed, AfterSql, question, search
<1>5. CASE Heal
  BY <1>5 DEF Heal, AfterSql, question, search, EngineAssumption
<1>6. CASE Vector
  BY <1>6 DEF Vector, question
<1>7. CASE Commits
  BY <1>7 DEF Commits, question
<1>8. CASE Graph
  BY <1>8 DEF Graph, question, search
<1>9. CASE Synthesize
  BY <1>9 DEF Synthesize, question, healing, search
<1>10. CASE Raise
  BY <1>10 DEF Raise, question, healing, search
<1>11. CASE UNCHANGED vars
  BY <1>11 DEF vars, question, healing, search
<1>. QED
  BY <1>1, <1>2, <1>3, <1>4, <1>5, <1>6, <1>7, <1>8, <1>9, <1>10, <1>11 DEF Next

\* What has been consulted.
LEMMA NextConsults ==
  ASSUME EngineInv, [Next]_vars PROVE Consulted'
<1>. USE DEF TypeOK, EngineInv, Consulted, Looked, Active
<1>1. CASE Route
  BY <1>1 DEF Route, ClassifyIntent, question, healing, search
<1>2. CASE Introspect
  BY <1>2 DEF Introspect, question, search
<1>3. CASE Generate
  BY <1>3 DEF Generate, question, search
<1>4. CASE Succeed
  BY <1>4 DEF Succeed, AfterSql, Asking, question, search
<1>5. CASE Heal
  BY <1>5 DEF Heal, AfterSql, Asking, question, search
<1>6. CASE Vector
  BY <1>6 DEF Vector, question
<1>7. CASE Commits
  BY <1>7 DEF Commits, question
<1>8. CASE Graph
  BY <1>8 DEF Graph, Graphs, NoGraph, question, search
<1>9. CASE Synthesize
  BY <1>9 DEF Synthesize, question, healing, search
<1>10. CASE Raise
  BY <1>10 DEF Raise, question, healing, search
<1>11. CASE UNCHANGED vars
  BY <1>11 DEF vars, question, healing, search
<1>. QED
  BY <1>1, <1>2, <1>3, <1>4, <1>5, <1>6, <1>7, <1>8, <1>9, <1>10, <1>11 DEF Next

\* The reply depends on the route and on what the nodes found.
LEMMA SameReply ==
  ASSUME UNCHANGED <<intent, sql, hits, graph>> PROVE BuildSynthesis' = BuildSynthesis
  BY DEF BuildSynthesis, GraphReply, SqlReply, HybridReply, Reply

\* What the synthesizer finds.
LEMMA NextSynthesizes ==
  ASSUME EngineInv, [Next]_vars PROVE Synthesized'
<1>. USE DEF TypeOK, EngineInv, Synthesized
<1>1. CASE Route
  BY <1>1 DEF Route, ClassifyIntent
<1>2. CASE Introspect
  BY <1>2 DEF Introspect
<1>3. CASE Generate
  BY <1>3 DEF Generate
<1>4. CASE Succeed
  BY <1>4 DEF Succeed, AfterSql, Asking
<1>5. CASE Heal
  BY <1>5 DEF Heal, AfterSql, Asking
<1>6. CASE Vector
  BY <1>6 DEF Vector, Consulted
<1>7. CASE Commits
  BY <1>7 DEF Commits, Consulted
<1>8. CASE Graph
  BY <1>8 DEF Graph, Graphs, NoGraph, Consulted
<1>9. CASE Synthesize
  <2>1. UNCHANGED <<intent, sql, hits, searched, graph>>
    BY <1>9 DEF Synthesize, healing, search
  <2>2. BuildSynthesis' = BuildSynthesis
    BY <2>1, SameReply
  <2>. QED
    BY <1>9, <2>1, <2>2 DEF Synthesize
<1>10. CASE Raise
  BY <1>10 DEF Raise
<1>11. CASE UNCHANGED vars
  <2>1. UNCHANGED <<intent, node, sql, hits, searched, graph, reply>>
    BY <1>11 DEF vars, healing, search
  <2>2. BuildSynthesis' = BuildSynthesis
    BY <2>1, SameReply
  <2>. QED
    BY <2>1, <2>2
<1>. QED
  BY <1>1, <1>2, <1>3, <1>4, <1>5, <1>6, <1>7, <1>8, <1>9, <1>10, <1>11 DEF Next

\* The engine keeps its books.
THEOREM EngineInvariant == ASSUME EngineAssumption PROVE Spec => []EngineInv
<1>1. EngineInv /\ [Next]_vars => EngineInv'
  BY NextTypes, NextAsks, NextConsults, NextSynthesizes DEF EngineInv
<1>. QED
  BY <1>1, InitEngine, PTL DEF Spec

-----------------------------------------------------------------------------
(* What the engine promises.                                               *)

\* It gives up on SQL only if no statement it was given could run: a failed
\* attempt never spoils the next one's transaction.
THEOREM HonestGivingUp == ASSUME EngineAssumption PROVE Spec => []GivesUpOnlyOnErrors
<1>1. EngineInv => GivesUpOnlyOnErrors
  BY DEF EngineInv, Asking, GivesUpOnlyOnErrors
<1>. QED
  BY <1>1, EngineInvariant, PTL

\* An sql question is answered by SqlReply.
LEMMA RepliesOfSql ==
  ASSUME EngineInv, intent = "sql", node = "end" PROVE reply = SqlReply
  BY DEF EngineInv, Synthesized, BuildSynthesis

\* No search stands in for statements that failed.
THEOREM NoFallBackAfterErrors == ASSUME EngineAssumption PROVE Spec => []ErrorDoesNotFallBack
<1>1. ASSUME EngineInv, intent = "sql", sql = "error" PROVE ~searched
  BY <1>1 DEF EngineInv, TypeOK, Consulted
<1>2. ASSUME EngineInv, intent = "sql", sql = "error", node = "end"
      PROVE  reply.summary = "gave up" /\ reply.confidence = "low"
  <2>1. reply = SqlReply
    BY <1>2, RepliesOfSql
  <2>2. SqlReply = [summary |-> "gave up", confidence |-> "low", note |-> FALSE, calls |-> FALSE]
    BY <1>2 DEF SqlReply, Reply
  <2>. QED
    BY <2>1, <2>2
<1>3. EngineInv => ErrorDoesNotFallBack
  BY <1>1, <1>2 DEF ErrorDoesNotFallBack
<1>. QED
  BY <1>3, EngineInvariant, PTL

\* An sql question answered out of search results says so.
THEOREM FallbackDisclosed == ASSUME EngineAssumption PROVE Spec => []FallbackIsDisclosed
<1>1. ASSUME EngineInv, intent = "sql", node = "end"
      PROVE  /\ reply.summary = "from context" <=> searched /\ hits
             /\ reply.summary = "from context" => reply.confidence = "medium" /\ reply.note
  <2>1. reply = SqlReply
    BY <1>1, RepliesOfSql
  <2>2. searched /\ hits <=> sql = "empty" /\ hits
    BY <1>1 DEF EngineInv, TypeOK, Consulted, Synthesized
  <2>3. CASE sql = "empty" /\ hits
    <3>1. SqlReply = [summary |-> "from context", confidence |-> "medium", note |-> TRUE, calls |-> TRUE]
      BY <2>3 DEF SqlReply, Reply
    <3>. QED
      BY <2>1, <2>2, <2>3, <3>1
  <2>4. CASE ~(sql = "empty" /\ hits)
    <3>1. SqlReply.summary # "from context"
      BY <2>4 DEF SqlReply, Reply
    <3>. QED
      BY <2>1, <2>2, <2>4, <3>1
  <2>. QED
    BY <2>3, <2>4
<1>2. EngineInv => FallbackIsDisclosed
  BY <1>1 DEF FallbackIsDisclosed
<1>. QED
  BY <1>2, EngineInvariant, PTL

\* One call of the language model an attempt, and one more.
THEOREM CallsBounded == ASSUME EngineAssumption PROVE Spec => []CallsAreBounded
<1>1. ASSUME EngineAssumption, EngineInv PROVE CallsAreBounded
  <2>1. attempts \in Nat /\ attempts <= MaxAttempts /\ MaxAttempts \in Nat
    BY <1>1 DEF EngineInv, TypeOK, EngineAssumption
  <2>2. CASE graph.asked = "no"
    BY <2>1, <2>2 DEF CallsAreBounded, Calls
  <2>3. CASE graph.asked # "no"
    <3>1. intent = "graph" /\ attempts = 0
      BY <1>1, <2>3 DEF EngineInv, Asking, Consulted
    <3>2. ~reply.calls
      BY <1>1, <3>1 DEF EngineInv, Synthesized, BuildSynthesis, GraphReply, Reply, NoReply
    <3>. QED
      BY <2>1, <3>1, <3>2 DEF CallsAreBounded, Calls
  <2>. QED
    BY <2>2, <2>3
<1>. QED
  BY <1>1, EngineInvariant, PTL

-----------------------------------------------------------------------------
(* The engine implements the contract: each step consults one more piece   *)
(* of evidence, gives the answer, raises, or changes nothing of the two.   *)

\* Before the answer there is no rating.
LEMMA Unrated ==
  ASSUME EngineInv, node \notin {"end", "raised"} PROVE Rating = "none"
  BY DEF EngineInv, Synthesized, NoReply, Rating

\* A step that neither replies nor raises leaves it so.
LEMMA StaysUnrated ==
  ASSUME EngineInv, node \notin {"end", "raised"}, node' # "raised", reply' = reply
  PROVE  Rating = "none" /\ Rating' = "none"
  BY DEF EngineInv, Synthesized, NoReply, Rating

\* The three sources of evidence.
Stated == CASE sql = "rows" -> {"rows"} [] sql = "empty" -> {"norows"}
            [] sql = "error" -> {"failed"} [] sql = "none" -> {}
Sought == IF ~Looked THEN {} ELSE IF hits THEN {"found"} ELSE {"nothing"}
Known  == IF graph.asked = "no" THEN {}
          ELSE IF graph.asked = "unidentified" \/ graph.source = "none" THEN {"unresolved"}
          ELSE IF graph.missing THEN {"uncovered"}
          ELSE IF graph.source = "manifest" THEN {"declared"} ELSE {"observed"}

\* They are all there is, before and after a step.
LEMMA Sources ==
  /\ Evidence = Stated \cup Sought \cup Known
  /\ Evidence' = Stated' \cup Sought' \cup Known'
  BY DEF Evidence, Stated, Sought, Known

\* Which is which.
LEMMA SourcesApart ==
  ASSUME EngineInv
  PROVE  /\ Stated \subseteq {"rows", "norows", "failed"}
         /\ Sought \subseteq {"found", "nothing"}
         /\ Known \subseteq {"unresolved", "uncovered", "declared", "observed"}
  BY DEF EngineInv, TypeOK, Results, Stated, Sought, Known

\* A step that adds one grade to the evidence, and rates nothing.
LEMMA Adds ==
  ASSUME NEW g \in Contract!Grades, g \notin Evidence, Evidence' = Evidence \cup {g},
         Rating = "none", Rating' = "none"
  PROVE  Contract!Consult
  BY DEF Contract!Consult

\* The statements: a result is new evidence.
LEMMA SqlConsults ==
  ASSUME EngineInv, Succeed \/ Heal
  PROVE  Contract!Consult \/ UNCHANGED <<Evidence, Rating>>
<1>1. node = "execute" /\ sql = "none" /\ sql' \in Results /\ UNCHANGED <<intent, layers, searched, hits, graph, reply>>
  BY DEF EngineInv, Asking, Succeed, Heal, search, question, Results
<1>2. node' \in {"vector", "synthesize", "generate"}
  BY DEF Succeed, Heal, AfterSql
<1>3. Rating = "none" /\ Rating' = "none"
  BY <1>1, <1>2, StaysUnrated
<1>4. Sought' = Sought /\ Known' = Known
  BY <1>1 DEF Sought, Known, Looked, Active
<1>5. Stated = {} /\ Evidence = Sought \cup Known /\ Evidence' = Stated' \cup Sought \cup Known
  BY <1>1, <1>4, Sources DEF Stated
<1>6. CASE sql' = "none"
  <2>1. Stated' = {}
    BY <1>6 DEF Stated
  <2>. QED
    BY <2>1, <1>3, <1>5
<1>7. CASE sql' # "none"
  <2>1. PICK g \in {"rows", "norows", "failed"} : Stated' = {g}
    BY <1>1, <1>7 DEF Stated, Results
  <2>2. Evidence' = Evidence \cup {g}
    BY <1>5, <2>1
  <2>3. g \in Contract!Grades /\ g \notin Evidence
    BY <1>5, <2>1, SourcesApart DEF Contract!Grades
  <2>. QED
    BY <1>3, <2>2, <2>3, Adds
<1>. QED
  BY <1>6, <1>7

\* The searches are evidence, unless they search nothing.
LEMMA SearchConsults ==
  ASSUME EngineInv, Vector \/ Commits
  PROVE  Contract!Consult \/ UNCHANGED <<Evidence, Rating>>
<1>1. /\ node \notin {"end", "raised"} /\ node' = "synthesize"
      /\ ~searched /\ UNCHANGED <<sql, graph, reply>>
  BY DEF EngineInv, Consulted, Vector, Commits
<1>2. Rating = "none" /\ Rating' = "none"
  BY <1>1, StaysUnrated
<1>3. Stated' = Stated /\ Known' = Known
  BY <1>1 DEF Stated, Known
<1>4. Sought = {} /\ Evidence = Stated \cup Known /\ Evidence' = Stated \cup Sought' \cup Known
  BY <1>1, <1>3, Sources DEF Sought, Looked
<1>5. CASE ~Looked'
  <2>1. Sought' = {}
    BY <1>5 DEF Sought
  <2>. QED
    BY <2>1, <1>2, <1>4
<1>6. CASE Looked'
  <2>1. PICK g \in {"found", "nothing"} : Sought' = {g}
    BY <1>6 DEF Sought
  <2>2. Evidence' = Evidence \cup {g}
    BY <1>4, <2>1
  <2>3. g \in Contract!Grades /\ g \notin Evidence
    BY <1>4, <2>1, SourcesApart DEF Contract!Grades
  <2>. QED
    BY <1>2, <2>2, <2>3, Adds
<1>. QED
  BY <1>5, <1>6

\* What the graph knows is evidence.
LEMMA GraphConsults ==
  ASSUME EngineInv, Graph PROVE Contract!Consult
<1>1. /\ node = "graph" /\ graph.asked = "no" /\ graph'.asked # "no" /\ node' = "synthesize"
      /\ UNCHANGED <<intent, layers, sql, searched, hits, reply>>
  BY DEF EngineInv, Consulted, Graph, NoGraph, search, question
<1>2. Rating = "none" /\ Rating' = "none"
  BY <1>1, StaysUnrated
<1>3. Stated' = Stated /\ Sought' = Sought
  BY <1>1 DEF Stated, Sought, Looked, Active
<1>4. Known = {} /\ Evidence = Stated \cup Sought /\ Evidence' = Stated \cup Sought \cup Known'
  BY <1>1, <1>3, Sources DEF Known
<1>5. PICK g \in {"unresolved", "uncovered", "declared", "observed"} : Known' = {g}
  BY <1>1 DEF Known
<1>6. Evidence' = Evidence \cup {g}
  BY <1>4, <1>5
<1>7. g \in Contract!Grades /\ g \notin Evidence
  BY <1>4, <1>5, SourcesApart DEF Contract!Grades
<1>. QED
  BY <1>2, <1>6, <1>7, Adds

\* The evidence accepts the reply.
Accepted(r) == \E grades \in Contract!Supports[r] : grades \subseteq Evidence

\* Which evidence accepts which rating.
LEMMA Accepts ==
  /\ Accepted("high") <=> \/ "rows" \in Evidence \/ "declared" \in Evidence
                          \/ "norows" \in Evidence /\ "nothing" \in Evidence
  /\ Accepted("medium") <=> \/ "found" \in Evidence \/ "nothing" \in Evidence \/ "observed" \in Evidence
  /\ Accepted("low") <=> \/ "failed" \in Evidence \/ "uncovered" \in Evidence \/ "unresolved" \in Evidence
<1>1. /\ Contract!Supports["high"] = {{"rows"}, {"norows", "nothing"}, {"declared"}}
      /\ Contract!Supports["medium"] = {{"found"}, {"nothing"}, {"observed"}}
      /\ Contract!Supports["low"] = {{"failed"}, {"uncovered"}, {"unresolved"}}
  BY DEF Contract!Supports
<1>. QED
  BY <1>1 DEF Accepted

\* The documents accept the rating of a reply exactly if it does not depart.
LEMMA AcceptedUnlessDeparting ==
  ASSUME EngineInv, node = "synthesize"
  PROVE  /\ BuildSynthesis.confidence \in Contract!Ratings
         /\ Accepted(BuildSynthesis.confidence) <=> ~Departs
<1>1. /\ intent \in Intents /\ sql \in Results /\ graph \in Graphs
      /\ searched \in BOOLEAN /\ hits \in BOOLEAN /\ (hits => Looked)
      /\ (~graph.found => graph.source = "none") /\ (graph.asked # "impact" => ~graph.found)
  BY DEF EngineInv, TypeOK, Consulted, Looked
<1>2. CASE intent = "graph"
  <2>1. graph.asked # "no" /\ sql = "none"
    BY <1>2 DEF EngineInv, Asking, Synthesized
  <2>2. ~searched
    BY <1>2 DEF EngineInv, Consulted
  <2>3. Evidence = Known /\ (Departs <=> Uncovered)
    BY <1>2, <2>1, <2>2, Sources DEF Stated, Sought, Looked, Departs, Unsearched, Sparse
  <2>4. BuildSynthesis = GraphReply
    BY <1>2 DEF BuildSynthesis
  <2>5. CASE graph.asked = "unidentified" \/ ~graph.found \/ graph.source = "none"
    <3>1. Evidence = {"unresolved"} /\ ~Departs /\ graph.source = "none"
      BY <1>1, <2>1, <2>3, <2>5 DEF Known, Uncovered
    <3>2. BuildSynthesis.confidence = "low"
      BY <2>4, <2>5, <3>1 DEF GraphReply, Reply
    <3>. QED
      BY <3>1, <3>2, Accepts DEF Contract!Ratings
  <2>6. CASE ~(graph.asked = "unidentified" \/ ~graph.found \/ graph.source = "none")
    <3>1. graph.source \in {"manifest", "static_analysis"}
      BY <1>1, <2>6 DEF Graphs
    <3>2. BuildSynthesis.confidence = IF graph.source = "manifest" THEN "high" ELSE "medium"
      BY <2>4, <2>6 DEF GraphReply, Reply
    <3>3. Evidence = IF graph.missing THEN {"uncovered"}
                     ELSE IF graph.source = "manifest" THEN {"declared"} ELSE {"observed"}
      BY <2>1, <2>3, <2>6 DEF Known
    <3>4. Departs <=> graph.missing
      BY <2>3, <2>6 DEF Uncovered
    <3>. QED
      BY <3>1, <3>2, <3>3, <3>4, Accepts DEF Contract!Ratings
  <2>. QED
    BY <2>5, <2>6
<1>3. ASSUME intent # "graph"
      PROVE  graph.asked = "no" /\ Known = {} /\ ~Uncovered /\ Evidence = Stated \cup Sought
  <2>1. graph.asked = "no"
    BY <1>3 DEF EngineInv, Consulted
  <2>. QED
    BY <1>1, <2>1, Sources DEF Known, Uncovered
<1>4. CASE intent = "sql"
  <2>1. sql \in {"rows", "empty", "error"} /\ (searched <=> sql = "empty")
    BY <1>1, <1>4 DEF EngineInv, Results, Synthesized, Consulted
  <2>2. Departs <=> sql = "empty" /\ ~Looked
    BY <1>3, <1>4, <2>1 DEF Departs, Unsearched, Sparse
  <2>3. BuildSynthesis = SqlReply
    BY <1>4 DEF BuildSynthesis
  <2>4. CASE sql # "empty"
    <3>1. Evidence = IF sql = "rows" THEN {"rows"} ELSE {"failed"}
      BY <1>3, <1>4, <2>1, <2>4 DEF Stated, Sought, Looked
    <3>2. BuildSynthesis.confidence = IF sql = "rows" THEN "high" ELSE "low"
      BY <2>1, <2>3, <2>4 DEF SqlReply, Reply
    <3>. QED
      BY <2>2, <2>4, <3>1, <3>2, Accepts DEF Contract!Ratings
  <2>5. CASE sql = "empty"
    <3>1. Evidence = {"norows"} \cup Sought
      BY <1>3, <1>4, <2>5 DEF Stated
    <3>2. BuildSynthesis.confidence = IF hits THEN "medium" ELSE "high"
      BY <2>3, <2>5 DEF SqlReply, Reply
    <3>3. hits => Looked
      BY <1>1
    <3>4. "found" \in Evidence <=> Looked /\ hits
      BY <3>1 DEF Sought
    <3>5. "nothing" \in Evidence <=> Looked /\ ~hits
      BY <3>1 DEF Sought
    <3>6. "norows" \in Evidence /\ "rows" \notin Evidence /\ "declared" \notin Evidence
      BY <3>1 DEF Sought
    <3>. QED
      BY <2>2, <2>5, <3>2, <3>3, <3>4, <3>5, <3>6, Accepts DEF Contract!Ratings
  <2>. QED
    BY <2>4, <2>5
<1>5. CASE intent = "hybrid"
  <2>1. sql \in {"rows", "empty", "error"} /\ searched
    BY <1>1, <1>5 DEF EngineInv, Results, Synthesized
  <2>2. BuildSynthesis.confidence = IF sql = "error" THEN "medium" ELSE "high"
    BY <1>5 DEF BuildSynthesis, HybridReply, Reply
  <2>3. Departs <=> \/ ~Looked /\ sql # "rows"
                    \/ sql = "empty" /\ hits
    BY <1>3, <1>5, <2>1 DEF Departs, Unsearched, Sparse
  <2>4. "found" \in Evidence <=> Looked /\ hits
    BY <1>3, <1>5, <2>1 DEF Stated, Sought
  <2>5. "nothing" \in Evidence <=> Looked /\ ~hits
    BY <1>3, <1>5, <2>1 DEF Stated, Sought
  <2>6. /\ "rows" \in Evidence <=> sql = "rows"
        /\ "norows" \in Evidence <=> sql = "empty"
        /\ "declared" \notin Evidence /\ "observed" \notin Evidence
    BY <1>3, <1>5, <2>1 DEF Stated, Sought
  <2>. QED
    BY <1>1, <2>1, <2>2, <2>3, <2>4, <2>5, <2>6, Accepts DEF Contract!Ratings
<1>6. CASE intent \in {"vector", "time", "latest"}
  <2>1. searched /\ sql = "none"
    BY <1>6 DEF EngineInv, Asking, Synthesized
  <2>2. BuildSynthesis.confidence = "medium"
    BY <1>6 DEF BuildSynthesis, Reply
  <2>3. Departs <=> ~Looked
    BY <1>3, <1>6, <2>1 DEF Departs, Unsearched, Sparse
  <2>4. "found" \in Evidence <=> Looked /\ hits
    BY <1>3, <1>6, <2>1 DEF Stated, Sought
  <2>5. "nothing" \in Evidence <=> Looked /\ ~hits
    BY <1>3, <1>6, <2>1 DEF Stated, Sought
  <2>6. "observed" \notin Evidence
    BY <1>3, <1>6, <2>1 DEF Stated, Sought
  <2>. QED
    BY <1>1, <2>2, <2>3, <2>4, <2>5, <2>6, Accepts DEF Contract!Ratings
<1>. QED
  BY <1>1, <1>2, <1>4, <1>5, <1>6 DEF Intents

\* The reply is rated by evidence the documents accept, or departs and is not
\* an answer of the contract.
LEMMA SynthesizeAnswers ==
  ASSUME EngineInv, Synthesize PROVE Contract!Answer \/ UNCHANGED <<Evidence, Rating>>
<1>1. /\ node = "synthesize" /\ node' = "end" /\ reply' = BuildSynthesis
      /\ UNCHANGED <<intent, layers, sql, searched, hits, graph>>
  BY DEF Synthesize, question, healing, search
<1>2. Evidence' = Evidence /\ (Departs' <=> Departs)
  BY <1>1 DEF Evidence, Looked, Active, Departs, Uncovered, Unsearched, Sparse
<1>3. Rating = "none" /\ Rating' = IF Departs THEN "none" ELSE BuildSynthesis.confidence
  BY <1>1, <1>2, Unrated DEF Rating
<1>4. CASE Departs
  BY <1>2, <1>3, <1>4
<1>5. CASE ~Departs
  <2>1. Rating' \in Contract!Ratings /\ Accepted(Rating')
    BY <1>1, <1>3, <1>5, AcceptedUnlessDeparting
  <2>. QED
    BY <1>2, <1>3, <2>1 DEF Accepted, Contract!Answer
<1>. QED
  BY <1>4, <1>5

\* Every step of the engine is one of the contract.
LEMMA StepsSimulated ==
  ASSUME EngineInv, [Next]_vars PROVE [Contract!Next]_<<Evidence, Rating>>
<1>1. CASE Route \/ Introspect \/ Generate
  <2>1. UNCHANGED <<layers, sql, searched, hits, graph, reply>>
    BY <1>1 DEF Route, Introspect, Generate, question, healing, search
  <2>2. node \notin {"end", "raised"} /\ node' # "raised" /\ ~searched
    BY <1>1 DEF EngineInv, Consulted, Route, Introspect, Generate, ClassifyIntent
  <2>3. Evidence' = Evidence
    BY <2>1, <2>2, Sources DEF Evidence, Looked
  <2>. QED
    BY <2>1, <2>2, <2>3, StaysUnrated
<1>2. CASE Raise
  <2>1. /\ node \notin {"end", "raised"} /\ node' = "raised"
        /\ UNCHANGED <<intent, layers, sql, searched, hits, graph>>
    BY <1>2 DEF Raise, question, healing, search
  <2>2. Evidence' = Evidence
    BY <2>1 DEF Evidence, Looked, Active
  <2>. QED
    BY <2>1, <2>2, Unrated DEF Contract!Next, Contract!Raise, Rating
<1>3. CASE UNCHANGED vars
  <2>1. UNCHANGED <<intent, layers, sql, searched, hits, graph, node, reply>>
    BY <1>3 DEF vars, question, healing, search
  <2>. QED
    BY <2>1 DEF Evidence, Looked, Active, Rating, Departs, Uncovered, Unsearched, Sparse
<1>. QED
  BY <1>1, <1>2, <1>3, SqlConsults, SearchConsults, GraphConsults, SynthesizeAnswers
     DEF Next, Contract!Next

\* Whatever the route, an answer that does not depart is rated by evidence the
\* documents accept for its rating.
THEOREM EngineImplementsContract == ASSUME EngineAssumption PROVE Spec => ImplementsContract
<1>1. Init => Evidence = {} /\ Rating = "none"
  BY DEF Init, NoGraph, NoReply, Evidence, Looked, Rating
<1>2. EngineInv /\ [Next]_vars => [Contract!Next]_<<Evidence, Rating>>
  BY StepsSimulated
<1>. QED
  BY <1>1, <1>2, EngineInvariant, PTL DEF Spec, ImplementsContract, Contract!Spec, Contract!Init

\* And the three departures are no more than that: a reply that departs is rated
\* by nothing the documents accept for its rating.
THEOREM DeparturesOverstate ==
  ASSUME EngineAssumption
  PROVE  Spec => [](node = "end" => (Accepted(reply.confidence) <=> ~Departs))
<1>. DEFINE Fair == node = "end" => (Accepted(reply.confidence) <=> ~Departs)
<1>1. Init => Fair
  BY DEF Init
<1>2. EngineInv /\ Fair /\ [Next]_vars => Fair'
  <2>. SUFFICES ASSUME EngineInv, Fair, [Next]_vars, node' = "end"
                PROVE  Accepted(reply.confidence)' <=> ~Departs'
    OBVIOUS
  <2>1. CASE Synthesize
    <3>1. /\ node = "synthesize" /\ reply' = BuildSynthesis
          /\ UNCHANGED <<intent, layers, sql, searched, hits, graph>>
      BY <2>1 DEF Synthesize, question, healing, search
    <3>2. Evidence' = Evidence /\ (Departs' <=> Departs)
      BY <3>1 DEF Evidence, Looked, Active, Departs, Uncovered, Unsearched, Sparse
    <3>. QED
      BY <3>1, <3>2, AcceptedUnlessDeparting DEF Accepted, Contract!Supports
  <2>2. CASE UNCHANGED vars
    <3>1. UNCHANGED <<intent, layers, sql, searched, hits, graph, node, reply>>
      BY <2>2 DEF vars, question, healing, search
    <3>2. Evidence' = Evidence /\ (Departs' <=> Departs)
      BY <3>1 DEF Evidence, Looked, Active, Departs, Uncovered, Unsearched, Sparse
    <3>. QED
      BY <3>1, <3>2 DEF Accepted, Contract!Supports
  <2>3. Synthesize \/ UNCHANGED vars
    BY DEF Next, Route, ClassifyIntent, Introspect, Generate, Succeed, Heal, AfterSql, Vector, Commits, Graph, Raise
  <2>. QED
    BY <2>1, <2>2, <2>3
<1>. QED
  BY <1>1, <1>2, EngineInvariant, PTL DEF Spec

=============================================================================
