----------------------------- MODULE Retrieval ------------------------------
(***************************************************************************)
(* The searches over documents, code and commits and the lookups of        *)
(* projects, as the scoped endpoints, the MCP tools and the vector, time   *)
(* and latest routes of questions make them, over a connection of the role *)
(* that the caller's token stands for.                                     *)
(*                                                                         *)
(* A search of several layers is a statement for each, after a call of the *)
(* embedding service; each sees what is committed when it starts and its   *)
(* role may see, and ingestion commits in between.  What a search can find *)
(* is a finite set of items, of which some are stored; their distance is   *)
(* that to the question.                                                   *)
(***************************************************************************)
EXTENDS Integers, FiniteSetsExt, SequencesExt

CONSTANTS
    Catalogue,   \* the projects
    Skills,      \* names of technologies
    Items,       \* chunks and commits that may be stored
    ItemData,    \* ItemData[i]: project, layer, distance, time, and embedded or not
    AskedNames,  \* lists of layer names a caller may give, as sets
    Limits,      \* limits a caller may give
    Times,       \* bounds on time a caller may give
    DayCounts,   \* numbers of days a question may name
    TimeLimit,   \* the limit of the time route; 10 in the code
    Now,         \* the time of the request
    DayLength,   \* units of time in a day
    Ingestions,  \* what a transaction may leave of a project
    MaxChanges   \* bound: transactions of ingestion

LayerNames == {"document", "code", "commit"}

\* No choice is made, or a column is null.
Anything == "anything"

Item == [project: Catalogue, layer: LayerNames, distance: Nat, at: 0..Now, embedded: BOOLEAN]

ASSUME RetrievalAssumption ==
    /\ Now \in Nat /\ DayLength \in Nat \ {0} /\ MaxChanges \in Nat
    /\ Limits \cup Times \cup DayCounts \subseteq Nat /\ TimeLimit \in Nat
    /\ IsFiniteSet(Items)
    /\ Anything \notin Skills
    /\ ItemData \in [Items -> Item]
    /\ Ingestions \subseteq [project: Catalogue, items: SUBSET Items, private: BOOLEAN,
                             skills: SUBSET Skills]
    /\ \A t \in Ingestions : \A i \in t.items : ItemData[i].project = t.project
    /\ \A i \in Items : ItemData[i].layer # "commit" => ItemData[i].embedded

VARIABLES
    stored,   \* what is committed: items, private projects, skills of projects
    changes,  \* transactions of ingestion so far
    request,  \* the request, once there is one
    role,     \* the role of its connection
    layers,   \* layers it has still to search, in order
    found,    \* items it has found
    rows,     \* what a lookup has returned
    status,   \* where the request is
    snaps     \* history: what was committed at each of its statements

readVars == <<stored, changes, request, role, layers, found, rows, status, snaps>>

Store == [items: SUBSET Items, private: SUBSET Catalogue, skills: [Catalogue -> SUBSET Skills]]

\* The times that a question may name, as the router tells them; "week", "month" and
\* "year" come after "past" or "last".
Phrases ==
    [words: {"yesterday", "today", "this week", "recently", "week", "month", "year"}]
    \cup [words: {"past days", "last days"}, days: DayCounts]

\* What a caller may give or leave out.
Optional(S) == {{}} \cup {{e} : e \in S}

\* One kind of request for each tool, and one for the time route of questions; asked
\* are the names of layers, project the scope, technology the names its pattern
\* matches, phrase the time that is named.
Requests ==
    [kind: {"search_all"}, asked: AskedNames, limit: Limits]
    \cup [kind: {"search_docs", "search_code", "get_recent_commits"},
          project: Catalogue \cup {Anything}, limit: Limits]
    \cup [kind: {"search_commits"}, project: Catalogue \cup {Anything},
          since: Optional(Times), until: Optional(Times), limit: Limits]
    \cup [kind: {"time"}, project: {Anything}, phrase: Phrases, limit: {TimeLimit}]
    \cup [kind: {"list_projects"}, technology: (SUBSET Skills) \cup {{Anything}}]
    \cup [kind: {"get_project_info"}, project: Catalogue]
    \cup [kind: {"get_project_links"}, projects: (SUBSET Catalogue) \cup {{Anything}}]

NoRequest == [kind |-> "none"]

Project == [name: Catalogue, technologies: SUBSET Skills]

ReadTypeOK ==
    /\ stored \in Store /\ changes \in 0..MaxChanges
    /\ request \in Requests \cup {NoRequest}
    /\ role \in {"none", "app_ro", "app_ro_public"}
    /\ layers \in Seq(LayerNames) /\ found \in Seq(Items)
    /\ rows \subseteq Project
    /\ status \in {"none", "searching", "looking up", "answered", "refused", "failed"}
    /\ snaps \in Seq(Store)

ReadInit ==
    /\ stored = [items |-> {}, private |-> {}, skills |-> [p \in Catalogue |-> {}]]
    /\ changes = 0
    /\ request = NoRequest /\ role = "none" /\ status = "none"
    /\ layers = <<>> /\ found = <<>> /\ rows = {} /\ snaps = <<>>

\* A transaction of ingestion: a project's rows and visibility become others.
Ingest(t) ==
    /\ changes < MaxChanges
    /\ stored' = [
          items   |-> {i \in stored.items : ItemData[i].project # t.project} \cup t.items,
          private |-> IF t.private THEN stored.private \cup {t.project}
                                   ELSE stored.private \ {t.project},
          skills  |-> [stored.skills EXCEPT ![t.project] = t.skills]]
    /\ changes' = changes + 1
    /\ UNCHANGED <<request, role, layers, found, rows, status, snaps>>

-----------------------------------------------------------------------------
(* Row-level security.                                                     *)

\* projects_privileged, projects_public.
VisibleProjects ==
    IF role = "app_ro" THEN Catalogue ELSE Catalogue \ stored.private

\* The policies of documents, code_chunks and commits: the parent is visible.
VisibleItems == {i \in stored.items : ItemData[i].project \in VisibleProjects}

\* The policy of project_technologies.
VisibleSkills(p) == IF p \in VisibleProjects THEN stored.skills[p] ELSE {}

-----------------------------------------------------------------------------
(* Searches.                                                               *)

\* The first instant of the day of Now, and of its week, which starts on day 0.
Midnight == (Now \div DayLength) * DayLength
Monday   == Midnight - ((Now \div DayLength) % 7) * DayLength

\* MUTANT of Window: yesterday has no end.
WindowOpenEnded(phrase) ==
    CASE phrase.words = "yesterday" -> <<Midnight - DayLength, Now>>
      [] phrase.words = "today"     -> <<Midnight, Now>>
      [] phrase.words = "past days" -> <<Now - phrase.days * DayLength, Now>>
      [] phrase.words = "this week" -> <<Monday, Now>>
      [] phrase.words = "week"      -> <<Now - 7 * DayLength, Now>>
      [] phrase.words = "month"     -> <<Now - 30 * DayLength, Now>>
      [] phrase.words = "year"      -> <<Now - 365 * DayLength, Now>>
      [] phrase.words = "recently"  -> <<Now - 14 * DayLength, Now>>
      [] OTHER                      -> <<Now - 30 * DayLength, Now>>

\* parse_time_range.  Of the phrases that the router sends here, "last N days" is the
\* one that no pattern matches.
Window(phrase) ==
    CASE phrase.words = "yesterday" -> <<Midnight - DayLength, Midnight>>
      [] phrase.words = "today"     -> <<Midnight, Now>>
      [] phrase.words = "past days" -> <<Now - phrase.days * DayLength, Now>>
      [] phrase.words = "this week" -> <<Monday, Now>>
      [] phrase.words = "week"      -> <<Now - 7 * DayLength, Now>>
      [] phrase.words = "month"     -> <<Now - 30 * DayLength, Now>>
      [] phrase.words = "year"      -> <<Now - 365 * DayLength, Now>>
      [] phrase.words = "recently"  -> <<Now - 14 * DayLength, Now>>
      [] OTHER                      -> <<Now - 30 * DayLength, Now>>

\* The first k of the items of s by distance, in an order that fits.
Nearest(s, k) ==
    LET sorted == {q \in SetToSeqs(s) : \A m, n \in DOMAIN q :
                      m < n => ItemData[q[m]].distance <= ItemData[q[n]].distance}
    IN  {SubSeq(q, 1, Min({k, Len(q)})) : q \in sorted}

\* The same by time, the latest first.
Latest(s, k) ==
    LET sorted == {q \in SetToSeqs(s) : \A m, n \in DOMAIN q :
                      m < n => ItemData[q[m]].at >= ItemData[q[n]].at}
    IN  {SubSeq(q, 1, Min({k, Len(q)})) : q \in sorted}

OfLayer(layer) == {i \in VisibleItems : ItemData[i].layer = layer}

InScope(project, items) ==
    {i \in items : project # Anything => ItemData[i].project = project}

\* search_documents, search_code_chunks.
SearchLayer(layer, project, limit) == Nearest(InScope(project, OfLayer(layer)), limit)

\* Commits without an embedding have no distance and are not searched; a bound that
\* is not given bounds nothing.
SearchCommits(project, since, until, limit) ==
    Nearest({i \in InScope(project, OfLayer("commit")) :
                /\ ItemData[i].embedded
                /\ \A t \in since : t <= ItemData[i].at
                /\ \A t \in until : ItemData[i].at <= t}, limit)

SearchLatestCommits(project, limit) == Latest(InScope(project, OfLayer("commit")), limit)

\* The names a caller may use for the layers; others stand for themselves.
Alias(name) ==
    CASE name \in {"document", "documents"} -> "document"
      [] name \in {"code", "code_chunks"}   -> "code"
      [] name \in {"commit", "commits"}     -> "commit"
      [] OTHER                              -> name

\* search_all searches its layers in this order; no names stand for all of them.
ActiveLayers(asked) ==
    LET active == IF asked = {} THEN LayerNames ELSE {Alias(name) : name \in asked}
        Part(layer) == IF layer \in active THEN <<layer>> ELSE <<>>
    IN  Part("document") \o Part("code") \o Part("commit")

\* A stable sort puts m before n.
Precedes(items, m, n) ==
    \/ ItemData[items[m]].distance < ItemData[items[n]].distance
    \/ ItemData[items[m]].distance = ItemData[items[n]].distance /\ m < n

\* The place that m has then.
Place(items, m) == Cardinality({k \in DOMAIN items : ~Precedes(items, m, k)})

Sorted(items) ==
    [n \in DOMAIN items |-> items[CHOOSE m \in DOMAIN items : Place(items, m) = n]]

\* MUTANT of Merge: the layers are cut before they are sorted.
MergeCutFirst(items, limit) == Sorted(SubSeq(items, 1, Min({limit, Len(items)})))

\* A stable sort by distance, then the limit.
Merge(items, limit) == SubSeq(Sorted(items), 1, Min({limit, Len(items)}))

-----------------------------------------------------------------------------
(* Lookups.                                                                *)

\* Rows of the left joins with project_technologies and technologies; a project
\* without technologies has one row, whose technology is null.
Joined(p) == IF VisibleSkills(p) = {} THEN {<<p, Anything>>} ELSE {p} \X VisibleSkills(p)

\* Grouped by project, the nulls filtered out.
Grouped(joined) ==
    {[name |-> p, technologies |-> {t \in Skills : <<p, t>> \in joined}] :
        p \in {row[1] : row \in joined}}

\* The exists of list_projects is a subquery of its own, so that a project which
\* has the technology is listed with all of its technologies.
Has(p, technology) == Anything \in technology \/ VisibleSkills(p) \cap technology # {}

ListProjects(technology) ==
    Grouped(UNION {Joined(p) : p \in {q \in VisibleProjects : Has(q, technology)}})

GetProjectInfo(project) == Grouped(UNION {Joined(p) : p \in VisibleProjects \cap {project}})

\* A list without names finds no project; none given at all finds every project.
GetProjectLinks(projects) ==
    {[name |-> p, technologies |-> {}] :
        p \in {q \in VisibleProjects : Anything \in projects \/ q \in projects}}

-----------------------------------------------------------------------------
(* A request.                                                              *)

\* auth_middleware and get_conn: the token decides on the role, or there is none.
Ask(r, token) ==
    /\ status = "none"
    /\ request' = r
    /\ role' = CASE token = "API_ADMIN_KEY" -> "app_ro"
                 [] token = "API_AUTH_KEY"  -> "app_ro_public"
                 [] OTHER                   -> "none"
    /\ status' = CASE token = "other" -> "refused"
                   [] token # "other" /\ r.kind \in {"list_projects", "get_project_info",
                                                     "get_project_links"} -> "looking up"
                   [] OTHER -> "searching"
    /\ layers' = CASE r.kind = "search_all"  -> ActiveLayers(r.asked)
                   [] r.kind = "search_docs" -> <<"document">>
                   [] r.kind = "search_code" -> <<"code">>
                   [] r.kind \in {"search_commits", "time", "get_recent_commits"} -> <<"commit">>
                   [] OTHER -> <<>>
    /\ UNCHANGED <<stored, changes, found, rows, snaps>>

\* What the next statement of a search may return.
NextResults ==
    CASE request.kind = "search_all" /\ layers[1] = "commit" ->
             SearchCommits(Anything, {}, {}, request.limit)
      [] request.kind = "search_all" /\ layers[1] # "commit" ->
             SearchLayer(layers[1], Anything, request.limit)
      [] request.kind \in {"search_docs", "search_code"} ->
             SearchLayer(layers[1], request.project, request.limit)
      [] request.kind = "search_commits" ->
             SearchCommits(request.project, request.since, request.until, request.limit)
      [] request.kind = "time" ->
             SearchCommits(request.project, {Window(request.phrase)[1]},
                           {Window(request.phrase)[2]}, request.limit)
      [] request.kind = "get_recent_commits" ->
             SearchLatestCommits(request.project, request.limit)

SearchNext ==
    /\ status = "searching" /\ layers # <<>>
    /\ \E results \in NextResults : found' = found \o results
    /\ layers' = Tail(layers)
    /\ snaps' = Append(snaps, stored)
    /\ UNCHANGED <<stored, changes, request, role, rows, status>>

\* The embedding service fails, which no search catches.
EmbeddingFails ==
    /\ status = "searching" /\ layers # <<>> /\ request.kind # "get_recent_commits"
    /\ status' = "failed"
    /\ found' = <<>>
    /\ UNCHANGED <<stored, changes, request, role, layers, rows, snaps>>

AnswerSearch ==
    /\ status = "searching" /\ layers = <<>>
    /\ found' = IF request.kind = "search_all" THEN Merge(found, request.limit) ELSE found
    /\ status' = "answered"
    /\ UNCHANGED <<stored, changes, request, role, layers, rows, snaps>>

LookUp ==
    /\ status = "looking up"
    /\ rows' = CASE request.kind = "list_projects"     -> ListProjects(request.technology)
                 [] request.kind = "get_project_info"  -> GetProjectInfo(request.project)
                 [] request.kind = "get_project_links" -> GetProjectLinks(request.projects)
    /\ status' = "answered"
    /\ snaps' = Append(snaps, stored)
    /\ UNCHANGED <<stored, changes, request, role, layers, found>>

ReadNext ==
    \/ \E t \in Ingestions : Ingest(t)
    \/ \E r \in Requests, token \in {"API_ADMIN_KEY", "API_AUTH_KEY", "other"} : Ask(r, token)
    \/ SearchNext \/ EmbeddingFails \/ AnswerSearch \/ LookUp

ReadSpec == ReadInit /\ [][ReadNext]_readVars

-----------------------------------------------------------------------------
(* Properties.                                                             *)

\* What is left of a store for a caller of the request's tier.
Shown(s) == IF role = "app_ro" THEN s
            ELSE [s EXCEPT !.private = {},
                           !.items = {i \in @ : ItemData[i].project \notin s.private}]

DayOf(t) == t \div DayLength

\* What the words of a phrase name: the days from yesterday's first to its last, the
\* days of the week, or so many days back from now.
Named(phrase, t) ==
    CASE phrase.words = "yesterday" -> DayOf(t) = DayOf(Now) - 1
      [] phrase.words = "today"     -> DayOf(t) = DayOf(Now)
      [] phrase.words = "this week" -> DayOf(t) \div 7 = DayOf(Now) \div 7
      [] phrase.words \in {"past days", "last days"} -> Now - t <= phrase.days * DayLength
      [] phrase.words = "recently"  -> Now - t <= 14 * DayLength
      [] phrase.words = "week"      -> Now - t <= 7 * DayLength
      [] phrase.words = "month"     -> Now - t <= 30 * DayLength
      [] phrase.words = "year"      -> Now - t <= 365 * DayLength

\* Where the time route departs from the words of a question: yesterday lasts into
\* the first instant of today, and the last N days are 30 whatever N is, since
\* parse_time_range does not know the words that the router sends it.
Meant(phrase, t) ==
    CASE phrase.words = "yesterday" -> Named(phrase, t) \/ t = DayOf(Now) * DayLength
      [] phrase.words = "last days" -> Named([words |-> "month"], t)
      [] OTHER                      -> Named(phrase, t)

\* The layer that statement n of the request is about.
LayerOfStatement(n) ==
    CASE request.kind = "search_all"  -> ActiveLayers(request.asked)[n]
      [] request.kind = "search_docs" -> "document"
      [] request.kind = "search_code" -> "code"
      [] OTHER                        -> "commit"

\* The items that meet the request, each as of the statement that looked for it.
Meeting ==
    {i \in Items : \E n \in DOMAIN snaps :
        /\ i \in Shown(snaps[n]).items
        /\ ItemData[i].layer = LayerOfStatement(n)
        /\ request.kind = "search_all" \/ request.project \in {Anything, ItemData[i].project}
        /\ request.kind = "search_commits" =>
              /\ \A t \in request.since : t <= ItemData[i].at
              /\ \A t \in request.until : ItemData[i].at <= t
        /\ request.kind = "time" => Meant(request.phrase, ItemData[i].at)
        /\ request.kind # "get_recent_commits" => ItemData[i].embedded}

Before(i, j) ==
    IF request.kind = "get_recent_commits" THEN ItemData[i].at >= ItemData[j].at
                                           ELSE ItemData[i].distance <= ItemData[j].distance

\* A search answers with the best of all that meets it and the caller may see, in
\* order, as if the layers were one and the hidden projects were not there, also
\* while ingestion goes on; what a question's words say of time is kept to, but for
\* the two departures of Meant.
SearchIsExact ==
    status = "answered" /\ request.kind \in {"search_all", "search_docs", "search_code",
                                             "search_commits", "time",
                                             "get_recent_commits"} =>
        LET answer == {found[n] : n \in DOMAIN found}
        IN  /\ answer \subseteq Meeting
            /\ Len(found) = Cardinality(answer)
            /\ Len(found) = Min({request.limit, Cardinality(Meeting)})
            /\ \A m, n \in DOMAIN found : m < n => Before(found[m], found[n])
            /\ \A i \in answer, j \in Meeting \ answer : Before(i, j)

\* A lookup answers with the projects it is about, each with all its technologies,
\* hidden ones as if they were not there.
LookupIsExact ==
    status = "answered" /\ snaps # <<>> =>
        LET s       == snaps[1]
            visible == IF role = "app_ro" THEN Catalogue ELSE Catalogue \ s.private
            Full(p) == [name |-> p, technologies |-> s.skills[p]]
        IN  CASE request.kind = "list_projects" ->
                    rows = {Full(p) : p \in {q \in visible :
                               Anything \in request.technology
                               \/ s.skills[q] \cap request.technology # {}}}
              [] request.kind = "get_project_info" ->
                    rows = {Full(p) : p \in visible \cap {request.project}}
              [] request.kind = "get_project_links" ->
                    {row.name : row \in rows} =
                        IF Anything \in request.projects THEN visible
                                                         ELSE visible \cap request.projects
              [] OTHER -> rows = {}

\* Every answer is exactly what its caller may see of what the request is about:
\* row-level security, joins, limits and windows of time never hide or show anything
\* else.
ReadsAreExact == SearchIsExact /\ LookupIsExact
=============================================================================
