-------------------------- MODULE DependencyGraph --------------------------
(***************************************************************************)
(* L3, the dependency graph: how a repository's project.yaml and what      *)
(* static analysis finds in its files become exposed_interfaces and        *)
(* dependencies rows, through webhooks and through the seed sync.          *)
(*                                                                         *)
(* A declared dependency names its provider; the name is resolved to a     *)
(* projects row when the consumer is ingested, against the projects        *)
(* committed by then.  A manifest row and a static-analysis row of one     *)
(* identifier are the same row, so the later write decides its source.     *)
(*                                                                         *)
(* Transactions on one repository are serial (module IngestionPipeline);   *)
(* those of different repositories overlap here, between the statements    *)
(* that read the catalogue and the commit.                                 *)
(***************************************************************************)
EXTENDS Naturals, FiniteSets

CONSTANTS
    Projects,    \* repositories, which are the projects
    Endpoints,   \* identifiers of exposed interfaces
    Needs,       \* identifiers of dependencies
    Urls,        \* those of them that are URLs, found by the URL scan
    Outside,     \* a provider that is no project: the row has external_name only
    Undeclared,  \* what a manifest says of a need it does not list
    Contents,    \* Contents[p]: versions of the repository of p to push
    Agents,      \* processes that ingest: worker Lambdas and the seed sync
    Seed,        \* the agent that runs the seed sync
    MaxPushes    \* bound: pushes

ManifestStates == {"absent", "malformed", "poison", "valid"}

\* "malformed" raises ManifestError; "poison" parses, or fails, outside the try:
\* a technologies value that is no list of strings.
ManifestRec == [state: ManifestStates, exposes: SUBSET Endpoints,
                consumes: [Needs -> Projects \cup {Outside, Undeclared}]]

\* routes, links: what the scan of the code files finds; packages: what the
\* package files list; excluded: .kb-exclude is there.
Content == [excluded: BOOLEAN, manifest: ManifestRec, routes: SUBSET Endpoints,
            packages: SUBSET Needs, links: SUBSET Needs]

\* The kinds of files whose push reaches the graph.
FileKinds == {"manifest", "packages"}

ASSUME GraphAssumption ==
    /\ MaxPushes \in Nat
    /\ Urls \subseteq Needs
    /\ Outside \notin Projects /\ Undeclared \notin Projects \cup {Outside}
    /\ \A p \in Projects : Contents[p] \subseteq Content
    /\ Seed \in Agents

VARIABLES
    content,    \* content[p]: p's default branch
    pushes,     \* pushes so far
    events,     \* webhook messages still to be handled
    missed,     \* projects with a push whose message was never sent or is dead-lettered,
                \* and at which no pass has looked since   (history)
    rows,       \* rows[p]: committed graph rows of p
    txn,        \* txn[a]: agent a's open transaction, at most one per project
    seed,       \* state of the latest seed pass
    todo,       \* projects the running pass has still to visit
    past,       \* past[p]: contents p's branch has had        (history)
    catalogue,  \* projects known when the latest pass started (history)
    quiet       \* nothing was pushed since then               (history)

vars == <<content, pushes, events, missed, rows, txn, seed, todo, past, catalogue, quiet>>

Sources   == {"none", "manifest", "static_analysis"}
Providers == Projects \cup {Outside}
NeedRow   == [source: Sources, provider: Providers]
GraphRow  == [known: BOOLEAN, missing: BOOLEAN,
              exposed: [Endpoints -> Sources], needs: [Needs -> NeedRow]]

NoNeed  == [source |-> "none", provider |-> Outside]
NoRow   == [known |-> FALSE, missing |-> TRUE,
            exposed |-> [e \in Endpoints |-> "none"], needs |-> [n \in Needs |-> NoNeed]]

Event == [project: Projects, touched: SUBSET FileKinds]

\* The open transaction of an agent that handles event (or visits a project):
\* its rows, or that it is going to raise.
NoTxn == [open |-> FALSE]
Txn   == [open: {TRUE}, event: Event, row: GraphRow, raises: BOOLEAN]

TypeOK ==
    /\ content \in [Projects -> Content]
    /\ pushes \in 0..MaxPushes
    /\ events \subseteq Event
    /\ missed \subseteq Projects
    /\ rows \in [Projects -> GraphRow]
    /\ txn \in [Agents -> {NoTxn} \cup Txn]
    /\ seed \in {"never", "running", "done", "aborted"}
    /\ todo \subseteq Projects
    /\ past \in [Projects -> SUBSET Content]
    /\ catalogue \subseteq Projects
    /\ quiet \in BOOLEAN

Init ==
    /\ content \in {c \in [Projects -> UNION {Contents[p] : p \in Projects}] :
                    \A p \in Projects : c[p] \in Contents[p]}
    /\ pushes = 0
    /\ events = {}
    /\ missed = {}
    /\ rows = [p \in Projects |-> NoRow]
    /\ txn = [a \in Agents |-> NoTxn]
    /\ seed = "never"
    /\ todo = {}
    /\ past = [p \in Projects |-> {content[p]}]
    /\ catalogue = {}
    /\ quiet = TRUE

-----------------------------------------------------------------------------
(* The statements of an ingestion                                          *)

\* MUTANT of Resolved: any project will do when the name is unknown.
ResolvedAnyhow(provider, known) ==
    IF provider \in known \/ known = {} THEN provider ELSE CHOOSE p \in known : TRUE

\* resolve_project_id_by_name, and what sync_manifest records when it finds none.
Resolved(provider, known) == IF provider \in known THEN provider ELSE Outside

Declares(m, n) == m.state = "valid" /\ m.consumes[n] # Undeclared

\* MUTANT of SyncManifest: on conflict do nothing.
SyncManifestOnce(row, m, known) ==
    [row EXCEPT
        !.missing = FALSE,
        !.exposed = [e \in Endpoints |->
            IF e \in m.exposes THEN "manifest" ELSE row.exposed[e]],
        !.needs   = [n \in Needs |->
            IF Declares(m, n) /\ row.needs[n].source = "none"
            THEN [source |-> "manifest", provider |-> Resolved(m.consumes[n], known)]
            ELSE row.needs[n]]]

SyncManifest(row, m, known) ==
    [row EXCEPT
        !.missing = FALSE,
        !.exposed = [e \in Endpoints |->
            IF e \in m.exposes THEN "manifest" ELSE row.exposed[e]],
        !.needs   = [n \in Needs |->
            IF Declares(m, n)
            THEN [source |-> "manifest", provider |-> Resolved(m.consumes[n], known)]
            ELSE row.needs[n]]]

\* MUTANT of SyncManifestForRepo: a ManifestError is logged and nothing else.
SyncManifestIfValid(row, m, known) ==
    IF m.state = "valid" THEN SyncManifest(row, m, known)
    ELSE IF m.state = "absent" THEN [row EXCEPT !.missing = TRUE] ELSE row

SyncManifestForRepo(row, m, known) ==
    IF m.state = "valid" THEN SyncManifest(row, m, known) ELSE [row EXCEPT !.missing = TRUE]

\* MUTANT of SyncStatic: the file kind in the source column.
SyncStaticByKind(row, routes, found) ==
    [row EXCEPT
        !.exposed = [e \in Endpoints |-> IF e \in routes THEN "code" ELSE row.exposed[e]],
        !.needs   = [n \in Needs |->
            IF n \in found THEN [source |-> "package", provider |-> Outside] ELSE row.needs[n]]]

SyncStatic(row, routes, found) ==
    [row EXCEPT
        !.exposed = [e \in Endpoints |->
            IF e \in routes THEN "static_analysis" ELSE row.exposed[e]],
        !.needs   = [n \in Needs |->
            IF n \in found
            THEN [source |-> "static_analysis", provider |-> Outside] ELSE row.needs[n]]]

UrlsIn(m) == {n \in Urls : Declares(m, n)}

PurgeProjectData(row) ==
    [row EXCEPT !.exposed = NoRow.exposed, !.needs = NoRow.needs]

\* What the webhook handler does to the graph rows of a project whose branch
\* holds c, for a push that touched the given kinds of files.
HandlePush(row, c, touched, known) ==
    LET scanned == (IF "manifest" \in touched THEN UrlsIn(c.manifest) ELSE {})
                   \cup (IF "packages" \in touched THEN c.packages ELSE {})
    IN  IF c.excluded THEN PurgeProjectData(row)
        ELSE IF touched # {}
             THEN SyncStatic(SyncManifestForRepo(row, c.manifest, known), {}, scanned)
             ELSE row

\* What a visit of the seed sync does to them.
SyncRepo(row, c, known) ==
    IF c.excluded THEN PurgeProjectData(row)
    ELSE SyncStatic(SyncManifestForRepo(row, c.manifest, known),
                    c.routes, c.packages \cup c.links)

\* The kinds of files a push adds or modifies.  The files it removes are listed
\* apart, and the handler does not look at that list.
Touched(old, new) ==
    (IF old.manifest # new.manifest /\ new.manifest.state # "absent" THEN {"manifest"} ELSE {})
    \cup (IF old.packages # new.packages /\ new.packages # {} THEN {"packages"} ELSE {})

-----------------------------------------------------------------------------
(* Actions                                                                 *)

Known == {p \in Projects : rows[p].known}

\* No open transaction holds the lock of p's projects row.
Unlocked(p) == \A a \in Agents : txn[a].open => txn[a].event.project # p

\* The webhook endpoint sends the message of a push to the queue (webhook.py:44),
\* or fails to: GitHub does not deliver it a second time.
Send(e) == events' = events \cup {e} /\ UNCHANGED missed
FailToSend(e) == missed' = missed \cup {e.project} /\ UNCHANGED events

\* A push to p's default branch.
Push(p) ==
    /\ pushes < MaxPushes
    /\ \E c \in Contents[p] \ {content[p]} :
        LET e == [project |-> p, touched |-> Touched(content[p], c)]
        IN  /\ content' = [content EXCEPT ![p] = c]
            /\ past' = [past EXCEPT ![p] = @ \cup {c}]
            /\ Send(e) \/ FailToSend(e)
    /\ pushes' = pushes + 1
    /\ quiet' = FALSE
    /\ UNCHANGED <<rows, txn, seed, todo, catalogue>>

\* Agent a takes the lock, fetches p's files and writes its uncommitted rows.
\* The transaction sees its own projects row besides the committed ones.
Open(a, e, row, raises) ==
    /\ ~txn[a].open
    /\ Unlocked(e.project)
    /\ txn' = [txn EXCEPT ![a] = [open |-> TRUE, event |-> e, row |-> row, raises |-> raises]]

WorkerBegins(w) ==
    /\ w # Seed
    /\ \E e \in events :
        LET p == e.project
            c == content[p]
        IN  /\ Open(w, e,
                    HandlePush([rows[p] EXCEPT !.known = TRUE], c, e.touched, Known \cup {p}),
                    /\ ~c.excluded
                    /\ c.manifest.state = "poison"
                    /\ e.touched # {})
            /\ events' = events \ {e}
    /\ UNCHANGED <<content, pushes, missed, rows, seed, todo, past, catalogue, quiet>>

Close(a) == txn' = [txn EXCEPT ![a] = NoTxn]

WorkerCommits(w) ==
    /\ w # Seed
    /\ txn[w].open /\ ~txn[w].raises
    /\ rows' = [rows EXCEPT ![txn[w].event.project] = txn[w].row]
    /\ Close(w)
    /\ UNCHANGED <<content, pushes, events, missed, seed, todo, past, catalogue, quiet>>

\* The handler raises, or its process dies: rolled back, the message returns.
WorkerFails(w) ==
    /\ w # Seed
    /\ txn[w].open
    /\ events' = events \cup {txn[w].event}
    /\ Close(w)
    /\ UNCHANGED <<content, pushes, missed, rows, seed, todo, past, catalogue, quiet>>

\* The handler raises at the last receive the redrive policy allows.
DeadLetter(w) ==
    /\ w # Seed
    /\ txn[w].open /\ txn[w].raises
    /\ missed' = missed \cup {txn[w].event.project}
    /\ Close(w)
    /\ UNCHANGED <<content, pushes, events, rows, seed, todo, past, catalogue, quiet>>

\* The scheduled seed sync starts a pass over all repositories.
StartPass ==
    /\ seed # "running"
    /\ seed' = "running"
    /\ todo' = Projects
    /\ catalogue' = Known
    /\ quiet' = TRUE
    /\ UNCHANGED <<content, pushes, events, missed, rows, txn, past>>

\* The pass looks at p as it is now, whatever became of the messages about it.
SeedBegins(p) ==
    /\ p \in todo
    /\ missed' = missed \ {p}
    /\ LET c == content[p]
       IN  Open(Seed, [project |-> p, touched |-> {}],
                SyncRepo([rows[p] EXCEPT !.known = TRUE], c, Known \cup {p}),
                ~c.excluded /\ c.manifest.state = "poison")
    /\ UNCHANGED <<content, pushes, events, rows, seed, todo, past, catalogue, quiet>>

SeedCommits ==
    /\ txn[Seed].open /\ ~txn[Seed].raises
    /\ LET p == txn[Seed].event.project
       IN  /\ rows' = [rows EXCEPT ![p] = txn[Seed].row]
           /\ todo' = todo \ {p}
           /\ seed' = IF todo = {p} THEN "done" ELSE "running"
    /\ Close(Seed)
    /\ UNCHANGED <<content, pushes, events, missed, past, catalogue, quiet>>

\* Nothing catches what a repository raises: the pass ends there.
SeedRaises ==
    /\ txn[Seed].open /\ txn[Seed].raises
    /\ seed' = "aborted"
    /\ todo' = {}
    /\ Close(Seed)
    /\ UNCHANGED <<content, pushes, events, missed, rows, past, catalogue, quiet>>

Next ==
    \/ \E p \in Projects : Push(p) \/ SeedBegins(p)
    \/ \E w \in Agents : WorkerBegins(w) \/ WorkerCommits(w) \/ WorkerFails(w) \/ DeadLetter(w)
    \/ StartPass \/ SeedCommits \/ SeedRaises

Spec == Init /\ [][Next]_vars

\* Cron starts the passes (sync.yml).  A blocked upsert waits in PostgreSQL's
\* queue for the row lock, so it is not overtaken for ever; what is open ends.
Fairness ==
    /\ WF_vars(StartPass)
    /\ \A p \in Projects : SF_vars(SeedBegins(p))
    /\ WF_vars(SeedCommits) /\ WF_vars(SeedRaises)
    /\ \A w \in Agents : WF_vars(WorkerCommits(w) \/ WorkerFails(w) \/ DeadLetter(w))

FairSpec == Spec /\ Fairness

-----------------------------------------------------------------------------
(* What the graph promises                                                 *)

\* "Never fabricate edges" (graph.py:3): whatever the interleaving, a manifest
\* row stands for a declaration its repository once made, an edge leads to the
\* very project that declaration named, which is in the catalogue, and a
\* static-analysis row stands for something once found in the files.
NothingFabricated ==
    \A p \in Projects :
        /\ \A n \in Needs :
            LET row == rows[p].needs[n]
            IN  /\ row.provider # Outside =>
                      /\ row.source = "manifest"
                      /\ row.provider \in Known
                      /\ \E c \in past[p] :
                            c.manifest.state = "valid" /\ c.manifest.consumes[n] = row.provider
                /\ row.source = "manifest" => \E c \in past[p] : Declares(c.manifest, n)
                /\ row.source = "static_analysis" =>
                      \E c \in past[p] : n \in c.packages \cup c.links \cup UrlsIn(c.manifest)
        /\ \A e \in Endpoints :
            /\ rows[p].exposed[e] = "manifest" =>
                  \E c \in past[p] : c.manifest.state = "valid" /\ e \in c.manifest.exposes
            /\ rows[p].exposed[e] = "static_analysis" => \E c \in past[p] : e \in c.routes

Settled(p) ==
    /\ \A e \in events : e.project # p
    /\ p \notin missed
    /\ Unlocked(p)

\* The branch has held a broken project.yaml together with the marker.  The push
\* that removes the marker touches no manifest, so the webhook handler leaves the
\* project with whatever flag it had before; the next seed pass sets it.
BrokenUnseen(p) == \E c \in past[p] : c.excluded /\ c.manifest.state = "malformed"

\* Once nothing of a project is under way, its row does not count a broken
\* project.yaml as a manifest, in whatever order the messages were handled.  A
\* message that was never sent, or was given up, is made up for by the next pass:
\* only until that one has looked at the project may the row be wrong.
BrokenIsMarked ==
    \A p \in Projects :
        Settled(p) /\ ~BrokenUnseen(p) /\ rows[p].known /\ ~rows[p].missing =>
            content[p].manifest.state # "malformed"

\* The needs c declares that no scan of its files finds too.
OnlyDeclared(c) == Needs \ (c.packages \cup c.links \cup UrlsIn(c.manifest))

\* Row is complete for c: covered exactly if there is a manifest, each interface
\* there, and each dependency on a project of K an edge to it.
Complete(row, c, K) ==
    LET m == c.manifest
    IN  /\ row.missing = (m.state # "valid")
        /\ \A e \in Endpoints : m.state = "valid" /\ e \in m.exposes => row.exposed[e] # "none"
        /\ \A n \in OnlyDeclared(c) : Declares(m, n) /\ m.consumes[n] \in K =>
                row.needs[n] = [source |-> "manifest", provider |-> m.consumes[n]]

\* A seed pass during which nothing was pushed leaves the graph of every
\* repository that is not excluded complete, with edges to all that was in the
\* catalogue when the pass began.
PassCompletes ==
    seed = "done" /\ quiet =>
        \A p \in Projects : ~content[p].excluded => Complete(rows[p], content[p], catalogue)

\* Every dependency one project declares on another is an edge in the end, the
\* order in which the two were ingested notwithstanding (graph.py:102) - unless
\* a manifest that raises ends every pass.
EdgesResolve ==
    <>[]((\A p \in Projects : content[p].manifest.state # "poison") =>
            \A p \in Projects : ~content[p].excluded =>
                LET m == content[p].manifest
                IN  \A n \in OnlyDeclared(content[p]) : Declares(m, n) /\ m.consumes[n] \in Projects =>
                        rows[p].needs[n].provider = m.consumes[n])

-----------------------------------------------------------------------------
(* Why it is correct: the parts of inductive invariants.                   *)

\* A projects row is locked by one transaction; the seed sync's is on a project
\* its pass has still to visit, and a pass that is over has none left.
PassDiscipline ==
    /\ \A a, b \in Agents : txn[a].open /\ txn[b].open /\ a # b =>
          txn[a].event.project # txn[b].event.project
    /\ txn[Seed].open => seed = "running" /\ txn[Seed].event.project \in todo
    /\ seed # "running" => todo = {}
    /\ catalogue \subseteq Known

\* Behind PassCompletes: what the pass has visited is complete and stays so, since
\* every later transaction on it finds the same contents and no smaller catalogue.
VisitedIsComplete ==
    quiet /\ seed \in {"running", "done"} =>
        /\ \A p \in Projects \ todo :
              ~content[p].excluded => Complete(rows[p], content[p], catalogue)
        /\ \A a \in Agents : txn[a].open =>
              LET p == txn[a].event.project
              IN  (a = Seed \/ p \notin todo) /\ ~content[p].excluded =>
                      Complete(txn[a].row, content[p], catalogue)

\* A message that will have the manifest of p looked at is waiting, or was missed.
WillLook(p) ==
    p \in missed \/ \E e \in events : e.project = p /\ "manifest" \in e.touched

\* a's transaction has looked at the manifest because of such a message or of a
\* pass, which ends without having done so only if it raises.
HasLooked(a) ==
    "manifest" \in txn[a].event.touched \/ (a = Seed /\ ~txn[a].raises)

\* Behind BrokenIsMarked: a broken manifest that is not flagged has such a message,
\* or an agent is at it, whose own row is flagged unless there is another.
BrokenIsPending ==
    \A p \in Projects : content[p].manifest.state = "malformed" /\ ~BrokenUnseen(p) =>
        /\ \/ rows[p].missing \/ WillLook(p)
           \/ \E a \in Agents : /\ txn[a].open /\ txn[a].event.project = p
                                /\ HasLooked(a)
        /\ \A a \in Agents : txn[a].open /\ txn[a].event.project = p =>
              txn[a].row.missing \/ WillLook(p)

-----------------------------------------------------------------------------
(* What the documents and the code disagree on.                            *)

\* "Raised for malformed project.yaml - never crashes the caller" (manifest.py:15).
NeverCrashesTheCaller == seed # "aborted"

=============================================================================
