# A verification development of knowledgebase-service

knowledgebase-service ingests the repositories of one GitHub account into
PostgreSQL (documents L1, code L2, a dependency graph L3, commit history L4) and
answers questions about them over REST and MCP.  This directory holds TLA+
modules of it, TLC configurations that check them on small instances, and
theorems TLAPS checks for every value of the constants.

Run a check with `tlc -config workers.cfg MCIngestionPipeline`, a proof with
`tlapm IngestionPipelineProofs.tla`.  `PROJECT.json` lists the runs, the lines
each definition translates, the hazards the properties are for, and for each
property a mutation of the model that it catches.

## 1. Inventory

| Component | State | Operations | Interacts through | What is hard | What makes it correct |
|---|---|---|---|---|---|
| Webhook endpoint `api/webhook.py`, `queue_client.py` | none | check signature, enqueue | SQS | send may fail, GitHub does not redeliver | accepted events are handled or dead-lettered |
| Queue `infra/sqs.tf` | messages, receive counts, dead letters | deliver, time out, redrive | invokes the worker | duplicates, reordering, three receives that any failure uses up, contention included | it drains, and a pass repairs what it gave up |
| Worker `worker_handler.py`, `webhook_processor.py` | one open transaction | push, repository, release handlers | GitHub reads, PostgreSQL | several at once, crash between commit and acknowledgement, fetches HEAD and not the event's commit | no lost update, no return to an older version |
| Seed sync `scripts/sync_github.py`, `sync.yml` | list of repositories, position | visit every repository twice a day | same rows as the workers | long run over a moving account, aborts at the first failure | repairs what webhooks lost |
| Exclusion `exclusion.py` | `.kb-exclude` on GitHub | check, purge | first step of both paths | marker changes during ingestion | excluded content is gone and stays gone |
| Dependency graph `graph.py`, `manifest.py`, `graph_static_analysis.py`, `repo_sync.py` | `exposed_interfaces`, `dependencies`, `manifest_missing` | upserts from manifest and from static analysis | rows of other projects | provider resolved against what is committed, two sources for one row | no invented edge, every declared edge in the end |
| Chunk stores `documents.py`, `code.py`, `chunker_*.py`, `secrets.py`, `webhook_layers.py` | `documents`, `code_chunks`, `secret_scan_findings` | route, chunk, scan, hash-compare, embed, upsert, resolve a finding | embedding service | nothing is deleted when a file shrinks, flagged chunks are skipped, files change under a running pass, listings are truncated | stored chunks are clean, real, and after a quiet pass complete |
| Commits `commits.py`, `commit_summarizer.py` | `commits` | filter, scan, summarize, insert once | language model | two paths, different filters, a window of 30 | every recent commit of substance, summarised only if clean, reported if not |
| Technologies `technologies.py` | `technologies`, `project_technologies` | upsert | rows shared by all projects, locked to the end of the ingestion | circles of waiting transactions, retries that run out | nobody waits for ever; no failure if lists are ordered alike |
| Impact analysis `graph_traversal.py` | none | recursive CTE, listing | PostgreSQL snapshot and row-level security | cycles, depth bound, concurrent commits, hidden rows, names of providers that were no projects yet | exactly the reachable projects, at their distance |
| Query engine `query_engine.py`, `intent_router.py`, `sql_exec.py`, `query_synthesis.py` | state of one question, the connection's transaction | route, heal, fall back, rate | language model, embeddings, database | aborted transactions, three kinds of empty | an honest confidence, bounded calls |
| Searches and lookups `vector_search.py`, `project_lookup.py`, `time_range.py` | none | search a layer, a span of time, merge, list, look up | pgvector, embedding service | one snapshot per layer, limits before and after the merge, joins, two lists of time phrases | exactly the best of what the caller may see and asked for |
| Access tiers `api/auth.py`, `api/dependencies.py`, `migrations/0006` | policies | choose the role | every query | policies compose through joins | public answers come from public rows |
| Migrations `db/migrate.py` | `schema_migrations` | apply pending files | deploy | concurrent or interrupted runs from checkouts of different ages | each file once, all of a run or nothing |
| Routes, MCP server, CLIs, infrastructure | none | marshal, print, provision | the above | little | - |

Two things order everything.  `upsert_project`, the first statement of every
handler, locks the `projects` row until the transaction ends: it is the only
thing that serialises two ingestions of one repository.  And whatever an event
said, the handler fetches files from HEAD at the time it runs.

## 2. Modules

| Module | Models | State and actions |
|---|---|---|
| `IngestionPipeline` | GitHub, endpoint, queue, workers, seed sync | A file is the number of the push that last wrote it; rows carry the version they were derived from. `Push`, `Enqueue`, `Receive`, `VisibilityTimeout`, `Redrive` are the way of an event; `Upsert` (the lock), `CheckExclusion`, `Fetch`, `SyncPushCommit`, `Commit`, `Ack` the steps of a handler; `StartSync` ... `FinishSync` those of a pass; `Crash`, `CrashSync`, `LoseWebhook`, `DuplicateDelivery` the faults |
| `DependencyGraph` | L3 across repositories | Contents of repositories as records (manifest, routes, packages, links, marker), graph rows with their source and resolved provider. An ingestion is two steps, `...Begins` (lock, fetches and statements, which read the committed catalogue) and `...Commits`, so that other projects commit in between. The message of a push is sent or not (`Send`, `FailToSend`), and a handler that raises too often loses it; `missed` remembers for which projects, until a pass looks at them |
| `ImpactAnalysis` | `/v1/impact`, `/v1/dependencies` | One request, statement by statement; the recursive CTE with its working table, iteration by iteration; `Ingest` commits between statements; `Seen` is the row-level security. A dependency has the two columns of the table, the provider's id and `external_name`, and the listing tells both |
| `QueryEngine` | `/v1/query` | Node by node; which SQL the model writes, whether it runs and finds rows is nondeterministic; `tx` is the state of the connection's transaction; `Departs` names the answers the code rates above what the documents say |
| `Chunking` | from a file's path and lines to layers, chunks and findings | no state: operators over sequences of lines; what a parser reports of a code file comes with the file |
| `ContentStore` | L1, L2, L4 and the findings of one repository | contents of the branch push by push (`head`, `history`), the committed rows `db`, the one open transaction `txn`. `Push`, `Lose` are GitHub and the queue; `WorkerBegins`, `SeedBegins`, `SyncFile`, `ListCode`, `HandleCommits`, `Commit`, `Abort` an ingestion; `MarkSecretResolved` the script |
| `Migrations` | `apply_pending` | what is recorded and how often each file took effect, committed; each runner's list and open transaction. `EnsureMigrationsTable`, `ListPending`, `ApplyFile`, `Raise`, `CommitRun` a run; `ReleaseFile`, `FixFile`, `StartRun`, `CrashRun` what happens around it |
| `TechnologyLocks` | `sync_technologies` of several projects | `owner` of each technology's row, how far each transaction is, its message's receives. `Receive`, `UpsertTechnology`, `CommitProject`; `FailDeadlocked` is PostgreSQL, `MoveToDeadLetters` the queue |
| `Retrieval` | searches and lookups, by tier | `stored` rows with their visibility; one request: its role, the layers it has still to search, what it has found. A request is one of a scoped tool, or a question of the time route with the phrase it names (`Window` is `parse_time_range`). `Ask` (auth), `SearchNext` (one statement), `EmbeddingFails`, `AnswerSearch` (merge), `LookUp`, and `Ingest` in between |
| `AnswerContract` | what an answer's confidence promises | evidence is consulted, then an answer is rated by it, in the grades of `README.md:81` and `README.md:117`; `QueryEngine` is shown to implement it but for the answers of `Departs` |
| `Mirror` | what ingestion promises a reader of the database | no queue, processes, locks or transactions: `Push` on GitHub, `Ingest` (the rows of a repository catch up or are purged, in one step), `Acknowledge`; `IngestionPipeline` is shown to implement it |
| `IngestionPipelineProofs`, `MirrorProofs`, `DependencyGraphProofs`, `ContentStoreProofs`, `ImpactAnalysisProofs`, `QueryEngineProofs`, `RetrievalProofs` | theorems of the module they are named for | |
| `DatabaseProofs` | theorems of `Migrations`, of `TechnologyLocks` and of their composition in `MCDatabase` | |
| `MC...` | the instances TLC checks | |

`IngestionPipeline` and `DependencyGraph` overlap on purpose.  The first has all
of the queue, the crashes and the order inside a transaction, and takes a file
for its version.  The second relies on it (transactions on one repository are
serial, a message is redelivered until handled or dead) and has the contents the
graph is made of.  `ImpactAnalysis` starts from any graph the second may have
left and lets it change; `QueryEngine` takes what `ImpactAnalysis` may return.
`ContentStore` relies on the lock of `IngestionPipeline` (one transaction at a
time) and has the contents chunks are made of.  `Retrieval` searches what
`ContentStore` may have stored: rows that change while a request runs, all of
them embedded but for flagged commits.  `MCDatabase` explores `Migrations`,
`TechnologyLocks` and `Retrieval`, which share no state, one after the other.

Abstractions.  Texts, names, hashes and embeddings are not spelled out.  In
`IngestionPipeline` one process is the seed sync (a second overlapping run would
be one more process competing for the same lock), documents are listed at the
step that finds no marker, and repository metadata is its visibility.  In
`DependencyGraph` the kind of an interface or a dependency is part of its
identifier, one transaction fetches the files at once, and a manifest that does
not parse has no URLs in it.  In `ImpactAnalysis` a project has one dependency
of each identifier, and a project stands for its name.  In `ContentStore` one push
is one commit, whose message is one line and comes with the kind of the push
(`Messages`); the lines of a file are distinct, and which of a diff lie beyond the
8000 characters of `MAX_DIFF_CHARS` is given (`Beyond`), as is which of several
READMEs GitHub prefers (`Preferred`).  The chunks of a file have distinct keys (of
two definitions of a symbol on one line the upsert would keep the second), what a
parser reports lies in the file, and an embedding is the text it was made from.  A
listing of more than `MaxTree` files may be truncated to any part of it.  `InOrder` of `Chunking` is a sort written as a choice among functions, and
`Sorted` of `Retrieval` one by the place of each item, and not `SetToSortSeq` of the
community modules, so that they can be reasoned about.  In
`Migrations` the text of a file is whether it raises.
In `Retrieval` the distance of an item to the question is given, every commit has
a date, a question names one span of time, and a project is its name, its
visibility and its technologies.

## 3. Runs

Passing runs.  `workers`, `reorder`, `converge`, `deadletter`, `impact` and `content`
take one to three minutes, the others less:

| Run | Question | Bounds |
|---|---|---|
| `workers` | Do two workers and the seed sync ever lose an update or acknowledge what is not recorded? Is every step one of `Mirror`, so that a reader sees whole handlers only and no file ever goes back? | 1 repository, 3 files (one of each kind), 2 events of every sort, 1 fault |
| `reorder` | With three pushes delivered in any order: does purged content stay away, and is an acknowledged marker honoured? | 1 worker, seed sync, 3 pushes, 1 fault |
| `converge` | Does the database converge to GitHub when files change and go, the marker comes and goes and an event is lost, late or dead-lettered? Is the invariant of the proofs one? | fairness, 1 repository, 2 files, 1 worker, 2 events, 1 receive, 1 fault |
| `deadletter` | Does the queue drain, by handling or by dead letters, and does a later pass repair both repositories, also when a pass ends between them? | fairness, 2 repositories, 1 worker, 1 event, 2 receives, 2 faults |
| `graph` | Is any row of the graph invented, does a broken manifest count as coverage, does a quiet pass complete the graph, and does every declared edge come in the end? | fairness, 1 worker and the seed sync, 2 projects, 2 pushes whose events may be lost on the way to the queue; the manifest is valid, malformed, one that raises, or absent with the marker |
| `impact` | Is the answer exactly the projects within the depth bound, at their distance, only along public chains, is no private provider named that was known as one, and does the traversal end on cycles? | fairness, 3 projects, every graph over the rows of `ChainRows`, 1 commit between statements, depth 2 |
| `engine` | On every route: does it end, are the calls of the language model bounded, is an error never papered over, is the confidence earned by what the documents ask for? | fairness, 3 attempts, every combination of router signals |
| `content` | Is what is stored clean and taken from the branch, is every chunk and every recent commit accounted for after a quiet pass, does a second pass cost nothing, is no finding or resolution lost? | 9 paths of all kinds, 7 sorts of pushes, one that adds a README in `.github/`, one whose message and one whose unread lines hold a secret, 3 pushes, blocks of 2 lines, 2 commits per pass; events late, lost or repeated, aborts anywhere |
| `database` | Migrations: does every file take effect once and a run wholly or not at all? Technologies: does every push end, and without a failure if lists are ordered alike? Reads: is every answer exactly what its caller may see and asked for, also by a span of time? | 2 runners, 3 files, 5 runs; fairness, 3 projects, 3 technologies, 6 lists, 3 receives; 13 items of 2 projects, 9 of them commits from now to a year ago, 11 phrases of time, 3 transactions of ingestion |

The bounds.  A lost update needs two transactions on one repository and a third
push to tell old from new: two workers and a sync, two or three pushes.  The
receive limit is 3 in the code and lower here, with as many failures as use it up:
`converge` dead-letters an event at its first failure, with every kind of push;
`deadletter` at its second, after a redelivery, or spends the failures on passes,
which then end before the second repository has been seen.  Two projects are
enough for a provider to be known or not when its consumer is ingested; one
content of `graph` is malformed and marked at once, a case that `BrokenIsMarked`
excepts.  In `impact` the bound of the CTE is 2 instead of 5 so that chains at the
bound, beyond it and around a cycle exist among three projects; the theorems have
any bound.  In `content` two pushes after the first are enough for a chunk to
appear, change and go or come back, with the events of both in any order; a pass
looks at two commits so that one is out of its window.  The commits of `database`
lie on both sides of each boundary of a phrase but the year's, several of them on
it; 4 and 40 days are less and more than the 30 that "last N days" gets.  Two
runners overlap in every way two can; three projects make circles of two and of
three.  `engine` has no bound of its own: three attempts are the code's.  Workers
and repositories are symmetric in the runs that declare it, none of which checks
liveness.

Violation runs, each of one property that a document, comment or test states
and the code does not have (the findings of `PROJECT.json` quote both sides):

| Run | Shows |
|---|---|
| `excluded` | a purge leaves `project_technologies` behind |
| `drift` | after a webhook the graph rows of a code file lag behind its chunks |
| `poison` | a malformed `technologies` field ends the seed pass |

Other places where the models follow the code against a document, without a run:

- the seed sync puts commits that touch no code file into L4
  (`repo_sync.py:100`), against `tests/integration/test_webhook_worker.py:289`;
- static analysis overwrites the row a manifest declares (`graph.py:42`), against
  "authoritative" in `README.md:78`;
- a push that deletes `project.yaml` does not mark the project
  `manifest_missing`; the next seed pass does (`README.md:81`);
- nor is a project marked whose `project.yaml` was broken while the marker was
  there: the handler returns before it reads manifests, and the push that removes
  the marker touches none (`webhook_processor.py:61`).  The row keeps the flag it
  had until the next seed pass; `BrokenIsMarked` is stated for the others, and
  `PassCompletes` shows the pass repairing it;
- for the public role a dependency on a private project is listed without a
  provider (`graph_traversal.py:74`), which `graph_traversal.py:54` reserves for
  external ones;
- the provider a manifest declares before there is such a project is kept by name
  (`graph.py:110`) and listed to everyone (`graph_traversal.py:72`,
  `graph_traversal.py:85`), also once a private project has that name, until the
  manifest is synchronised again; "Public projects only" in `README.md:149` says
  otherwise.  It is the one name `PublicSeesPublicChains` excepts;
- a question is embedded once per layer searched, up to three times
  (`vector_search.py:184`), against `README.md:168`;
- three kinds of answers are rated above what the documents say, which are the
  departures of `QueryEngine` (`DeparturesOverstate` proves that they are all and
  that each is one): a hybrid answer that the search alone has found is rated `high`
  (`query_synthesis.py:109`), where `README.md:117` describes `medium`; a project
  marked `manifest_missing` answers with the confidence of the row its former manifest
  or the analysis left (`query_synthesis.py:39`), where `README.md:81` says `low`; and
  a request that names only unknown layers searches nothing and is rated as if it
  had (`schemas.py:22` checks no name);
- the router sends questions about the "last N days" to the time route
  (`intent_router.py:46`), and `time_range.py:24` reads "past N days" only: they are
  searched over 30 days, against "the phrasings the router recognizes" in
  `time_range.py:3`.  And "yesterday" includes the first instant of today, because
  the window is closed at both ends (`vector_search.py:110`).  `ReadsAreExact` states
  what the words name (`Named`) and these two departures from it (`Meant`);
- a seed pass asks GitHub for the repository's preferred README, of whatever form and
  place, and stores it under README.md (`github_client.py:140`, `sync_github.py:73`),
  where a webhook stores the root file of that name (`webhook_processor.py:86`).
  While the two differ (`IsContested`), each overwrites the rows of the other, and
  passes pay for them again; `NothingInvented` lets rows under README.md come from
  another README, and `PassAccountsForAll` and `QuietPassIsFree` leave that file out;
- a tree listing that GitHub truncates is taken for complete
  (`github_client.py:168`), so that a pass skips the files beyond it without a word;
  `PassAccountsForAll` and its like speak of passes with a complete listing;
- webhooks take documents in directories below `docs/` (`webhook_layers.py:19`),
  the seed pass does not list them, against "matches the seed sync exactly" in
  `webhook_layers.py:7`;
- a commit that only reorders lines, and one that touches only paths that are not
  read, is noise (`commit_summarizer.py:26`, `commit_summarizer.py:33`), against
  "only lockfile-only and pure-whitespace commits" in `commit_summarizer.py:4`;
- the files of a migration run commit together (`migrate.py:39` has opened the
  transaction), where the block around each file (`migrate.py:48`) reads as if
  they committed one by one;
- passwords come with a migration that is recorded and not applied again
  (`scripts/migrate.py:42`), against "re-run `make migrate` to rotate" in
  `README.md:274`;
- the message of a commit is scanned with its diff, and what is found is reported and
  keeps the commit from being summarised and embedded, but the message is stored
  whatever it holds (`commits.py:62`), against "the matched value itself is never
  persisted" in `README.md:103` and "before anything is stored" in `secrets.py:1`;
- a diff is cut off at 8000 characters before it is scanned and summarised
  (`commit_summarizer.py:48`), which no document says: a secret beyond them is
  neither reported nor sent.  `StoreIsClean` excepts both;
- an exported function or class of a JavaScript or TypeScript file is an
  `export_statement` to the parser and becomes no chunk (`chunker_code.py:186`).

## 4. Fairness

`IngestionPipeline`: weak fairness for what the queue and a running process do
next.  Strong fairness for `Upsert` and `SyncUpsert`, because PostgreSQL serves
the waiters of a row lock in order and so does not starve one; and for
`Receive`, because SQS offers a message again until some worker takes it.  A
scheduled pass starts (`cron: "0 6,18 * * *"` in `.github/workflows/sync.yml`).
No push and no fault is ever required.  `DependencyGraph`: the same schedule,
lock and end of transactions.  `TechnologyLocks`: every project's next step is
taken, which includes that PostgreSQL ends a circle by failing one of it
(`deadlock_timeout`) and that the queue redelivers or gives up.  Which waiter
gets a lock that becomes free, and which transaction of a circle fails, is
arbitrary, so that meeting circles three times in a row may dead-letter a push.
`ContentStore`, `Migrations` and `Retrieval` state safety only.  `ImpactAnalysis` and `QueryEngine`: a request in
progress takes its next step; ingestion owes it nothing.

## 5. Proofs

Each module of proofs assumes the `ASSUME` of the module it is about, and nothing
else: the constants have their types, a few names differ, and what a theorem
counts is finite (`Projects` of `TechnologyLocks`, `Items` of `Retrieval`).  TLC
evaluates every one of them in a passing run.  The theorems hold for any number of
repositories, files, workers, pushes and faults, any graph and depth bound, any
contents and any number of attempts.  Each strengthening was checked by TLC as an
invariant of the run of its module before it was proved.

**`IngestionPipelineProofs`** (`PipelineAssumption`) has three inductive
invariants, each on top of the types (`TypeCorrect`: only events that were sent
travel and are handled).

`NothingForgotten` (`NeverForgets`) gives `NoLostUpdate` (`NoUpdateLost`) and
`AcknowledgedIsRecorded` (`AcknowledgementIsLate`).  `NoLostUpdate` is not
inductive: it speaks of acknowledged pushes and committed
rows, and says nothing of the transactions between them.  The strengthening
follows a push backwards.  What is acknowledged is in the log
(`HandlersProgress`); what is in a log, committed or seen by an open
transaction, is reflected wherever that push still is the last to have written
(`LoggedIsReflected`), which holds for a worker's own push because it fetches
every file of the push before it logs it; a transaction sees all of the log it
will replace (`LogsGrow`), because nobody else has committed since it took the
lock (`LockDiscipline`); and a push to come has a number no log holds
(`HeadsAreWritten`, `LogsGrow`).  One lemma treats all steps inside a
transaction (`InsideRemembers`), one all steps outside (`OutsideRemembers`), one
commits and rollbacks (`LeaveRemembers`); the lemmas on actions instantiate them.

`RowsAreHonest` (`RowsStayHonest`) gives `PurgedStaysEmpty`
(`PurgedContentStaysAway`), `MarkerHonoured` (`AcknowledgedMarkerIsHonoured`) and
the action property `NeverBackwards` (`RowsNeverGoBackwards`), which no run checks
by itself because it is a part of `ImplementsMirror`.  It says of each
row, committed or in a transaction, that it is `Honest`: nothing in it is newer
than the branch, a row that logs the marker's push was purged for it, and one
purged for the marker that stands is empty; of a transaction's row that it is
`NoOlder` than the committed one; and of a transaction that goes on to fetch that
it found no marker.  The last is what the race between the look for the marker and
its push turns on: the transaction may then write content under a marker, but its
row is not purged for that marker, and the marker's own event is still to come.

`HandlersAreWhole` (`HandlersStayWhole`) gives the refinement, `ImplementsMirror`
(`PipelineImplementsMirror`).  The mapping reads GitHub as it is, the history of a
branch from its events, the rows without the fields `Mirror` leaves out (whether the
project is known and private, `missing`, `tagged`), and the acknowledgements from the
status of the messages.  Processes, locks, queue and faults have no counterpart: all
that is visible of a handler is its commit, which is to be one `Ingest`, and
everything else a stutter.  A commit replaces the row by one read and written over
many steps, during which GitHub moves on.  The invariant relates the two throughout
(`Underway`): a transaction's row has either emptied the committed one or caught up
with it, file by file and to versions the file has had (`Empties`, `Catches`); and
each push it is about to record has arrived where it still is the last to have
written (`Arrived`), which for a worker builds up fetch by fetch.  One case needs
the second invariant too: a transaction may catch up with nothing under a marker
already purged for, which to `Mirror` is a purge repeated.

**`MirrorProofs`** assumes of the constants only that `MaxEvents` is a number, and
shows what the promise is worth to a reader, whatever implements it: rows are of
versions the file has had in its own repository (`MirrorIsGenuine`); what an
acknowledged push wrote, and nothing later replaced, is in the rows of a repository
never purged (`MirrorKeepsAcknowledged`); and nothing is, while a marker stands whose
push is acknowledged (`MirrorHonoursMarkers`).  The inductive invariant `MirrorInv`
says the same of what is recorded rather than acknowledged; TLC checked it on two
repositories with two pushes before it was proved.

`Mirror` promises no consistent snapshot: the files of one repository may be of
different versions, because a handler fetches one after the other from a moving
branch, and after a webhook those it does not name stay as they were.  It lets a
purge act on a marker that has been removed since, as the code may, and says
nothing of what brings the rows back after that: only a pass of the seed sync does
(`Converges`).

**`DependencyGraphProofs`** (`GraphAssumption`), three as well.

`GraphInv` gives `NothingFabricated` (`NoFabrication`) and the types
(`GraphTypes`).  The property speaks of committed rows; its strengthening says the
same of the rows of open
transactions, whose edges may also lead to the project of the transaction itself,
which its commit adds to the catalogue.  It survives interleaving because what
it refers to, the contents a branch has had and the projects of the catalogue,
only grows (`SoundGrows`).  One lemma per statement of an ingestion
(`ManifestSound`, `StaticSound`, `PurgeSound`) and per path through them
(`HandlePushSound`, `SyncRepoSound`).

`PassDiscipline` and `VisitedIsComplete` (`VisitedStaysComplete`) give
`PassCompletes` (`PassesComplete`).  What a pass has made complete must survive
the workers that commit while the pass goes on: their transactions began before or
after the visit, read HEAD and add to the row, and a row complete for the content
of HEAD stays so under each of them.

`BrokenIsPending` (`BrokenStaysPending`) gives `BrokenIsMarked`
(`BrokenGetsMarked`): as long as a malformed manifest is unmarked, a message that
has it looked at is on its way, a transaction is at it, or a message was missed
(never sent or given up) and no pass has looked at the project since.  The last is
not more than the code allows: GitHub does not redeliver, and only a pass makes up
for it.  The attempt to prove it without the exception of `BrokenUnseen` failed for a
good reason too: a manifest broken behind the marker stays unmarked when the marker
goes (section 3).

**`ContentStoreProofs`** (`ChunkingAssumption`, `StoreAssumption`): one invariant,
`StoreInv`, for all eight properties of `ContentStore`, over lemmas about the
operators of `Chunking`.

- The operators first.  `FlattenHoldsAll` (a flattened sequence has the members of
  its parts), `InOrderLists` (a finite set of numbers can be listed in order, by a
  least counterexample) and their like give that a file of any length is cut into
  chunks (`ChunksOfTypes`), with distinct keys, and that each paragraph has a chunk
  of its own under its heading (`ParagraphIsText`), which is `LossIsLocal`
  (`LossStaysLocal`).
- `StoreTypes`; `SecretsAreNeverStored` for `StoreIsClean`: rows come from the clean
  chunks of a file, summaries from the commits of the window in whose message and
  diff, as far as it is read, nothing is found, and what is found in the others is
  reported in the same step (`NextOrigin`); the past of the branch does not change
  (`NextGrows`).
- `NothingIsInvented` for `NothingInvented`, from `HeadWasPushed`: what is on the
  branch was pushed, and a file is synchronised from one read of it, be it another
  than its path says.
- `FindingsStay` for `FindingsAreKept`: an open transaction has seen all findings
  and resolutions (`SeesFindings`), those made after it began included, because a
  resolution reaches its snapshot too.
- `PassesAccountForAll`, `HistoryIsStored` and `QuietPassesAreFree`, for
  `PassAccountsForAll`, `RecentHistoryIsStored` and `QuietPassIsFree`.
  `QuietProgress` says how far a pass into which nothing was pushed has come: each
  file is to come or accounted for in the transaction, and under the marker all is
  purged.  `SettledIsStored` says that what a pass has settled is accounted for in
  the committed rows and in those of whatever transaction runs, and
  `SettledIsSeen` that a transaction which saw it settled, quiet since, runs while
  it is settled; `IsFree`, that such a pass has called no model, is an invariant only
  together with them.  That synchronising a file accounts for each
  of its chunks needs that their keys are distinct (`SyncAccounts`), that it
  disturbs no other file is `OthersStay`, and that it costs nothing if the file was
  accounted for is `SyncIsFree`.

**`DatabaseProofs`, locks** (`LocksAssumption`): `LocksAreOwned`,
`WaitingNeverReturns` and `AlignedManifestsNeverDeadlock` (`AlignedNeverFail`).
Among aligned manifests the project one waits for wants something later in the
common order (`InvClimbs`), because it holds what is wanted and so has gone past
it.  A climb inside a finite set comes to an end (`ClimbsEnd`, by the
well-foundedness of strict inclusion), so that no set of projects waits in a
circle, whatever its size.

**`ImpactAnalysisProofs`** (`ImpactAssumption`): `ImpactTypes`, `ImpactShortest`
and `PublicSeesPublic`.  The invariant `ImpactInv` says that after round k the
result
of the recursive query is the set of rows with a chain of their depth, up to k,
and the working table those of depth k.  What has to be shown is that the query
is right to stop early: if round k adds no row then no longer chain exists within
the bound, because a prefix of a chain is a chain (`ChainHasPrefixes`, which
replaces an induction).

**`QueryEngineProofs`** (`EngineAssumption`): `HonestGivingUp`,
`NoFallBackAfterErrors`, `FallbackDisclosed`, `CallsBounded`, and
`EngineImplementsContract`: every step of `QueryEngine` is a step of
`AnswerContract` or a stutter, a departing answer counting as none.  How much that
leaves out is `DeparturesOverstate`: an answer rests on evidence of its rating if and
only if it does not depart.  The invariant `EngineInv` says for each node what
the question's state and the connection's transaction may be when it is reached:
that only failed statements lie behind a retry, that a failed one never leaves
the transaction aborted, and that a search on the sql route follows an empty
result.

**`DatabaseProofs`, migrations** (`MigrationsAssumption`): `EffectsMatchRecords`,
`NoDeadlock` and `AllOrNothing`.  The invariant `MigrateInv` adds to the types and
to `AppliedOnce` that what an open run has applied nobody has recorded or applied
besides (`MineIsMine`, which the wait of `ApplyFile` keeps), and that every file of
its checkout is recorded, applied or still to apply, those applied first
(`RunsInOrder`).  The first gives `AppliedOnce`, the order gives the absence of
deadlock, the rest that a commit covers the checkout.  That a list has a first
file at all is the well-foundedness of the natural numbers (`MinIsLeast`).

**`DatabaseProofs`, composition**: a behaviour of `MCDatabase` is one of each of
`Migrations`, `TechnologyLocks` and `Retrieval`, because a step of one leaves the
variables of the others alone (`CompositionImplements`); the types of all three
follow (`DatabaseTypes` for `DatabaseTypeOK`), and so would any theorem of theirs.

**`RetrievalProofs`** (`RetrievalAssumption`): `ReadTypes` and `ReadsStayExact`
(`ReadsAreExact`).  What makes the searches hard is that each layer is cut at the
limit before the layers are merged, sorted and cut again, and that each statement
sees another store.  The proof names what a cut leaves: a `Selection` lacks an item
that meets the request only if as many as the limit come before it.  A statement
returns one (`SortedIsSelection`: distinct items of a finite set, listed in full,
are all of it); the layers have no item in common, so that selections one after the
other make one (`SelectionsAppend`); sorting and cutting leaves one
(`MergeIsSelection`, by counting: of as many items as the limit one has that place
or a later one); and a sorted selection within the limit is the best there is
(`SelectionIsExact`).  `WindowIsMeant` shows that the bounds of `parse_time_range`
hold exactly what is meant by each phrase, for any length of a day and number of days; `GroupedIsFull` that
the grouping of `list_projects` undoes its joins.  The invariant `ReadInv` says that
a search has such a selection of what met it so far, and that an answer is exact.

Induction is out of the prover's reach, and so are operators as parameters.  Where
an argument wants one (a set has a least member, a list can be flattened, a chain
has prefixes, a climb ends) it is made by a least counterexample, from the
well-foundedness of an ordering.

Only model-checked: liveness (`QueueDrains`, `Converges`, `EdgesResolve`,
`Answers`, `Ends`, `PushesEnd`), which is out of the prover's reach.  Every other
property of a passing run is proved.

## 6. What is not modelled

Marshalling (schemas, serialization, MCP generation, CLIs), the account lookup
and the links' statistics (one row each, nothing decided), the text of prompts
and answers, distances between embeddings, which strings the secret scanner
matches, HTTP and paging of the GitHub client, the webhook signature (one pure
comparison), infrastructure (declarations; the queue settings that matter are
constants).  The ingestion log is written and never read.

## 7. Plan

1. done - `IngestionPipeline`, `DependencyGraph`, `ImpactAnalysis`, `QueryEngine`
   with `AnswerContract`, and the proofs of section 5.
2. done - `Chunking` and `ContentStore`: chunks, hashes, scans, findings and their
   resolution, for documents, code and commits; layer routing of webhook and seed
   pass against each other.
3. done - `Migrations`, `TechnologyLocks`, `Retrieval`.
4. done - proofs of every safety invariant and action property that a passing run
   checks.
5. done - the abstract `Mirror` that `IngestionPipeline` implements, step by step,
   and what follows from it.
