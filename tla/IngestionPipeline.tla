------------------------- MODULE IngestionPipeline -------------------------
(***************************************************************************)
(* How a change on GitHub reaches PostgreSQL.                              *)
(*                                                                         *)
(*   GitHub --webhook--> API Lambda --SQS--> worker Lambdas --+            *)
(*   GitHub <--list and fetch-- scheduled seed sync ----------+--> Postgres *)
(*                                                                         *)
(* Workers and the seed sync run the same ingestion code, each repository  *)
(* in one transaction.  Nothing locks a repository explicitly: the first   *)
(* statement of every handler, the upsert of the projects row, holds that  *)
(* row's lock until the transaction ends, and what is fetched is whatever  *)
(* GitHub's HEAD holds at the time of the fetch, not what the event saw.   *)
(*                                                                         *)
(* A file's version is the number of the push that last wrote it, 0 where  *)
(* there is no such file; the rows derived from a file are represented by  *)
(* the version they were derived from.                                     *)
(***************************************************************************)
EXTENDS Naturals, FiniteSets

CONSTANTS
    Repos,        \* repositories of the account
    Files,        \* paths of a repository that some layer ingests
    Manifest,     \* the path project.yaml
    LayerOf,      \* the layer each path is routed to
    Malformed,    \* the versions of project.yaml that do not parse
    PushKinds,    \* what a push may do: files changed and removed, marker
    OtherEvents,  \* what else may happen: "branch", "repository", "release"
    Workers,      \* concurrent invocations of the worker Lambda
    Sync,         \* the seed sync, one process
    NoOne,        \* no process, no repository
    MaxReceives,  \* maxReceiveCount of the queue's redrive policy
    MaxCommits,   \* MAX_COMMITS_PER_REPO
    MaxEvents,    \* bound: webhook events GitHub sends
    MaxFaults     \* bound: crashes, lost webhooks, duplicate deliveries

Procs    == Workers \cup {Sync}
Events   == 1..MaxEvents
Versions == 0..MaxEvents
Layers   == {"documents", "code", "graph"}
Kinds    == {"none", "push", "repository", "release"}
Statuses == {"unsent", "posted", "lost", "queued", "inflight", "deleted", "dead"}
Labels   == {"idle", "start", "check", "fetch", "tree", "commit", "ack", "next"}

PushKind == [changed: SUBSET Files, removed: SUBSET Files,
             marker: {"keep", "add", "remove"}]

ASSUME PipelineAssumption ==
    /\ MaxEvents \in Nat /\ MaxFaults \in Nat /\ MaxCommits \in Nat
    /\ MaxReceives \in Nat \ {0}
    /\ LayerOf \in [Files -> Layers]
    /\ Manifest \in Files /\ LayerOf[Manifest] = "graph"
    /\ Malformed \subseteq Events
    /\ PushKinds \subseteq PushKind
    /\ OtherEvents \subseteq {"branch", "repository", "release"}
    /\ Sync \notin Workers
    /\ NoOne \notin Procs /\ NoOne \notin Repos

VARIABLES
    \* GitHub
    head,      \* head[r][f]: version of f on r's default branch
    marker,    \* marker[r]: version of .kb-exclude on r's default branch
    private,   \* private[r]: r's visibility setting
    last,      \* number of webhook events sent
    event,     \* event[e]: the e-th webhook payload
    \* SQS
    status,    \* status[e]: where event e is on its way to a worker
    receives,  \* receives[e]: approximate receive count of e's message
    \* PostgreSQL
    rows,      \* rows[r]: committed rows of project r, over all tables
    lock,      \* lock[r]: whose transaction holds the lock of r's projects row
    \* Ingesting processes
    pc,        \* pc[p]: the next step of p
    evt,       \* evt[p]: event p handles, 0 for none
    repo,      \* repo[p]: repository of p's transaction
    todo,      \* todo[p]: files p has still to fetch
    view,      \* view[p]: rows of repo[p] as p's transaction sees them
    listed,    \* listed[r]: r's visibility as the seed sync's listing has it
    left,      \* left: repositories the running seed sync has still to visit
    \* Environment
    faults     \* faults so far

github == <<head, marker, private, last, event>>
queue  == <<status, receives>>
db     == <<rows, lock>>
procs  == <<pc, evt, repo, todo, view>>
seed   == <<listed, left>>
vars   == <<github, queue, db, procs, seed, faults>>

EventRec == [kind: Kinds, repo: Repos \cup {NoOne}, onDefault: BOOLEAN,
             private: BOOLEAN, files: SUBSET Files]

NoEvent == [kind |-> "none", repo |-> NoOne, onDefault |-> FALSE,
            private |-> TRUE, files |-> {}]

\* known: there is a projects row; missing: manifest_missing; content[f]:
\* version of f in the table of its layer (documents, code_chunks, or the graph
\* tables); static[f]: version of code file f in the graph tables; tagged: there
\* are project_technologies rows; commits: L4 rows; log: pushes an ingestion_log
\* row records; purged: marker version the latest exclusion purge acted on.
Row == [known: BOOLEAN, private: BOOLEAN, missing: BOOLEAN,
        content: [Files -> Versions], static: [Files -> Versions], tagged: BOOLEAN,
        commits: SUBSET Events, log: SUBSET Events, purged: Versions]

NoRow == [known |-> FALSE, private |-> TRUE, missing |-> TRUE,
          content |-> [f \in Files |-> 0], static |-> [f \in Files |-> 0],
          tagged |-> FALSE,
          commits |-> {}, log |-> {}, purged |-> 0]

TypeOK ==
    /\ head \in [Repos -> [Files -> Versions]]
    /\ marker \in [Repos -> Versions]
    /\ private \in [Repos -> BOOLEAN]
    /\ last \in Versions
    /\ event \in [Events -> EventRec]
    /\ status \in [Events -> Statuses]
    /\ receives \in [Events -> 0..MaxReceives]
    /\ rows \in [Repos -> Row]
    /\ lock \in [Repos -> Procs \cup {NoOne}]
    /\ pc \in [Procs -> Labels]
    /\ evt \in [Procs -> Versions]
    /\ repo \in [Procs -> Repos \cup {NoOne}]
    /\ todo \in [Procs -> SUBSET Files]
    /\ view \in [Procs -> Row]
    /\ listed \in [Repos -> BOOLEAN]
    /\ left \in SUBSET Repos
    /\ faults \in 0..MaxFaults

Init ==
    /\ head = [r \in Repos |-> [f \in Files |-> 0]]
    /\ marker = [r \in Repos |-> 0]
    /\ private \in [Repos -> BOOLEAN]
    /\ last = 0
    /\ event = [e \in Events |-> NoEvent]
    /\ status = [e \in Events |-> "unsent"]
    /\ receives = [e \in Events |-> 0]
    /\ rows = [r \in Repos |-> NoRow]
    /\ lock = [r \in Repos |-> NoOne]
    /\ pc = [p \in Procs |-> "idle"]
    /\ evt = [p \in Procs |-> 0]
    /\ repo = [p \in Procs |-> NoOne]
    /\ todo = [p \in Procs |-> {}]
    /\ view = [p \in Procs |-> NoRow]
    /\ listed = [r \in Repos |-> TRUE]
    /\ left = {}
    /\ faults = 0

-----------------------------------------------------------------------------
(* GitHub: pushes, visibility changes and releases, each of which sends a  *)
(* webhook; the payload carries the visibility at the time it is sent.      *)

Post(r, kind, onDefault, visibility, files) ==
    /\ last < MaxEvents
    /\ last' = last + 1
    /\ event' = [event EXCEPT ![last + 1] =
                    [kind |-> kind, repo |-> r, onDefault |-> onDefault,
                     private |-> visibility, files |-> files]]
    /\ status' = [status EXCEPT ![last + 1] = "posted"]
    /\ UNCHANGED <<receives, db, procs, seed, faults>>

HeadAfter(h, k) ==
    [f \in Files |-> IF f \in k.changed THEN last + 1
                     ELSE IF f \in k.removed THEN 0 ELSE h[f]]

MarkerAfter(m, k) ==
    CASE k.marker = "keep"   -> m
      [] k.marker = "add"    -> last + 1
      [] k.marker = "remove" -> 0

Push(r, k) ==
    /\ Post(r, "push", TRUE, private[r], k.changed)
    /\ head' = [head EXCEPT ![r] = HeadAfter(@, k)]
    /\ marker' = [marker EXCEPT ![r] = MarkerAfter(@, k)]
    /\ UNCHANGED private

\* A push to a branch other than the default one.
PushBranch(r, k) ==
    /\ "branch" \in OtherEvents
    /\ Post(r, "push", FALSE, private[r], k.changed)
    /\ UNCHANGED <<head, marker, private>>

ChangeVisibility(r) ==
    /\ "repository" \in OtherEvents
    /\ Post(r, "repository", FALSE, ~private[r], {})
    /\ private' = [private EXCEPT ![r] = ~@]
    /\ UNCHANGED <<head, marker>>

Release(r) ==
    /\ "release" \in OtherEvents
    /\ Post(r, "release", FALSE, private[r], {})
    /\ UNCHANGED <<head, marker, private>>

-----------------------------------------------------------------------------
(* The webhook endpoint and the queue.                                     *)

\* The endpoint accepts the event and hands it to the queue.
Enqueue(e) ==
    /\ status[e] = "posted"
    /\ status' = [status EXCEPT ![e] = "queued"]
    /\ UNCHANGED <<github, receives, db, procs, seed, faults>>

\* The endpoint or its send to the queue fails; GitHub does not repeat it.
LoseWebhook(e) ==
    /\ faults < MaxFaults
    /\ status[e] = "posted"
    /\ status' = [status EXCEPT ![e] = "lost"]
    /\ faults' = faults + 1
    /\ UNCHANGED <<github, receives, db, procs, seed>>

\* MUTANT of Receive: there is no redrive policy.
ReceiveForever(w, e) ==
    /\ status[e] = "queued" /\ pc[w] = "idle"
    /\ status' = [status EXCEPT ![e] = "inflight"]
    /\ receives' = [receives EXCEPT ![e] = @ + 1]
    /\ pc' = [pc EXCEPT ![w] = "start"]
    /\ evt' = [evt EXCEPT ![w] = e]
    /\ UNCHANGED <<github, db, repo, todo, view, seed, faults>>

\* The queue invokes a worker with one message (batch_size 1), any of them.
Receive(w, e) ==
    /\ status[e] = "queued" /\ receives[e] < MaxReceives
    /\ pc[w] = "idle"
    /\ status' = [status EXCEPT ![e] = "inflight"]
    /\ receives' = [receives EXCEPT ![e] = @ + 1]
    /\ pc' = [pc EXCEPT ![w] = "start"]
    /\ evt' = [evt EXCEPT ![w] = e]
    /\ UNCHANGED <<github, db, repo, todo, view, seed, faults>>

\* The visibility timeout outlasts the Lambda timeout, so a message becomes
\* visible again only once its worker is gone.
VisibilityTimeout(e) ==
    /\ status[e] = "inflight"
    /\ \A w \in Workers : evt[w] # e
    /\ status' = [status EXCEPT ![e] = "queued"]
    /\ UNCHANGED <<github, receives, db, procs, seed, faults>>

\* A standard queue delivers at least once: now and then one message twice.
DuplicateDelivery(e) ==
    /\ faults < MaxFaults
    /\ status[e] = "inflight"
    /\ status' = [status EXCEPT ![e] = "queued"]
    /\ faults' = faults + 1
    /\ UNCHANGED <<github, receives, db, procs, seed>>

\* MUTANT of Redrive: it counts one receive more than Receive does.
RedriveOneMore(e) ==
    /\ status[e] = "queued" /\ receives[e] > MaxReceives
    /\ status' = [status EXCEPT ![e] = "dead"]
    /\ UNCHANGED <<github, receives, db, procs, seed, faults>>

\* The redrive policy moves a message received too often to the dead letters.
Redrive(e) ==
    /\ status[e] = "queued" /\ receives[e] = MaxReceives
    /\ status' = [status EXCEPT ![e] = "dead"]
    /\ UNCHANGED <<github, receives, db, procs, seed, faults>>

-----------------------------------------------------------------------------
(* One transaction of either process on one repository.                    *)

\* MUTANT of Upserted: ON CONFLICT does not touch is_private.
UpsertedOnce(row, visibility) ==
    [row EXCEPT !.known = TRUE, !.private = IF row.known THEN @ ELSE visibility]

Upserted(row, visibility) == [row EXCEPT !.known = TRUE, !.private = visibility]

\* MUTANT of Begin: the upsert commits on its own and releases the lock.
BeginUnlocked(p, r, visibility, next) ==
    /\ lock' = [lock EXCEPT ![r] = p]
    /\ repo' = [repo EXCEPT ![p] = r]
    /\ view' = [view EXCEPT ![p] = Upserted(rows[r], visibility)]
    /\ pc' = [pc EXCEPT ![p] = next]

\* upsert_project: waits for the projects row's lock, then holds it.
Begin(p, r, visibility, next) ==
    /\ lock[r] = NoOne
    /\ lock' = [lock EXCEPT ![r] = p]
    /\ repo' = [repo EXCEPT ![p] = r]
    /\ view' = [view EXCEPT ![p] = Upserted(rows[r], visibility)]
    /\ pc' = [pc EXCEPT ![p] = next]

\* purge_project_data: five tables, project_technologies is not among them; then
\* the log row, which for a worker names the push.
Purge(row, mark, pushes) ==
    [row EXCEPT !.content = [f \in Files |-> 0], !.static = [f \in Files |-> 0],
                !.commits = {}, !.purged = mark, !.log = @ \cup pushes]

\* What a webhook push refreshes: the changed files and, if any of them feeds
\* the graph, the manifest.
PushFiles(e) ==
    LET changed == event[e].files
    IN  changed \cup {f \in {Manifest} : \E g \in changed : LayerOf[g] = "graph"}

\* MUTANT of SeedDocuments: the manifest is left to the webhooks.
SeedDocumentsOnly(r) ==
    {f \in Files : LayerOf[f] = "documents" /\ head[r][f] # 0}

\* What the seed sync refreshes before it lists the tree.
SeedDocuments(r) ==
    {f \in Files : LayerOf[f] = "documents" /\ head[r][f] # 0} \cup {Manifest}

\* MUTANT of CheckExclusion: a marker already acted on is not looked at again.
CheckExclusionOnce(p) ==
    /\ pc[p] = "check"
    /\ LET r == repo[p] IN
       IF marker[r] \notin {0, view[p].purged}
       THEN /\ view' = [view EXCEPT ![p] =
                    Purge(@, marker[r], IF p = Sync THEN {} ELSE {evt[p]})]
            /\ pc' = [pc EXCEPT ![p] = "commit"]
            /\ UNCHANGED todo
       ELSE /\ todo' = [todo EXCEPT ![p] =
                    IF p = Sync THEN SeedDocuments(r) ELSE PushFiles(evt[p])]
            /\ pc' = [pc EXCEPT ![p] = "fetch"]
            /\ UNCHANGED view
    /\ UNCHANGED <<github, queue, db, evt, repo, seed, faults>>

CheckExclusion(p) ==
    /\ pc[p] = "check"
    /\ LET r == repo[p] IN
       \/ /\ marker[r] # 0
          /\ view' = [view EXCEPT ![p] =
                Purge(@, marker[r], IF p = Sync THEN {} ELSE {evt[p]})]
          /\ pc' = [pc EXCEPT ![p] = "commit"]
          /\ UNCHANGED todo
       \/ /\ marker[r] = 0
          /\ todo' = [todo EXCEPT ![p] =
                IF p = Sync THEN SeedDocuments(r) ELSE PushFiles(evt[p])]
          /\ pc' = [pc EXCEPT ![p] = "fetch"]
          /\ UNCHANGED view
    /\ UNCHANGED <<github, queue, db, evt, repo, seed, faults>>

\* Documents first, then code, the manifest, and the other graph files; the
\* seed sync takes code and package files together, in tree order.
Rank(p, f) ==
    CASE LayerOf[f] = "documents"             -> 1
      [] LayerOf[f] = "code" /\ p \in Workers -> 2
      [] f = Manifest                         -> 3
      [] OTHER                                -> 4

\* The rows after p has synchronised file f at version n: an absent file leaves
\* its rows alone, an absent or malformed manifest is flagged, and only the seed
\* sync runs the static analysis over a code file.
Synced(p, row, f, n) ==
    CASE f = Manifest /\ n \in Malformed \cup {0} ->
            [row EXCEPT !.missing = TRUE]
      [] f = Manifest /\ n \notin Malformed \cup {0} ->
            [row EXCEPT !.content[f] = n, !.missing = FALSE, !.tagged = TRUE]
      [] f # Manifest /\ n = 0 -> row
      [] f # Manifest /\ n # 0 ->
            [row EXCEPT !.content[f] = n,
                        !.static[f] = IF p = Sync /\ LayerOf[f] = "code" THEN n ELSE @]

Fetch(p, f) ==
    /\ pc[p] \in {"fetch", "tree"}
    /\ f \in todo[p]
    /\ \A g \in todo[p] : Rank(p, f) <= Rank(p, g)
    /\ todo' = [todo EXCEPT ![p] = @ \ {f}]
    /\ view' = [view EXCEPT ![p] = Synced(p, @, f, head[repo[p]][f])]
    /\ UNCHANGED <<github, queue, db, pc, evt, repo, seed, faults>>

\* MUTANT of CommitTo: the transaction stays open after it has written.
CommitKeepsLock(p, next) ==
    /\ pc[p] = "commit"
    /\ rows' = [rows EXCEPT ![repo[p]] = view[p]]
    /\ repo' = [repo EXCEPT ![p] = NoOne]
    /\ view' = [view EXCEPT ![p] = NoRow]
    /\ pc' = [pc EXCEPT ![p] = next]
    /\ UNCHANGED <<github, queue, lock, evt, todo, seed, faults>>

\* conn.commit(): the rows become visible and the lock is released.
CommitTo(p, next) ==
    /\ pc[p] = "commit"
    /\ rows' = [rows EXCEPT ![repo[p]] = view[p]]
    /\ lock' = [lock EXCEPT ![repo[p]] = NoOne]
    /\ repo' = [repo EXCEPT ![p] = NoOne]
    /\ view' = [view EXCEPT ![p] = NoRow]
    /\ pc' = [pc EXCEPT ![p] = next]
    /\ UNCHANGED <<github, queue, evt, todo, seed, faults>>

\* MUTANT of Fail: the handler swallows the exception and returns.
FailSwallowed(p) ==
    /\ faults < MaxFaults
    /\ pc[p] # "idle"
    /\ lock' = [r \in Repos |-> IF lock[r] = p THEN NoOne ELSE lock[r]]
    /\ pc' = [pc EXCEPT ![p] = IF p = Sync THEN "idle" ELSE "ack"]
    /\ repo' = [repo EXCEPT ![p] = NoOne]
    /\ todo' = [todo EXCEPT ![p] = {}]
    /\ view' = [view EXCEPT ![p] = NoRow]
    /\ faults' = faults + 1
    /\ UNCHANGED <<github, queue, rows, evt>>

\* The process dies or an exception escapes: the transaction is rolled back.
Fail(p) ==
    /\ faults < MaxFaults
    /\ pc[p] # "idle"
    /\ lock' = [r \in Repos |-> IF lock[r] = p THEN NoOne ELSE lock[r]]
    /\ pc' = [pc EXCEPT ![p] = "idle"]
    /\ evt' = [evt EXCEPT ![p] = 0]
    /\ repo' = [repo EXCEPT ![p] = NoOne]
    /\ todo' = [todo EXCEPT ![p] = {}]
    /\ view' = [view EXCEPT ![p] = NoRow]
    /\ faults' = faults + 1
    /\ UNCHANGED <<github, queue, rows>>

-----------------------------------------------------------------------------
(* A worker handling one message: process_event and its three handlers.    *)

\* MUTANT of OffDefault: a push that changes no ingested file is ignored too.
OffDefaultOrIdle(e) ==
    event[e].kind = "push" /\ (event[e].onDefault => event[e].files = {})

OffDefault(e) == event[e].kind = "push" /\ ~event[e].onDefault

\* A push to another branch returns before it touches the database.
Ignore(w) ==
    /\ pc[w] = "start" /\ OffDefault(evt[w])
    /\ pc' = [pc EXCEPT ![w] = "ack"]
    /\ UNCHANGED <<github, queue, db, evt, repo, todo, view, seed, faults>>

\* Every other event first upserts the project from its payload; repository
\* and release events commit right after.
Upsert(w) ==
    /\ pc[w] = "start" /\ ~OffDefault(evt[w])
    /\ LET e == event[evt[w]] IN
       Begin(w, e.repo, e.private, IF e.kind = "push" THEN "check" ELSE "commit")
    /\ UNCHANGED <<github, queue, rows, evt, todo, seed, faults>>

TouchesCode(e) == \E f \in event[e].files : LayerOf[f] = "code"

\* The push's commit if it touches code, then the log row.
Landed(row, e) ==
    [row EXCEPT !.commits = @ \cup {d \in {e} : TouchesCode(d)}, !.log = @ \cup {e}]

SyncPushCommit(w) ==
    /\ pc[w] = "fetch" /\ todo[w] = {}
    /\ view' = [view EXCEPT ![w] = Landed(@, evt[w])]
    /\ pc' = [pc EXCEPT ![w] = "commit"]
    /\ UNCHANGED <<github, queue, db, evt, repo, todo, seed, faults>>

Commit(w) == CommitTo(w, "ack")

\* The handler returns and the queue deletes the message, if it still has it.
Ack(w) ==
    /\ pc[w] = "ack"
    /\ status' = [status EXCEPT ![evt[w]] =
                     IF @ \in {"inflight", "queued"} THEN "deleted" ELSE @]
    /\ pc' = [pc EXCEPT ![w] = "idle"]
    /\ evt' = [evt EXCEPT ![w] = 0]
    /\ UNCHANGED <<github, receives, db, repo, todo, view, seed, faults>>

Crash(w) == Fail(w) /\ UNCHANGED seed

-----------------------------------------------------------------------------
(* The seed sync: one run over a listing of the account's repositories.    *)

StartSync ==
    /\ pc[Sync] = "idle"
    /\ listed' = private
    /\ left' = Repos
    /\ pc' = [pc EXCEPT ![Sync] = "next"]
    /\ UNCHANGED <<github, queue, db, evt, repo, todo, view, faults>>

SyncUpsert(r) ==
    /\ pc[Sync] = "next" /\ r \in left
    /\ Begin(Sync, r, listed[r], "check")
    /\ left' = left \ {r}
    /\ UNCHANGED <<github, queue, rows, evt, todo, listed, faults>>

\* list_all_files: the code and package files on HEAD at this moment.
ListTree ==
    /\ pc[Sync] = "fetch" /\ todo[Sync] = {}
    /\ todo' = [todo EXCEPT ![Sync] =
                   {f \in Files \ {Manifest} : /\ LayerOf[f] # "documents"
                                               /\ head[repo[Sync]][f] # 0}]
    /\ pc' = [pc EXCEPT ![Sync] = "tree"]
    /\ UNCHANGED <<github, queue, db, evt, repo, view, seed, faults>>

\* list_commits: the newest MaxCommits commits of the default branch.
Pushes(r) ==
    {e \in Events : event[e].kind = "push" /\ event[e].onDefault /\ event[e].repo = r}

RecentCommits(r) ==
    {e \in Pushes(r) : Cardinality({d \in Pushes(r) : d > e}) < MaxCommits}

WithCommits(row, commits) == [row EXCEPT !.commits = @ \cup commits]

SyncCommits ==
    /\ pc[Sync] = "tree" /\ todo[Sync] = {}
    /\ view' = [view EXCEPT ![Sync] = WithCommits(@, RecentCommits(repo[Sync]))]
    /\ pc' = [pc EXCEPT ![Sync] = "commit"]
    /\ UNCHANGED <<github, queue, db, evt, repo, todo, seed, faults>>

CommitSync == CommitTo(Sync, "next")

FinishSync ==
    /\ pc[Sync] = "next" /\ left = {}
    /\ listed' = [r \in Repos |-> TRUE]
    /\ pc' = [pc EXCEPT ![Sync] = "idle"]
    /\ UNCHANGED <<github, queue, db, evt, repo, todo, view, left, faults>>

\* One repository failing ends the whole run.
CrashSync ==
    /\ Fail(Sync)
    /\ listed' = [r \in Repos |-> TRUE]
    /\ left' = {}

-----------------------------------------------------------------------------
GitHubStep ==
    \E r \in Repos :
        \/ \E k \in PushKinds : Push(r, k) \/ PushBranch(r, k)
        \/ ChangeVisibility(r)
        \/ Release(r)

QueueStep ==
    \E e \in Events :
        \/ Enqueue(e) \/ LoseWebhook(e)
        \/ VisibilityTimeout(e) \/ DuplicateDelivery(e) \/ Redrive(e)
        \/ \E w \in Workers : Receive(w, e)

WorkerStep(w) ==
    \/ Ignore(w) \/ Upsert(w) \/ CheckExclusion(w)
    \/ \E f \in Files : Fetch(w, f)
    \/ SyncPushCommit(w) \/ Commit(w) \/ Ack(w) \/ Crash(w)

SyncStep ==
    \/ StartSync \/ CheckExclusion(Sync)
    \/ \E r \in Repos : SyncUpsert(r)
    \/ \E f \in Files : Fetch(Sync, f)
    \/ ListTree \/ SyncCommits \/ CommitSync \/ FinishSync \/ CrashSync

Next == GitHubStep \/ QueueStep \/ (\E w \in Workers : WorkerStep(w)) \/ SyncStep

Spec == Init /\ [][Next]_vars

(***************************************************************************)
(* Fairness: the queue keeps delivering and moves what it may not deliver  *)
(* any more; a running process takes its next step; a scheduled sync       *)
(* starts.  Weak fairness is enough except for the two steps that compete  *)
(* for something other processes take again and again: PostgreSQL serves   *)
(* the waiters of a row lock in the order they came, and the queue retries *)
(* a message until some worker is free.  GitHub owes nobody a push, and no *)
(* fault has to happen.                                                    *)
(***************************************************************************)
WorkerMoves(w) ==
    \/ Ignore(w) \/ CheckExclusion(w) \/ SyncPushCommit(w) \/ Commit(w) \/ Ack(w)
    \/ \E f \in Files : Fetch(w, f)

SyncMoves ==
    \/ StartSync \/ CheckExclusion(Sync) \/ ListTree \/ SyncCommits
    \/ CommitSync \/ FinishSync
    \/ \E f \in Files : Fetch(Sync, f)

Fairness ==
    /\ \A e \in Events :
          /\ WF_vars(Enqueue(e)) /\ WF_vars(VisibilityTimeout(e)) /\ WF_vars(Redrive(e))
          /\ SF_vars(\E w \in Workers : Receive(w, e))
    /\ \A w \in Workers : WF_vars(WorkerMoves(w)) /\ SF_vars(Upsert(w))
    /\ WF_vars(SyncMoves)
    /\ \A r \in Repos : SF_vars(SyncUpsert(r))

FairSpec == Spec /\ Fairness

-----------------------------------------------------------------------------
(* Safety.                                                                 *)

\* Row row reflects version v of file f: the rows of f are at v (a malformed
\* manifest leaves its flag instead), or an exclusion purge emptied them.
Reflects(row, f, v) ==
    \/ f = Manifest /\ v \in Malformed /\ row.missing
    \/ row.content[f] = v /\ (f = Manifest => ~row.missing)
    \/ row.content[f] = 0 /\ row.purged # 0

\* Once the push that last wrote a file has been acknowledged to the queue, the
\* committed rows reflect that very version, whatever other worker or seed sync
\* ran before, after or at the same time, crashed or was given the event twice.
NoLostUpdate ==
    \A r \in Repos, f \in Files :
        LET v == head[r][f]
        IN  v # 0 /\ status[v] = "deleted" => Reflects(rows[r], f, v)

\* A push to the default branch leaves the queue for good only after the
\* transaction that handled it has committed, so no crash between the steps of
\* the handler forgets it.
AcknowledgedIsRecorded ==
    \A e \in Events :
        status[e] = "deleted" /\ event[e].kind = "push" /\ event[e].onDefault
            => e \in rows[event[e].repo].log

\* A repository whose marker has been acted on holds no content while that
\* marker stands: no worker or sync that looked for the marker before it was
\* pushed brings content back.
PurgedStaysEmpty ==
    \A r \in Repos :
        marker[r] # 0 /\ rows[r].purged = marker[r]
            => /\ \A f \in Files : rows[r].content[f] = 0 /\ rows[r].static[f] = 0
               /\ rows[r].commits = {}

\* Once the push that added the marker has been acknowledged, the repository
\* has been purged for that marker.
MarkerHonoured ==
    \A r \in Repos :
        marker[r] # 0 /\ status[marker[r]] = "deleted"
            => rows[r].purged = marker[r]

\* The rows of a file never go back to an older version of it, in whatever order
\* the events about it are delivered and repeated.
NeverBackwards ==
    [][\A r \in Repos, f \in Files :
          /\ rows'[r].content[f] \in {0} \cup (rows[r].content[f]..MaxEvents)
          /\ rows'[r].static[f] \in {0} \cup (rows[r].static[f]..MaxEvents)]_vars

-----------------------------------------------------------------------------
(* What all of it promises: the database mirrors GitHub (module Mirror).   *)

History(r) == {[number |-> e, files |-> event[e].files] : e \in Pushes(r)}

Mirrored(row) ==
    [content |-> row.content, static |-> row.static, commits |-> row.commits,
     log |-> row.log, purged |-> row.purged]

Acknowledged ==
    {e \in Events : status[e] = "deleted" /\ event[e].kind = "push" /\ event[e].onDefault}

Promise == INSTANCE Mirror
    WITH history      <- [r \in Repos |-> History(r)],
         mirror       <- [r \in Repos |-> Mirrored(rows[r])],
         acknowledged <- Acknowledged

\* However workers and seed sync interleave, crash and repeat, a reader of the
\* database sees whole handlers only, one at a time, each of which takes the files
\* of its repository forward and records no push that has not arrived in them.
ImplementsMirror == Promise!Spec

-----------------------------------------------------------------------------
(* Why it is correct: the parts of an inductive invariant.                 *)

InTransaction(p) == pc[p] \in {"check", "fetch", "tree", "commit"}

IsPush(e) == event[e].kind = "push" /\ event[e].onDefault

\* Only sent events travel and are handled, and each is about a repository.
WellFormed ==
    /\ \A e \in Events : status[e] # "unsent" => e <= last /\ event[e].repo \in Repos
    /\ \A e \in Events : e > last => status[e] = "unsent"
    /\ \A w \in Workers :
          /\ pc[w] \notin {"tree", "next"}
          /\ pc[w] # "idle" => evt[w] \in Events /\ status[evt[w]] # "unsent"
    /\ \A p \in Procs : InTransaction(p) => repo[p] \in Repos
    /\ pc[Sync] \notin {"start", "ack"}

\* The lock of a projects row is held by exactly the transaction on it.
LockDiscipline ==
    /\ \A p \in Procs : InTransaction(p) => lock[repo[p]] = p
    /\ \A r \in Repos : lock[r] # NoOne => InTransaction(lock[r]) /\ repo[lock[r]] = r

\* A version in a head is the number of the push that wrote the file there.
HeadsAreWritten ==
    \A r \in Repos, f \in Files :
        head[r][f] # 0 => /\ head[r][f] <= last /\ IsPush(head[r][f])
                          /\ event[head[r][f]].repo = r
                          /\ f \in event[head[r][f]].files

\* Logs name sent events; a transaction sees the log it will extend.
LogsGrow ==
    /\ \A r \in Repos : rows[r].log \subseteq 1..last
    /\ \A p \in Procs : InTransaction(p) =>
          /\ view[p].log \subseteq 1..last
          /\ rows[repo[p]].log \subseteq view[p].log

Recorded(e) == IsPush(e) => e \in rows[event[e].repo].log

\* What a worker has reached: it handles its event in the event's repository,
\* and before it acknowledges the event it has recorded it.
HandlersProgress ==
    /\ \A w \in Workers :
          /\ InTransaction(w) => repo[w] = event[evt[w]].repo
          /\ pc[w] \in {"check", "fetch"} => IsPush(evt[w])
          /\ pc[w] = "commit" /\ IsPush(evt[w]) => evt[w] \in view[w].log
          /\ pc[w] = "ack" => Recorded(evt[w])
    /\ \A e \in Events : status[e] = "deleted" => Recorded(e)

\* A logged push is reflected wherever it still is the last to have written, and
\* so is the push a worker is handling, in the files it has fetched.
LoggedIsReflected ==
    /\ \A r \in Repos, f \in Files :
          head[r][f] \in rows[r].log => Reflects(rows[r], f, head[r][f])
    /\ \A p \in Procs, f \in Files :
          InTransaction(p) /\ head[repo[p]][f] \in view[p].log
              => Reflects(view[p], f, head[repo[p]][f])
    /\ \A w \in Workers, f \in Files :
          pc[w] = "fetch" /\ f \notin todo[w] /\ head[repo[w]][f] = evt[w]
              => Reflects(view[w], f, evt[w])

\* The inductive invariant behind NoLostUpdate: the lock serialises the
\* transactions of a repository, and each leaves every logged push reflected.
NothingForgotten ==
    /\ WellFormed /\ LockDiscipline /\ HeadsAreWritten
    /\ LogsGrow /\ HandlersProgress /\ LoggedIsReflected

\* A row of r is honest about r: what it has of a file is no newer than the push
\* that last wrote the file, it has been purged for the marker if it logs the push
\* that set it, and it holds nothing if so.
Honest(row, r) ==
    /\ row.purged <= last
    /\ \A f \in Files : \A n \in {row.content[f], row.static[f]} :
          n <= last /\ (head[r][f] # 0 => n <= head[r][f])
    /\ marker[r] # 0 =>
          /\ marker[r] \in row.log => row.purged = marker[r]
          /\ row.purged = marker[r] =>
                /\ \A f \in Files : row.content[f] = 0 /\ row.static[f] = 0
                /\ row.commits = {}

\* What row has of a file, if anything, is at least what old has.
NoOlder(row, old) ==
    \A f \in Files : /\ row.content[f] # 0 => old.content[f] <= row.content[f]
                     /\ row.static[f] # 0 => old.static[f] <= row.static[f]

\* The inductive invariant behind the exclusion properties and NeverBackwards:
\* a transaction that fetches has found no marker, so that a marker standing by
\* then is newer than all it has logged and purged.
RowsAreHonest ==
    /\ \A r \in Repos : marker[r] # 0 => /\ marker[r] <= last /\ IsPush(marker[r])
                                        /\ event[marker[r]].repo = r
    /\ \A r \in Repos : Honest(rows[r], r)
    /\ \A p \in Procs : InTransaction(p) =>
          Honest(view[p], repo[p]) /\ NoOlder(view[p], rows[repo[p]])
    /\ \A p \in Procs : pc[p] \in {"fetch", "tree"} /\ marker[repo[p]] # 0 =>
          view[p].purged # marker[repo[p]] /\ (p \in Workers => evt[p] # marker[repo[p]])

-----------------------------------------------------------------------------
(* Liveness.                                                               *)

\* Every event the endpoint has accepted is in the end handled or dead-lettered,
\* even though workers crash and compete with a seed sync for the same rows.
QueueDrains ==
    \A e \in Events :
        status[e] = "queued" ~> status[e] \in {"deleted", "dead"}

\* What the database should say of r once everything has settled.
UpToDate(r) ==
    /\ rows[r].known /\ rows[r].private = private[r]
    /\ IF marker[r] # 0
       THEN \A f \in Files : rows[r].content[f] = 0
       ELSE /\ \A f \in Files :
                  head[r][f] \notin {0} \cup Malformed => rows[r].content[f] = head[r][f]
            /\ rows[r].missing = (head[r][Manifest] \in {0} \cup Malformed)

\* Whatever was lost, dead-lettered, delivered late or out of order, the seed
\* sync repairs: once GitHub is quiet the database comes to agree with it on
\* visibility, exclusion, manifest and every file that exists, and stays so.
Converges == <>[](\A r \in Repos : UpToDate(r))

-----------------------------------------------------------------------------
(* What the repository's comments and tests say and the code does not do.  *)

\* exclusion.py: "excluded content stops existing here".
ExcludedLeavesNothing ==
    \A r \in Repos :
        marker[r] # 0 /\ rows[r].purged = marker[r] => ~rows[r].tagged

\* repo_sync.py: webhook-driven sync "can't drift" from the seed sync "for the
\* same file types": once the push that last wrote a code file has been handled,
\* the rows derived from the file are all of the same version.
SameForSameFile ==
    \A r \in Repos, f \in Files :
        LET v == head[r][f]
        IN  /\ v # 0 /\ LayerOf[f] = "code"
            /\ status[v] = "deleted" /\ rows[r].content[f] = v
            => rows[r].static[f] = v
=============================================================================
