---------------------------- MODULE ContentStore ----------------------------
(***************************************************************************)
(* What the store holds of one repository's documents (L1), code (L2) and  *)
(* commits (L4), chunk by chunk, and what the secret scanner kept out.     *)
(*                                                                         *)
(* Pushes change the branch while webhook events about earlier pushes wait *)
(* and seed passes run.  Transactions on one repository are serial: the    *)
(* first statement of each takes the lock of the projects row (module      *)
(* IngestionPipeline has that lock, the queue and the crashes in full), so *)
(* there is one of them at a time here, and those that wait for the lock   *)
(* have done nothing yet.  Inside it a file is read from HEAD when its     *)
(* turn comes.  One push is one commit.                                    *)
(***************************************************************************)
EXTENDS Chunking

CONSTANTS
    Paths,       \* paths of the repository
    Readme,      \* the path README.md
    Preferred,   \* Preferred[S]: which of the READMEs S GitHub takes for the repository's
    Marker,      \* the path .kb-exclude
    Absent,      \* the content of a path where there is no file
    FirstPush,   \* the push that is there before webhooks are installed
    PushKinds,   \* what a push may do: functions from paths to new contents
    Messages,    \* Messages[k]: the message of the commit of a push of kind k
    Beyond,      \* Beyond[k]: the lines of its diff beyond MAX_DIFF_CHARS only
    MaxCommits,  \* MAX_COMMITS_PER_REPO
    MaxTree,     \* entries of the longest tree listing that GitHub does not truncate
    MaxPushes    \* bound: pushes to the default branch, the first included

Pushes == 1..MaxPushes

ASSUME StoreAssumption ==
    /\ Paths \subseteq Path
    /\ Marker \in Paths /\ Readme \in Paths
    /\ IsReadme(Readme) /\ ~IsCandidateCodeFile(Readme) /\ ~IsListedDocument(Readme)
    /\ \A S \in SUBSET {p \in Paths : IsReadme(p)} : S # {} => Preferred[S] \in S
    /\ Absent \notin Content
    /\ \A k \in PushKinds \cup {FirstPush} :
          /\ DOMAIN k \subseteq Paths /\ k \in [DOMAIN k -> Content \cup {Absent}]
          /\ \A p \in DOMAIN k : k[p] # Absent => HasDistinctKeys(k[p])
    /\ Messages \in [PushKinds \cup {FirstPush} -> Lines]
    /\ Beyond \in [PushKinds \cup {FirstPush} -> SUBSET Lines]
    /\ MaxCommits \in Nat /\ MaxTree \in Nat /\ MaxPushes \in Nat \ {0}

VARIABLES
    head,     \* head[p]: content of p on the default branch
    history,  \* history[n]: the n-th push, its files before and after
    pending,  \* pushes whose webhook event is still to be handled
    db,       \* the committed rows of the repository
    txn,      \* the transaction that holds the projects row, if any
    settled   \* no push since a seed pass began that listed everything and has committed

vars == <<head, history, pending, db, txn, settled>>

\* A push, with the files it touches before and after it.
IsPush(h) == \E k \in PushKinds \cup {FirstPush} :
                h \in [before: [DOMAIN k -> Content \cup {Absent}], after: {k}]

\* A row of documents or code_chunks; it is embedded from the very text it holds.
Row == [path: Paths, key: Seq(Symbols) \X Nat, text: Seq(Lines)]

\* A commit of which something is flagged is stored without summary and
\* embedding, but with its message.
CommitRow == [sha: Pushes, message: Lines, summarized: BOOLEAN]

\* A finding is recorded for a file or for a commit.
Finding == ({"file"} \X Paths \X Rules) \cup ({"commit"} \X Pushes \X Rules)

Database == [rows: SUBSET Row, commits: SUBSET CommitRow,
             findings: SUBSET Finding, resolved: SUBSET Finding]

EmptyDatabase == [rows |-> {}, commits |-> {}, findings |-> {}, resolved |-> {}]

\* calls counts the calls of the embedding and language models; quiet says that
\* nothing was pushed since it began and no listing was truncated, fresh that the
\* store was settled then.
Txn == [kind: {"none", "push", "seed"}, push: 0..MaxPushes,
        step: {"none", "documents", "code", "commit"}, todo: SUBSET Paths,
        db: Database, calls: Nat, quiet: BOOLEAN, fresh: BOOLEAN]

NoTxn == [kind |-> "none", push |-> 0, step |-> "none", todo |-> {},
          db |-> EmptyDatabase, calls |-> 0, quiet |-> FALSE, fresh |-> FALSE]

TypeOK ==
    /\ head \in [Paths -> Content \cup {Absent}]
    /\ Len(history) \in 0..MaxPushes /\ \A n \in DOMAIN history : IsPush(history[n])
    /\ pending \subseteq Pushes
    /\ db \in Database
    /\ txn \in Txn
    /\ settled \in BOOLEAN

Written(h, k) == [p \in Paths |-> IF p \in DOMAIN k THEN k[p] ELSE h[p]]

NoFiles == [p \in Paths |-> Absent]

Init ==
    /\ head = Written(NoFiles, FirstPush)
    /\ history = <<[before |-> [p \in DOMAIN FirstPush |-> Absent], after |-> FirstPush]>>
    /\ pending = {}
    /\ db = EmptyDatabase
    /\ txn = NoTxn
    /\ settled = FALSE

-----------------------------------------------------------------------------
(* GitHub.                                                                 *)

Push(k) ==
    /\ Len(history) < MaxPushes
    /\ head' = Written(head, k)
    /\ history' = Append(history,
          [before |-> [p \in DOMAIN k |-> head[p]], after |-> k])
    /\ pending' = pending \cup {Len(history) + 1}
    /\ txn' = [txn EXCEPT !.quiet = FALSE]
    /\ settled' = FALSE
    /\ UNCHANGED db

\* The event is lost on its way, or ends among the dead letters.
Lose(n) ==
    /\ n \in pending /\ txn.push # n
    /\ pending' = pending \ {n}
    /\ UNCHANGED <<head, history, db, txn, settled>>

-----------------------------------------------------------------------------
(* sync_document and sync_code_file: the same loop over chunks.            *)

\* MUTANT of IsClean: the scanner is asked about the first line only.
IsCleanAtStart(text) == \A i \in DOMAIN text : i = 1 => RulesIn[text[i]] = {}

IsClean(text) == ScanForSecrets(text) = {}

\* MUTANT of CleanRows: only the clean chunks are numbered.
CleanRowsRenumbered(path, chunks) ==
    LET clean == SelectSeq(chunks, LAMBDA chunk : IsClean(chunk.text))
    IN  {[path |-> path, key |-> <<chunks[i].key[1], i - 1>>, text |-> clean[i].text] :
            i \in DOMAIN clean}

CleanRows(path, chunks) ==
    {[path |-> path, key |-> chunks[i].key, text |-> chunks[i].text] :
        i \in {j \in DOMAIN chunks : IsClean(chunks[j].text)}}

RulesFound(chunks) == UNION {ScanForSecrets(chunks[i].text) : i \in DOMAIN chunks}

SameKey(r, s) == r.path = s.path /\ r.key = s.key

\* MUTANT of SyncChunks: every clean chunk is embedded again.
SyncChunksAlways(t, path, chunks) ==
    LET new == CleanRows(path, chunks)
    IN  [t EXCEPT !.db.rows = {r \in @ : ~ \E n \in new : SameKey(r, n)} \cup new,
                  !.db.findings = @ \cup ({"file"} \X {path} \X RulesFound(chunks)),
                  !.calls = @ + Cardinality(new)]

\* MUTANT of SyncChunks: ON CONFLICT DO NOTHING.
SyncChunksOnce(t, path, chunks) ==
    LET new == {n \in CleanRows(path, chunks) : ~ \E r \in t.db.rows : SameKey(r, n)}
    IN  [t EXCEPT !.db.rows = @ \cup new,
                  !.db.findings = @ \cup ({"file"} \X {path} \X RulesFound(chunks)),
                  !.calls = @ + Cardinality(new)]

\* A flagged chunk leaves its findings, once each, and nothing else: the row of
\* its key, if any, stays.  A clean chunk is embedded and stored under its key
\* unless it is what stands there.  No row is ever deleted here.
SyncChunks(t, path, chunks) ==
    LET new == CleanRows(path, chunks)
    IN  [t EXCEPT !.db.rows = {r \in @ : ~ \E n \in new : SameKey(r, n)} \cup new,
                  !.db.findings = @ \cup ({"file"} \X {path} \X RulesFound(chunks)),
                  !.calls = @ + Cardinality(new \ t.db.rows)]

ChunksOf(path, content) ==
    CASE content = Absent \/ IsExcludedPath(path)   -> <<>>
      [] content # Absent /\ ~IsExcludedPath(path)  ->
            IF IsL1DocumentPath(path) THEN ChunkMarkdown(content)
                                      ELSE ChunkCodeFile(path, content)

-----------------------------------------------------------------------------
(* sync_commit.                                                            *)

LinesOf(content) == IF content = Absent THEN {} ELSE LineSet(content.lines)

\* The patch of a file: files are short, so that the context of its hunks shows
\* all the lines of both versions.
PatchLines(c, p) == LinesOf(c.before[p]) \cup LinesOf(c.after[p])

\* The lines added, without their white space, are the lines removed.  A file's
\* lines are distinct, so that lines that only moved are in both sets.
IsWhitespaceOnly(c, p) == LinesOf(c.before[p]) = LinesOf(c.after[p])

Scannable(c) == {p \in DOMAIN c.after : ~IsExcludedPath(p)}

\* Files without lines have no patch.
IsNoiseCommit(c) ==
    LET patched == {p \in Scannable(c) : PatchLines(c, p) # {}}
    IN  \/ \A p \in Scannable(c) : p.name = "lockfile"
        \/ patched # {} /\ \A p \in patched : IsWhitespaceOnly(c, p)

\* MUTANT of CommitText: the message is not part of what is scanned.
CommitTextWithoutMessage(c) ==
    UNION {PatchLines(c, p) : p \in Scannable(c)} \ Beyond[c.after]

\* The message and the diff, cut off at MAX_DIFF_CHARS: what is scanned, and what
\* the summary is made of.
CommitText(c) ==
    {Messages[c.after]} \cup
    (UNION {PatchLines(c, p) : p \in Scannable(c)} \ Beyond[c.after])

RulesInCommit(c) == UNION {RulesIn[l] : l \in CommitText(c)}

\* MUTANT of SyncCommits: a flagged commit is skipped like a flagged chunk.
SyncCommitsCleanOnly(t, shas) ==
    LET new   == {n \in shas : /\ ~ \E row \in t.db.commits : row.sha = n
                               /\ ~ IsNoiseCommit(history[n])}
        clean == {n \in new : RulesInCommit(history[n]) = {}}
    IN  [t EXCEPT
            !.db.commits = @ \cup {[sha |-> n, message |-> Messages[history[n].after],
                                    summarized |-> TRUE] : n \in clean},
            !.db.findings = @ \cup UNION {{"commit"} \X {n} \X RulesInCommit(history[n]) : n \in new},
            !.calls = @ + 2 * Cardinality(clean)]

\* Those of the commits that are neither stored yet nor noise are stored with
\* their message, and summarised and embedded unless something is flagged.
SyncCommits(t, shas) ==
    LET new   == {n \in shas : /\ ~ \E row \in t.db.commits : row.sha = n
                               /\ ~ IsNoiseCommit(history[n])}
        clean == {n \in new : RulesInCommit(history[n]) = {}}
    IN  [t EXCEPT
            !.db.commits = @ \cup {[sha |-> n, message |-> Messages[history[n].after],
                                    summarized |-> n \in clean] : n \in new},
            !.db.findings = @ \cup UNION {{"commit"} \X {n} \X RulesInCommit(history[n]) : n \in new},
            !.calls = @ + 2 * Cardinality(clean)]

-----------------------------------------------------------------------------
(* Transactions: a worker handling a push, or the seed pass.               *)

Excluded == head[Marker] # Absent

\* The paths of push n that webhook routing puts in a layer.
Changed(n, layer) ==
    {p \in DOMAIN history[n].after : history[n].after[p] # Absent /\ layer \in AffectedLayers(p)}

\* MUTANT of PurgeProjectData: the findings go as well.
PurgeFindingsToo(d) == EmptyDatabase

PurgeProjectData(d) == [d EXCEPT !.rows = {}, !.commits = {}]

\* upsert_project, the look for the marker, and the list of documents.
Begin(kind, n, documents) ==
    /\ txn.kind = "none"
    /\ txn' = [kind |-> kind, push |-> n,
               step |-> IF Excluded THEN "commit" ELSE "documents",
               todo |-> IF Excluded THEN {} ELSE documents,
               db |-> IF Excluded THEN PurgeProjectData(db) ELSE db,
               calls |-> 0, quiet |-> TRUE, fresh |-> settled]
    /\ UNCHANGED <<head, history, pending, db, settled>>

WorkerBegins(n) == n \in pending /\ Begin("push", n, Changed(n, "documents"))

SeedBegins ==
    Begin("seed", 0, {Readme} \cup {p \in Paths : IsListedDocument(p) /\ head[p] # Absent})

\* The file GitHub shows as the repository's README, Readme itself if there is none.
PreferredReadme ==
    LET readmes == {p \in Paths : IsReadme(p) /\ head[p] # Absent}
    IN  IF readmes = {} THEN Readme ELSE Preferred[readmes]

\* Where the content comes from that is stored under path p: the seed pass stores
\* whichever README GitHub prefers under README.md.
SourceOf(kind, p) == IF kind = "seed" /\ p = Readme THEN PreferredReadme ELSE p

\* One file: fetched from HEAD now, whatever the event or the listing saw.
SyncFile(p) ==
    /\ p \in txn.todo
    /\ txn' = [SyncChunks(txn, p, ChunksOf(p, head[SourceOf(txn.kind, p)])) EXCEPT !.todo = @ \ {p}]
    /\ UNCHANGED <<head, history, pending, db, settled>>

\* The code files of the push, or of a listing of the tree.
ListCode ==
    /\ txn.step = "documents" /\ txn.todo = {}
    /\ LET files  == {p \in Paths : head[p] # Absent}
           code   == {p \in files : IsCandidateCodeFile(p)}
       IN  \/ /\ txn.kind = "push"
              /\ txn' = [txn EXCEPT !.step = "code", !.todo = Changed(txn.push, "code")]
           \/ /\ txn.kind = "seed"
              /\ txn' = [txn EXCEPT !.step = "code", !.todo = code]
           \* The listing is truncated, which list_all_files does not notice.
           \/ /\ txn.kind = "seed" /\ Cardinality(files) > MaxTree
              /\ \E some \in SUBSET code :
                    txn' = [txn EXCEPT !.step = "code", !.todo = some, !.quiet = FALSE]
    /\ UNCHANGED <<head, history, pending, db, settled>>

\* list_commits: the newest ones, whatever they touch.
Recent == {n \in DOMAIN history : Len(history) - n < MaxCommits}

HandleCommits ==
    /\ txn.step = "code" /\ txn.todo = {}
    /\ txn' = [SyncCommits(txn, IF txn.kind = "seed" THEN Recent
                                ELSE {n \in {txn.push} : Changed(n, "commits") # {}})
               EXCEPT !.step = "commit"]
    /\ UNCHANGED <<head, history, pending, db, settled>>

\* The transaction commits; the acknowledgement of its event may yet be lost.
Commit ==
    /\ txn.step = "commit"
    /\ db' = txn.db
    /\ txn' = NoTxn
    /\ pending' \in {pending, pending \ {txn.push}}
    /\ settled' = (settled \/ (txn.kind = "seed" /\ txn.quiet))
    /\ UNCHANGED <<head, history>>

\* The process dies or a call fails: the transaction is rolled back.
Abort ==
    /\ txn.kind # "none"
    /\ txn' = NoTxn
    /\ UNCHANGED <<head, history, pending, db, settled>>

\* resolve_secret: a statement of its own, seen by the running transaction too.
MarkSecretResolved(f) ==
    /\ f \in db.findings \ db.resolved
    /\ db' = [db EXCEPT !.resolved = @ \cup {f}]
    /\ txn' = IF txn.kind = "none" THEN txn ELSE [txn EXCEPT !.db.resolved = @ \cup {f}]
    /\ UNCHANGED <<head, history, pending, settled>>

Next ==
    \/ \E k \in PushKinds : Push(k)
    \/ \E n \in pending : Lose(n) \/ WorkerBegins(n)
    \/ SeedBegins \/ ListCode \/ HandleCommits \/ Commit \/ Abort
    \/ \E p \in Paths : SyncFile(p)
    \/ \E f \in db.findings : MarkSecretResolved(f)

Spec == Init /\ [][Next]_vars

-----------------------------------------------------------------------------
(* Properties.                                                             *)

Flagged(text) == \E i \in DOMAIN text : RulesIn[text[i]] # {}

\* No stored chunk has a line the scanner reports, and a commit is summarised and
\* embedded only if neither its message nor what is read of its diff has one;
\* each rule they match is reported where the commit is stored, committed or in an
\* open transaction.  Two things are not promised, as the code has it: the message
\* of a flagged commit is stored (commits.py:62), and lines beyond MAX_DIFF_CHARS
\* are neither scanned nor sent (commit_summarizer.py:48).
Clean(d) ==
    /\ \A r \in d.rows : ~ Flagged(r.text)
    /\ \A row \in d.commits :
          LET rules == RulesIn[row.message] \cup RulesInCommit(history[row.sha])
          IN  /\ row.summarized => rules = {}
              /\ {"commit"} \X {row.sha} \X rules \subseteq d.findings

StoreIsClean == Clean(db) /\ Clean(txn.db)

\* Every row is a chunk of one content the branch has held at its path or, under
\* README.md, at that of another README: concurrent pushes, late events and
\* repeats never make a row of two versions.
NothingInvented ==
    \A r \in db.rows : \E n \in DOMAIN history : \E p \in DOMAIN history[n].after :
        /\ p = r.path \/ (r.path = Readme /\ IsReadme(p))
        /\ LET chunks == ChunksOf(r.path, history[n].after[p])
           IN  \E i \in DOMAIN chunks : r.key = chunks[i].key /\ r.text = chunks[i].text

IsSeeded(p) == p = Readme \/ IsListedDocument(p) \/ IsCandidateCodeFile(p)

\* Webhooks and seed passes store two different files under README.md
\* (webhook_processor.py:86 the file of that name, github_client.py:140 another).
IsContested(p) == p = Readme /\ head[p] # Absent /\ PreferredReadme # Readme

\* A chunk is accounted for: the one row of its key holds it, or it is reported.
Accounted(d, p, chunk) ==
    IF Flagged(chunk.text)
    THEN \A rule \in ScanForSecrets(chunk.text) : <<"file", p, rule>> \in d.findings
    ELSE {r \in d.rows : r.path = p /\ r.key = chunk.key}
            = {[path |-> p, key |-> chunk.key, text |-> chunk.text]}

\* After a seed pass nothing was pushed into, every chunk of every file the pass
\* stores is there as it is now or reported, and it stays so whatever late or
\* repeated events are handled afterwards, but for README.md while webhooks and
\* passes disagree on what it is.
PassAccountsForAll ==
    settled /\ ~Excluded =>
        \A p \in Paths : IsSeeded(p) /\ ~IsContested(p) =>
            LET chunks == ChunksOf(p, head[SourceOf("seed", p)])
            IN  \A i \in DOMAIN chunks : Accounted(db, p, chunks[i])

\* Commit n changes a line of a file that is read and is no lockfile.
IsSubstantial(n) ==
    \E p \in DOMAIN history[n].after :
        /\ p.name \notin {"secret", "lockfile"}
        /\ LinesOf(history[n].before[p]) # LinesOf(history[n].after[p])

\* Likewise every recent commit of substance is stored, also one whose diff is
\* flagged; and if the marker is there, nothing is.
RecentHistoryIsStored ==
    settled =>
        IF Excluded THEN db.rows = {} /\ db.commits = {}
        ELSE \A n \in Recent : IsSubstantial(n) => \E row \in db.commits : row.sha = n

\* A pass over what a pass has already stored calls no model, flagged chunks and
\* commits included, unless webhooks and passes disagree on what README.md is.
QuietPassIsFree ==
    txn.kind = "seed" /\ txn.fresh /\ txn.quiet /\ ~IsContested(Readme) => txn.calls = 0

\* A paragraph is lost to the scanner only if it or its heading is flagged: its
\* chunk holds nothing else, and there is one.
LossIsLocal ==
    \A p \in Paths : IsL1DocumentPath(p) /\ head[p] # Absent =>
        LET lines  == head[p].lines
            chunks == ChunksOf(p, head[p])
        IN  ~ head[p].oversize /\ ~IsExcludedPath(p) =>
            \A i \in DOMAIN lines \ {j \in DOMAIN lines : lines[j] \in Headings} :
                LET above == {j \in 1..i : lines[j] \in Headings}
                IN  \E k \in DOMAIN chunks :
                        chunks[k].text = IF above = {} THEN <<lines[i]>>
                                         ELSE <<lines[Max(above)], lines[i]>>

\* A finding is never forgotten, nor its resolution undone by a later scan, by an
\* exclusion or by the end of a transaction that began before it.
FindingsAreKept ==
    [][db.findings \subseteq db'.findings /\ db.resolved \subseteq db'.resolved]_vars
=============================================================================
