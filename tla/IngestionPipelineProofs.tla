---------------------- MODULE IngestionPipelineProofs ----------------------
(***************************************************************************)
(* Theorems of IngestionPipeline, for any number of repositories, files,   *)
(* workers, events and faults.                                             *)
(***************************************************************************)
EXTENDS IngestionPipeline, TLAPS

Types == TypeOK /\ WellFormed

-----------------------------------------------------------------------------
(* The operators on rows stay within Row.                                  *)

\* An empty row is a row.
LEMMA NoRowType == ASSUME PipelineAssumption PROVE NoRow \in Row
  BY DEF PipelineAssumption, NoRow, Row, Versions

\* Upserting, purging and logging a row gives a row.
LEMMA RowUpdateTypes ==
  ASSUME PipelineAssumption, NEW row \in Row
  PROVE  /\ \A b \in BOOLEAN : Upserted(row, b) \in Row
         /\ \A m \in Versions, L \in SUBSET Events : Purge(row, m, L) \in Row
         /\ \A e \in Events : Landed(row, e) \in Row
         /\ \A C \in SUBSET Events : WithCommits(row, C) \in Row
<1>1. 0 \in Versions
  BY DEF PipelineAssumption, Versions
<1>2. \A b \in BOOLEAN : Upserted(row, b) \in Row
  BY DEF Upserted, Row
<1>3. \A m \in Versions, L \in SUBSET Events : Purge(row, m, L) \in Row
  BY <1>1 DEF Purge, Row
<1>4. \A e \in Events : Landed(row, e) \in Row
  BY DEF Landed, Row
<1>5. \A C \in SUBSET Events : WithCommits(row, C) \in Row
  BY DEF WithCommits, Row
<1>. QED
  BY <1>2, <1>3, <1>4, <1>5

\* Synchronising a file gives a row.
LEMMA SyncedType ==
  ASSUME PipelineAssumption, NEW p, NEW row \in Row, NEW f \in Files, NEW n \in Versions
  PROVE  Synced(p, row, f, n) \in Row
  BY DEF Synced, Row

-----------------------------------------------------------------------------
(* Type correctness.                                                       *)

\* The initial state has the types.
LEMMA InitTypes == ASSUME PipelineAssumption, Init PROVE Types
  BY NoRowType DEF PipelineAssumption, Init, Types, TypeOK, WellFormed, InTransaction,
     Versions, Events, EventRec, NoEvent, Kinds, Statuses, Labels, Procs

\* What Post does, with the payload as one record.
Sends(rec) ==
    /\ last < MaxEvents
    /\ last' = last + 1
    /\ event' = [event EXCEPT ![last + 1] = rec]
    /\ status' = [status EXCEPT ![last + 1] = "posted"]
    /\ UNCHANGED <<receives, db, procs, seed, faults>>

\* Sending a webhook keeps the types.
LEMMA SendTypes ==
  ASSUME PipelineAssumption, Types, NEW rec \in EventRec, rec.repo \in Repos, Sends(rec),
         head' \in [Repos -> [Files -> Versions]], marker' \in [Repos -> Versions],
         private' \in [Repos -> BOOLEAN]
  PROVE  Types'
<1>1. last + 1 \in Events /\ last' = last + 1 /\ last' \in Versions
  BY DEF Sends, Types, TypeOK, Versions, Events, PipelineAssumption
<1>2. event' \in [Events -> EventRec]
  BY <1>1 DEF Sends, Types, TypeOK
<1>3. status' \in [Events -> Statuses]
  BY <1>1 DEF Sends, Types, TypeOK, Statuses
<1>4. TypeOK'
  BY <1>1, <1>2, <1>3 DEF Sends, Types, TypeOK, db, procs, seed
<1>5. \A e \in Events : status'[e] # "unsent" => e <= last' /\ event'[e].repo \in Repos
  <2> SUFFICES ASSUME NEW e \in Events, status'[e] # "unsent"
               PROVE  e <= last' /\ event'[e].repo \in Repos
    OBVIOUS
  <2>1. CASE e = last + 1
    BY <2>1, <1>1 DEF Sends, Types, TypeOK, Events
  <2>2. CASE e # last + 1
    BY <2>2, <1>1 DEF Sends, Types, TypeOK, WellFormed, Events, Versions
  <2>. QED
    BY <2>1, <2>2
<1>6. \A e \in Events : e > last' => status'[e] = "unsent"
  BY <1>1 DEF Sends, Types, TypeOK, WellFormed, Events, Versions
<1>7. WellFormed'
  BY <1>1, <1>5, <1>6
     DEF Sends, Types, TypeOK, WellFormed, InTransaction, db, procs
<1>. QED
  BY <1>4, <1>7 DEF Types

\* A GitHub action sends one payload about one repository, a push to the default
\* branch if anything on that branch changes.
SendsOnePayload ==
    \E rec \in EventRec :
        /\ rec.repo \in Repos /\ Sends(rec)
        /\ \/ \E r \in Repos, k \in PushKinds :
                 /\ rec.kind = "push" /\ rec.onDefault
                 /\ rec.repo = r /\ rec.files = k.changed
                 /\ Push(r, k)
           \/ /\ UNCHANGED <<head, marker>> /\ private' \in [Repos -> BOOLEAN]
              /\ ~(rec.kind = "push" /\ rec.onDefault)

\* Every GitHub action does.
LEMMA GitHubSends == ASSUME PipelineAssumption, TypeOK, GitHubStep PROVE SendsOnePayload
<1>1. PICK r \in Repos : \/ \E k \in PushKinds : Push(r, k) \/ PushBranch(r, k)
                         \/ ChangeVisibility(r)
                         \/ Release(r)
  BY DEF GitHubStep
<1>2. private[r] \in BOOLEAN /\ private \in [Repos -> BOOLEAN]
  BY DEF TypeOK
<1>3. ASSUME NEW k \in PushKinds, Push(r, k) PROVE SendsOnePayload
  <2> DEFINE rec == [kind |-> "push", repo |-> r, onDefault |-> TRUE,
                     private |-> private[r], files |-> k.changed]
  <2>1. rec \in EventRec
    BY <1>2 DEF EventRec, Kinds, PipelineAssumption, PushKind
  <2>2. Sends(rec)
    BY <1>3 DEF Push, Post, Sends
  <2>. QED
    BY <1>3, <2>1, <2>2 DEF SendsOnePayload
<1>4. ASSUME NEW k \in PushKinds, PushBranch(r, k) PROVE SendsOnePayload
  <2> DEFINE rec == [kind |-> "push", repo |-> r, onDefault |-> FALSE,
                     private |-> private[r], files |-> k.changed]
  <2>1. rec \in EventRec
    BY <1>2 DEF EventRec, Kinds, PipelineAssumption, PushKind
  <2>2. Sends(rec)
    BY <1>4 DEF PushBranch, Post, Sends
  <2>. QED
    BY <1>2, <1>4, <2>1, <2>2 DEF SendsOnePayload, PushBranch
<1>5. CASE ChangeVisibility(r)
  <2> DEFINE rec == [kind |-> "repository", repo |-> r, onDefault |-> FALSE,
                     private |-> ~private[r], files |-> {}]
  <2>1. rec \in EventRec
    BY <1>2 DEF EventRec, Kinds
  <2>2. Sends(rec)
    BY <1>5 DEF ChangeVisibility, Post, Sends
  <2>. QED
    BY <1>2, <1>5, <2>1, <2>2 DEF SendsOnePayload, ChangeVisibility
<1>6. CASE Release(r)
  <2> DEFINE rec == [kind |-> "release", repo |-> r, onDefault |-> FALSE,
                     private |-> private[r], files |-> {}]
  <2>1. rec \in EventRec
    BY <1>2 DEF EventRec, Kinds
  <2>2. Sends(rec)
    BY <1>6 DEF Release, Post, Sends
  <2>. QED
    BY <1>2, <1>6, <2>1, <2>2 DEF SendsOnePayload, Release
<1>. QED
  BY <1>1, <1>3, <1>4, <1>5, <1>6

\* What happens on GitHub keeps the types.
LEMMA GitHubTypes == ASSUME PipelineAssumption, Types, GitHubStep PROVE Types'
<1>1. PICK rec \in EventRec :
         /\ rec.repo \in Repos /\ Sends(rec)
         /\ \/ \E r \in Repos, k \in PushKinds : Push(r, k)
            \/ UNCHANGED <<head, marker>> /\ private' \in [Repos -> BOOLEAN]
  BY GitHubSends DEF Types, SendsOnePayload
<1>2. ASSUME NEW r \in Repos, NEW k \in PushKinds, Push(r, k)
      PROVE  /\ head' \in [Repos -> [Files -> Versions]]
             /\ marker' \in [Repos -> Versions]
             /\ private' \in [Repos -> BOOLEAN]
  <2>1. k \in PushKind /\ last + 1 \in Versions /\ 0 \in Versions
    BY <1>2 DEF Push, Post, Types, TypeOK, Versions, PipelineAssumption
  <2>2. HeadAfter(head[r], k) \in [Files -> Versions]
    BY <2>1 DEF HeadAfter, Types, TypeOK
  <2>3. MarkerAfter(marker[r], k) \in Versions
    BY <2>1 DEF MarkerAfter, PushKind, Types, TypeOK
  <2>. QED
    BY <1>2, <2>2, <2>3 DEF Push, Types, TypeOK
<1>3. CASE UNCHANGED <<head, marker>> /\ private' \in [Repos -> BOOLEAN]
  BY <1>1, <1>3, SendTypes DEF Types, TypeOK
<1>4. CASE \E r \in Repos, k \in PushKinds : Push(r, k)
  BY <1>1, <1>2, <1>4, SendTypes
<1>. QED
  BY <1>1, <1>3, <1>4

\* What happens in the queue keeps the types.
LEMMA QueueTypes == ASSUME PipelineAssumption, Types, QueueStep PROVE Types'
<1>1. PICK e \in Events :
        \/ Enqueue(e) \/ LoseWebhook(e)
        \/ VisibilityTimeout(e) \/ DuplicateDelivery(e) \/ Redrive(e)
        \/ \E w \in Workers : Receive(w, e)
  BY DEF QueueStep
<1>. USE DEF Types, TypeOK, WellFormed, InTransaction, Statuses, github, db, procs, seed
<1>2. CASE Enqueue(e)
  BY <1>2 DEF Enqueue
<1>3. CASE LoseWebhook(e)
  BY <1>3 DEF LoseWebhook, PipelineAssumption
<1>4. CASE VisibilityTimeout(e)
  BY <1>4 DEF VisibilityTimeout
<1>5. CASE DuplicateDelivery(e)
  BY <1>5 DEF DuplicateDelivery, PipelineAssumption
<1>6. CASE Redrive(e)
  BY <1>6 DEF Redrive
<1>7. ASSUME NEW w \in Workers, Receive(w, e) PROVE Types'
  <2>1. w \in Procs /\ w # Sync /\ e \in Versions
    BY DEF Procs, PipelineAssumption, Events, Versions
  <2>2. TypeOK'
    BY <1>7, <2>1 DEF Receive, Labels, PipelineAssumption
  <2>3. WellFormed'
    BY <1>7, <2>1 DEF Receive
  <2>. QED
    BY <2>2, <2>3
<1>. QED
  BY <1>1, <1>2, <1>3, <1>4, <1>5, <1>6, <1>7

\* What a step of process p does to the processes, whatever else it changes.
Moves(p, label, n, o, T, row) ==
    /\ pc' = [pc EXCEPT ![p] = label]
    /\ evt' = [evt EXCEPT ![p] = n]
    /\ repo' = [repo EXCEPT ![p] = o]
    /\ todo' = [todo EXCEPT ![p] = T]
    /\ view' = [view EXCEPT ![p] = row]

\* A process step keeps the types if what it assigns has them, if its process
\* goes on to one of its own labels, and if a transaction is about a repository.
LEMMA ProcessTypes ==
  ASSUME PipelineAssumption, Types, NEW p \in Procs, NEW label \in Labels,
         NEW n \in Versions, NEW o \in Repos \cup {NoOne}, NEW T \in SUBSET Files,
         NEW row \in Row, Moves(p, label, n, o, T, row),
         UNCHANGED <<github, queue>>,
         rows' \in [Repos -> Row], lock' \in [Repos -> Procs \cup {NoOne}],
         listed' \in [Repos -> BOOLEAN], left' \in SUBSET Repos,
         faults' \in 0..MaxFaults,
         p \in Workers => /\ label \notin {"tree", "next"}
                          /\ label # "idle" => n = evt[p] /\ pc[p] # "idle",
         p = Sync => label \notin {"start", "ack"},
         label \in {"check", "fetch", "tree", "commit"} => o \in Repos
  PROVE  Types'
<1>1. TypeOK'
  BY DEF Types, TypeOK, github, queue, Moves
<1>2. WellFormed'
  <2>1. \A e \in Events : /\ status'[e] # "unsent" => e <= last' /\ event'[e].repo \in Repos
                          /\ e > last' => status'[e] = "unsent"
    BY DEF Types, WellFormed, github, queue
  <2>2. \A w \in Workers : /\ pc'[w] \notin {"tree", "next"}
                           /\ pc'[w] # "idle" => evt'[w] \in Events /\ status'[evt'[w]] # "unsent"
    BY DEF Types, TypeOK, WellFormed, Procs, queue, Moves
  <2>3. (\A q \in Procs : InTransaction(q) => repo[q] \in Repos)'
    BY DEF Types, TypeOK, WellFormed, InTransaction, Moves
  <2>4. pc'[Sync] \notin {"start", "ack"}
    BY DEF Types, TypeOK, WellFormed, Procs, Moves
  <2>. QED
    BY <2>1, <2>2, <2>3, <2>4 DEF WellFormed
<1>. QED
  BY <1>1, <1>2 DEF Types

\* A variable that keeps its values may be read as assigned what it had.
LEMMA Unmoved ==
  ASSUME TypeOK, NEW p \in Procs
  PROVE  /\ pc = [pc EXCEPT ![p] = pc[p]] /\ evt = [evt EXCEPT ![p] = evt[p]]
         /\ repo = [repo EXCEPT ![p] = repo[p]] /\ todo = [todo EXCEPT ![p] = todo[p]]
         /\ view = [view EXCEPT ![p] = view[p]]
         /\ pc[p] \in Labels /\ evt[p] \in Versions /\ repo[p] \in Repos \cup {NoOne}
         /\ todo[p] \in SUBSET Files /\ view[p] \in Row
  BY DEF TypeOK

\* The steps both kinds of process take keep the types.
LEMMA CheckExclusionTypes ==
  ASSUME PipelineAssumption, Types, NEW p \in Procs, CheckExclusion(p)
  PROVE  Types'
<1> DEFINE r == repo[p]
<1>1. r \in Repos /\ pc[p] = "check" /\ view[p] \in Row /\ view[p].log \in SUBSET Events
  BY DEF CheckExclusion, Types, TypeOK, WellFormed, InTransaction, Row
<1>2. /\ "commit" \in Labels /\ "fetch" \in Labels
      /\ marker[r] \in Versions
      /\ rows \in [Repos -> Row] /\ lock \in [Repos -> Procs \cup {NoOne}]
      /\ listed \in [Repos -> BOOLEAN] /\ left \in SUBSET Repos /\ faults \in 0..MaxFaults
  BY <1>1 DEF Labels, Types, TypeOK
<1>3. p \in Workers => evt[p] \in Events
  BY <1>1 DEF Types, WellFormed
<1>4. CASE marker[r] # 0
  <2> DEFINE pushes == IF p = Sync THEN {} ELSE {evt[p]}
  <2> DEFINE row == Purge(view[p], marker[r], pushes)
  <2>1. pushes \in SUBSET Events
    BY <1>3 DEF Procs
  <2>2. row \in Row
    BY <1>1, <1>2, <2>1, RowUpdateTypes, Zenon
  <2>3. Moves(p, "commit", evt[p], r, todo[p], row)
    BY <1>1, <1>4, Unmoved DEF CheckExclusion, Moves, Types
  <2>. QED
    BY <1>1, <1>2, <2>2, <2>3, Unmoved, ProcessTypes
       DEF CheckExclusion, Types, db, seed
<1>5. CASE marker[r] = 0
  <2> DEFINE T == IF p = Sync THEN SeedDocuments(r) ELSE PushFiles(evt[p])
  <2>1. T \in SUBSET Files
    BY <1>3 DEF SeedDocuments, PushFiles, Types, TypeOK, EventRec, PipelineAssumption, Procs
  <2>2. Moves(p, "fetch", evt[p], r, T, view[p])
    BY <1>1, <1>5, Unmoved DEF CheckExclusion, Moves, Types
  <2>. QED
    BY <1>1, <1>2, <2>1, <2>2, Unmoved, ProcessTypes
       DEF CheckExclusion, Types, db, seed
<1>. QED
  BY <1>4, <1>5

\* So does fetching a file.
LEMMA FetchTypes ==
  ASSUME PipelineAssumption, Types, NEW p \in Procs, NEW f \in Files, Fetch(p, f)
  PROVE  Types'
<1> DEFINE row == Synced(p, view[p], f, head[repo[p]][f])
<1>1. repo[p] \in Repos /\ pc[p] \in {"fetch", "tree"} /\ view[p] \in Row
  BY DEF Fetch, Types, TypeOK, WellFormed, InTransaction
<1>2. row \in Row
  BY <1>1, SyncedType DEF Types, TypeOK
<1>3. Moves(p, pc[p], evt[p], repo[p], todo[p] \ {f}, row)
  BY <1>1, Unmoved DEF Fetch, Moves, Types
<1>4. p \in Workers => pc[p] # "tree"
  BY DEF Types, WellFormed
<1>5. UNCHANGED <<github, queue, rows, lock, listed, left, faults>>
  BY DEF Fetch, db, seed
<1>6. todo[p] \ {f} \in SUBSET Files
  BY Unmoved DEF Types
<1>. QED
  BY <1>1, <1>2, <1>3, <1>4, <1>5, <1>6, Unmoved, ProcessTypes DEF Types, TypeOK

\* So does taking the lock.
LEMMA BeginTypes ==
  ASSUME PipelineAssumption, Types, NEW p \in Procs, NEW r \in Repos,
         NEW visibility \in BOOLEAN, NEW next \in {"check", "commit"},
         Begin(p, r, visibility, next),
         p \in Workers => pc[p] = "start",
         UNCHANGED <<github, queue, rows, evt, todo, faults>>,
         listed' \in [Repos -> BOOLEAN], left' \in SUBSET Repos
  PROVE  Types'
<1> DEFINE row == Upserted(rows[r], visibility)
<1>1. row \in Row
  BY RowUpdateTypes DEF Types, TypeOK
<1>2. Moves(p, next, evt[p], r, todo[p], row)
  BY Unmoved DEF Begin, Moves, Types
<1>3. rows' \in [Repos -> Row] /\ lock' \in [Repos -> Procs \cup {NoOne}]
  BY DEF Begin, Types, TypeOK
<1>4. next \in Labels /\ faults' \in 0..MaxFaults /\ UNCHANGED <<github, queue>>
  BY DEF Labels, Types, TypeOK
<1>. QED
  BY <1>1, <1>2, <1>3, <1>4, Unmoved, ProcessTypes DEF Types

\* So does committing.
LEMMA CommitTypes ==
  ASSUME PipelineAssumption, Types, NEW p \in Procs, NEW next,
         CommitTo(p, next), next = (IF p = Sync THEN "next" ELSE "ack")
  PROVE  Types'
<1>1. repo[p] \in Repos /\ pc[p] = "commit" /\ view[p] \in Row
  BY DEF CommitTo, Types, TypeOK, WellFormed, InTransaction
<1>2. Moves(p, next, evt[p], NoOne, todo[p], NoRow)
  BY Unmoved DEF CommitTo, Moves, Types
<1>3. rows' \in [Repos -> Row] /\ lock' \in [Repos -> Procs \cup {NoOne}]
  BY <1>1 DEF CommitTo, Types, TypeOK
<1>4. /\ next \in Labels /\ UNCHANGED <<github, queue, listed, left, faults>>
      /\ p \in Workers => next = "ack"
  BY DEF CommitTo, Labels, PipelineAssumption, seed
<1>. QED
  BY <1>1, <1>2, <1>3, <1>4, NoRowType, Unmoved, ProcessTypes DEF Types, TypeOK

\* So does a rollback.
LEMMA FailTypes ==
  ASSUME PipelineAssumption, Types, NEW p \in Procs, Fail(p),
         listed' \in [Repos -> BOOLEAN], left' \in SUBSET Repos
  PROVE  Types'
<1>1. Moves(p, "idle", 0, NoOne, {}, NoRow)
  BY DEF Fail, Moves
<1>2. rows' \in [Repos -> Row] /\ lock' \in [Repos -> Procs \cup {NoOne}]
  BY DEF Fail, Types, TypeOK
<1>3. /\ "idle" \in Labels /\ 0 \in Versions /\ {} \in SUBSET Files
      /\ UNCHANGED <<github, queue>>
  BY DEF Fail, Labels, Versions, PipelineAssumption
<1>4. faults' \in 0..MaxFaults
  BY DEF Fail, Types, TypeOK, PipelineAssumption
<1>. QED
  BY <1>1, <1>2, <1>3, <1>4, NoRowType, ProcessTypes

\* A worker's steps keep the types.
LEMMA WorkerTypes ==
  ASSUME PipelineAssumption, Types, NEW w \in Workers, WorkerStep(w)
  PROVE  Types'
<1>1. w \in Procs /\ w # Sync
  BY DEF Procs, PipelineAssumption
<1>2. {"ack", "commit", "idle"} \subseteq Labels
  BY DEF Labels
<1>3. CASE Ignore(w)
  <2>1. Moves(w, "ack", evt[w], repo[w], todo[w], view[w])
    BY <1>1, <1>3, Unmoved DEF Ignore, Moves, Types
  <2>. QED
    BY <1>1, <1>2, <1>3, <2>1, Unmoved, ProcessTypes DEF Ignore, Types, TypeOK, db, seed
<1>4. CASE Upsert(w)
  <2>1. /\ evt[w] \in Events /\ event[evt[w]].repo \in Repos
        /\ event[evt[w]].private \in BOOLEAN
    BY <1>4 DEF Upsert, Types, TypeOK, WellFormed, EventRec
  <2>2. listed' \in [Repos -> BOOLEAN] /\ left' \in SUBSET Repos
    BY <1>4 DEF Upsert, Types, TypeOK, seed
  <2>. QED
    BY <1>1, <1>4, <2>1, <2>2, BeginTypes DEF Upsert
<1>5. CASE CheckExclusion(w)
  BY <1>1, <1>5, CheckExclusionTypes
<1>6. ASSUME NEW f \in Files, Fetch(w, f) PROVE Types'
  BY <1>1, <1>6, FetchTypes
<1>7. CASE SyncPushCommit(w)
  <2> DEFINE row == Landed(view[w], evt[w])
  <2>1. pc[w] = "fetch" /\ evt[w] \in Events /\ repo[w] \in Repos
    BY <1>1, <1>7 DEF SyncPushCommit, Types, WellFormed, InTransaction
  <2>2. row \in Row
    BY <1>1, <2>1, RowUpdateTypes DEF Types, TypeOK
  <2>3. Moves(w, "commit", evt[w], repo[w], todo[w], row)
    BY <1>1, <1>7, Unmoved DEF SyncPushCommit, Moves, Types
  <2>. QED
    BY <1>1, <1>2, <1>7, <2>1, <2>2, <2>3, Unmoved, ProcessTypes
       DEF SyncPushCommit, Types, TypeOK, db, seed
<1>8. CASE Commit(w)
  BY <1>1, <1>8, CommitTypes DEF Commit
<1>9. CASE Ack(w)
  <2>1. /\ pc' = [pc EXCEPT ![w] = "idle"] /\ evt' = [evt EXCEPT ![w] = 0]
        /\ UNCHANGED <<github, receives, db, repo, todo, view, seed, faults>>
    BY <1>9 DEF Ack
  <2>2. \A e \in Events : status'[e] \in Statuses /\ (status'[e] = "unsent" <=> status[e] = "unsent")
    BY <1>9 DEF Ack, Types, TypeOK, Statuses
  <2>3. status' \in [Events -> Statuses]
    BY <1>9, <2>2 DEF Ack, Types, TypeOK
  <2>4. TypeOK'
    BY <1>1, <1>2, <2>1, <2>3, 0 \in Versions DEF Types, TypeOK, github, db, seed, Versions, PipelineAssumption
  <2>5. WellFormed'
    BY <1>1, <2>1, <2>2 DEF Types, TypeOK, WellFormed, InTransaction, github
  <2>. QED
    BY <2>4, <2>5 DEF Types
<1>10. CASE Crash(w)
  BY <1>1, <1>10, FailTypes DEF Crash, seed, Types, TypeOK
<1>. QED
  BY <1>3, <1>4, <1>5, <1>6, <1>7, <1>8, <1>9, <1>10 DEF WorkerStep

\* The seed sync's steps keep the types.
LEMMA SyncTypes == ASSUME PipelineAssumption, Types, SyncStep PROVE Types'
<1>1. Sync \in Procs /\ Sync \notin Workers
  BY DEF Procs, PipelineAssumption
<1>2. {"next", "tree", "commit", "idle"} \subseteq Labels
  BY DEF Labels
<1>3. CASE StartSync
  <2>1. Moves(Sync, "next", evt[Sync], repo[Sync], todo[Sync], view[Sync])
    BY <1>1, <1>3, Unmoved DEF StartSync, Moves, Types
  <2>. QED
    BY <1>1, <1>2, <1>3, <2>1, Unmoved, ProcessTypes DEF StartSync, Types, TypeOK, db
<1>4. CASE CheckExclusion(Sync)
  BY <1>1, <1>4, CheckExclusionTypes
<1>5. ASSUME NEW r \in Repos, SyncUpsert(r) PROVE Types'
  <2>1. listed[r] \in BOOLEAN /\ listed' \in [Repos -> BOOLEAN] /\ left' \in SUBSET Repos
    BY <1>5 DEF SyncUpsert, Types, TypeOK
  <2>. QED
    BY <1>1, <1>5, <2>1, BeginTypes DEF SyncUpsert
<1>6. ASSUME NEW f \in Files, Fetch(Sync, f) PROVE Types'
  BY <1>1, <1>6, FetchTypes
<1>7. CASE ListTree
  <2> DEFINE T == {f \in Files \ {Manifest} : /\ LayerOf[f] # "documents"
                                              /\ head[repo[Sync]][f] # 0}
  <2>1. Moves(Sync, "tree", evt[Sync], repo[Sync], T, view[Sync])
    BY <1>1, <1>7, Unmoved DEF ListTree, Moves, Types
  <2>2. T \in SUBSET Files /\ repo[Sync] \in Repos
    BY <1>1, <1>7 DEF ListTree, Types, WellFormed, InTransaction
  <2>. QED
    BY <1>1, <1>2, <1>7, <2>1, <2>2, Unmoved, ProcessTypes
       DEF ListTree, Types, TypeOK, db, seed
<1>8. CASE SyncCommits
  <2> DEFINE row == WithCommits(view[Sync], RecentCommits(repo[Sync]))
  <2>1. repo[Sync] \in Repos /\ RecentCommits(repo[Sync]) \subseteq Events
    BY <1>1, <1>8
       DEF SyncCommits, Types, WellFormed, InTransaction, RecentCommits, Pushes
  <2>2. row \in Row
    <3>1. view[Sync] \in Row /\ RecentCommits(repo[Sync]) \in SUBSET Events
      BY <1>1, <2>1 DEF Types, TypeOK
    <3>. QED
      BY <3>1, RowUpdateTypes
  <2>3. Moves(Sync, "commit", evt[Sync], repo[Sync], todo[Sync], row)
    BY <1>1, <1>8, Unmoved DEF SyncCommits, Moves, Types
  <2>4. /\ UNCHANGED <<github, queue, rows, lock, listed, left, faults>>
        /\ rows \in [Repos -> Row] /\ lock \in [Repos -> Procs \cup {NoOne}]
        /\ listed \in [Repos -> BOOLEAN] /\ left \in SUBSET Repos /\ faults \in 0..MaxFaults
    BY <1>8 DEF SyncCommits, Types, TypeOK, db, seed
  <2> HIDE DEF row
  <2>. QED
    BY <1>1, <1>2, <2>1, <2>2, <2>3, <2>4, Unmoved, ProcessTypes DEF Types
<1>9. CASE CommitSync
  BY <1>1, <1>9, CommitTypes DEF CommitSync
<1>10. CASE FinishSync
  <2>1. Moves(Sync, "idle", evt[Sync], repo[Sync], todo[Sync], view[Sync])
    BY <1>1, <1>10, Unmoved DEF FinishSync, Moves, Types
  <2>. QED
    BY <1>1, <1>2, <1>10, <2>1, Unmoved, ProcessTypes DEF FinishSync, Types, TypeOK, db
<1>11. CASE CrashSync
  BY <1>1, <1>11, FailTypes DEF CrashSync
<1>. QED
  BY <1>3, <1>4, <1>5, <1>6, <1>7, <1>8, <1>9, <1>10, <1>11 DEF SyncStep

\* Every step keeps the types.
LEMMA NextTypes == ASSUME PipelineAssumption, Types, [Next]_vars PROVE Types'
<1>1. CASE UNCHANGED vars
  BY <1>1 DEF vars, github, queue, db, procs, seed, Types, TypeOK, WellFormed, InTransaction
<1>. QED
  BY <1>1, GitHubTypes, QueueTypes, WorkerTypes, SyncTypes DEF Next

\* Type correctness: every variable keeps its type, and only events that have
\* been sent, each about a repository, are on their way or being handled.
THEOREM TypeCorrect == ASSUME PipelineAssumption PROVE Spec => [](TypeOK /\ WellFormed)
<1>1. Init => Types
  BY InitTypes
<1>2. Types /\ [Next]_vars => Types'
  BY NextTypes
<1>. QED
  BY <1>1, <1>2, PTL DEF Spec, Types

-----------------------------------------------------------------------------
(* What each row operator does to the log and to what a row reflects.      *)

\* Upserting the project and adding commits touch neither; landing a push only
\* adds it to the log.
LEMMA ReflectsUnmoved ==
  ASSUME NEW row \in Row, NEW f \in Files, NEW v, Reflects(row, f, v)
  PROVE  /\ \A b : Reflects(Upserted(row, b), f, v)
         /\ \A e : Reflects(Landed(row, e), f, v)
         /\ \A C : Reflects(WithCommits(row, C), f, v)
  BY DEF Reflects, Upserted, Landed, WithCommits, Row

\* Of the operators on rows only landing a push and purging extend the log.
LEMMA LogsOf ==
  ASSUME NEW row \in Row
  PROVE  /\ \A b : Upserted(row, b).log = row.log
         /\ \A e : Landed(row, e).log = row.log \cup {e}
         /\ \A C : WithCommits(row, C).log = row.log
         /\ \A p, f, n : Synced(p, row, f, n).log = row.log
         /\ \A m, L : Purge(row, m, L).log = row.log \cup L
  BY DEF Upserted, Landed, WithCommits, Synced, Purge, Row

\* A purge leaves no file unreflected.
LEMMA PurgeReflects ==
  ASSUME NEW row \in Row
  PROVE  \A f \in Files : \A v, m, L : m # 0 => Reflects(Purge(row, m, L), f, v)
  BY DEF Reflects, Purge, Row

\* Synchronising a file makes the row reflect the version fetched, and leaves
\* what the row reflects of the other files.
LEMMA SyncedReflects ==
  ASSUME NEW p, NEW row \in Row, NEW f \in Files, NEW g \in Files, NEW n, NEW v,
         f = g => n = v /\ v # 0,
         f # g => Reflects(row, f, v)
  PROVE  Reflects(Synced(p, row, g, n), f, v)
<1>1. CASE f = g
  BY <1>1 DEF Reflects, Synced, Row
<1>2. CASE f # g
  BY <1>2 DEF Reflects, Synced, Row
<1>. QED
  BY <1>1, <1>2

-----------------------------------------------------------------------------
(* NothingForgotten is inductive.                                          *)

\* NothingForgotten without the part TypeCorrect establishes.
Remembered ==
    LockDiscipline /\ HeadsAreWritten /\ LogsGrow /\ HandlersProgress /\ LoggedIsReflected

\* Initially nothing is logged, locked or handled.
LEMMA InitRemembered == ASSUME PipelineAssumption, Init PROVE Remembered
<1>1. \A p \in Procs : ~InTransaction(p)
  BY DEF Init, InTransaction
<1>2. \A r \in Repos : rows[r].log = {} /\ lock[r] = NoOne
  BY DEF Init, NoRow
<1>3. \A r \in Repos, f \in Files : head[r][f] = 0
  BY DEF Init
<1>4. Workers \subseteq Procs
  BY DEF Procs
<1>5. LockDiscipline /\ HeadsAreWritten /\ LogsGrow
  BY <1>1, <1>2, <1>3 DEF LockDiscipline, HeadsAreWritten, LogsGrow
<1>6. HandlersProgress
  BY <1>4 DEF HandlersProgress, InTransaction, Init
<1>7. LoggedIsReflected
  BY <1>1, <1>2, <1>4 DEF LoggedIsReflected, Init
<1>. QED
  BY <1>5, <1>6, <1>7 DEF Remembered

\* A GitHub action disturbs nothing that was about the events sent before it.
LEMMA GitHubRemembers ==
  ASSUME PipelineAssumption, Types, Remembered, GitHubStep
  PROVE  Remembered'
<1>1. PICK rec \in EventRec :
         /\ rec.repo \in Repos /\ Sends(rec)
         /\ \/ \E r \in Repos, k \in PushKinds :
                  /\ rec.kind = "push" /\ rec.onDefault
                  /\ rec.repo = r /\ rec.files = k.changed
                  /\ Push(r, k)
            \/ UNCHANGED <<head, marker>> /\ private' \in [Repos -> BOOLEAN]
  BY GitHubSends DEF Types, SendsOnePayload
<1>2. /\ last' = last + 1 /\ last + 1 \in Events /\ last \in Versions
      /\ UNCHANGED <<rows, lock, pc, evt, repo, todo, view>>
  BY <1>1 DEF Sends, db, procs, Types, TypeOK, Versions, Events, PipelineAssumption
<1>3. \A e \in 1..last : event'[e] = event[e] /\ status'[e] = status[e]
  BY <1>1, <1>2 DEF Sends, Types, TypeOK, Events, Versions
<1>4. \A e \in 1..last : (IsPush(e)' <=> IsPush(e)) /\ (Recorded(e)' <=> Recorded(e))
  BY <1>2, <1>3 DEF IsPush, Recorded
<1>5. \A w \in Workers : pc[w] # "idle" => evt[w] \in 1..last
  BY DEF Types, TypeOK, WellFormed, Events
<1>6. \A r \in Repos, f \in Files :
         \/ head'[r][f] = last + 1 /\ rec.kind = "push" /\ rec.onDefault
               /\ rec.repo = r /\ f \in rec.files
         \/ head'[r][f] = 0
         \/ head'[r][f] = head[r][f]
  <2>1. CASE UNCHANGED <<head, marker>>
    BY <2>1
  <2>2. ASSUME NEW s \in Repos, NEW k \in PushKinds, rec.kind = "push", rec.onDefault,
               rec.repo = s, rec.files = k.changed, Push(s, k)
        PROVE  \A r \in Repos, f \in Files :
                  \/ head'[r][f] = last + 1 /\ rec.repo = r /\ f \in rec.files
                  \/ head'[r][f] = 0
                  \/ head'[r][f] = head[r][f]
    BY <2>2 DEF Push, HeadAfter, Types, TypeOK
  <2>. QED
    BY <1>1, <2>1, <2>2
<1>7. LockDiscipline'
  BY <1>2 DEF Remembered, LockDiscipline, InTransaction
<1>8. HeadsAreWritten'
  <2> SUFFICES ASSUME NEW r \in Repos, NEW f \in Files, head'[r][f] # 0
               PROVE  /\ head'[r][f] <= last' /\ IsPush(head[r][f])'
                      /\ event'[head'[r][f]].repo = r
                      /\ f \in event'[head'[r][f]].files
    BY DEF HeadsAreWritten
  <2>1. CASE head'[r][f] = last + 1 /\ rec.kind = "push" /\ rec.onDefault
             /\ rec.repo = r /\ f \in rec.files
    <3>1. event'[last + 1] = rec
      BY <1>1, <1>2 DEF Sends, Types, TypeOK
    <3>. QED
      BY <2>1, <3>1, <1>2 DEF IsPush, Versions
  <2>2. CASE head'[r][f] = head[r][f]
    <3>1. head[r][f] \in 1..last
      BY <2>2, <1>2 DEF Remembered, HeadsAreWritten, Types, TypeOK, Versions
    <3>. QED
      BY <2>2, <3>1, <1>2, <1>3 DEF Remembered, HeadsAreWritten, IsPush, Versions
  <2>. QED
    BY <1>6, <2>1, <2>2
<1>9. LogsGrow'
  BY <1>2 DEF Remembered, LogsGrow, InTransaction, Versions
<1>10. HandlersProgress'
  <2>1. \A w \in Workers :
          (/\ InTransaction(w) => repo[w] = event[evt[w]].repo
           /\ pc[w] \in {"check", "fetch"} => IsPush(evt[w])
           /\ pc[w] = "commit" /\ IsPush(evt[w]) => evt[w] \in view[w].log
           /\ pc[w] = "ack" => Recorded(evt[w]))'
    BY <1>2, <1>3, <1>4, <1>5
       DEF Remembered, HandlersProgress, InTransaction, IsPush, Recorded
  <2>2. \A e \in Events : status'[e] = "deleted" => Recorded(e)'
    <3> SUFFICES ASSUME NEW e \in Events, status'[e] = "deleted" PROVE Recorded(e)'
      OBVIOUS
    <3>1. e \in 1..last
      BY <1>1, <1>2 DEF Sends, Types, TypeOK, WellFormed, Events, Versions
    <3>. QED
      BY <3>1, <1>3, <1>4 DEF Remembered, HandlersProgress
  <2>. QED
    BY <2>1, <2>2 DEF HandlersProgress
<1>11. LoggedIsReflected'
  <2>1. \A r \in Repos, f \in Files :
          head'[r][f] \in 1..last => head'[r][f] = head[r][f]
    BY <1>2, <1>6 DEF Versions
  <2>2. (\A r \in Repos, f \in Files :
          head[r][f] \in rows[r].log => Reflects(rows[r], f, head[r][f]))'
    BY <1>2, <2>1 DEF Remembered, LoggedIsReflected, LogsGrow, Reflects
  <2>3. (\A p \in Procs, f \in Files :
          InTransaction(p) /\ head[repo[p]][f] \in view[p].log
              => Reflects(view[p], f, head[repo[p]][f]))'
    BY <1>2, <2>1 DEF Remembered, LoggedIsReflected, LogsGrow, Reflects,
                      InTransaction, Types, WellFormed
  <2>4. (\A w \in Workers, f \in Files :
          pc[w] = "fetch" /\ f \notin todo[w] /\ head[repo[w]][f] = evt[w]
              => Reflects(view[w], f, evt[w]))'
    BY <1>2, <1>5, <2>1 DEF Remembered, LoggedIsReflected, Reflects, Types, WellFormed,
                            InTransaction, Procs
  <2>. QED
    BY <2>2, <2>3, <2>4 DEF LoggedIsReflected
<1>. QED
  BY <1>7, <1>8, <1>9, <1>10, <1>11 DEF Remembered

\* A step of p outside any transaction that neither commits nor forgets to record
\* what it acknowledges.
LEMMA OutsideRemembers ==
  ASSUME PipelineAssumption, Types, Remembered, NEW p \in Procs, NEW label, NEW n,
         ~InTransaction(p), label \notin {"check", "fetch", "tree", "commit"},
         UNCHANGED <<head, last, event, rows, lock, repo, todo, view>>,
         pc' = [pc EXCEPT ![p] = label],
         evt' = [evt EXCEPT ![p] = n],
         label = "ack" => Recorded(n),
         \A e \in Events : status'[e] = "deleted" => Recorded(e)
  PROVE  Remembered'
<1>1. \A q \in Procs : InTransaction(q)' <=> InTransaction(q)
  BY DEF InTransaction, Types, TypeOK
<1>2. \A q \in Procs : q # p => pc'[q] = pc[q] /\ evt'[q] = evt[q]
  BY DEF Types, TypeOK
<1>3. pc'[p] = label /\ evt'[p] = n
  BY DEF Types, TypeOK
<1>4. \A e : (IsPush(e)' <=> IsPush(e)) /\ (Recorded(e)' <=> Recorded(e))
  BY DEF IsPush, Recorded
<1>5. LockDiscipline'
  BY <1>1 DEF Remembered, LockDiscipline, Types, TypeOK
<1>6. HeadsAreWritten'
  BY DEF Remembered, HeadsAreWritten, IsPush
<1>7. LogsGrow'
  BY <1>1 DEF Remembered, LogsGrow
<1>8. HandlersProgress'
  <2> SUFFICES ASSUME NEW w \in Workers
               PROVE  (/\ InTransaction(w) => repo[w] = event[evt[w]].repo
                       /\ pc[w] \in {"check", "fetch"} => IsPush(evt[w])
                       /\ pc[w] = "commit" /\ IsPush(evt[w]) => evt[w] \in view[w].log
                       /\ pc[w] = "ack" => Recorded(evt[w]))'
    BY <1>4 DEF HandlersProgress
  <2>1. w \in Procs
    BY DEF Procs
  <2>2. CASE w = p
    BY <1>1, <1>3, <1>4, <2>1, <2>2 DEF InTransaction
  <2>3. CASE w # p
    BY <1>1, <1>2, <1>4, <2>1, <2>3 DEF Remembered, HandlersProgress
  <2>. QED
    BY <2>2, <2>3
<1>9. LoggedIsReflected'
  BY <1>1, <1>2, <1>3 DEF Remembered, LoggedIsReflected, Reflects, Procs
<1>. QED
  BY <1>5, <1>6, <1>7, <1>8, <1>9 DEF Remembered

\* A step of p inside its transaction: what p sees keeps its log, reflects what
\* it logs and what the push it handles wrote, and names that push when it is done.
LEMMA InsideRemembers ==
  ASSUME PipelineAssumption, Types, Remembered, NEW p \in Procs, NEW row, NEW label,
         InTransaction(p), label \in {"check", "fetch", "tree", "commit"},
         UNCHANGED <<head, last, event, status, rows, lock, evt, repo>>,
         pc' = [pc EXCEPT ![p] = label],
         view' = [view EXCEPT ![p] = row],
         \A q \in Procs : q # p => todo'[q] = todo[q],
         row.log \subseteq 1..last, view[p].log \subseteq row.log,
         \A f \in Files : head[repo[p]][f] \in row.log
             => Reflects(row, f, head[repo[p]][f]),
         p \in Workers =>
             /\ label \in {"check", "fetch"} => IsPush(evt[p])
             /\ label = "commit" /\ IsPush(evt[p]) => evt[p] \in row.log
             /\ label = "fetch" =>
                   \A f \in Files \ todo'[p] :
                      head[repo[p]][f] = evt[p] => Reflects(row, f, evt[p])
  PROVE  Remembered'
<1>1. \A q \in Procs : InTransaction(q)' <=> InTransaction(q)
  BY DEF InTransaction, Types, TypeOK
<1>2. \A q \in Procs : q # p => pc'[q] = pc[q] /\ view'[q] = view[q]
  BY DEF Types, TypeOK
<1>3. pc'[p] = label /\ view'[p] = row
  BY DEF Types, TypeOK
<1>4. \A e : (IsPush(e)' <=> IsPush(e)) /\ (Recorded(e)' <=> Recorded(e))
  BY DEF IsPush, Recorded
<1>5. LockDiscipline'
  BY <1>1 DEF Remembered, LockDiscipline, Types, TypeOK
<1>6. HeadsAreWritten'
  BY DEF Remembered, HeadsAreWritten, IsPush
<1>7. LogsGrow'
  BY <1>1, <1>2, <1>3 DEF Remembered, LogsGrow
<1>8. HandlersProgress'
  <2> SUFFICES ASSUME NEW w \in Workers
               PROVE  (/\ InTransaction(w) => repo[w] = event[evt[w]].repo
                       /\ pc[w] \in {"check", "fetch"} => IsPush(evt[w])
                       /\ pc[w] = "commit" /\ IsPush(evt[w]) => evt[w] \in view[w].log
                       /\ pc[w] = "ack" => Recorded(evt[w]))'
    BY <1>4 DEF Remembered, HandlersProgress
  <2>1. w \in Procs
    BY DEF Procs
  <2>2. CASE w = p
    BY <1>1, <1>3, <1>4, <2>1, <2>2 DEF Remembered, HandlersProgress
  <2>3. CASE w # p
    BY <1>1, <1>2, <1>4, <2>1, <2>3 DEF Remembered, HandlersProgress
  <2>. QED
    BY <2>2, <2>3
<1>9. LoggedIsReflected'
  <2>1. (\A q \in Procs, f \in Files :
          InTransaction(q) /\ head[repo[q]][f] \in view[q].log
              => Reflects(view[q], f, head[repo[q]][f]))'
    <3> SUFFICES ASSUME NEW q \in Procs, NEW f \in Files, InTransaction(q),
                        head[repo[q]][f] \in view'[q].log
                 PROVE  Reflects(view'[q], f, head[repo[q]][f])
      BY <1>1
    <3>1. CASE q = p
      BY <1>3, <3>1
    <3>2. CASE q # p
      BY <1>2, <3>2 DEF Remembered, LoggedIsReflected
    <3>. QED
      BY <3>1, <3>2
  <2>2. (\A w \in Workers, f \in Files :
          pc[w] = "fetch" /\ f \notin todo[w] /\ head[repo[w]][f] = evt[w]
              => Reflects(view[w], f, evt[w]))'
    <3> SUFFICES ASSUME NEW w \in Workers, NEW f \in Files, pc'[w] = "fetch",
                        f \notin todo'[w], head[repo[w]][f] = evt[w]
                 PROVE  Reflects(view'[w], f, evt[w])
      OBVIOUS
    <3>1. w \in Procs
      BY DEF Procs
    <3>2. CASE w = p
      BY <1>3, <3>2
    <3>3. CASE w # p
      BY <1>2, <3>1, <3>3 DEF Remembered, LoggedIsReflected
    <3>. QED
      BY <3>2, <3>3
  <2>3. \A r \in Repos, f \in Files :
          head[r][f] \in rows[r].log => Reflects(rows[r], f, head[r][f])
    BY DEF Remembered, LoggedIsReflected
  <2>. QED
    BY <2>1, <2>2, <2>3 DEF LoggedIsReflected
<1>. QED
  BY <1>5, <1>6, <1>7, <1>8, <1>9 DEF Remembered

\* The queue hands an event to an idle worker and acknowledges none.
LEMMA QueueRemembers ==
  ASSUME PipelineAssumption, Types, Remembered, QueueStep
  PROVE  Remembered'
<1>1. PICK e \in Events :
        \/ Enqueue(e) \/ LoseWebhook(e)
        \/ VisibilityTimeout(e) \/ DuplicateDelivery(e) \/ Redrive(e)
        \/ \E w \in Workers : Receive(w, e)
  BY DEF QueueStep
<1>2. ASSUME UNCHANGED <<github, db, procs>>,
             \A d \in Events : status'[d] = "deleted" => status[d] = "deleted"
      PROVE  Remembered'
  BY <1>2 DEF Remembered, LockDiscipline, HeadsAreWritten, LogsGrow, HandlersProgress,
              LoggedIsReflected, InTransaction, IsPush, Recorded, Reflects,
              github, db, procs
<1>3. CASE Enqueue(e) \/ LoseWebhook(e) \/ VisibilityTimeout(e) \/ DuplicateDelivery(e)
             \/ Redrive(e)
  <2>1. UNCHANGED <<github, db, procs>>
    BY <1>3 DEF Enqueue, LoseWebhook, VisibilityTimeout, DuplicateDelivery, Redrive
  <2>2. \A d \in Events : status'[d] = "deleted" => status[d] = "deleted"
    BY <1>3 DEF Enqueue, LoseWebhook, VisibilityTimeout, DuplicateDelivery, Redrive,
                Types, TypeOK
  <2>. QED
    BY <1>2, <2>1, <2>2
<1>4. ASSUME NEW w \in Workers, Receive(w, e) PROVE Remembered'
  <2>1. /\ pc[w] = "idle" /\ pc' = [pc EXCEPT ![w] = "start"]
        /\ evt' = [evt EXCEPT ![w] = e]
        /\ UNCHANGED <<head, last, event, rows, lock, repo, todo, view>>
    BY <1>4 DEF Receive, github, db
  <2>2. \A d \in Events : status'[d] = "deleted" => Recorded(d)
    BY <1>4 DEF Receive, Types, TypeOK, Remembered, HandlersProgress
  <2>3. w \in Procs /\ ~InTransaction(w)
    BY <2>1 DEF Procs, InTransaction
  <2>. QED
    BY <2>1, <2>2, <2>3, OutsideRemembers
<1>. QED
  BY <1>1, <1>3, <1>4

\* Looking for the marker: a purge leaves nothing unreflected and logs the push;
\* otherwise every file the push still is the last to have written is to fetch.
LEMMA CheckExclusionRemembers ==
  ASSUME PipelineAssumption, Types, Remembered, NEW p \in Procs, CheckExclusion(p)
  PROVE  Remembered'
<1> DEFINE r == repo[p]
           pushes == IF p = Sync THEN {} ELSE {evt[p]}
<1>1. /\ r \in Repos /\ pc[p] = "check" /\ view[p] \in Row /\ InTransaction(p)
      /\ UNCHANGED <<head, last, event, status, rows, lock, evt, repo>>
  BY DEF CheckExclusion, Types, TypeOK, WellFormed, InTransaction, github, db, queue
<1>2. p \in Workers => evt[p] \in 1..last /\ IsPush(evt[p])
  BY <1>1 DEF Types, TypeOK, WellFormed, Remembered, HandlersProgress, Events
<1>3. p = Sync <=> p \notin Workers
  BY DEF Procs, PipelineAssumption
<1>4. /\ view[p].log \subseteq 1..last
      /\ \A f \in Files : head[r][f] \in view[p].log => Reflects(view[p], f, head[r][f])
  BY <1>1 DEF Remembered, LogsGrow, LoggedIsReflected
<1>5. CASE marker[r] # 0
  <2> DEFINE row == Purge(view[p], marker[r], pushes)
  <2>1. /\ view' = [view EXCEPT ![p] = row]
        /\ pc' = [pc EXCEPT ![p] = "commit"] /\ todo' = todo
    BY <1>5 DEF CheckExclusion
  <2>2. pushes \subseteq 1..last /\ (p \in Workers => evt[p] \in pushes)
    BY <1>2, <1>3
  <2> HIDE DEF pushes
  <2>3. row.log = view[p].log \cup pushes
    BY <1>1, LogsOf
  <2>4. \A f \in Files : \A v : Reflects(row, f, v)
    BY <1>1, <1>5, PurgeReflects
  <2> HIDE DEF row
  <2>. QED
    BY <1>1, <1>4, <2>1, <2>2, <2>3, <2>4, InsideRemembers
<1>6. CASE marker[r] = 0
  <2>1. /\ view' = view /\ pc' = [pc EXCEPT ![p] = "fetch"]
        /\ todo' = [todo EXCEPT ![p] = IF p = Sync THEN SeedDocuments(r)
                                                   ELSE PushFiles(evt[p])]
    BY <1>6 DEF CheckExclusion
  <2>2. \A f \in Files : p \in Workers /\ head[r][f] = evt[p] => f \in todo'[p]
    <3> SUFFICES ASSUME NEW f \in Files, p \in Workers, head[r][f] = evt[p]
                 PROVE  f \in todo'[p]
      OBVIOUS
    <3>1. f \in event[evt[p]].files
      BY <1>1, <1>2 DEF Remembered, HeadsAreWritten
    <3>2. todo'[p] = PushFiles(evt[p])
      BY <1>3, <2>1 DEF Types, TypeOK
    <3>. QED
      BY <3>1, <3>2 DEF PushFiles
  <2>3. view' = [view EXCEPT ![p] = view[p]] /\ \A q \in Procs : q # p => todo'[q] = todo[q]
    BY <2>1 DEF Types, TypeOK
  <2>. QED
    BY <1>1, <1>2, <1>4, <2>1, <2>2, <2>3, InsideRemembers
<1>. QED
  BY <1>5, <1>6

\* Fetching makes the transaction see the head's version of one file more.
LEMMA FetchRemembers ==
  ASSUME PipelineAssumption, Types, Remembered, NEW p \in Procs, NEW f \in Files, Fetch(p, f)
  PROVE  Remembered'
<1> DEFINE r == repo[p]
           row == Synced(p, view[p], f, head[r][f])
<1>1. /\ r \in Repos /\ pc[p] \in {"fetch", "tree"} /\ view[p] \in Row /\ InTransaction(p)
      /\ UNCHANGED <<head, last, event, status, rows, lock, evt, repo>>
      /\ view' = [view EXCEPT ![p] = row] /\ pc' = [pc EXCEPT ![p] = pc[p]]
      /\ todo' = [todo EXCEPT ![p] = todo[p] \ {f}]
  BY DEF Fetch, Types, TypeOK, WellFormed, InTransaction, github, db, queue
<1>2. row.log = view[p].log
  BY <1>1, LogsOf
<1>3. /\ view[p].log \subseteq 1..last
      /\ \A g \in Files : head[r][g] \in view[p].log => Reflects(view[p], g, head[r][g])
  BY <1>1 DEF Remembered, LogsGrow, LoggedIsReflected
<1>4. \A g \in Files : \A v : v # 0 /\ v = head[r][g] /\ Reflects(view[p], g, v) => Reflects(row, g, v)
  BY <1>1, SyncedReflects, Zenon
<1>5. head[r][f] # 0 => Reflects(row, f, head[r][f])
  BY <1>1, SyncedReflects, Zenon
<1>6. 0 \notin 1..last
  BY DEF Types, TypeOK, Versions
<1> HIDE DEF row
<1>7. \A g \in Files : head[r][g] \in row.log => Reflects(row, g, head[r][g])
  BY <1>2, <1>3, <1>4, <1>6
<1>8. /\ \A q \in Procs : q # p => todo'[q] = todo[q]
      /\ todo'[p] = todo[p] \ {f}
  BY <1>1 DEF Types, TypeOK
<1>9. p \in Workers => pc[p] = "fetch" /\ IsPush(evt[p]) /\ evt[p] # 0
  BY <1>1 DEF Types, WellFormed, Remembered, HandlersProgress, Events
<1>10. p \in Workers => \A g \in Files \ todo'[p] :
          head[r][g] = evt[p] => Reflects(row, g, evt[p])
  <2> SUFFICES ASSUME p \in Workers, NEW g \in Files \ todo'[p], head[r][g] = evt[p]
               PROVE  Reflects(row, g, evt[p])
    OBVIOUS
  <2>1. CASE g = f
    BY <1>5, <1>9, <2>1
  <2>2. CASE g # f
    BY <1>4, <1>8, <1>9, <2>2 DEF Remembered, LoggedIsReflected
  <2>. QED
    BY <2>1, <2>2
<1>. QED
  BY <1>1, <1>2, <1>3, <1>7, <1>8, <1>9, <1>10, InsideRemembers

\* Taking the lock: the transaction starts from the committed rows.
LEMMA BeginRemembers ==
  ASSUME PipelineAssumption, Types, Remembered, NEW p \in Procs, NEW r \in Repos,
         NEW visibility, NEW next, Begin(p, r, visibility, next), ~InTransaction(p),
         UNCHANGED <<head, last, event, status, rows, evt, todo>>,
         next \in {"check", "commit"},
         p \in Workers => /\ r = event[evt[p]].repo
                          /\ IsPush(evt[p]) <=> next = "check"
  PROVE  Remembered'
<1> DEFINE row == Upserted(rows[r], visibility)
<1>1. /\ lock[r] = NoOne /\ lock' = [lock EXCEPT ![r] = p]
      /\ repo' = [repo EXCEPT ![p] = r] /\ pc' = [pc EXCEPT ![p] = next]
      /\ view' = [view EXCEPT ![p] = row]
  BY DEF Begin
<1>2. rows[r] \in Row
  BY DEF Types, TypeOK
<1>3. row.log = rows[r].log
  BY <1>2, LogsOf
<1>4. \A f \in Files : head[r][f] \in row.log => Reflects(row, f, head[r][f])
  BY <1>2, <1>3, ReflectsUnmoved, Zenon DEF Remembered, LoggedIsReflected
<1> HIDE DEF row
<1>5. /\ pc'[p] = next /\ repo'[p] = r /\ view'[p] = row /\ lock'[r] = p
      /\ \A q \in Procs : q # p => pc'[q] = pc[q] /\ repo'[q] = repo[q] /\ view'[q] = view[q]
      /\ \A s \in Repos : s # r => lock'[s] = lock[s]
  BY <1>1 DEF Types, TypeOK
<1>6. /\ InTransaction(p)' /\ p # NoOne
      /\ \A q \in Procs : q # p => (InTransaction(q)' <=> InTransaction(q))
      /\ \A q \in Procs : InTransaction(q) => repo[q] \in Repos
  BY <1>5 DEF InTransaction, PipelineAssumption, Types, WellFormed
<1>7. \A e : (IsPush(e)' <=> IsPush(e)) /\ (Recorded(e)' <=> Recorded(e))
  BY DEF IsPush, Recorded
<1>8. LockDiscipline'
  <2>1. \A q \in Procs : InTransaction(q)' => lock'[repo'[q]] = q
    BY <1>1, <1>5, <1>6 DEF Remembered, LockDiscipline
  <2>2. \A s \in Repos : lock'[s] # NoOne => InTransaction(lock[s])' /\ repo'[lock'[s]] = s
    BY <1>1, <1>5, <1>6 DEF Remembered, LockDiscipline, Types, TypeOK
  <2>. QED
    BY <2>1, <2>2 DEF LockDiscipline
<1>9. HeadsAreWritten'
  BY DEF Remembered, HeadsAreWritten, IsPush
<1>10. LogsGrow'
  BY <1>3, <1>5, <1>6 DEF Remembered, LogsGrow
<1>11. HandlersProgress'
  <2> SUFFICES ASSUME NEW w \in Workers
               PROVE  (/\ InTransaction(w) => repo[w] = event[evt[w]].repo
                       /\ pc[w] \in {"check", "fetch"} => IsPush(evt[w])
                       /\ pc[w] = "commit" /\ IsPush(evt[w]) => evt[w] \in view[w].log
                       /\ pc[w] = "ack" => Recorded(evt[w]))'
    BY <1>7 DEF Remembered, HandlersProgress
  <2>1. w \in Procs
    BY DEF Procs
  <2>2. CASE w = p
    BY <1>5, <1>7, <2>2
  <2>3. CASE w # p
    BY <1>5, <1>6, <1>7, <2>1, <2>3 DEF Remembered, HandlersProgress
  <2>. QED
    BY <2>2, <2>3
<1>12. LoggedIsReflected'
  <2>1. (\A q \in Procs, f \in Files :
          InTransaction(q) /\ head[repo[q]][f] \in view[q].log
              => Reflects(view[q], f, head[repo[q]][f]))'
    <3> SUFFICES ASSUME NEW q \in Procs, NEW f \in Files, InTransaction(q)',
                        head[repo'[q]][f] \in view'[q].log
                 PROVE  Reflects(view'[q], f, head[repo'[q]][f])
      OBVIOUS
    <3>1. CASE q = p
      BY <1>4, <1>5, <3>1
    <3>2. CASE q # p
      BY <1>5, <1>6, <3>2 DEF Remembered, LoggedIsReflected
    <3>. QED
      BY <3>1, <3>2
  <2>2. \A w \in Workers, f \in Files :
          pc'[w] = "fetch" /\ f \notin todo[w] /\ head[repo'[w]][f] = evt[w]
              => Reflects(view'[w], f, evt[w])
    BY <1>5 DEF Remembered, LoggedIsReflected, Procs
  <2>3. \A s \in Repos, f \in Files :
          head[s][f] \in rows[s].log => Reflects(rows[s], f, head[s][f])
    BY DEF Remembered, LoggedIsReflected
  <2>. QED
    BY <2>1, <2>2, <2>3 DEF LoggedIsReflected
<1>. QED
  BY <1>8, <1>9, <1>10, <1>11, <1>12 DEF Remembered

\* Leaving a transaction, by commit or by rollback: the committed rows only gain
\* log rows, and nobody else is in a transaction on the same repository.
LEMMA LeaveRemembers ==
  ASSUME PipelineAssumption, Types, Remembered, NEW p \in Procs, NEW label, NEW n,
         label \notin {"check", "fetch", "tree", "commit"},
         UNCHANGED <<head, last, event, status>>,
         \A q \in Procs : q # p => /\ pc'[q] = pc[q] /\ evt'[q] = evt[q] /\ repo'[q] = repo[q]
                                   /\ todo'[q] = todo[q] /\ view'[q] = view[q],
         pc'[p] = label, evt'[p] = n, label = "ack" => Recorded(n)',
         \A s \in Repos : lock'[s] = IF lock[s] = p THEN NoOne ELSE lock[s],
         \A s \in Repos : \/ rows'[s] = rows[s]
                          \/ InTransaction(p) /\ s = repo[p] /\ rows'[s] = view[p]
  PROVE  Remembered'
<1>1. /\ ~InTransaction(p)'
      /\ \A q \in Procs : q # p => (InTransaction(q)' <=> InTransaction(q))
      /\ \A q \in Procs : InTransaction(q) => repo[q] \in Repos /\ lock[repo[q]] = q
  BY DEF InTransaction, Types, WellFormed, Remembered, LockDiscipline
<1>2. \A s \in Repos : rows[s].log \subseteq rows'[s].log /\ rows'[s].log \subseteq 1..last
  BY DEF Remembered, LogsGrow
<1>3. \A q \in Procs : q # p /\ InTransaction(q) => rows'[repo[q]] = rows[repo[q]]
  BY <1>1
<1>4. \A e \in Events : (IsPush(e)' <=> IsPush(e))
  BY DEF IsPush
<1>5. \A e \in Events : Recorded(e) /\ status[e] # "unsent" => Recorded(e)'
  BY <1>2, <1>4 DEF Recorded, Types, WellFormed
<1>6. LockDiscipline'
  BY <1>1 DEF Remembered, LockDiscipline, Types, TypeOK
<1>7. HeadsAreWritten'
  BY DEF Remembered, HeadsAreWritten, IsPush
<1>8. LogsGrow'
  BY <1>1, <1>2, <1>3 DEF Remembered, LogsGrow
<1>9. HandlersProgress'
  <2>1. \A e \in Events : status'[e] = "deleted" => Recorded(e)'
    BY <1>5 DEF Remembered, HandlersProgress
  <2> SUFFICES ASSUME NEW w \in Workers
               PROVE  (/\ InTransaction(w) => repo[w] = event[evt[w]].repo
                       /\ pc[w] \in {"check", "fetch"} => IsPush(evt[w])
                       /\ pc[w] = "commit" /\ IsPush(evt[w]) => evt[w] \in view[w].log
                       /\ pc[w] = "ack" => Recorded(evt[w]))'
    BY <2>1 DEF HandlersProgress
  <2>2. w \in Procs
    BY DEF Procs
  <2>3. CASE w = p
    BY <1>1, <2>3 DEF InTransaction
  <2>4. CASE w # p
    <3>1. pc[w] # "idle" => evt[w] \in Events /\ status[evt[w]] # "unsent"
      BY DEF Types, WellFormed
    <3>2. evt'[w] = evt[w] /\ pc'[w] = pc[w]
      BY <2>2, <2>4
    <3>3. \A e : (IsPush(e)' <=> IsPush(e))
      BY DEF IsPush
    <3>4. (pc[w] = "ack" => Recorded(evt[w]))'
      <4>1. pc[w] = "ack" => Recorded(evt[w]) /\ evt[w] \in Events /\ status[evt[w]] # "unsent"
        BY <3>1 DEF Remembered, HandlersProgress
      <4>2. \A e \in Events : Recorded(e) /\ status[e] # "unsent" /\ IsPush(e)
               => e \in rows'[event[e].repo].log
        BY <1>5 DEF Recorded, IsPush
      <4>3. pc[w] = "ack" /\ IsPush(evt[w]) => evt[w] \in rows'[event[evt[w]].repo].log
        BY <4>1, <4>2
      <4>. QED
        BY <3>2, <3>3, <4>3 DEF Recorded, IsPush
    <3>. QED
      BY <1>1, <2>2, <2>4, <3>3, <3>4 DEF Remembered, HandlersProgress
  <2>. QED
    BY <2>3, <2>4
<1>10. LoggedIsReflected'
  <2>1. \A s \in Repos, f \in Files :
          head[s][f] \in rows'[s].log => Reflects(rows'[s], f, head[s][f])
    BY DEF Remembered, LoggedIsReflected
  <2>2. (\A q \in Procs, f \in Files :
          InTransaction(q) /\ head[repo[q]][f] \in view[q].log
              => Reflects(view[q], f, head[repo[q]][f]))'
    BY <1>1 DEF Remembered, LoggedIsReflected
  <2>3. (\A w \in Workers, f \in Files :
          pc[w] = "fetch" /\ f \notin todo[w] /\ head[repo[w]][f] = evt[w]
              => Reflects(view[w], f, evt[w]))'
    BY <1>1 DEF Remembered, LoggedIsReflected, Procs, InTransaction
  <2>. QED
    BY <2>1, <2>2, <2>3 DEF LoggedIsReflected
<1>. QED
  BY <1>6, <1>7, <1>8, <1>9, <1>10 DEF Remembered

\* Committing publishes a view that reflects what it logs.
LEMMA CommitRemembers ==
  ASSUME PipelineAssumption, Types, Remembered, NEW p \in Procs, NEW next,
         CommitTo(p, next), next = (IF p = Sync THEN "next" ELSE "ack")
  PROVE  Remembered'
<1>1. /\ InTransaction(p) /\ repo[p] \in Repos /\ lock[repo[p]] = p
      /\ UNCHANGED <<head, last, event, status, evt, todo>>
  BY DEF CommitTo, InTransaction, Types, WellFormed, Remembered, LockDiscipline, github, queue
<1>2. \A q \in Procs : q # p => /\ pc'[q] = pc[q] /\ evt'[q] = evt[q] /\ repo'[q] = repo[q]
                                /\ todo'[q] = todo[q] /\ view'[q] = view[q]
  BY <1>1 DEF CommitTo, Types, TypeOK
<1>3. pc'[p] = next /\ next \notin {"check", "fetch", "tree", "commit"}
  BY DEF CommitTo, Types, TypeOK
<1>4. \A s \in Repos : lock'[s] = IF lock[s] = p THEN NoOne ELSE lock[s]
  BY <1>1 DEF CommitTo, Types, TypeOK, Remembered, LockDiscipline
<1>5. \A s \in Repos : rows'[s] = IF s = repo[p] THEN view[p] ELSE rows[s]
  BY <1>1 DEF CommitTo, Types, TypeOK
<1>6. next = "ack" => Recorded(evt[p])'
  <2> SUFFICES ASSUME p \in Workers, IsPush(evt[p])
               PROVE  evt[p] \in rows'[event[evt[p]].repo].log
    BY <1>1 DEF Recorded, IsPush, Procs
  <2>. QED
    BY <1>1, <1>5 DEF Remembered, HandlersProgress, CommitTo
<1>. QED
  BY <1>1, <1>2, <1>3, <1>4, <1>5, <1>6, LeaveRemembers

\* Rolling back leaves the committed rows alone.
LEMMA FailRemembers ==
  ASSUME PipelineAssumption, Types, Remembered, NEW p \in Procs, Fail(p)
  PROVE  Remembered'
<1>1. /\ UNCHANGED <<head, last, event, status, rows>>
      /\ \A q \in Procs : q # p => /\ pc'[q] = pc[q] /\ evt'[q] = evt[q] /\ repo'[q] = repo[q]
                                   /\ todo'[q] = todo[q] /\ view'[q] = view[q]
      /\ pc'[p] = "idle" /\ evt'[p] = 0
      /\ \A s \in Repos : lock'[s] = IF lock[s] = p THEN NoOne ELSE lock[s]
  BY DEF Fail, Types, TypeOK, github, queue
<1>. QED
  BY <1>1, LeaveRemembers

\* No step of a worker forgets a logged push.
LEMMA WorkerRemembers ==
  ASSUME PipelineAssumption, Types, Remembered, NEW w \in Workers, WorkerStep(w)
  PROVE  Remembered'
<1>1. w \in Procs /\ w # Sync
  BY DEF Procs, PipelineAssumption
<1>2. \A e \in Events : status[e] = "deleted" => Recorded(e)
  BY DEF Remembered, HandlersProgress
<1>3. CASE Ignore(w)
  <2>1. ~InTransaction(w) /\ Recorded(evt[w])
    BY <1>3 DEF Ignore, InTransaction, OffDefault, Recorded, IsPush
  <2>2. evt' = [evt EXCEPT ![w] = evt[w]]
    BY <1>3 DEF Ignore, Types, TypeOK
  <2>. QED
    BY <1>1, <1>2, <1>3, <2>1, <2>2, OutsideRemembers DEF Ignore, github, queue, db
<1>4. CASE Upsert(w)
  <2> DEFINE e == event[evt[w]]
             next == IF e.kind = "push" THEN "check" ELSE "commit"
  <2>1. pc[w] = "start" /\ ~OffDefault(evt[w]) /\ Begin(w, e.repo, e.private, next)
    BY <1>4 DEF Upsert
  <2>2. e.repo \in Repos /\ ~InTransaction(w)
    BY <2>1 DEF Types, WellFormed, InTransaction
  <2>3. IsPush(evt[w]) <=> next = "check"
    BY <2>1 DEF OffDefault, IsPush
  <2>4. next \in {"check", "commit"} /\ UNCHANGED <<head, last, event, status, rows, evt, todo>>
    BY <1>4 DEF Upsert, github, queue
  <2> HIDE DEF next
  <2>. QED
    BY <1>1, <2>1, <2>2, <2>3, <2>4, BeginRemembers
<1>5. CASE CheckExclusion(w)
  BY <1>1, <1>5, CheckExclusionRemembers
<1>6. ASSUME NEW f \in Files, Fetch(w, f) PROVE Remembered'
  BY <1>1, <1>6, FetchRemembers
<1>7. CASE SyncPushCommit(w)
  <2> DEFINE row == Landed(view[w], evt[w])
  <2>1. /\ pc[w] = "fetch" /\ todo[w] = {} /\ InTransaction(w) /\ view[w] \in Row
        /\ repo[w] \in Repos /\ evt[w] \in 1..last
        /\ UNCHANGED <<head, last, event, status, rows, lock, evt, repo, todo>>
        /\ view' = [view EXCEPT ![w] = row] /\ pc' = [pc EXCEPT ![w] = "commit"]
    BY <1>1, <1>7 DEF SyncPushCommit, InTransaction, Types, TypeOK, WellFormed, Events,
                      github, queue, db
  <2>2. row.log = view[w].log \cup {evt[w]}
    BY <2>1, LogsOf
  <2>3. /\ view[w].log \subseteq 1..last
        /\ \A f \in Files : head[repo[w]][f] \in view[w].log
              => Reflects(view[w], f, head[repo[w]][f])
        /\ \A f \in Files : head[repo[w]][f] = evt[w] => Reflects(view[w], f, evt[w])
    BY <1>1, <2>1 DEF Remembered, LogsGrow, LoggedIsReflected
  <2>4. \A f \in Files : \A v : Reflects(view[w], f, v) => Reflects(row, f, v)
    BY <2>1, ReflectsUnmoved, Zenon
  <2> HIDE DEF row
  <2>. QED
    BY <1>1, <2>1, <2>2, <2>3, <2>4, InsideRemembers
<1>8. CASE Commit(w)
  BY <1>1, <1>8, CommitRemembers DEF Commit
<1>9. CASE Ack(w)
  <2>1. pc[w] = "ack" /\ ~InTransaction(w) /\ Recorded(evt[w])
    BY <1>9 DEF Ack, InTransaction, Remembered, HandlersProgress
  <2>2. \A e \in Events : status'[e] = "deleted" => Recorded(e)
    BY <1>2, <1>9, <2>1 DEF Ack, Types, TypeOK
  <2>. QED
    BY <1>1, <1>9, <2>1, <2>2, OutsideRemembers DEF Ack, github, db
<1>10. CASE Crash(w)
  BY <1>1, <1>10, FailRemembers DEF Crash
<1>. QED
  BY <1>3, <1>4, <1>5, <1>6, <1>7, <1>8, <1>9, <1>10 DEF WorkerStep

\* No step of the seed sync forgets a logged push.
LEMMA SyncRemembers ==
  ASSUME PipelineAssumption, Types, Remembered, SyncStep
  PROVE  Remembered'
<1>1. Sync \in Procs /\ Sync \notin Workers
  BY DEF Procs, PipelineAssumption
<1>2. \A e \in Events : status[e] = "deleted" => Recorded(e)
  BY DEF Remembered, HandlersProgress
<1>3. CASE StartSync \/ FinishSync
  <2> DEFINE label == IF pc[Sync] = "idle" THEN "next" ELSE "idle"
  <2>1. /\ ~InTransaction(Sync) /\ pc' = [pc EXCEPT ![Sync] = label]
        /\ UNCHANGED <<head, last, event, status, rows, lock, evt, repo, todo, view>>
    BY <1>3 DEF StartSync, FinishSync, InTransaction, github, queue, db
  <2>2. evt' = [evt EXCEPT ![Sync] = evt[Sync]]
    BY <2>1 DEF Types, TypeOK
  <2>3. label \notin {"check", "fetch", "tree", "commit", "ack"}
    OBVIOUS
  <2> HIDE DEF label
  <2>. QED
    BY <1>1, <1>2, <2>1, <2>2, <2>3, OutsideRemembers
<1>4. CASE CheckExclusion(Sync)
  BY <1>1, <1>4, CheckExclusionRemembers
<1>5. ASSUME NEW r \in Repos, SyncUpsert(r) PROVE Remembered'
  <2>1. ~InTransaction(Sync) /\ UNCHANGED <<head, last, event, status, rows, evt, todo>>
    BY <1>5 DEF SyncUpsert, InTransaction, github, queue
  <2>. QED
    BY <1>1, <1>5, <2>1, BeginRemembers DEF SyncUpsert
<1>6. ASSUME NEW f \in Files, Fetch(Sync, f) PROVE Remembered'
  BY <1>1, <1>6, FetchRemembers
<1>7. CASE ListTree
  <2>1. /\ InTransaction(Sync) /\ pc' = [pc EXCEPT ![Sync] = "tree"]
        /\ UNCHANGED <<head, last, event, status, rows, lock, evt, repo, view>>
    BY <1>7 DEF ListTree, InTransaction, github, queue, db
  <2>2. /\ view' = [view EXCEPT ![Sync] = view[Sync]]
        /\ \A q \in Procs : q # Sync => todo'[q] = todo[q]
    BY <1>7, <2>1 DEF ListTree, Types, TypeOK
  <2>3. /\ view[Sync].log \subseteq 1..last
        /\ \A f \in Files : head[repo[Sync]][f] \in view[Sync].log
              => Reflects(view[Sync], f, head[repo[Sync]][f])
    BY <1>1, <2>1 DEF Remembered, LogsGrow, LoggedIsReflected
  <2>. QED
    BY <1>1, <2>1, <2>2, <2>3, InsideRemembers
<1>8. CASE SyncCommits
  <2> DEFINE row == WithCommits(view[Sync], RecentCommits(repo[Sync]))
  <2>1. /\ InTransaction(Sync) /\ view[Sync] \in Row
        /\ UNCHANGED <<head, last, event, status, rows, lock, evt, repo, todo>>
        /\ view' = [view EXCEPT ![Sync] = row] /\ pc' = [pc EXCEPT ![Sync] = "commit"]
    BY <1>1, <1>8 DEF SyncCommits, InTransaction, Types, TypeOK, github, queue, db
  <2>2. row.log = view[Sync].log
    BY <2>1, LogsOf
  <2>3. /\ view[Sync].log \subseteq 1..last
        /\ \A f \in Files : head[repo[Sync]][f] \in view[Sync].log
              => Reflects(view[Sync], f, head[repo[Sync]][f])
    BY <1>1, <2>1 DEF Remembered, LogsGrow, LoggedIsReflected
  <2>4. \A f \in Files : \A v : Reflects(view[Sync], f, v) => Reflects(row, f, v)
    BY <2>1, ReflectsUnmoved, Zenon
  <2> HIDE DEF row
  <2>. QED
    BY <1>1, <2>1, <2>2, <2>3, <2>4, InsideRemembers
<1>9. CASE CommitSync
  BY <1>1, <1>9, CommitRemembers DEF CommitSync
<1>10. CASE CrashSync
  BY <1>1, <1>10, FailRemembers DEF CrashSync
<1>. QED
  BY <1>3, <1>4, <1>5, <1>6, <1>7, <1>8, <1>9, <1>10 DEF SyncStep

\* No step forgets a logged push.
LEMMA NextRemembers ==
  ASSUME PipelineAssumption, Types, Remembered, [Next]_vars PROVE Remembered'
<1>1. CASE UNCHANGED vars
  BY <1>1 DEF vars, github, queue, db, procs, seed, Remembered, LockDiscipline,
              HeadsAreWritten, LogsGrow, HandlersProgress, LoggedIsReflected,
              InTransaction, IsPush, Recorded, Reflects
<1>. QED
  BY <1>1, GitHubRemembers, QueueRemembers, WorkerRemembers, SyncRemembers DEF Next

\* The inductive invariant: one transaction at a time on a repository, and every
\* logged push is reflected wherever it still is the last to have written.
THEOREM NeverForgets == ASSUME PipelineAssumption PROVE Spec => []NothingForgotten
<1>1. Init => Types /\ Remembered
  BY InitTypes, InitRemembered
<1>2. Types /\ Remembered /\ [Next]_vars => (Types /\ Remembered)'
  BY NextTypes, NextRemembers
<1>3. Types /\ Remembered => NothingForgotten
  BY DEF Types, Remembered, NothingForgotten
<1>. QED
  BY <1>1, <1>2, <1>3, PTL DEF Spec

\* No lost update: an acknowledged push that still is the last to have written a
\* file is reflected in the committed rows of that file.
THEOREM NoUpdateLost == ASSUME PipelineAssumption PROVE Spec => []NoLostUpdate
<1>1. TypeOK /\ NothingForgotten => NoLostUpdate
  <2> SUFFICES ASSUME TypeOK, NothingForgotten, NEW r \in Repos, NEW f \in Files,
                      head[r][f] # 0, status[head[r][f]] = "deleted"
               PROVE  Reflects(rows[r], f, head[r][f])
    BY DEF NoLostUpdate
  <2>1. head[r][f] \in Events /\ IsPush(head[r][f]) /\ event[head[r][f]].repo = r
    BY DEF TypeOK, NothingForgotten, HeadsAreWritten, Versions, Events
  <2>2. head[r][f] \in rows[r].log
    BY <2>1 DEF NothingForgotten, HandlersProgress, Recorded
  <2>. QED
    BY <2>2 DEF NothingForgotten, LoggedIsReflected
<1>. QED
  BY <1>1, TypeCorrect, NeverForgets, PTL

\* Only recorded pushes are acknowledged.
THEOREM AcknowledgementIsLate ==
  ASSUME PipelineAssumption PROVE Spec => []AcknowledgedIsRecorded
<1>1. NothingForgotten => AcknowledgedIsRecorded
  BY DEF NothingForgotten, HandlersProgress, Recorded, IsPush, AcknowledgedIsRecorded
<1>. QED
  BY <1>1, NeverForgets, PTL

-----------------------------------------------------------------------------
(* Every other step, told by what it does to heads, rows and transactions. *)

OthersStay(p) ==
    \A q \in Procs \ {p} : /\ pc'[q] = pc[q] /\ evt'[q] = evt[q] /\ todo'[q] = todo[q]
                           /\ repo'[q] = repo[q] /\ view'[q] = view[q]

\* Only process p moves, from repository o to repository r and from a view to row.
OnlyMoves(p, label, r, row) ==
    /\ pc'[p] = label /\ repo'[p] = r /\ view'[p] = row
    /\ OthersStay(p)

TransactionLabels == {"check", "fetch", "tree", "commit"}

\* Process p stays outside, or leaves its transaction without committing it.
StaysOutside(p) ==
    /\ pc'[p] \notin TransactionLabels
    /\ OthersStay(p)
    /\ rows' = rows

\* It begins a transaction.
Begins(p) ==
    \E r \in Repos, label \in {"check", "commit"}, b \in BOOLEAN :
        /\ OnlyMoves(p, label, r, Upserted(rows[r], b))
        /\ rows' = rows

\* It has found the marker.
PurgesView(p) ==
    /\ pc[p] = "check" /\ marker[repo[p]] # 0 /\ rows' = rows
    /\ \E L \in SUBSET Events : /\ p \in Workers => L = {evt[p]}
                                /\ p \notin Workers => L = {}
                                /\ OnlyMoves(p, "commit", repo[p], Purge(view[p], marker[repo[p]], L))

\* It has not, or lists the tree.
GoesOn(p) ==
    /\ \/ /\ pc[p] = "check" /\ marker[repo[p]] = 0 /\ OnlyMoves(p, "fetch", repo[p], view[p])
          /\ p \in Workers => todo'[p] = PushFiles(evt[p])
       \/ pc[p] = "fetch" /\ p = Sync /\ OnlyMoves(p, "tree", repo[p], view[p])
    /\ rows' = rows /\ evt'[p] = evt[p]

\* It synchronises a file.
FetchesOne(p) ==
    /\ pc[p] \in {"fetch", "tree"} /\ rows' = rows /\ evt'[p] = evt[p]
    /\ \E f \in Files :
          /\ OnlyMoves(p, pc[p], repo[p], Synced(p, view[p], f, head[repo[p]][f]))
          /\ todo'[p] = todo[p] \ {f}

\* It adds commits, a worker the log row of its push too.
AddsCommits(p) ==
    /\ pc[p] \in {"fetch", "tree"} /\ rows' = rows
    /\ \/ /\ p \in Workers /\ pc[p] = "fetch" /\ todo[p] = {}
          /\ OnlyMoves(p, "commit", repo[p], Landed(view[p], evt[p]))
       \/ \E C \in SUBSET Pushes(repo[p]) :
             OnlyMoves(p, "commit", repo[p], WithCommits(view[p], C))

\* It commits.
Publishes(p) ==
    /\ pc[p] = "commit" /\ pc'[p] \notin TransactionLabels
    /\ OthersStay(p)
    /\ rows' = [rows EXCEPT ![repo[p]] = view[p]]

\* What a step that is not GitHub's may do to these.
Ingests ==
    /\ UNCHANGED <<head, marker, last, event>>
    /\ \/ UNCHANGED <<rows, pc, evt, repo, todo, view>>
       \/ \E p \in Procs : \/ StaysOutside(p) \/ Begins(p) \/ PurgesView(p) \/ GoesOn(p)
                           \/ FetchesOne(p) \/ AddsCommits(p) \/ Publishes(p)

\* The queue's steps are of this kind.
LEMMA QueueIngests == ASSUME PipelineAssumption, Types, QueueStep PROVE Ingests
<1>1. PICK e \in Events :
        \/ Enqueue(e) \/ LoseWebhook(e)
        \/ VisibilityTimeout(e) \/ DuplicateDelivery(e) \/ Redrive(e)
        \/ \E w \in Workers : Receive(w, e)
  BY DEF QueueStep
<1>2. CASE \/ Enqueue(e) \/ LoseWebhook(e)
           \/ VisibilityTimeout(e) \/ DuplicateDelivery(e) \/ Redrive(e)
  BY <1>2 DEF Enqueue, LoseWebhook, VisibilityTimeout, DuplicateDelivery, Redrive,
              Ingests, github, db, procs
<1>3. ASSUME NEW w \in Workers, Receive(w, e) PROVE Ingests
  <2>1. w \in Procs
    BY DEF Procs
  <2>2. StaysOutside(w)
    BY <1>3, <2>1 DEF Receive, StaysOutside, OthersStay, TransactionLabels, Types, TypeOK, db
  <2>. QED
    BY <1>3, <2>1, <2>2 DEF Receive, Ingests, github
<1>. QED
  BY <1>1, <1>2, <1>3

\* So are those both kinds of process take.
LEMMA SharedIngest ==
  ASSUME PipelineAssumption, Types, NEW p \in Procs,
         CheckExclusion(p) \/ (\E f \in Files : Fetch(p, f)) \/ Fail(p)
  PROVE  Ingests
<1>1. CASE CheckExclusion(p)
  <2>1. /\ UNCHANGED <<head, marker, last, event, rows, repo, evt>>
        /\ pc[p] = "check"
    BY <1>1 DEF CheckExclusion, github, db
  <2>2. CASE marker[repo[p]] # 0
    <3>. DEFINE L == IF p = Sync THEN {} ELSE {evt[p]}
    <3>1. /\ L \in SUBSET Events
          /\ p \in Workers => L = {evt[p]}
          /\ p \notin Workers => L = {}
      BY <2>1 DEF PipelineAssumption, Procs, Types, WellFormed
    <3>2. /\ view' = [view EXCEPT ![p] = Purge(view[p], marker[repo[p]], L)]
          /\ pc' = [pc EXCEPT ![p] = "commit"] /\ todo' = todo
      BY <1>1, <2>2 DEF CheckExclusion
    <3>. HIDE DEF L
    <3>3. OnlyMoves(p, "commit", repo[p], Purge(view[p], marker[repo[p]], L))
      BY <2>1, <3>2 DEF OnlyMoves, OthersStay, Types, TypeOK
    <3>4. PurgesView(p)
      BY <2>1, <2>2, <3>1, <3>3 DEF PurgesView
    <3>. QED
      BY <2>1, <3>4 DEF Ingests
  <2>3. CASE marker[repo[p]] = 0
    <3>1. /\ view' = view /\ pc' = [pc EXCEPT ![p] = "fetch"]
          /\ todo' = [todo EXCEPT ![p] =
                        IF p = Sync THEN SeedDocuments(repo[p]) ELSE PushFiles(evt[p])]
      BY <1>1, <2>3 DEF CheckExclusion
    <3>2. OnlyMoves(p, "fetch", repo[p], view[p])
      BY <2>1, <3>1 DEF OnlyMoves, OthersStay, Types, TypeOK
    <3>3. p \in Workers => todo'[p] = PushFiles(evt[p])
      BY <3>1 DEF PipelineAssumption, Types, TypeOK
    <3>4. GoesOn(p)
      BY <2>1, <2>3, <3>2, <3>3 DEF GoesOn
    <3>. QED
      BY <2>1, <3>4 DEF Ingests
  <2>. QED
    BY <2>2, <2>3
<1>2. ASSUME NEW f \in Files, Fetch(p, f) PROVE Ingests
  <2>. DEFINE row == Synced(p, view[p], f, head[repo[p]][f])
  <2>1. /\ UNCHANGED <<head, marker, last, event, rows, repo, evt, pc>>
        /\ pc[p] \in {"fetch", "tree"}
        /\ view' = [view EXCEPT ![p] = row]
        /\ todo' = [todo EXCEPT ![p] = @ \ {f}]
    BY <1>2 DEF Fetch, github, db
  <2>. HIDE DEF row
  <2>2. OnlyMoves(p, pc[p], repo[p], row)
    BY <2>1 DEF OnlyMoves, OthersStay, Types, TypeOK
  <2>3. todo'[p] = todo[p] \ {f}
    BY <2>1 DEF Types, TypeOK
  <2>4. FetchesOne(p)
    BY <2>1, <2>2, <2>3 DEF FetchesOne, row
  <2>. QED
    BY <2>1, <2>4 DEF Ingests
<1>3. CASE Fail(p)
  <2>1. StaysOutside(p)
    BY <1>3 DEF Fail, StaysOutside, OthersStay, TransactionLabels, Types, TypeOK
  <2>. QED
    BY <1>3, <2>1 DEF Fail, Ingests, github
<1>. QED
  BY <1>1, <1>2, <1>3

\* A commit publishes what the transaction wrote.
LEMMA CommitIngests ==
  ASSUME PipelineAssumption, Types, NEW p \in Procs, NEW next \in {"ack", "next"},
         CommitTo(p, next)
  PROVE  Ingests
<1>1. Publishes(p)
  BY DEF CommitTo, Publishes, OthersStay, TransactionLabels, Types, TypeOK
<1>. QED
  BY <1>1 DEF CommitTo, Ingests, github

\* A transaction begins with its own upsert on top of what is committed.
LEMMA BeginIngests ==
  ASSUME PipelineAssumption, Types, NEW p \in Procs, NEW r \in Repos, NEW b \in BOOLEAN,
         NEW next \in {"check", "commit"}, Begin(p, r, b, next),
         UNCHANGED <<head, marker, last, event, rows, evt, todo>>
  PROVE  Ingests
<1>1. OnlyMoves(p, next, r, Upserted(rows[r], b))
  BY DEF Begin, OnlyMoves, OthersStay, Types, TypeOK
<1>2. Begins(p)
  BY <1>1 DEF Begins
<1>. QED
  BY <1>2 DEF Ingests

\* And so are the others of a worker.
LEMMA WorkerIngests ==
  ASSUME PipelineAssumption, Types, NEW w \in Workers, WorkerStep(w)
  PROVE  Ingests
<1>1. w \in Procs
  BY DEF Procs
<1>2. CASE Ignore(w) \/ Ack(w)
  <2>1. StaysOutside(w)
    BY <1>1, <1>2 DEF Ignore, Ack, StaysOutside, OthersStay, TransactionLabels, Types, TypeOK, db
  <2>. QED
    BY <1>1, <1>2, <2>1 DEF Ignore, Ack, Ingests, github
<1>3. CASE Upsert(w)
  <2>1. /\ event[evt[w]].repo \in Repos /\ event[evt[w]].private \in BOOLEAN
        /\ UNCHANGED <<head, marker, last, event, rows, evt, todo>>
    BY <1>3 DEF Upsert, Types, TypeOK, WellFormed, EventRec, github
  <2>. QED
    BY <1>1, <1>3, <2>1, BeginIngests DEF Upsert
<1>4. CASE SyncPushCommit(w)
  <2>. DEFINE row == Landed(view[w], evt[w])
  <2>1. /\ UNCHANGED <<head, marker, last, event, rows, repo, evt>>
        /\ pc[w] = "fetch" /\ pc' = [pc EXCEPT ![w] = "commit"]
        /\ view' = [view EXCEPT ![w] = row] /\ todo' = todo /\ todo[w] = {}
    BY <1>4 DEF SyncPushCommit, github, db
  <2>. HIDE DEF row
  <2>2. OnlyMoves(w, "commit", repo[w], row)
    BY <1>1, <2>1 DEF OnlyMoves, OthersStay, Types, TypeOK
  <2>3. AddsCommits(w)
    BY <2>1, <2>2 DEF AddsCommits, row
  <2>. QED
    BY <1>1, <2>1, <2>3 DEF Ingests
<1>5. CASE Commit(w)
  BY <1>1, <1>5, CommitIngests DEF Commit
<1>6. CASE CheckExclusion(w) \/ (\E f \in Files : Fetch(w, f)) \/ Crash(w)
  BY <1>1, <1>6, SharedIngest DEF Crash
<1>. QED
  BY <1>2, <1>3, <1>4, <1>5, <1>6 DEF WorkerStep

\* And of the seed sync.
LEMMA SyncIngests == ASSUME PipelineAssumption, Types, SyncStep PROVE Ingests
<1>1. Sync \in Procs
  BY DEF Procs
<1>2. CASE StartSync \/ FinishSync
  <2>1. StaysOutside(Sync)
    BY <1>1, <1>2 DEF StartSync, FinishSync, StaysOutside, OthersStay, TransactionLabels, Types, TypeOK, db
  <2>. QED
    BY <1>1, <1>2, <2>1 DEF StartSync, FinishSync, Ingests, github
<1>3. ASSUME NEW r \in Repos, SyncUpsert(r) PROVE Ingests
  <2>1. listed[r] \in BOOLEAN /\ UNCHANGED <<head, marker, last, event, rows, evt, todo>>
    BY <1>3 DEF SyncUpsert, Types, TypeOK, github
  <2>. QED
    BY <1>1, <1>3, <2>1, BeginIngests DEF SyncUpsert
<1>4. CASE ListTree
  <2>1. /\ UNCHANGED <<head, marker, last, event, rows, repo, evt, view>>
        /\ pc[Sync] = "fetch" /\ pc' = [pc EXCEPT ![Sync] = "tree"]
        /\ \A q \in Procs \ {Sync} : todo'[q] = todo[q]
    BY <1>4 DEF ListTree, github, db, Types, TypeOK
  <2>2. GoesOn(Sync)
    BY <1>1, <2>1 DEF GoesOn, OnlyMoves, OthersStay, Types, TypeOK
  <2>. QED
    BY <1>1, <2>1, <2>2 DEF Ingests
<1>5. CASE SyncCommits
  <2>. DEFINE C == RecentCommits(repo[Sync])
              row == WithCommits(view[Sync], C)
  <2>1. /\ UNCHANGED <<head, marker, last, event, rows, repo, evt>>
        /\ pc[Sync] = "tree" /\ pc' = [pc EXCEPT ![Sync] = "commit"]
        /\ view' = [view EXCEPT ![Sync] = row] /\ todo' = todo
    BY <1>5 DEF SyncCommits, github, db
  <2>2. C \in SUBSET Pushes(repo[Sync])
    BY DEF RecentCommits, Pushes
  <2>. HIDE DEF row, C
  <2>3. OnlyMoves(Sync, "commit", repo[Sync], row)
    BY <1>1, <2>1 DEF OnlyMoves, OthersStay, Types, TypeOK
  <2>4. AddsCommits(Sync)
    BY <2>1, <2>2, <2>3 DEF AddsCommits, row
  <2>. QED
    BY <1>1, <2>1, <2>4 DEF Ingests
<1>6. CASE CommitSync
  BY <1>1, <1>6, CommitIngests DEF CommitSync
<1>7. CASE CheckExclusion(Sync) \/ (\E f \in Files : Fetch(Sync, f)) \/ CrashSync
  BY <1>1, <1>7, SharedIngest DEF CrashSync
<1>. QED
  BY <1>2, <1>3, <1>4, <1>5, <1>6, <1>7 DEF SyncStep

\* Every step is either GitHub's or of that kind.
LEMMA NextIngests ==
  ASSUME PipelineAssumption, Types, [Next]_vars
  PROVE  GitHubStep \/ Ingests
<1>1. CASE UNCHANGED vars
  BY <1>1 DEF vars, github, db, procs, Ingests
<1>. QED
  BY <1>1, QueueIngests, WorkerIngests, SyncIngests DEF Next

-----------------------------------------------------------------------------
(* RowsAreHonest is inductive.                                             *)

\* A purge for the marker that stands is honest, and leaves nothing older.
LEMMA PurgeIsHonest ==
  ASSUME PipelineAssumption, TypeOK, NEW r \in Repos, NEW row \in Row, NEW old \in Row,
         NEW L, marker[r] # 0, marker[r] <= last
  PROVE  LET new == Purge(row, marker[r], L) IN Honest(new, r) /\ NoOlder(new, old)
<1>. DEFINE new == Purge(row, marker[r], L)
<1>1. /\ new.purged = marker[r] /\ new.commits = {}
      /\ \A f \in Files : new.content[f] = 0 /\ new.static[f] = 0
  BY DEF Purge, Row
<1>2. last \in Nat /\ \A f \in Files : head[r][f] \in Nat
  BY DEF TypeOK, Versions, PipelineAssumption
<1>. HIDE DEF new
<1>3. Honest(new, r)
  BY <1>1, <1>2 DEF Honest
<1>4. NoOlder(new, old)
  BY <1>1 DEF NoOlder
<1>. QED
  BY <1>3, <1>4 DEF new

\* So is a row the version on the head has been fetched into, while no marker the
\* row has been purged for stands.
LEMMA SyncedIsHonest ==
  ASSUME PipelineAssumption, TypeOK, HeadsAreWritten, NEW p, NEW r \in Repos,
         NEW row \in Row, NEW old \in Row, NEW f \in Files,
         Honest(row, r), NoOlder(row, old), Honest(old, r),
         marker[r] # 0 => row.purged # marker[r]
  PROVE  LET new == Synced(p, row, f, head[r][f]) IN
         Honest(new, r) /\ NoOlder(new, old) /\ new.purged = row.purged
<1>. DEFINE n   == head[r][f]
            new == Synced(p, row, f, n)
<1>1. n \in Nat /\ n <= last /\ last \in Nat
  BY DEF TypeOK, Versions, PipelineAssumption, HeadsAreWritten
<1>2. new.purged = row.purged /\ new.log = row.log
  BY DEF Synced, Row
<1>3. \A g \in Files : /\ new.content[g] = row.content[g] \/ (g = f /\ n # 0 /\ new.content[g] = n)
                       /\ new.static[g] = row.static[g] \/ (g = f /\ n # 0 /\ new.static[g] = n)
  <2>. HIDE DEF n
  <2>. QED
    BY DEF Synced, Row
<1>. HIDE DEF new
<1>4. Honest(new, r)
  BY <1>1, <1>2, <1>3 DEF Honest
<1>5. NoOlder(new, old)
  BY <1>1, <1>3 DEF NoOlder, Honest
<1>. QED
  BY <1>2, <1>4, <1>5 DEF new

\* The other operators on rows touch no file, and a row that has not been purged
\* for the marker may be added commits to.
LEMMA OthersAreHonest ==
  ASSUME NEW r \in Repos, NEW row \in Row, NEW old \in Row,
         Honest(row, r), NoOlder(row, old)
  PROVE  /\ \A b : LET new == Upserted(row, b) IN Honest(new, r) /\ NoOlder(new, old)
         /\ \A e : (marker[r] # 0 => row.purged # marker[r] /\ e # marker[r])
              => LET new == Landed(row, e) IN Honest(new, r) /\ NoOlder(new, old)
         /\ \A C : (marker[r] # 0 => row.purged # marker[r])
              => LET new == WithCommits(row, C) IN Honest(new, r) /\ NoOlder(new, old)
<1>1. ASSUME NEW b
      PROVE  LET new == Upserted(row, b) IN Honest(new, r) /\ NoOlder(new, old)
  BY DEF Upserted, Row, Honest, NoOlder
<1>2. ASSUME NEW e, marker[r] # 0 => row.purged # marker[r] /\ e # marker[r]
      PROVE  LET new == Landed(row, e) IN Honest(new, r) /\ NoOlder(new, old)
  BY <1>2 DEF Landed, Row, Honest, NoOlder
<1>3. ASSUME NEW C, marker[r] # 0 => row.purged # marker[r]
      PROVE  LET new == WithCommits(row, C) IN Honest(new, r) /\ NoOlder(new, old)
  BY <1>3 DEF WithCommits, Row, Honest, NoOlder
<1>. QED
  BY <1>1, <1>2, <1>3

\* A row stays honest about r when r is pushed to: what the push writes, the
\* marker included, is newer than all the row has, logs and was purged for.
LEMMA GitHubKeepsHonest ==
  ASSUME PipelineAssumption, TypeOK, NEW r \in Repos, NEW row \in Row, Honest(row, r),
         row.log \subseteq 1..last, last' = last + 1,
         marker'[r] \in {0, last + 1, marker[r]},
         \A f \in Files : head'[r][f] \in {0, last + 1, head[r][f]}
  PROVE  Honest(row, r)'
<1>1. last \in Nat
  BY DEF TypeOK, Versions, PipelineAssumption
<1>2. \A f \in Files : row.content[f] \in Nat /\ row.static[f] \in Nat /\ head[r][f] \in Nat
  BY DEF TypeOK, Versions, PipelineAssumption, Row
<1>3. row.purged \in Nat /\ row.purged <= last
  BY DEF Row, Versions, PipelineAssumption, Honest
<1>. QED
  BY <1>1, <1>2, <1>3 DEF Honest

\* Initially no marker stands and every row is empty.
LEMMA InitHonest == ASSUME PipelineAssumption, Init PROVE RowsAreHonest
<1>1. \A p \in Procs : pc[p] = "idle"
  BY DEF Init
<1>2. \A r \in Repos : /\ marker[r] = 0 /\ rows[r] = NoRow
                       /\ \A f \in Files : head[r][f] = 0
  BY DEF Init
<1>3. NoRow.purged = 0 /\ \A f \in Files : NoRow.content[f] = 0 /\ NoRow.static[f] = 0
  BY DEF NoRow
<1>4. last = 0
  BY DEF Init
<1>. QED
  BY <1>1, <1>2, <1>3, <1>4 DEF RowsAreHonest, Honest, InTransaction

\* A GitHub action leaves every row and every transaction honest.
LEMMA GitHubHonest ==
  ASSUME PipelineAssumption, Types, Remembered, RowsAreHonest, GitHubStep
  PROVE  RowsAreHonest'
<1>1. PICK rec \in EventRec :
         /\ rec.repo \in Repos /\ Sends(rec)
         /\ \/ \E r \in Repos, k \in PushKinds :
                  /\ rec.kind = "push" /\ rec.onDefault
                  /\ rec.repo = r /\ rec.files = k.changed
                  /\ Push(r, k)
            \/ UNCHANGED <<head, marker>> /\ private' \in [Repos -> BOOLEAN]
  BY GitHubSends DEF Types, SendsOnePayload
<1>2. /\ last' = last + 1 /\ last + 1 \in Events /\ last \in Nat
      /\ UNCHANGED <<rows, pc, evt, repo, view>>
  BY <1>1 DEF Sends, db, procs, Types, TypeOK, Versions, Events, PipelineAssumption
<1>3. event'[last + 1] = rec /\ \A e \in 1..last : event'[e] = event[e]
  BY <1>1, <1>2 DEF Sends, Types, TypeOK, Events, Versions
<1>4. \A r \in Repos :
         /\ \A f \in Files : head'[r][f] \in {0, last + 1, head[r][f]}
         /\ \/ marker'[r] \in {0, marker[r]}
            \/ /\ marker'[r] = last + 1
               /\ rec.kind = "push" /\ rec.onDefault /\ rec.repo = r
  <2>1. CASE UNCHANGED <<head, marker>>
    BY <2>1
  <2>2. ASSUME NEW s \in Repos, NEW k \in PushKinds, rec.kind = "push", rec.onDefault,
               rec.repo = s, Push(s, k)
        PROVE  \A r \in Repos :
                  /\ \A f \in Files : head'[r][f] \in {0, last + 1, head[r][f]}
                  /\ marker'[r] \in {0, marker[r]} \/ (marker'[r] = last + 1 /\ rec.repo = r)
    <3>1. k.marker \in {"keep", "add", "remove"}
      BY DEF PipelineAssumption, PushKind
    <3>2. MarkerAfter(marker[s], k) \in {0, marker[s], last + 1}
      BY <3>1 DEF MarkerAfter
    <3>. QED
      BY <2>2, <3>2 DEF Push, HeadAfter, Types, TypeOK
  <2>. QED
    BY <1>1, <2>1, <2>2
<1>5. \A r \in Repos : marker'[r] # 0 => /\ marker'[r] <= last' /\ IsPush(marker[r])'
                                         /\ event'[marker'[r]].repo = r
  <2> SUFFICES ASSUME NEW r \in Repos, marker'[r] # 0
               PROVE  /\ marker'[r] <= last' /\ IsPush(marker[r])'
                      /\ event'[marker'[r]].repo = r
    OBVIOUS
  <2>1. CASE marker'[r] = last + 1 /\ rec.kind = "push" /\ rec.onDefault /\ rec.repo = r
    BY <2>1, <1>2, <1>3 DEF IsPush
  <2>2. CASE marker'[r] = marker[r]
    <3>1. marker[r] \in 1..last
      BY <2>2, <1>2 DEF RowsAreHonest, Types, TypeOK, Versions
    <3>. QED
      BY <2>2, <3>1, <1>2, <1>3 DEF RowsAreHonest, IsPush
  <2>. QED
    BY <1>4, <2>1, <2>2
<1>6. \A r \in Repos : Honest(rows[r], r)'
  <2> SUFFICES ASSUME NEW r \in Repos PROVE Honest(rows[r], r)'
    OBVIOUS
  <2>1. rows[r] \in Row /\ Honest(rows[r], r) /\ rows[r].log \subseteq 1..last
    BY DEF Types, TypeOK, RowsAreHonest, Remembered, LogsGrow
  <2>. QED
    BY <2>1, <1>2, <1>4, GitHubKeepsHonest DEF Types
<1>7. \A p \in Procs : InTransaction(p)' =>
         Honest(view[p], repo[p])' /\ NoOlder(view[p], rows[repo[p]])'
  <2> SUFFICES ASSUME NEW p \in Procs, InTransaction(p)
               PROVE  Honest(view[p], repo[p])' /\ NoOlder(view[p], rows[repo[p]])'
    BY <1>2 DEF InTransaction
  <2>1. /\ view[p] \in Row /\ repo[p] \in Repos
        /\ Honest(view[p], repo[p]) /\ view[p].log \subseteq 1..last
    BY DEF Types, TypeOK, WellFormed, RowsAreHonest, Remembered, LogsGrow
  <2>2. Honest(view[p], repo[p])'
    BY <2>1, <1>2, <1>4, GitHubKeepsHonest DEF Types
  <2>3. NoOlder(view[p], rows[repo[p]])'
    BY <1>2 DEF RowsAreHonest, NoOlder
  <2>. QED
    BY <2>2, <2>3
<1>8. \A p \in Procs : pc'[p] \in {"fetch", "tree"} /\ marker'[repo'[p]] # 0 =>
         view'[p].purged # marker'[repo'[p]] /\ (p \in Workers => evt'[p] # marker'[repo'[p]])
  <2> SUFFICES ASSUME NEW p \in Procs, pc[p] \in {"fetch", "tree"}, marker'[repo[p]] # 0
               PROVE  view[p].purged # marker'[repo[p]] /\ (p \in Workers => evt[p] # marker'[repo[p]])
    BY <1>2
  <2>1. /\ repo[p] \in Repos /\ Honest(view[p], repo[p])
        /\ p \in Workers => evt[p] \in 1..last
    BY <1>2 DEF Types, TypeOK, WellFormed, InTransaction, RowsAreHonest, Events
  <2>2. view[p].purged <= last /\ view[p].purged \in Nat
    BY <2>1 DEF Honest, Types, TypeOK, Row, Versions, PipelineAssumption
  <2>. QED
    BY <1>2, <1>4, <2>1, <2>2 DEF RowsAreHonest
<1>. QED
  BY <1>5, <1>6, <1>7, <1>8 DEF RowsAreHonest

\* A process at p's new label, with p's new row, keeps its part of RowsAreHonest.
HonestAt(p, label, r, row) ==
    /\ label \in TransactionLabels => Honest(row, r) /\ NoOlder(row, rows[r])
    /\ label \in {"fetch", "tree"} /\ marker[r] # 0 => row.purged # marker[r]

\* A step that leaves the rows alone and moves one process honestly is honest.
LEMMA MoveHonest ==
  ASSUME Types, RowsAreHonest, UNCHANGED <<head, marker, last, event, rows>>,
         NEW p \in Procs, NEW label, NEW r \in Repos, NEW row,
         OnlyMoves(p, label, r, row), HonestAt(p, label, r, row),
         label \in {"fetch", "tree"} /\ marker[r] # 0 /\ p \in Workers => evt'[p] # marker[r]
  PROVE  RowsAreHonest'
<1>1. \A q \in Procs \ {p} : /\ pc'[q] = pc[q] /\ evt'[q] = evt[q]
                             /\ repo'[q] = repo[q] /\ view'[q] = view[q]
  BY DEF OnlyMoves, OthersStay
<1>2. pc'[p] = label /\ repo'[p] = r /\ view'[p] = row
  BY DEF OnlyMoves, OthersStay
<1>3. \A x, s : Honest(x, s)' <=> Honest(x, s)
  BY DEF Honest
<1>4. (\A q \in Procs : InTransaction(q) =>
          Honest(view[q], repo[q]) /\ NoOlder(view[q], rows[repo[q]]))'
  BY <1>1, <1>2 DEF RowsAreHonest, InTransaction, HonestAt, TransactionLabels, Honest, NoOlder
<1>5. (\A q \in Procs : pc[q] \in {"fetch", "tree"} /\ marker[repo[q]] # 0 =>
          view[q].purged # marker[repo[q]] /\ (q \in Workers => evt[q] # marker[repo[q]]))'
  BY <1>1, <1>2 DEF RowsAreHonest, HonestAt
<1>6. (\A s \in Repos : Honest(rows[s], s))'
  BY DEF RowsAreHonest, Honest
<1>7. (\A s \in Repos : marker[s] # 0 => /\ marker[s] <= last /\ IsPush(marker[s])
                                         /\ event[marker[s]].repo = s)'
  BY DEF RowsAreHonest, IsPush
<1>. QED
  BY <1>4, <1>5, <1>6, <1>7 DEF RowsAreHonest

\* Committing a view nobody else has the like of is honest.
LEMMA PublishHonest ==
  ASSUME Types, LockDiscipline, RowsAreHonest, UNCHANGED <<head, marker, last, event>>,
         NEW p \in Procs, Publishes(p)
  PROVE  RowsAreHonest'
<1>1. /\ \A q \in Procs \ {p} : /\ pc'[q] = pc[q] /\ evt'[q] = evt[q]
                                /\ repo'[q] = repo[q] /\ view'[q] = view[q]
      /\ InTransaction(p) /\ ~InTransaction(p)' /\ pc'[p] \notin {"fetch", "tree"}
      /\ rows' = [rows EXCEPT ![repo[p]] = view[p]]
  BY DEF Publishes, OthersStay, InTransaction, TransactionLabels
<1>2. repo[p] \in Repos /\ rows \in [Repos -> Row]
  BY <1>1 DEF Types, TypeOK, WellFormed
<1>3. Honest(view[p], repo[p])
  BY <1>1 DEF RowsAreHonest
<1>4. \A q \in Procs : InTransaction(q)' => /\ q # p /\ InTransaction(q) /\ repo[q] \in Repos
                                            /\ repo[q] # repo[p]
  BY <1>1 DEF InTransaction, Types, WellFormed, LockDiscipline
<1>5. (\A s \in Repos : Honest(rows[s], s))'
  <2> SUFFICES ASSUME NEW s \in Repos PROVE Honest(rows[s], s)'
    OBVIOUS
  <2>1. Honest(rows'[s], s)
    BY <1>1, <1>2, <1>3 DEF RowsAreHonest
  <2>. QED
    BY <2>1 DEF Honest
<1>6. (\A q \in Procs : InTransaction(q) =>
          Honest(view[q], repo[q]) /\ NoOlder(view[q], rows[repo[q]]))'
  <2> SUFFICES ASSUME NEW q \in Procs, InTransaction(q)'
               PROVE  Honest(view[q], repo[q])' /\ NoOlder(view[q], rows[repo[q]])'
    OBVIOUS
  <2>1. rows'[repo[q]] = rows[repo[q]] /\ view'[q] = view[q] /\ repo'[q] = repo[q]
    BY <1>1, <1>2, <1>4
  <2>2. Honest(view[q], repo[q]) /\ NoOlder(view[q], rows[repo[q]])
    BY <1>4 DEF RowsAreHonest
  <2>. QED
    BY <2>1, <2>2 DEF Honest, NoOlder
<1>7. (\A q \in Procs : pc[q] \in {"fetch", "tree"} /\ marker[repo[q]] # 0 =>
          view[q].purged # marker[repo[q]] /\ (q \in Workers => evt[q] # marker[repo[q]]))'
  BY <1>1 DEF RowsAreHonest
<1>8. (\A s \in Repos : marker[s] # 0 => /\ marker[s] <= last /\ IsPush(marker[s])
                                         /\ event[marker[s]].repo = s)'
  BY DEF RowsAreHonest, IsPush
<1>. QED
  BY <1>5, <1>6, <1>7, <1>8 DEF RowsAreHonest

\* Ingesting keeps every row and every transaction honest.
LEMMA IngestsHonest ==
  ASSUME PipelineAssumption, Types, Remembered, RowsAreHonest, Ingests
  PROVE  RowsAreHonest'
<1>1. UNCHANGED <<head, marker, last, event>>
  BY DEF Ingests
<1>2. CASE UNCHANGED <<rows, pc, evt, repo, todo, view>>
  BY <1>1, <1>2 DEF RowsAreHonest, Honest, NoOlder, IsPush, InTransaction
<1>3. ASSUME NEW p \in Procs,
             \/ StaysOutside(p) \/ Begins(p) \/ PurgesView(p) \/ GoesOn(p)
             \/ FetchesOne(p) \/ AddsCommits(p) \/ Publishes(p)
      PROVE  RowsAreHonest'
  <2>1. CASE StaysOutside(p)
    BY <1>1, <2>1 DEF StaysOutside, OthersStay, TransactionLabels, RowsAreHonest, Honest, NoOlder,
                      IsPush, InTransaction
  <2>2. CASE Begins(p)
    <3>1. PICK r \in Repos, label \in {"check", "commit"}, b \in BOOLEAN :
             OnlyMoves(p, label, r, Upserted(rows[r], b))
      BY <2>2 DEF Begins
    <3>2. rows[r] \in Row /\ Honest(rows[r], r)
      BY DEF Types, TypeOK, RowsAreHonest
    <3>3. NoOlder(rows[r], rows[r])
      BY <3>2 DEF NoOlder, Row, Versions, PipelineAssumption
    <3>4. HonestAt(p, label, r, Upserted(rows[r], b))
      BY <3>2, <3>3, OthersAreHonest DEF HonestAt
    <3>. QED
      BY <1>1, <2>2, <3>1, <3>4, MoveHonest DEF Begins
  <2>3. \/ PurgesView(p) \/ GoesOn(p) \/ FetchesOne(p) \/ AddsCommits(p)
        => /\ InTransaction(p) /\ repo[p] \in Repos /\ view[p] \in Row /\ rows[repo[p]] \in Row
           /\ Honest(view[p], repo[p]) /\ NoOlder(view[p], rows[repo[p]])
           /\ Honest(rows[repo[p]], repo[p]) /\ rows' = rows
    BY DEF PurgesView, GoesOn, FetchesOne, AddsCommits, InTransaction, Types, TypeOK,
           WellFormed, RowsAreHonest
  <2>4. CASE PurgesView(p)
    <3>1. PICK L \in SUBSET Events :
             OnlyMoves(p, "commit", repo[p], Purge(view[p], marker[repo[p]], L))
      BY <2>4 DEF PurgesView
    <3>2. marker[repo[p]] # 0 /\ marker[repo[p]] <= last
      BY <2>3, <2>4 DEF PurgesView, RowsAreHonest
    <3>3. HonestAt(p, "commit", repo[p], Purge(view[p], marker[repo[p]], L))
      BY <2>3, <2>4, <3>2, PurgeIsHonest DEF HonestAt, Types
    <3>. QED
      BY <1>1, <2>3, <2>4, <3>1, <3>3, MoveHonest
  <2>5. CASE GoesOn(p)
    <3>1. PICK label \in {"fetch", "tree"} :
             /\ OnlyMoves(p, label, repo[p], view[p]) /\ evt'[p] = evt[p]
             /\ marker[repo[p]] # 0 => pc[p] = "fetch"
      BY <2>5 DEF GoesOn
    <3>2. HonestAt(p, label, repo[p], view[p])
      BY <2>3, <2>5, <3>1 DEF HonestAt, RowsAreHonest
    <3>. QED
      BY <1>1, <2>3, <2>5, <3>1, <3>2, MoveHonest DEF RowsAreHonest
  <2>6. CASE FetchesOne(p)
    <3>1. PICK f \in Files :
             OnlyMoves(p, pc[p], repo[p], Synced(p, view[p], f, head[repo[p]][f]))
      BY <2>6 DEF FetchesOne
    <3>2. /\ pc[p] \in {"fetch", "tree"} /\ evt'[p] = evt[p]
          /\ marker[repo[p]] # 0 => /\ view[p].purged # marker[repo[p]]
                                    /\ p \in Workers => evt[p] # marker[repo[p]]
      BY <2>6 DEF FetchesOne, RowsAreHonest
    <3>3. HonestAt(p, pc[p], repo[p], Synced(p, view[p], f, head[repo[p]][f]))
      BY <2>3, <2>6, <3>2, SyncedIsHonest DEF HonestAt, Types, Remembered
    <3>. QED
      BY <1>1, <2>3, <2>6, <3>1, <3>2, <3>3, MoveHonest
  <2>7. CASE AddsCommits(p)
    <3>1. marker[repo[p]] # 0 => /\ view[p].purged # marker[repo[p]]
                                 /\ p \in Workers => evt[p] # marker[repo[p]]
      BY <2>7 DEF AddsCommits, RowsAreHonest
    <3>2. PICK row : /\ OnlyMoves(p, "commit", repo[p], row)
                     /\ \/ p \in Workers /\ row = Landed(view[p], evt[p])
                        \/ \E C : row = WithCommits(view[p], C)
      BY <2>7 DEF AddsCommits
    <3>3. Honest(row, repo[p]) /\ NoOlder(row, rows[repo[p]])
      <4>1. CASE p \in Workers /\ row = Landed(view[p], evt[p])
        BY <2>3, <2>7, <3>1, <4>1, OthersAreHonest
      <4>2. ASSUME NEW C, row = WithCommits(view[p], C)
            PROVE  Honest(row, repo[p]) /\ NoOlder(row, rows[repo[p]])
        BY <2>3, <2>7, <3>1, <4>2, OthersAreHonest
      <4>. QED
        BY <3>2, <4>1, <4>2
    <3>4. HonestAt(p, "commit", repo[p], row)
      BY <3>3 DEF HonestAt
    <3>. QED
      BY <1>1, <2>3, <2>7, <3>2, <3>4, MoveHonest
  <2>8. CASE Publishes(p)
    BY <1>1, <2>8, PublishHonest DEF Remembered
  <2>. QED
    BY <1>3, <2>1, <2>2, <2>4, <2>5, <2>6, <2>7, <2>8
<1>. QED
  BY <1>2, <1>3 DEF Ingests

\* Every step keeps the rows honest.
LEMMA NextHonest ==
  ASSUME PipelineAssumption, Types, Remembered, RowsAreHonest, [Next]_vars
  PROVE  RowsAreHonest'
BY NextIngests, GitHubHonest, IngestsHonest

\* Every row, committed or about to be, is honest about its repository.
THEOREM RowsStayHonest == ASSUME PipelineAssumption PROVE Spec => []RowsAreHonest
<1>1. Init => Types /\ Remembered /\ RowsAreHonest
  BY InitTypes, InitRemembered, InitHonest
<1>2. Types /\ Remembered /\ RowsAreHonest /\ [Next]_vars => (Types /\ Remembered /\ RowsAreHonest)'
  BY NextTypes, NextRemembers, NextHonest
<1>. QED
  BY <1>1, <1>2, PTL DEF Spec

\* A repository purged for the marker that stands holds no content, whoever looked
\* for the marker before it was pushed.
THEOREM PurgedContentStaysAway == ASSUME PipelineAssumption PROVE Spec => []PurgedStaysEmpty
<1>1. RowsAreHonest => PurgedStaysEmpty
  BY DEF RowsAreHonest, Honest, PurgedStaysEmpty
<1>. QED
  BY <1>1, RowsStayHonest, PTL

\* Acknowledging the push of a marker means having purged for it: the push is logged
\* by then, and no row that logs it has been purged for another.
THEOREM AcknowledgedMarkerIsHonoured ==
  ASSUME PipelineAssumption PROVE Spec => []MarkerHonoured
<1>1. TypeOK /\ NothingForgotten /\ RowsAreHonest => MarkerHonoured
  <2> SUFFICES ASSUME TypeOK, NothingForgotten, RowsAreHonest, NEW r \in Repos,
                      marker[r] # 0, status[marker[r]] = "deleted"
               PROVE  rows[r].purged = marker[r]
    BY DEF MarkerHonoured
  <2>1. marker[r] \in Events /\ IsPush(marker[r]) /\ event[marker[r]].repo = r
    BY DEF TypeOK, RowsAreHonest, Versions, Events
  <2>2. marker[r] \in rows[r].log
    BY <2>1 DEF NothingForgotten, HandlersProgress, Recorded
  <2>. QED
    BY <2>2 DEF RowsAreHonest, Honest
<1>. QED
  BY <1>1, TypeCorrect, NeverForgets, RowsStayHonest, PTL

\* No step takes the rows of a file back to an older version: the only step that
\* changes rows publishes a view in which nothing is older.
THEOREM RowsNeverGoBackwards == ASSUME PipelineAssumption PROVE Spec => NeverBackwards
<1>. DEFINE Onwards(r, f) ==
              /\ rows'[r].content[f] \in {0} \cup (rows[r].content[f]..MaxEvents)
              /\ rows'[r].static[f] \in {0} \cup (rows[r].static[f]..MaxEvents)
<1>1. ASSUME Types, RowsAreHonest, [Next]_vars, NEW r \in Repos, NEW f \in Files
      PROVE  Onwards(r, f)
  <2>1. rows[r] \in Row
    BY <1>1 DEF Types, TypeOK
  <2>2. CASE rows' = rows
    BY <2>1, <2>2 DEF Row, Versions
  <2>3. ASSUME NEW p \in Procs, Publishes(p) PROVE Onwards(r, f)
    <3>1. InTransaction(p) /\ rows' = [rows EXCEPT ![repo[p]] = view[p]]
      BY <2>3 DEF Publishes, InTransaction
    <3>2. repo[p] \in Repos /\ view[p] \in Row /\ NoOlder(view[p], rows[repo[p]])
      BY <1>1, <3>1 DEF Types, TypeOK, WellFormed, RowsAreHonest
    <3>3. r = repo[p] => rows'[r] = view[p]
      BY <1>1, <3>1 DEF Types, TypeOK
    <3>4. r # repo[p] => rows'[r] = rows[r]
      BY <1>1, <3>1 DEF Types, TypeOK
    <3>. QED
      BY <2>1, <3>2, <3>3, <3>4 DEF Row, Versions, NoOlder
  <2>4. rows' = rows \/ \E p \in Procs : Publishes(p)
    <3>1. GitHubStep \/ Ingests
      BY <1>1, NextIngests
    <3>2. CASE GitHubStep
      BY <1>1, <3>2, GitHubSends DEF Types, SendsOnePayload, Sends, db
    <3>3. CASE Ingests
      BY <3>3 DEF Ingests, StaysOutside, Begins, PurgesView, GoesOn, FetchesOne, AddsCommits
    <3>. QED
      BY <3>1, <3>2, <3>3
  <2>. QED
    BY <2>2, <2>3, <2>4
<1>2. Types /\ RowsAreHonest /\ [Next]_vars
        => [\A r \in Repos, f \in Files : Onwards(r, f)]_vars
  BY <1>1
<1>3. Spec => []Types
  BY TypeCorrect DEF Types
<1>. QED
  BY <1>2, <1>3, RowsStayHonest, PTL DEF Spec, NeverBackwards

-----------------------------------------------------------------------------
(* The pipeline implements Mirror.  What a transaction has of its          *)
(* repository, beyond what RowsAreHonest says of it: either it has emptied *)
(* the rows, or each of them is as committed or of a later version; and it *)
(* holds what the push it is about to record wrote.                        *)

VersionsIn(r, f) ==
    {e \in Pushes(r) : f \in event[e].files /\ (f = Manifest => e \notin Malformed)}

Onward(old, new, r, f) == new = old \/ (new \in VersionsIn(r, f) /\ old < new)

Catches(old, new, r) ==
    /\ \A f \in Files : /\ Onward(old.content[f], new.content[f], r, f)
                        /\ Onward(old.static[f], new.static[f], r, f)
    /\ old.commits \subseteq new.commits
    /\ new.purged = old.purged

Empties(old, new, r) ==
    /\ \A f \in Files : new.content[f] = 0 /\ new.static[f] = 0
    /\ new.commits = {}
    /\ new.purged \in Pushes(r) /\ old.purged <= new.purged

\* Row row of r has what push e wrote to f, if e still is the last to have.
Arrived(row, r, f, e) == head[r][f] = e /\ e \in VersionsIn(r, f) => row.content[f] = e

Settled(row, r) ==
    /\ row.log \cup row.commits \subseteq Pushes(r)
    /\ marker[r] # 0 => row.purged <= marker[r]

\* A transaction on r at the given label: committed row old, its own row new.
Underway(label, r, old, new) ==
    /\ Settled(new, r) /\ old.log \subseteq new.log
    /\ label \in {"check", "fetch", "tree"} => Catches(old, new, r) /\ new.log = old.log
    /\ label = "commit" =>
          \/ Empties(old, new, r)
          \/ /\ Catches(old, new, r)
             /\ \A f \in Files : \A e \in new.log \ old.log : Arrived(new, r, f, e)

\* The inductive invariant behind ImplementsMirror.
HandlersAreWhole ==
    /\ \A e \in Events : e > last => event[e].kind = "none"
    /\ \A r \in Repos : Settled(rows[r], r)
    /\ \A p \in Procs : InTransaction(p) =>
          Underway(pc[p], repo[p], rows[repo[p]], view[p])
    /\ \A w \in Workers : pc[w] = "fetch" =>
          \A f \in Files \ todo[w] : Arrived(view[w], repo[w], f, evt[w])

\* Initially there is nothing to catch up with.
LEMMA InitWhole == ASSUME PipelineAssumption, Init PROVE HandlersAreWhole
<1>1. \A p \in Procs : pc[p] = "idle"
  BY DEF Init
<1>2. \A e \in Events : event[e].kind = "none"
  BY DEF Init, NoEvent
<1>3. \A r \in Repos : marker[r] = 0 /\ rows[r].log = {} /\ rows[r].commits = {}
  BY DEF Init, NoRow
<1>4. \A r \in Repos : Settled(rows[r], r)
  BY <1>3 DEF Settled
<1>. QED
  BY <1>1, <1>2, <1>4 DEF HandlersAreWhole, InTransaction, Procs

\* What the operators on rows but Purge do: upserting keeps everything, adding
\* commits and recording a push catch up with what is on the branch.
LEMMA AddingCatches ==
  ASSUME NEW r \in Repos, NEW old \in Row, NEW row \in Row, Catches(old, row, r)
  PROVE  /\ \A b : Catches(old, Upserted(row, b), r)
         /\ \A e : Catches(old, Landed(row, e), r)
         /\ \A C : Catches(old, WithCommits(row, C), r)
<1>1. ASSUME NEW b PROVE Catches(old, Upserted(row, b), r)
  <2>1. LET new == Upserted(row, b)
        IN  /\ new.content = row.content /\ new.static = row.static
            /\ new.commits = row.commits /\ new.purged = row.purged
    BY DEF Upserted, Row
  <2>. QED
    BY <2>1 DEF Catches
<1>2. ASSUME NEW e PROVE Catches(old, Landed(row, e), r)
  <2>1. LET new == Landed(row, e)
        IN  /\ new.content = row.content /\ new.static = row.static
            /\ row.commits \subseteq new.commits /\ new.purged = row.purged
    BY DEF Landed, Row
  <2>. QED
    BY <2>1 DEF Catches
<1>3. ASSUME NEW C PROVE Catches(old, WithCommits(row, C), r)
  <2>1. LET new == WithCommits(row, C)
        IN  /\ new.content = row.content /\ new.static = row.static
            /\ row.commits \subseteq new.commits /\ new.purged = row.purged
    BY DEF WithCommits, Row
  <2>. QED
    BY <2>1 DEF Catches
<1>. QED
  BY <1>1, <1>2, <1>3

\* Synchronising a file with the head catches up, and what the head has of the
\* file has arrived, and nothing else is disturbed.
LEMMA SyncedCatches ==
  ASSUME PipelineAssumption, TypeOK, HeadsAreWritten, NEW p, NEW r \in Repos,
         NEW old \in Row, NEW row \in Row, NEW f \in Files, Catches(old, row, r),
         Honest(old, r)
  PROVE  LET new == Synced(p, row, f, head[r][f])
         IN  /\ Catches(old, new, r)
             /\ \A e : Arrived(new, r, f, e)
             /\ \A g \in Files \ {f} : \A e : Arrived(row, r, g, e) => Arrived(new, r, g, e)
<1>. DEFINE n == head[r][f]
            new == Synced(p, row, f, n)
<1>1. n \in Versions /\ old.content[f] \in Versions /\ old.static[f] \in Versions
  BY DEF TypeOK, Row
<1>2. n # 0 => /\ n \in Pushes(r) /\ f \in event[n].files
               /\ old.content[f] <= n /\ old.static[f] <= n
  BY <1>1 DEF HeadsAreWritten, IsPush, Pushes, Events, Versions, Honest, PipelineAssumption
<1>3. /\ new.commits = row.commits /\ new.purged = row.purged
      /\ \A g \in Files \ {f} : new.content[g] = row.content[g] /\ new.static[g] = row.static[g]
  BY DEF Synced, Row
<1>4. CASE n = 0 \/ (f = Manifest /\ n \in Malformed)
  <2>1. new.content = row.content /\ new.static = row.static /\ n \notin VersionsIn(r, f)
    BY <1>4 DEF Synced, Row, VersionsIn, Pushes, Events
  <2>. QED
    BY <1>3, <2>1 DEF Catches, Arrived
<1>5. CASE n # 0 /\ ~(f = Manifest /\ n \in Malformed)
  <2>1. n \in VersionsIn(r, f)
    BY <1>2, <1>5 DEF VersionsIn
  <2>2. new.content[f] = n /\ new.static[f] \in {row.static[f], n}
    BY <1>5 DEF Synced, Row
  <2>3. Onward(old.content[f], n, r, f) /\ Onward(old.static[f], n, r, f)
    BY <1>1, <1>2, <1>5, <2>1 DEF Onward, Versions, PipelineAssumption
  <2>. HIDE DEF n, new
  <2>4. Catches(old, new, r)
    BY <1>3, <2>2, <2>3 DEF Catches
  <2>5. \A e : Arrived(new, r, f, e)
    BY <2>2 DEF Arrived, n
  <2>6. \A g \in Files \ {f} : \A e : Arrived(row, r, g, e) => Arrived(new, r, g, e)
    BY <1>3 DEF Arrived
  <2>. QED
    BY <2>4, <2>5, <2>6 DEF new, n
<1>. QED
  BY <1>4, <1>5

\* Purging for the marker that stands empties.
LEMMA PurgeEmpties ==
  ASSUME NEW r \in Repos, NEW old \in Row, NEW row \in Row, NEW L,
         marker[r] \in Pushes(r), old.purged <= marker[r]
  PROVE  Empties(old, Purge(row, marker[r], L), r)
BY DEF Empties, Purge, Row

\* A payload adds the push it is about, if any, to its repository's; none of those
\* before it changes.
LEMMA PushesGrow ==
  ASSUME PipelineAssumption, Types, HandlersAreWhole, NEW rec \in EventRec, Sends(rec)
  PROVE  /\ last + 1 \in Events /\ last \in Nat /\ last' = last + 1
         /\ \A e \in Events : e > last' => event'[e].kind = "none"
         /\ \A r \in Repos :
               /\ Pushes(r) \subseteq 1..last
               /\ Pushes(r)' = Pushes(r) \cup {e \in {last + 1} :
                                    rec.kind = "push" /\ rec.onDefault /\ rec.repo = r}
               /\ \A f \in Files : \A e \in 1..last :
                     e \in VersionsIn(r, f)' <=> e \in VersionsIn(r, f)
<1>1. last + 1 \in Events /\ last \in Nat /\ last' = last + 1
  BY DEF Sends, Types, TypeOK, Versions, Events, PipelineAssumption
<1>2. /\ event'[last + 1] = rec
      /\ \A e \in Events \ {last + 1} : event'[e] = event[e]
  BY <1>1 DEF Sends, Types, TypeOK
<1>3. \A e \in Events : e > last' => event'[e].kind = "none"
  BY <1>1, <1>2 DEF HandlersAreWhole, Events
<1>4. event[last + 1].kind = "none"
  BY <1>1 DEF HandlersAreWhole
<1>5. \A r \in Repos : Pushes(r) \subseteq 1..last
  BY <1>1 DEF HandlersAreWhole, Pushes, Events
<1>6. \A r \in Repos : Pushes(r)' = Pushes(r) \cup {e \in {last + 1} :
                                    rec.kind = "push" /\ rec.onDefault /\ rec.repo = r}
  BY <1>1, <1>2, <1>4 DEF Pushes
<1>7. ASSUME NEW r \in Repos, NEW f \in Files, NEW e \in 1..last
      PROVE  e \in VersionsIn(r, f)' <=> e \in VersionsIn(r, f)
  <2>1. e \in Events \ {last + 1}
    BY <1>1, <1>7 DEF Events
  <2>. QED
    BY <1>2, <2>1 DEF VersionsIn, Pushes
<1>. QED
  BY <1>1, <1>3, <1>5, <1>6, <1>7

\* A row that was settled still is when its repository is pushed to, and a
\* transaction that had caught up, emptied or received still has.
LEMMA GrowthKeepsWhole ==
  ASSUME PipelineAssumption, TypeOK, NEW r \in Repos, NEW old \in Row, NEW new \in Row,
         Pushes(r) \subseteq 1..last, Pushes(r) \subseteq Pushes(r)',
         \A f \in Files : \A e \in 1..last :
            e \in VersionsIn(r, f)' <=> e \in VersionsIn(r, f),
         last' = last + 1, last \in Nat,
         marker'[r] \in {0, last + 1, marker[r]},
         \A f \in Files : head'[r][f] \in {0, last + 1, head[r][f]}
  PROVE  /\ Settled(new, r) /\ new.purged <= last => Settled(new, r)'
         /\ Catches(old, new, r) => Catches(old, new, r)'
         /\ Empties(old, new, r) => Empties(old, new, r)'
         /\ \A f \in Files, e \in 1..last : Arrived(new, r, f, e) => Arrived(new, r, f, e)'
<1>1. new.purged \in Nat /\ marker[r] \in Nat
  BY DEF Row, Versions, TypeOK, PipelineAssumption
<1>2. Settled(new, r) /\ new.purged <= last => Settled(new, r)'
  BY <1>1 DEF Settled
<1>3. \A f \in Files : VersionsIn(r, f) \subseteq VersionsIn(r, f)'
  BY DEF VersionsIn
<1>4. Catches(old, new, r) => Catches(old, new, r)'
  BY <1>3 DEF Catches, Onward
<1>5. Empties(old, new, r) => Empties(old, new, r)'
  BY DEF Empties
<1>6. ASSUME NEW f \in Files, NEW e \in 1..last, Arrived(new, r, f, e), head'[r][f] = e,
             e \in VersionsIn(r, f)'
      PROVE  new.content[f] = e
  BY <1>6 DEF Arrived
<1>7. \A f \in Files, e \in 1..last : Arrived(new, r, f, e) => Arrived(new, r, f, e)'
  BY <1>6 DEF Arrived
<1>. QED
  BY <1>2, <1>4, <1>5, <1>7

\* A GitHub action leaves every handler whole.
LEMMA GitHubWhole ==
  ASSUME PipelineAssumption, Types, Remembered, RowsAreHonest, HandlersAreWhole, GitHubStep
  PROVE  HandlersAreWhole'
<1>1. PICK rec \in EventRec :
         /\ rec.repo \in Repos /\ Sends(rec)
         /\ \/ \E r \in Repos, k \in PushKinds : Push(r, k)
            \/ UNCHANGED <<head, marker>>
  BY GitHubSends DEF Types, SendsOnePayload
<1>2. /\ last + 1 \in Events /\ last \in Nat /\ last' = last + 1
      /\ \A e \in Events : e > last' => event'[e].kind = "none"
      /\ \A r \in Repos :
            /\ Pushes(r) \subseteq 1..last /\ Pushes(r) \subseteq Pushes(r)'
            /\ \A f \in Files : \A e \in 1..last :
                  e \in VersionsIn(r, f)' <=> e \in VersionsIn(r, f)
  BY <1>1, PushesGrow
<1>3. UNCHANGED <<rows, pc, evt, repo, todo, view>>
  BY <1>1 DEF Sends, db, procs
<1>4. \A r \in Repos : /\ marker'[r] \in {0, last + 1, marker[r]}
                       /\ \A f \in Files : head'[r][f] \in {0, last + 1, head[r][f]}
  <2>1. ASSUME NEW s \in Repos, NEW k \in PushKinds, Push(s, k)
        PROVE  \A r \in Repos : /\ marker'[r] \in {0, last + 1, marker[r]}
                                /\ \A f \in Files : head'[r][f] \in {0, last + 1, head[r][f]}
    <3>1. MarkerAfter(marker[s], k) \in {0, last + 1, marker[s]}
      BY DEF MarkerAfter, PipelineAssumption, PushKind
    <3>. QED
      BY <2>1, <3>1 DEF Push, HeadAfter, Types, TypeOK
  <2>. QED
    BY <1>1, <2>1
<1>5. \A r \in Repos, row \in Row : Honest(row, r) => row.purged <= last
  BY DEF Honest
<1>6. (\A r \in Repos : Settled(rows[r], r))'
  <2> SUFFICES ASSUME NEW r \in Repos PROVE Settled(rows[r], r)'
    OBVIOUS
  <2>1. rows[r] \in Row /\ rows'[r] = rows[r] /\ Settled(rows[r], r) /\ rows[r].purged <= last
    BY <1>3, <1>5 DEF Types, TypeOK, HandlersAreWhole, RowsAreHonest
  <2>. QED
    BY <2>1, <1>2, <1>3, <1>4, GrowthKeepsWhole DEF Types
<1>7. (\A p \in Procs : InTransaction(p) =>
          Underway(pc[p], repo[p], rows[repo[p]], view[p]))'
  <2> SUFFICES ASSUME NEW p \in Procs, InTransaction(p)
               PROVE  Underway(pc[p], repo[p], rows[repo[p]], view[p])'
    BY <1>3 DEF InTransaction
  <2>. DEFINE r == repo[p]
              old == rows[r]
              new == view[p]
  <2>1. /\ r \in Repos /\ old \in Row /\ new \in Row /\ new.purged <= last
        /\ new.log \subseteq 1..last /\ Underway(pc[p], r, old, new)
    BY <1>5 DEF Types, TypeOK, WellFormed, RowsAreHonest, Remembered, LogsGrow, HandlersAreWhole
  <2>2. r' = r /\ old' = old /\ new' = new /\ pc'[p] = pc[p]
    BY <1>3
  <2>. HIDE DEF r, old, new
  <2>3. /\ Settled(new, r) => Settled(new, r)'
        /\ Catches(old, new, r) => Catches(old, new, r)'
        /\ Empties(old, new, r) => Empties(old, new, r)'
        /\ \A f \in Files : \A e \in new.log :
              Arrived(new, r, f, e) => Arrived(new, r, f, e)'
    <3> SUFFICES ASSUME NEW R, NEW O, NEW N, R = r, O = old, N = new
                 PROVE  /\ Settled(N, R) => Settled(N, R)'
                        /\ Catches(O, N, R) => Catches(O, N, R)'
                        /\ Empties(O, N, R) => Empties(O, N, R)'
                        /\ \A f \in Files : \A e \in N.log :
                              Arrived(N, R, f, e) => Arrived(N, R, f, e)'
      BY <2>2
    <3>. QED
      BY <2>1, <1>2, <1>4, GrowthKeepsWhole DEF Types
  <2>4. Underway(pc[p], r, old, new)'
    BY <2>1, <2>2, <2>3 DEF Underway
  <2>. QED
    BY <2>4 DEF r, old, new
<1>8. (\A w \in Workers : pc[w] = "fetch" =>
          \A f \in Files \ todo[w] : Arrived(view[w], repo[w], f, evt[w]))'
  <2> SUFFICES ASSUME NEW w \in Workers, pc[w] = "fetch", NEW f \in Files \ todo[w]
               PROVE  Arrived(view[w], repo[w], f, evt[w])'
    BY <1>3
  <2>1. /\ w \in Procs /\ repo[w] \in Repos /\ view[w] \in Row /\ evt[w] \in 1..last
        /\ Arrived(view[w], repo[w], f, evt[w])
    BY <1>2 DEF Types, TypeOK, WellFormed, InTransaction, Procs, Events, HandlersAreWhole
  <2>. QED
    BY <2>1, <1>2, <1>3, <1>4, GrowthKeepsWhole DEF Types
<1>. QED
  BY <1>2, <1>6, <1>7, <1>8 DEF HandlersAreWhole

\* A step that leaves the rows alone and moves one process as a handler may.
LEMMA MoveWhole ==
  ASSUME Types, HandlersAreWhole, UNCHANGED <<head, marker, last, event, rows>>,
         NEW p \in Procs, NEW label, NEW r \in Repos, NEW row,
         OnlyMoves(p, label, r, row),
         label \in TransactionLabels => Underway(label, r, rows[r], row),
         label = "fetch" /\ p \in Workers =>
            \A f \in Files \ todo'[p] : Arrived(row, r, f, evt'[p])
  PROVE  HandlersAreWhole'
<1>1. \A q \in Procs \ {p} : /\ pc'[q] = pc[q] /\ evt'[q] = evt[q] /\ todo'[q] = todo[q]
                             /\ repo'[q] = repo[q] /\ view'[q] = view[q]
  BY DEF OnlyMoves, OthersStay
<1>2. pc'[p] = label /\ repo'[p] = r /\ view'[p] = row
  BY DEF OnlyMoves
<1>3. /\ \A l, s, x, y : Underway(l, s, x, y)' <=> Underway(l, s, x, y)
      /\ \A x, s : Settled(x, s)' <=> Settled(x, s)
      /\ \A x, s, f, e : Arrived(x, s, f, e)' <=> Arrived(x, s, f, e)
  BY DEF Underway, Settled, Catches, Empties, Arrived, Onward, VersionsIn, Pushes
<1>4. ASSUME NEW q \in Procs, InTransaction(q)'
      PROVE  Underway(pc'[q], repo'[q], rows[repo'[q]], view'[q])
  <2>1. CASE q = p
    BY <2>1, <1>2, <1>4 DEF InTransaction, TransactionLabels
  <2>2. CASE q # p
    BY <2>2, <1>1, <1>4 DEF InTransaction, HandlersAreWhole
  <2>. QED
    BY <2>1, <2>2
<1>5. ASSUME NEW w \in Workers, pc'[w] = "fetch", NEW f \in Files \ todo'[w]
      PROVE  Arrived(view'[w], repo'[w], f, evt'[w])
  <2>1. CASE w = p
    BY <2>1, <1>2, <1>5
  <2>2. CASE w # p
    BY <2>2, <1>1, <1>5 DEF HandlersAreWhole, Procs
  <2>. QED
    BY <2>1, <2>2
<1>6. (\A q \in Procs : InTransaction(q) =>
          Underway(pc[q], repo[q], rows[repo[q]], view[q]))'
  BY <1>3, <1>4
<1>7. (\A w \in Workers : pc[w] = "fetch" =>
          \A f \in Files \ todo[w] : Arrived(view[w], repo[w], f, evt[w]))'
  BY <1>3, <1>5
<1>8. (\A s \in Repos : Settled(rows[s], s))'
  BY <1>3 DEF HandlersAreWhole
<1>9. (\A e \in Events : e > last => event[e].kind = "none")'
  BY DEF HandlersAreWhole
<1>. QED
  BY <1>6, <1>7, <1>8, <1>9 DEF HandlersAreWhole

\* Committing leaves the row settled and concerns nobody else.
LEMMA PublishWhole ==
  ASSUME Types, LockDiscipline, HandlersAreWhole, UNCHANGED <<head, marker, last, event>>,
         NEW p \in Procs, Publishes(p)
  PROVE  HandlersAreWhole'
<1>1. /\ \A q \in Procs \ {p} : /\ pc'[q] = pc[q] /\ evt'[q] = evt[q] /\ todo'[q] = todo[q]
                                /\ repo'[q] = repo[q] /\ view'[q] = view[q]
      /\ InTransaction(p) /\ ~InTransaction(p)' /\ pc'[p] # "fetch"
      /\ rows' = [rows EXCEPT ![repo[p]] = view[p]]
  BY DEF Publishes, OthersStay, InTransaction, TransactionLabels
<1>2. repo[p] \in Repos /\ rows \in [Repos -> Row]
  BY <1>1 DEF Types, TypeOK, WellFormed
<1>3. /\ \A l, s, x, y : Underway(l, s, x, y)' <=> Underway(l, s, x, y)
      /\ \A x, s : Settled(x, s)' <=> Settled(x, s)
      /\ \A x, s, f, e : Arrived(x, s, f, e)' <=> Arrived(x, s, f, e)
  BY DEF Underway, Settled, Catches, Empties, Arrived, Onward, VersionsIn, Pushes
<1>4. Settled(view[p], repo[p])
  BY <1>1 DEF HandlersAreWhole, Underway
<1>5. \A s \in Repos : Settled(rows'[s], s)
  BY <1>1, <1>2, <1>4 DEF HandlersAreWhole
<1>6. ASSUME NEW q \in Procs, InTransaction(q)'
      PROVE  Underway(pc'[q], repo'[q], rows'[repo'[q]], view'[q])
  <2>1. q # p /\ InTransaction(q) /\ repo[q] \in Repos /\ repo[q] # repo[p]
    BY <1>1, <1>6 DEF InTransaction, Types, WellFormed, LockDiscipline
  <2>2. rows'[repo[q]] = rows[repo[q]] /\ view'[q] = view[q] /\ repo'[q] = repo[q] /\ pc'[q] = pc[q]
    BY <1>1, <1>2, <2>1
  <2>. QED
    BY <2>1, <2>2 DEF HandlersAreWhole
<1>7. (\A q \in Procs : InTransaction(q) =>
          Underway(pc[q], repo[q], rows[repo[q]], view[q]))'
  BY <1>3, <1>6
<1>8. (\A w \in Workers : pc[w] = "fetch" =>
          \A f \in Files \ todo[w] : Arrived(view[w], repo[w], f, evt[w]))'
  BY <1>1, <1>3 DEF HandlersAreWhole, Procs
<1>9. (\A s \in Repos : Settled(rows[s], s))' /\ (\A e \in Events : e > last => event[e].kind = "none")'
  BY <1>3, <1>5 DEF HandlersAreWhole
<1>. QED
  BY <1>7, <1>8, <1>9 DEF HandlersAreWhole

\* Ingesting leaves every handler whole.
LEMMA IngestsWhole ==
  ASSUME PipelineAssumption, Types, Remembered, RowsAreHonest, HandlersAreWhole, Ingests
  PROVE  HandlersAreWhole'
<1>1. UNCHANGED <<head, marker, last, event>>
  BY DEF Ingests
<1>2. CASE UNCHANGED <<rows, pc, evt, repo, todo, view>>
  BY <1>1, <1>2 DEF HandlersAreWhole, InTransaction, Underway, Settled, Catches, Empties,
                    Arrived, Onward, VersionsIn, Pushes
<1>3. ASSUME NEW p \in Procs,
             \/ StaysOutside(p) \/ Begins(p) \/ PurgesView(p) \/ GoesOn(p)
             \/ FetchesOne(p) \/ AddsCommits(p) \/ Publishes(p)
      PROVE  HandlersAreWhole'
  <2>1. CASE StaysOutside(p)
    <3>1. OnlyMoves(p, pc'[p], repo'[p], view'[p]) /\ rows' = rows /\ pc'[p] \notin TransactionLabels
      BY <2>1 DEF StaysOutside, OnlyMoves
    <3>2. /\ \A l, s, x, y : Underway(l, s, x, y)' <=> Underway(l, s, x, y)
          /\ \A x, s : Settled(x, s)' <=> Settled(x, s)
          /\ \A x, s, f, e : Arrived(x, s, f, e)' <=> Arrived(x, s, f, e)
      BY <1>1 DEF Underway, Settled, Catches, Empties, Arrived, Onward, VersionsIn, Pushes
    <3>3. \A q \in Procs : InTransaction(q)' => q # p /\ InTransaction(q)
      BY <2>1 DEF StaysOutside, OthersStay, InTransaction, TransactionLabels
    <3>4. \A w \in Workers : pc'[w] = "fetch" => w # p /\ w \in Procs
      BY <2>1 DEF StaysOutside, TransactionLabels, Procs
    <3>. HIDE DEF Procs
    <3>. QED
      BY <1>1, <2>1, <3>1, <3>2, <3>3, <3>4 DEF StaysOutside, OthersStay, HandlersAreWhole
  <2>2. CASE Begins(p)
    <3>1. PICK r \in Repos, label \in {"check", "commit"}, b \in BOOLEAN :
             OnlyMoves(p, label, r, Upserted(rows[r], b))
      BY <2>2 DEF Begins
    <3>. DEFINE new == Upserted(rows[r], b)
    <3>2. rows[r] \in Row /\ Settled(rows[r], r)
      BY DEF Types, TypeOK, HandlersAreWhole
    <3>3. Catches(rows[r], rows[r], r)
      BY DEF Catches, Onward
    <3>4. Catches(rows[r], new, r)
      BY <3>2, <3>3, AddingCatches
    <3>5. new.log = rows[r].log /\ new.commits = rows[r].commits /\ new.purged = rows[r].purged
      BY <3>2 DEF Upserted, Row
    <3>. HIDE DEF new
    <3>6. Underway(label, r, rows[r], new)
      BY <3>2, <3>4, <3>5 DEF Underway, Settled
    <3>. QED
      BY <1>1, <2>2, <3>1, <3>6, MoveWhole DEF Begins, new
  <2>. DEFINE r == repo[p]
              old == rows[r]
              row == view[p]
  <2>3. \/ PurgesView(p) \/ GoesOn(p) \/ FetchesOne(p) \/ AddsCommits(p)
        => /\ r \in Repos /\ row \in Row /\ old \in Row /\ Honest(old, r) /\ Settled(old, r)
           /\ pc[p] \in {"check", "fetch", "tree"} /\ rows' = rows
           /\ Settled(row, r) /\ Catches(old, row, r) /\ row.log = old.log
           /\ p \in Workers => /\ evt[p] \in Events
                               /\ pc[p] \in {"check", "fetch"} => evt[p] \in Pushes(r)
    <3> SUFFICES ASSUME PurgesView(p) \/ GoesOn(p) \/ FetchesOne(p) \/ AddsCommits(p)
                 PROVE  /\ r \in Repos /\ row \in Row /\ old \in Row /\ Honest(old, r)
                        /\ Settled(old, r)
                        /\ pc[p] \in {"check", "fetch", "tree"} /\ rows' = rows
                        /\ Settled(row, r) /\ Catches(old, row, r) /\ row.log = old.log
                        /\ p \in Workers =>
                              /\ evt[p] \in Events
                              /\ pc[p] \in {"check", "fetch"} => evt[p] \in Pushes(r)
      OBVIOUS
    <3>1. pc[p] \in {"check", "fetch", "tree"} /\ rows' = rows /\ InTransaction(p)
      BY DEF PurgesView, GoesOn, FetchesOne, AddsCommits, InTransaction
    <3>2. r \in Repos /\ row \in Row /\ old \in Row /\ Honest(old, r) /\ Settled(old, r)
      BY <3>1 DEF Types, TypeOK, WellFormed, RowsAreHonest, HandlersAreWhole
    <3>3. Underway(pc[p], r, old, row)
      BY <3>1 DEF HandlersAreWhole
    <3>4. p \in Workers => /\ evt[p] \in Events
                           /\ pc[p] \in {"check", "fetch"} => evt[p] \in Pushes(r)
      BY <3>1 DEF Types, WellFormed, Remembered, HandlersProgress, IsPush, Pushes
    <3>. QED
      BY <3>1, <3>2, <3>3, <3>4 DEF Underway
  <2>. HIDE DEF old, row
  <2>4. CASE PurgesView(p)
    <3>1. PICK L \in SUBSET Events :
             /\ p \in Workers => L = {evt[p]}
             /\ p \notin Workers => L = {}
             /\ OnlyMoves(p, "commit", r, Purge(row, marker[r], L))
      BY <2>4 DEF PurgesView, row
    <3>. DEFINE new == Purge(row, marker[r], L)
    <3>2. pc[p] = "check" /\ marker[r] # 0
      BY <2>4 DEF PurgesView
    <3>3. marker[r] \in Pushes(r) /\ old.purged <= marker[r] /\ marker[r] \in Nat
      BY <2>3, <2>4, <3>2 DEF RowsAreHonest, Settled, Pushes, IsPush, Types, TypeOK,
                              Versions, Events, PipelineAssumption
    <3>4. Empties(old, new, r)
      BY <2>3, <2>4, <3>3, PurgeEmpties
    <3>5. L \subseteq Pushes(r)
      BY <2>3, <2>4, <3>1, <3>2
    <3>6. new.log = row.log \cup L /\ new.commits = {} /\ new.purged = marker[r]
      BY <2>3, <2>4 DEF Purge, Row
    <3>. HIDE DEF new
    <3>7. Underway("commit", r, old, new)
      BY <2>3, <2>4, <3>3, <3>4, <3>5, <3>6 DEF Underway, Settled
    <3>. QED
      BY <1>1, <2>3, <2>4, <3>1, <3>7, MoveWhole DEF new, old
  <2>5. CASE GoesOn(p)
    <3>1. PICK label \in {"fetch", "tree"} :
             /\ OnlyMoves(p, label, r, row) /\ evt'[p] = evt[p]
             /\ label = "fetch" /\ p \in Workers => todo'[p] = PushFiles(evt[p])
      BY <2>5 DEF GoesOn, row
    <3>2. Underway(label, r, old, row)
      BY <2>3, <2>5, <3>1 DEF Underway
    <3>3. \A f \in Files \ PushFiles(evt[p]) : Arrived(row, r, f, evt[p])
      BY DEF PushFiles, Arrived, VersionsIn
    <3>. QED
      BY <1>1, <2>3, <2>5, <3>1, <3>2, <3>3, MoveWhole DEF old
  <2>6. CASE FetchesOne(p)
    <3>1. PICK f \in Files :
             /\ OnlyMoves(p, pc[p], r, Synced(p, row, f, head[r][f]))
             /\ todo'[p] = todo[p] \ {f}
      BY <2>6 DEF FetchesOne, row
    <3>. DEFINE new == Synced(p, row, f, head[r][f])
    <3>2. pc[p] \in {"fetch", "tree"} /\ evt'[p] = evt[p]
      BY <2>6 DEF FetchesOne
    <3>3. /\ Catches(old, new, r)
          /\ \A e : Arrived(new, r, f, e)
          /\ \A g \in Files \ {f} : \A e : Arrived(row, r, g, e) => Arrived(new, r, g, e)
      BY <2>3, <2>6, SyncedCatches DEF Types, Remembered
    <3>4. new.log = row.log /\ new.commits = row.commits /\ new.purged = row.purged
      BY <2>3, <2>6 DEF Synced, Row
    <3>. HIDE DEF new
    <3>5. Underway(pc[p], r, old, new)
      BY <2>3, <2>6, <3>2, <3>3, <3>4 DEF Underway, Settled
    <3>6. pc[p] = "fetch" /\ p \in Workers =>
             \A g \in Files \ todo[p] : Arrived(row, r, g, evt[p])
      BY DEF HandlersAreWhole, row
    <3>7. pc[p] = "fetch" /\ p \in Workers =>
             \A g \in Files \ todo'[p] : Arrived(new, r, g, evt'[p])
      BY <3>1, <3>2, <3>3, <3>6
    <3>. QED
      BY <1>1, <2>3, <2>6, <3>1, <3>5, <3>7, MoveWhole DEF new, old
  <2>7. CASE AddsCommits(p)
    <3>1. CASE /\ p \in Workers /\ pc[p] = "fetch" /\ todo[p] = {}
               /\ OnlyMoves(p, "commit", r, Landed(row, evt[p]))
      <4>. DEFINE new == Landed(row, evt[p])
      <4>1. Catches(old, new, r) /\ evt[p] \in Pushes(r)
        BY <2>3, <2>7, <3>1, AddingCatches
      <4>2. /\ new.log = row.log \cup {evt[p]} /\ new.commits \subseteq row.commits \cup {evt[p]}
            /\ new.purged = row.purged /\ new.content = row.content
        BY <2>3, <2>7 DEF Landed, Row
      <4>. HIDE DEF new
      <4>3. \A f \in Files : Arrived(row, r, f, evt[p])
        BY <3>1 DEF HandlersAreWhole, row
      <4>4. \A f \in Files : \A e \in new.log \ old.log : Arrived(new, r, f, e)
        BY <2>3, <2>7, <4>2, <4>3 DEF Arrived
      <4>5. Settled(new, r)
        BY <2>3, <2>7, <4>1, <4>2 DEF Settled
      <4>6. Underway("commit", r, old, new)
        BY <2>3, <2>7, <4>1, <4>2, <4>4, <4>5 DEF Underway
      <4>. QED
        BY <1>1, <2>3, <2>7, <3>1, <4>6, MoveWhole DEF new, old
    <3>2. ASSUME NEW C \in SUBSET Pushes(r), OnlyMoves(p, "commit", r, WithCommits(row, C))
          PROVE  HandlersAreWhole'
      <4>. DEFINE new == WithCommits(row, C)
      <4>1. Catches(old, new, r)
        BY <2>3, <2>7, AddingCatches
      <4>2. /\ new.log = row.log /\ new.commits = row.commits \cup C
            /\ new.purged = row.purged
        BY <2>3, <2>7 DEF WithCommits, Row
      <4>. HIDE DEF new
      <4>3. Settled(new, r)
        BY <2>3, <2>7, <4>2 DEF Settled
      <4>4. Underway("commit", r, old, new)
        BY <2>3, <2>7, <4>1, <4>2, <4>3 DEF Underway
      <4>. QED
        BY <1>1, <2>3, <2>7, <3>2, <4>4, MoveWhole DEF new, old
    <3>. QED
      BY <2>7, <3>1, <3>2 DEF AddsCommits, row
  <2>8. CASE Publishes(p)
    BY <1>1, <2>8, PublishWhole DEF Remembered
  <2>. QED
    BY <1>3, <2>1, <2>2, <2>4, <2>5, <2>6, <2>7, <2>8
<1>. QED
  BY <1>2, <1>3 DEF Ingests

\* Every handler is whole, however far it is.
LEMMA HandlersStayWhole == ASSUME PipelineAssumption PROVE Spec => []HandlersAreWhole
<1>1. Init => Types /\ Remembered /\ RowsAreHonest /\ HandlersAreWhole
  BY InitTypes, InitRemembered, InitHonest, InitWhole
<1>2. Types /\ Remembered /\ RowsAreHonest /\ HandlersAreWhole /\ [Next]_vars
        => (Types /\ Remembered /\ RowsAreHonest /\ HandlersAreWhole)'
  BY NextTypes, NextRemembers, NextHonest, NextIngests, GitHubWhole, IngestsWhole
<1>. QED
  BY <1>1, <1>2, PTL DEF Spec

\* The state functions the abstract variables stand for.
Histories == [r \in Repos |-> History(r)]
Mirrors   == [r \in Repos |-> Mirrored(rows[r])]

PromiseVars == <<Histories, head, marker, Mirrors, Acknowledged>>

\* Read through the mapping, Mirror speaks of the pushes and rows above.
LEMMA PromiseTerms ==
  ASSUME NEW r \in Repos
  PROVE  /\ Promise!Pushes(r) = Pushes(r)
         /\ \A f \in Files : Promise!VersionsOf(r, f) = VersionsIn(r, f)
         /\ \A old, new : \A f \in Files :
               Onward(old, new, r, f) => Promise!Follows(old, new, r, f)
<1>1. [s \in Repos |-> History(s)][r] = History(r)
  OBVIOUS
<1>. DEFINE Entry(e) == [number |-> e, files |-> event[e].files]
<1>2. \A e : Entry(e).number = e /\ Entry(e).files = event[e].files
  OBVIOUS
<1>3. History(r) = {Entry(e) : e \in Pushes(r)}
  BY DEF History
<1>. HIDE DEF Entry
<1>4. Promise!Pushes(r) = Pushes(r)
  <2>1. Promise!Pushes(r) = {p.number : p \in History(r)}
    BY <1>1 DEF Promise!Pushes
  <2>2. \A e : e \in {p.number : p \in History(r)} <=> e \in Pushes(r)
    BY <1>2, <1>3
  <2>. QED
    BY <2>1, <2>2
<1>5. ASSUME NEW f \in Files PROVE Promise!VersionsOf(r, f) = VersionsIn(r, f)
  <2>1. Promise!VersionsOf(r, f) =
          {p.number : p \in {q \in History(r) :
                          f \in q.files /\ (f = Manifest => q.number \notin Malformed)}}
    BY <1>1 DEF Promise!VersionsOf
  <2>2. \A e : e \in {p.number : p \in {q \in History(r) :
                          f \in q.files /\ (f = Manifest => q.number \notin Malformed)}}
                 <=> e \in VersionsIn(r, f)
    BY <1>2, <1>3 DEF VersionsIn
  <2>. QED
    BY <2>1, <2>2
<1>. QED
  BY <1>4, <1>5 DEF Onward, Promise!Follows

\* Initially nothing has been pushed, mirrored or acknowledged.
LEMMA InitPromised == ASSUME PipelineAssumption, Init PROVE Promise!Init
<1>1. \A r \in Repos : History(r) = {}
  BY DEF Init, History, Pushes, NoEvent
<1>2. Histories = [r \in Repos |-> {}]
  BY <1>1 DEF Histories
<1>3. \A r \in Repos : Mirrored(rows[r]) = Promise!Nothing
  BY DEF Init, NoRow, Mirrored, Promise!Nothing
<1>4. Mirrors = [r \in Repos |-> Promise!Nothing]
  BY <1>3 DEF Mirrors
<1>5. Acknowledged = {}
  BY DEF Init, Acknowledged
<1>. QED
  BY <1>2, <1>4, <1>5 DEF Init, Promise!Init, Histories, Mirrors

\* A GitHub action is a push of Mirror, or nothing to it.
LEMMA GitHubPromised ==
  ASSUME PipelineAssumption, Types, HandlersAreWhole, GitHubStep
  PROVE  [Promise!Next]_PromiseVars
<1>1. PICK rec \in EventRec :
         /\ rec.repo \in Repos /\ Sends(rec)
         /\ \/ \E r \in Repos, k \in PushKinds :
                  /\ rec.kind = "push" /\ rec.onDefault
                  /\ rec.repo = r /\ rec.files = k.changed
                  /\ Push(r, k)
            \/ /\ UNCHANGED <<head, marker>>
               /\ ~(rec.kind = "push" /\ rec.onDefault)
  BY GitHubSends DEF Types, SendsOnePayload
<1>. DEFINE n == last + 1
<1>2. /\ n \in Events /\ last \in Nat
      /\ \A r \in Repos :
            /\ Pushes(r) \subseteq 1..last
            /\ Pushes(r)' = Pushes(r) \cup {e \in {n} :
                                 rec.kind = "push" /\ rec.onDefault /\ rec.repo = r}
  BY <1>1, PushesGrow
<1>3. /\ event'[n] = rec /\ status'[n] = "posted" /\ status[n] = "unsent"
      /\ \A e \in Events \ {n} : event'[e] = event[e] /\ status'[e] = status[e]
  BY <1>1, <1>2 DEF Sends, Types, TypeOK, WellFormed
<1>4. Mirrors' = Mirrors
  BY <1>1 DEF Sends, db, Mirrors
<1>5. Acknowledged' = Acknowledged
  BY <1>3 DEF Acknowledged
<1>6. \A r \in Repos : n \notin Pushes(r) /\ Pushes(r) \subseteq Events
  BY <1>2 DEF Pushes
<1>7. \A r \in Repos :
         History(r)' = IF rec.kind = "push" /\ rec.onDefault /\ rec.repo = r
                       THEN History(r) \cup {[number |-> n, files |-> rec.files]}
                       ELSE History(r)
  BY <1>2, <1>3, <1>6 DEF History
<1>8. ASSUME NEW r \in Repos, NEW k \in PushKinds, rec.kind = "push", rec.onDefault,
             rec.repo = r, rec.files = k.changed, Push(r, k)
      PROVE  Promise!Push(r)
  <2>1. k.changed \in SUBSET Files /\ k.removed \in SUBSET Files
    BY DEF PipelineAssumption, PushKind
  <2>2. Histories' = [Histories EXCEPT ![r] = @ \cup {[number |-> n, files |-> k.changed]}]
    <3>1. \A s \in Repos : History(s)' =
             IF s = r THEN History(s) \cup {[number |-> n, files |-> k.changed]} ELSE History(s)
      BY <1>7, <1>8
    <3>. QED
      BY <3>1 DEF Histories
  <2>3. head' = [head EXCEPT ![r] = [f \in Files |-> IF f \in k.changed THEN n
                                                     ELSE IF f \in k.removed THEN 0 ELSE @[f]]]
    BY <1>8 DEF Push, HeadAfter
  <2>4. \E m \in {marker[r], n, 0} : marker' = [marker EXCEPT ![r] = m]
    <3>1. MarkerAfter(marker[r], k) \in {marker[r], n, 0}
      BY DEF MarkerAfter, PipelineAssumption, PushKind
    <3>. QED
      BY <1>8, <3>1 DEF Push
  <2>5. \A q \in Repos : \A m \in Promise!Pushes(q) : m < n
    BY <1>2, PromiseTerms
  <2>6. n \in Promise!Events
    BY <1>2 DEF Events, Promise!Events
  <2>. HIDE DEF n
  <2>7. \E removed \in SUBSET Files :
           head' = [head EXCEPT ![r] = [f \in Files |-> IF f \in k.changed THEN n
                                                        ELSE IF f \in removed THEN 0 ELSE @[f]]]
    BY <2>1, <2>3
  <2>8. \E m \in Promise!Events, files \in SUBSET Files :
           /\ \A q \in Repos : \A l \in Promise!Pushes(q) : l < m
           /\ Histories' = [Histories EXCEPT ![r] = @ \cup {[number |-> m, files |-> files]}]
           /\ \E removed \in SUBSET Files :
                 head' = [head EXCEPT ![r] = [f \in Files |-> IF f \in files THEN m
                                                        ELSE IF f \in removed THEN 0 ELSE @[f]]]
           /\ \E l \in {marker[r], m, 0} : marker' = [marker EXCEPT ![r] = l]
    BY <2>1, <2>2, <2>4, <2>5, <2>6, <2>7, Zenon
  <2>. QED
    BY <2>8, <1>4, <1>5, Zenon DEF Promise!Push, Histories, Mirrors
<1>9. CASE UNCHANGED <<head, marker>> /\ ~(rec.kind = "push" /\ rec.onDefault)
  <2>1. Histories' = Histories
    BY <1>7, <1>9 DEF Histories
  <2>. QED
    BY <2>1, <1>4, <1>5, <1>9 DEF PromiseVars
<1>. QED
  BY <1>1, <1>8, <1>9 DEF Promise!Next

\* Only a worker's return acknowledges anything, and then the push it handled.
LEMMA OnlyAckAcknowledges ==
  ASSUME PipelineAssumption, Types, [Next]_vars
  PROVE  \/ \E w \in Workers : Ack(w)
         \/ GitHubStep
         \/ Ingests /\ Acknowledged' = Acknowledged
<1>1. CASE UNCHANGED vars
  BY <1>1, NextIngests DEF vars, github, queue, db, procs, Ingests, Acknowledged
<1>2. CASE QueueStep
  <2>1. event' = event
    BY <1>2 DEF QueueStep, Enqueue, LoseWebhook, VisibilityTimeout, DuplicateDelivery,
                Redrive, Receive, github
  <2>2. \A e \in Events : status'[e] = "deleted" <=> status[e] = "deleted"
    BY <1>2 DEF QueueStep, Enqueue, LoseWebhook, VisibilityTimeout, DuplicateDelivery,
                Redrive, Receive, Types, TypeOK
  <2>. QED
    BY <1>2, <2>1, <2>2, QueueIngests DEF Acknowledged
<1>3. ASSUME NEW w \in Workers, WorkerStep(w), ~Ack(w)
      PROVE  Ingests /\ Acknowledged' = Acknowledged
  <2>1. UNCHANGED <<event, status>>
    BY <1>3 DEF WorkerStep, Ignore, Upsert, CheckExclusion, Fetch, SyncPushCommit, Commit,
                CommitTo, Crash, Fail, github, queue
  <2>. QED
    BY <1>3, <2>1, WorkerIngests DEF Acknowledged
<1>4. CASE SyncStep
  <2>1. UNCHANGED <<event, status>>
    BY <1>4 DEF SyncStep, StartSync, SyncUpsert, CheckExclusion, Fetch, ListTree, SyncCommits,
                CommitSync, CommitTo, FinishSync, CrashSync, Fail, github, queue
  <2>. QED
    BY <1>4, <2>1, SyncIngests DEF Acknowledged
<1>. QED
  BY <1>1, <1>2, <1>3, <1>4 DEF Next

\* Acknowledging a push is acknowledging it in Mirror: it is on record by then.
LEMMA AckPromised ==
  ASSUME PipelineAssumption, Types, Remembered, NEW w \in Workers, Ack(w)
  PROVE  [Promise!Next]_PromiseVars
<1>. DEFINE e == evt[w]
<1>1. /\ UNCHANGED <<head, marker, event, rows>> /\ pc[w] = "ack"
      /\ status' = [status EXCEPT ![e] = IF @ \in {"inflight", "queued"} THEN "deleted" ELSE @]
  BY DEF Ack, github, db
<1>2. e \in Events /\ Recorded(e) /\ event[e].repo \in Repos
  BY <1>1 DEF Types, WellFormed, Remembered, HandlersProgress
<1>3. Histories' = Histories /\ Mirrors' = Mirrors
  BY <1>1 DEF Histories, Mirrors, History, Pushes
<1>4. CASE Acknowledged' = Acknowledged
  BY <1>1, <1>3, <1>4 DEF PromiseVars
<1>5. CASE Acknowledged' # Acknowledged
  <2>1. Acknowledged' = Acknowledged \cup {e} /\ IsPush(e)
    BY <1>1, <1>2, <1>5 DEF Acknowledged, IsPush, Types, TypeOK
  <2>2. e \in Mirrors[event[e].repo].log
    BY <1>2, <2>1 DEF Recorded, Mirrors, Mirrored
  <2>. HIDE DEF e
  <2>3. Promise!Acknowledge(event[e].repo)
    BY <1>1, <1>3, <2>1, <2>2 DEF Promise!Acknowledge, Histories, Mirrors
  <2>. QED
    BY <1>2, <2>3 DEF Promise!Next
<1>. QED
  BY <1>4, <1>5

\* Committing is ingesting as a whole in Mirror; nothing else a process does shows.
LEMMA IngestsPromised ==
  ASSUME PipelineAssumption, Types, Remembered, RowsAreHonest, HandlersAreWhole,
         Ingests, Acknowledged' = Acknowledged
  PROVE  [Promise!Next]_PromiseVars
<1>1. UNCHANGED <<head, marker, event>> /\ Histories' = Histories
  BY DEF Ingests, Histories, History, Pushes
<1>2. CASE rows' = rows
  BY <1>1, <1>2 DEF PromiseVars, Mirrors
<1>3. ASSUME NEW p \in Procs, Publishes(p) PROVE Promise!Next
  <2>. DEFINE r == repo[p]
              old == rows[r]
              new == view[p]
  <2>1. InTransaction(p) /\ pc[p] = "commit" /\ rows' = [rows EXCEPT ![r] = new]
    BY <1>3 DEF Publishes, InTransaction
  <2>2. r \in Repos /\ old \in Row /\ new \in Row /\ rows \in [Repos -> Row]
    BY <2>1 DEF Types, TypeOK, WellFormed
  <2>3. Underway("commit", r, old, new) /\ Honest(new, r) /\ Settled(old, r)
    BY <2>1, <2>2 DEF HandlersAreWhole, RowsAreHonest
  <2>. HIDE DEF r, old, new
  <2>4. /\ Mirrors[r] = Mirrored(old) /\ Mirrors'[r] = Mirrored(new)
        /\ \A q \in Repos \ {r} : Mirrors'[q] = Mirrors[q]
    BY <2>1, <2>2 DEF Mirrors, old
  <2>5. Mirrors' \in [Repos -> Promise!Row]
    <3>1. rows' \in [Repos -> Row]
      BY <2>1, <2>2
    <3>2. \A row \in Row : Mirrored(row) \in Promise!Row
      BY DEF Row, Mirrored, Promise!Row, Versions, Events, Promise!Versions, Promise!Events
    <3>. QED
      BY <3>1, <3>2 DEF Mirrors
  <2>. DEFINE o == Mirrored(old)
              n == Mirrored(new)
  <2>6. /\ o.content = old.content /\ o.static = old.static /\ o.commits = old.commits
        /\ o.log = old.log /\ o.purged = old.purged
        /\ n.content = new.content /\ n.static = new.static /\ n.commits = new.commits
        /\ n.log = new.log /\ n.purged = new.purged
    BY DEF Mirrored
  <2>. HIDE DEF o, n
  <2>7. o.log \subseteq n.log /\ n.log \cup n.commits \subseteq Promise!Pushes(r)
    BY <2>2, <2>3, <2>6, PromiseTerms DEF Underway, Settled
  <2>8. marker[r] \in n.log \ o.log /\ marker[r] # 0 => n.purged = marker[r]
    BY <2>3, <2>6 DEF Honest
  <2>9. marker[r] \in n.log => marker[r] # 0
    BY <2>2, <2>6 DEF Row, Events
  <2>10. Promise!CatchUp(o, n, r) \/ Promise!Purge(o, n, r)
    <3>1. CASE Empties(old, new, r)
      BY <2>2, <2>3, <2>6, <2>8, <2>9, <3>1, PromiseTerms
         DEF Empties, Promise!Purge, Underway, Settled
    <3>2. CASE /\ Catches(old, new, r)
               /\ \A f \in Files : \A e \in new.log \ old.log : Arrived(new, r, f, e)
      <4>1. CASE marker[r] = 0 \/ new.purged # marker[r]
        <5>1. \A f \in Files : /\ Promise!Follows(o.content[f], n.content[f], r, f)
                               /\ Promise!Follows(o.static[f], n.static[f], r, f)
          BY <2>2, <2>6, <3>2, PromiseTerms DEF Catches
        <5>2. ASSUME NEW f \in Files, head[r][f] \in n.log \ o.log,
                     head[r][f] \in Promise!VersionsOf(r, f)
              PROVE  n.content[f] = head[r][f]
          BY <2>2, <2>6, <3>2, <5>2, PromiseTerms DEF Arrived
        <5>3. /\ o.commits \subseteq n.commits /\ n.purged = o.purged
              /\ marker[r] # 0 => marker[r] # o.purged /\ marker[r] \notin n.log \ o.log
          BY <2>6, <2>8, <3>2, <4>1 DEF Catches
        <5>. QED
          BY <5>1, <5>2, <5>3 DEF Promise!CatchUp
      <4>2. CASE marker[r] # 0 /\ new.purged = marker[r]
        <5>1. new.commits = {} /\ \A f \in Files : new.content[f] = 0 /\ new.static[f] = 0
          BY <2>3, <4>2 DEF Honest
        <5>2. new.purged \in Pushes(r) /\ old.purged <= new.purged
          <6>1. marker[r] \in Pushes(r)
            BY <2>2, <4>2 DEF RowsAreHonest, Pushes, IsPush, Types, TypeOK, Versions, Events
          <6>2. old.purged = new.purged /\ new.purged \in Nat
            BY <2>2, <3>2 DEF Catches, Row, Versions, PipelineAssumption
          <6>. QED
            BY <4>2, <6>1, <6>2
        <5>. QED
          BY <2>2, <2>3, <2>6, <4>2, <5>1, <5>2, PromiseTerms
             DEF Promise!Purge, Underway, Settled
      <4>. QED
        BY <4>1, <4>2
    <3>. QED
      BY <2>3, <3>1, <3>2 DEF Underway
  <2>11. Promise!Ingest(r)
    BY <1>1, <2>4, <2>5, <2>7, <2>10 DEF Promise!Ingest, Mirrors, Histories, o, n
  <2>. QED
    BY <2>2, <2>11 DEF Promise!Next
<1>. QED
  BY <1>2, <1>3 DEF Ingests, StaysOutside, Begins, PurgesView, GoesOn, FetchesOne, AddsCommits

\* However the workers and the seed sync interleave, crash, and repeat what was
\* done, the database mirrors GitHub one whole handler after the other.
THEOREM PipelineImplementsMirror ==
  ASSUME PipelineAssumption PROVE Spec => ImplementsMirror
<1>1. Init => Promise!Init
  BY InitPromised
<1>2. /\ Types /\ Remembered /\ RowsAreHonest /\ HandlersAreWhole
      /\ [Next]_vars
      => [Promise!Next]_PromiseVars
  BY OnlyAckAcknowledges, GitHubPromised, AckPromised, IngestsPromised
<1>3. Spec => []Types
  BY TypeCorrect DEF Types
<1>4. NothingForgotten => Remembered
  BY DEF NothingForgotten, Remembered
<1>. QED
  BY <1>1, <1>2, <1>3, <1>4, NeverForgets, RowsStayHonest, HandlersStayWhole, PTL
     DEF Spec, ImplementsMirror, Promise!Spec, PromiseVars, Histories, Mirrors

=============================================================================
