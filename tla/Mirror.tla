------------------------------- MODULE Mirror -------------------------------
(***************************************************************************)
(* What webhook ingestion and the seed sync promise together to whoever    *)
(* reads the database, with nothing of webhooks, queue, processes, locks   *)
(* and transactions: the rows of a repository follow its default branch,   *)
(* one repository and one whole handler at a time.                         *)
(*                                                                         *)
(* A push has a number, a file's version is the number of the push that    *)
(* wrote it (0 where there is none), and the rows derived from a file are  *)
(* represented by the version they were derived from.                      *)
(***************************************************************************)
EXTENDS Naturals

CONSTANTS
    Repos,
    Files,
    Manifest,   \* the path project.yaml
    Malformed,  \* the versions of project.yaml that do not parse
    MaxEvents   \* bound: the number of the last push

VARIABLES
    history,      \* history[r]: the pushes to r's default branch
    head,         \* head[r][f]: version of f on that branch
    marker,       \* marker[r]: version of .kb-exclude on that branch
    mirror,       \* mirror[r]: what the database holds of r
    acknowledged  \* the pushes the queue has been told are handled

Events   == 1..MaxEvents
Versions == 0..MaxEvents

\* content, static: the rows of each file (static those of the static analysis);
\* commits: the commit rows; log: the pushes recorded as handled; purged: the
\* marker version of the latest exclusion purge.
Row == [content: [Files -> Versions], static: [Files -> Versions],
        commits: SUBSET Events, log: SUBSET Events, purged: Versions]

Nothing == [content |-> [f \in Files |-> 0], static |-> [f \in Files |-> 0],
            commits |-> {}, log |-> {}, purged |-> 0]

Init ==
    /\ history = [r \in Repos |-> {}]
    /\ head = [r \in Repos |-> [f \in Files |-> 0]]
    /\ marker = [r \in Repos |-> 0]
    /\ mirror = [r \in Repos |-> Nothing]
    /\ acknowledged = {}

Pushes(r) == {p.number : p \in history[r]}

\* The versions f has had in r and from which rows can be derived.
VersionsOf(r, f) ==
    {p.number : p \in {q \in history[r] :
                          f \in q.files /\ (f = Manifest => q.number \notin Malformed)}}

\* A push, later than any other, writes files, removes files, and may set or
\* remove the marker.
Push(r) ==
    /\ \E n \in Events, files \in SUBSET Files :
          /\ \A q \in Repos : \A m \in Pushes(q) : m < n
          /\ history' = [history EXCEPT ![r] = @ \cup {[number |-> n, files |-> files]}]
          /\ \E removed \in SUBSET Files :
                head' = [head EXCEPT ![r] =
                            [f \in Files |-> IF f \in files THEN n
                                             ELSE IF f \in removed THEN 0 ELSE @[f]]]
          /\ \E m \in {marker[r], n, 0} : marker' = [marker EXCEPT ![r] = m]
    /\ UNCHANGED <<mirror, acknowledged>>

\* The rows of a file stay or move on to a later version the file has had.
Follows(old, new, r, f) == new = old \/ (new \in VersionsOf(r, f) /\ old < new)

\* The rows of r catch up.  No file goes back, and a push newly recorded has
\* arrived in every file it still is the last to have written.  Nothing comes in
\* under a marker that was acted on, and no push that set the marker is recorded
\* in this way.
CatchUp(old, new, r) ==
    /\ \A f \in Files : /\ Follows(old.content[f], new.content[f], r, f)
                        /\ Follows(old.static[f], new.static[f], r, f)
                        /\ head[r][f] \in new.log \ old.log /\ head[r][f] \in VersionsOf(r, f)
                              => new.content[f] = head[r][f]
    /\ old.commits \subseteq new.commits
    /\ new.purged = old.purged
    /\ marker[r] # 0 => marker[r] # old.purged /\ marker[r] \notin new.log \ old.log

\* A marker, the one that stands or an earlier one, empties r, and no later purge
\* acts on an earlier marker.
Purge(old, new, r) ==
    /\ \A f \in Files : new.content[f] = 0 /\ new.static[f] = 0
    /\ new.commits = {}
    /\ new.purged \in Pushes(r) /\ old.purged <= new.purged
    /\ marker[r] # 0 => new.purged <= marker[r]
    /\ marker[r] \in new.log \ old.log => new.purged = marker[r]

\* One handler, or the seed sync's visit to r, takes effect as a whole.
Ingest(r) ==
    /\ UNCHANGED <<history, head, marker, acknowledged>>
    /\ mirror' \in [Repos -> Row]
    /\ \A q \in Repos \ {r} : mirror'[q] = mirror[q]
    /\ LET old == mirror[r]
           new == mirror'[r]
       IN  /\ CatchUp(old, new, r) \/ Purge(old, new, r)
           /\ old.log \subseteq new.log
           /\ new.log \cup new.commits \subseteq Pushes(r)

\* A push is acknowledged only once it is on record.
Acknowledge(r) ==
    /\ \E e \in mirror[r].log : acknowledged' = acknowledged \cup {e}
    /\ UNCHANGED <<history, head, marker, mirror>>

Next == \E r \in Repos : Ingest(r) \/ Acknowledge(r) \/ Push(r)

Spec == Init /\ [][Next]_<<history, head, marker, mirror, acknowledged>>

-----------------------------------------------------------------------------
(* What a reader of the database may rely on (proved in MirrorProofs).     *)

\* Rows are derived from versions their file has had in the repository itself, and
\* commits and records are of pushes to it.
RowsAreGenuine ==
    \A r \in Repos :
        /\ \A f \in Files : /\ mirror[r].content[f] \in {0} \cup VersionsOf(r, f)
                            /\ mirror[r].static[f] \in {0} \cup VersionsOf(r, f)
        /\ mirror[r].log \cup mirror[r].commits \subseteq Pushes(r)

\* What an acknowledged push wrote is in the rows of a repository never purged, for
\* as long as no later push has written or removed the file.
AcknowledgedIsMirrored ==
    \A r \in Repos, f \in Files :
        head[r][f] \in acknowledged /\ head[r][f] \in VersionsOf(r, f)
            => mirror[r].content[f] = head[r][f] \/ mirror[r].purged # 0

\* While a marker stands whose push is acknowledged, there is nothing to read.
AcknowledgedMarkerEmpties ==
    \A r \in Repos :
        marker[r] \in acknowledged =>
            /\ \A f \in Files : mirror[r].content[f] = 0 /\ mirror[r].static[f] = 0
            /\ mirror[r].commits = {}
=============================================================================
