---------------------------- MODULE MirrorProofs ----------------------------
(***************************************************************************)
(* What the promise of Mirror is worth to a reader of the database: the    *)
(* theorems that every implementation of Mirror inherits.                  *)
(***************************************************************************)
EXTENDS Mirror, TLAPS

vars == <<history, head, marker, mirror, acknowledged>>

\* Pushes are numbered apart, a head is the latest push of the file, and markers,
\* purges, records and acknowledgements are of pushes.
Recorded ==
    /\ mirror \in [Repos -> Row]
    /\ head \in [Repos -> [Files -> Versions]] /\ marker \in [Repos -> Versions]
    /\ history \in [Repos -> SUBSET [number : Events, files : SUBSET Files]]
    /\ \A r, q \in Repos : r # q => Pushes(r) \cap Pushes(q) = {}
    /\ \A r \in Repos, f \in Files : \A p \in history[r] :
          f \in p.files /\ head[r][f] # 0 => p.number <= head[r][f]
    /\ \A r \in Repos, f \in Files : head[r][f] \in {0} \cup Pushes(r)
    /\ \A r \in Repos : {marker[r], mirror[r].purged} \subseteq {0} \cup Pushes(r)
    /\ \A r \in Repos : mirror[r].log \cup mirror[r].commits \subseteq Pushes(r)
    /\ \A e \in acknowledged : \E r \in Repos : e \in mirror[r].log

\* A recorded push has arrived in the files it is the last to have written.
RecordedHasArrived ==
    \A r \in Repos, f \in Files :
        head[r][f] \in mirror[r].log /\ head[r][f] \in VersionsOf(r, f)
            => mirror[r].content[f] = head[r][f] \/ mirror[r].purged # 0

\* A recorded marker has been purged for, and what was purged for it stays empty.
RecordedMarkerEmpties ==
    \A r \in Repos :
        /\ marker[r] \in mirror[r].log => mirror[r].purged = marker[r]
        /\ marker[r] # 0 /\ mirror[r].purged = marker[r] =>
              /\ \A f \in Files : mirror[r].content[f] = 0 /\ mirror[r].static[f] = 0
              /\ mirror[r].commits = {}

\* The inductive invariant.
MirrorInv == Recorded /\ RowsAreGenuine /\ RecordedHasArrived /\ RecordedMarkerEmpties

-----------------------------------------------------------------------------
(* MirrorInv is inductive.                                                 *)

\* Initially nothing has been pushed.
LEMMA InitMirrors == ASSUME MaxEvents \in Nat, Init PROVE MirrorInv
<1>1. /\ Nothing \in Row /\ Nothing.log = {} /\ Nothing.commits = {} /\ Nothing.purged = 0
      /\ \A f \in Files : Nothing.content[f] = 0 /\ Nothing.static[f] = 0
  BY DEF Nothing, Row, Versions, Events
<1>2. \A r \in Repos : /\ history[r] = {} /\ Pushes(r) = {} /\ mirror[r] = Nothing
                       /\ marker[r] = 0 /\ \A f \in Files : head[r][f] = 0
  BY DEF Init, Pushes
<1>3. Recorded
  <2>1. mirror \in [Repos -> Row]
    BY <1>1 DEF Init
  <2>2. head \in [Repos -> [Files -> Versions]] /\ marker \in [Repos -> Versions]
    BY DEF Init, Versions
  <2>3. history \in [Repos -> SUBSET [number : Events, files : SUBSET Files]]
    BY DEF Init
  <2>. QED
    BY <1>1, <1>2, <2>1, <2>2, <2>3 DEF Init, Recorded
<1>4. RowsAreGenuine
  BY <1>1, <1>2 DEF RowsAreGenuine
<1>5. RecordedHasArrived /\ RecordedMarkerEmpties
  BY <1>1, <1>2 DEF RecordedHasArrived, RecordedMarkerEmpties
<1>. QED
  BY <1>3, <1>4, <1>5 DEF MirrorInv

\* A push adds one version, later than all, of the files it writes.
LEMMA PushMirrors ==
  ASSUME MaxEvents \in Nat, MirrorInv, NEW r \in Repos, Push(r) PROVE MirrorInv'
<1>1. PICK n \in Events, files \in SUBSET Files :
          /\ \A q \in Repos : \A m \in Pushes(q) : m < n
          /\ history' = [history EXCEPT ![r] = @ \cup {[number |-> n, files |-> files]}]
          /\ \E removed \in SUBSET Files :
                head' = [head EXCEPT ![r] =
                            [f \in Files |-> IF f \in files THEN n
                                             ELSE IF f \in removed THEN 0 ELSE @[f]]]
          /\ \E m \in {marker[r], n, 0} : marker' = [marker EXCEPT ![r] = m]
  BY DEF Push
<1>2. PICK removed \in SUBSET Files :
          head' = [head EXCEPT ![r] =
                      [f \in Files |-> IF f \in files THEN n
                                       ELSE IF f \in removed THEN 0 ELSE @[f]]]
  BY <1>1
<1>. DEFINE new == [number |-> n, files |-> files]
<1>3. new.number = n /\ new.files = files
  OBVIOUS
<1>4. \A q \in Repos : \A p : p \in history'[q] <=> p \in history[q] \/ (q = r /\ p = new)
  BY <1>1 DEF Recorded, MirrorInv
<1>. HIDE DEF new
<1>5. /\ mirror' = mirror /\ acknowledged' = acknowledged
      /\ mirror \in [Repos -> Row] /\ 0 \notin Events /\ Events \subseteq Nat
  BY DEF Push, MirrorInv, Recorded, Events
<1>6. \A q \in Repos : \A e : e \in Pushes(q)' <=> e \in Pushes(q) \/ (q = r /\ e = n)
  BY <1>3, <1>4 DEF Pushes
<1>7. \A q \in Repos, f \in Files : \A e :
          /\ e \in VersionsOf(q, f) => e \in VersionsOf(q, f)'
          /\ e \in VersionsOf(q, f)' => e \in VersionsOf(q, f) \/ (q = r /\ e = n)
  BY <1>3, <1>4 DEF VersionsOf
<1>8. \A q \in Repos : n \notin Pushes(q) /\ Pushes(q) \subseteq Events
  <2>1. \A q \in Repos : \A m \in Pushes(q) : m \in Events /\ m \in Nat /\ m < n
    BY <1>1, <1>5 DEF MirrorInv, Recorded, Pushes
  <2>. QED
    BY <1>5, <2>1
<1>9. /\ head' \in [Repos -> [Files -> Versions]]
      /\ \A q \in Repos \ {r} : head'[q] = head[q]
      /\ \A f \in Files : head'[r][f] = IF f \in files THEN n
                                        ELSE IF f \in removed THEN 0 ELSE head[r][f]
  BY <1>2 DEF MirrorInv, Recorded, Versions, Events
<1>10. /\ marker' \in [Repos -> Versions]
       /\ \A q \in Repos \ {r} : marker'[q] = marker[q]
       /\ marker'[r] \in {marker[r], n, 0}
  BY <1>1 DEF MirrorInv, Recorded, Versions, Events
<1>11. Recorded'
  <2>1. history' \in [Repos -> SUBSET [number : Events, files : SUBSET Files]]
    BY <1>1 DEF MirrorInv, Recorded
  <2>2. \A s, q \in Repos : s # q => Pushes(s)' \cap Pushes(q)' = {}
    BY <1>6, <1>8 DEF MirrorInv, Recorded
  <2>3. ASSUME NEW q \in Repos, NEW f \in Files, NEW p \in history'[q],
               f \in p.files, head'[q][f] # 0
        PROVE  p.number <= head'[q][f]
    <3>1. CASE q # r
      BY <1>4, <1>9, <2>3, <3>1 DEF MirrorInv, Recorded
    <3>2. CASE q = r /\ f \in files
      <4>1. p.number \in Pushes(q) \/ p.number = n
        BY <1>3, <1>4, <3>2 DEF Pushes
      <4>. QED
        BY <1>1, <1>5, <1>8, <1>9, <3>2, <4>1
    <3>3. CASE q = r /\ f \notin files
      BY <1>3, <1>4, <1>9, <2>3, <3>3 DEF MirrorInv, Recorded
    <3>. QED
      BY <3>1, <3>2, <3>3
  <2>4. \A q \in Repos, f \in Files : head'[q][f] \in {0} \cup Pushes(q)'
    BY <1>6, <1>9 DEF MirrorInv, Recorded
  <2>5. \A q \in Repos : {marker'[q], mirror'[q].purged} \subseteq {0} \cup Pushes(q)'
    BY <1>5, <1>6, <1>10 DEF MirrorInv, Recorded
  <2>6. \A q \in Repos : mirror'[q].log \cup mirror'[q].commits \subseteq Pushes(q)'
    BY <1>5, <1>6 DEF MirrorInv, Recorded
  <2>7. \A e \in acknowledged' : \E q \in Repos : e \in mirror'[q].log
    BY <1>5 DEF MirrorInv, Recorded
  <2>. QED
    BY <1>5, <1>9, <1>10, <2>1, <2>2, <2>3, <2>4, <2>5, <2>6, <2>7 DEF Recorded
<1>12. RowsAreGenuine'
  BY <1>5, <1>6, <1>7 DEF MirrorInv, RowsAreGenuine
<1>13. RecordedHasArrived'
  <2> SUFFICES ASSUME NEW q \in Repos, NEW f \in Files,
                      head'[q][f] \in mirror[q].log, head'[q][f] \in VersionsOf(q, f)'
               PROVE  mirror[q].content[f] = head'[q][f] \/ mirror[q].purged # 0
    BY <1>5 DEF RecordedHasArrived
  <2>1. head'[q][f] \in Pushes(q)
    BY DEF MirrorInv, Recorded
  <2>2. head'[q][f] = head[q][f] /\ head'[q][f] \in VersionsOf(q, f)
    BY <1>5, <1>7, <1>8, <1>9, <2>1
  <2>. QED
    BY <2>2 DEF MirrorInv, RecordedHasArrived
<1>14. RecordedMarkerEmpties'
  <2>1. ASSUME NEW q \in Repos, marker'[q] # marker[q]
        PROVE  /\ marker'[q] \notin mirror[q].log
               /\ marker'[q] # 0 => mirror[q].purged # marker'[q]
    BY <1>5, <1>8, <1>10, <2>1 DEF MirrorInv, Recorded
  <2>. QED
    BY <1>5, <2>1 DEF MirrorInv, RecordedMarkerEmpties
<1>. QED
  BY <1>11, <1>12, <1>13, <1>14 DEF MirrorInv

\* Ingesting catches up or purges; what it records has arrived or been purged for.
LEMMA IngestMirrors ==
  ASSUME MaxEvents \in Nat, MirrorInv, NEW r \in Repos, Ingest(r) PROVE MirrorInv'
<1>. DEFINE old == mirror[r]
            new == mirror'[r]
<1>1. /\ UNCHANGED <<history, head, marker, acknowledged>>
      /\ mirror' \in [Repos -> Row] /\ \A q \in Repos \ {r} : mirror'[q] = mirror[q]
      /\ CatchUp(old, new, r) \/ Purge(old, new, r)
      /\ old.log \subseteq new.log /\ new.log \cup new.commits \subseteq Pushes(r)
  BY DEF Ingest
<1>2. /\ \A q \in Repos : Pushes(q)' = Pushes(q)
      /\ \A q \in Repos, f \in Files : VersionsOf(q, f)' = VersionsOf(q, f)
  BY <1>1 DEF Pushes, VersionsOf
<1>3. /\ old \in Row /\ new \in Row /\ marker[r] \in Nat
      /\ Pushes(r) \subseteq Events /\ 0 \notin Events /\ Events \subseteq Nat
      /\ old.purged \in {0} \cup Pushes(r) /\ marker[r] \in {0} \cup Pushes(r)
      /\ \A f \in Files : VersionsOf(r, f) \subseteq Pushes(r)
  BY <1>1 DEF MirrorInv, Recorded, Pushes, Events, Versions, VersionsOf
<1>4. \A f \in Files : \A e \in VersionsOf(r, f) : head[r][f] # 0 => e <= head[r][f]
  BY DEF MirrorInv, Recorded, VersionsOf
<1>5. new.purged \in {0} \cup Pushes(r) /\ (Purge(old, new, r) => new.purged \in Pushes(r))
  BY <1>1, <1>3 DEF CatchUp, Purge
<1>6. /\ marker[r] \in old.log => old.purged = marker[r]
      /\ \A f \in Files : /\ old.content[f] \in {0} \cup VersionsOf(r, f)
                          /\ old.static[f] \in {0} \cup VersionsOf(r, f)
                          /\ head[r][f] \in old.log /\ head[r][f] \in VersionsOf(r, f)
                                => old.content[f] = head[r][f] \/ old.purged # 0
  BY DEF MirrorInv, RecordedMarkerEmpties, RowsAreGenuine, RecordedHasArrived
<1>. HIDE DEF old, new
<1>7. ASSUME NEW f \in Files
      PROVE  /\ new.content[f] \in {0} \cup VersionsOf(r, f)
             /\ new.static[f] \in {0} \cup VersionsOf(r, f)
  BY <1>1, <1>6 DEF CatchUp, Purge, Follows
<1>8. ASSUME NEW f \in Files, head[r][f] \in new.log, head[r][f] \in VersionsOf(r, f)
      PROVE  new.content[f] = head[r][f] \/ new.purged # 0
  <2>1. CASE Purge(old, new, r)
    BY <1>3, <1>5, <2>1
  <2>2. CASE CatchUp(old, new, r) /\ head[r][f] \notin old.log
    BY <1>8, <2>2 DEF CatchUp
  <2>3. CASE CatchUp(old, new, r) /\ head[r][f] \in old.log
    <3>1. new.purged = old.purged /\ Follows(old.content[f], new.content[f], r, f)
      BY <2>3 DEF CatchUp
    <3>2. head[r][f] \in Nat /\ head[r][f] # 0
      BY <1>3, <1>8
    <3>3. ASSUME NEW e \in VersionsOf(r, f) PROVE ~ (head[r][f] < e)
      <4>1. e \in Nat /\ e <= head[r][f]
        BY <1>3, <1>4, <3>2
      <4>. QED
        BY <3>2, <4>1
    <3>. QED
      BY <1>6, <1>8, <2>3, <3>1, <3>3 DEF Follows
  <2>. QED
    BY <1>1, <2>1, <2>2, <2>3
<1>9. /\ marker[r] \in new.log => new.purged = marker[r]
      /\ marker[r] # 0 /\ new.purged = marker[r] =>
            /\ \A f \in Files : new.content[f] = 0 /\ new.static[f] = 0
            /\ new.commits = {}
  <2>1. marker[r] \in new.log => marker[r] # 0
    BY <1>1, <1>3
  <2>2. CASE CatchUp(old, new, r)
    BY <1>6, <2>1, <2>2 DEF CatchUp
  <2>3. CASE Purge(old, new, r)
    <3>1. /\ new.purged \in Nat /\ old.purged \in Nat
          /\ old.purged <= new.purged
          /\ marker[r] # 0 => new.purged <= marker[r]
          /\ marker[r] \in new.log \ old.log => new.purged = marker[r]
      <4>1. \A e \in {0} \cup Pushes(r) : e \in Nat
        BY <1>3
      <4>2. new.purged \in Nat /\ old.purged \in Nat
        BY <1>3, <1>5, <4>1, Zenon
      <4>. QED
        BY <2>3, <4>2 DEF Purge
    <3>2. marker[r] \in new.log => new.purged = marker[r]
      BY <1>3, <1>6, <2>1, <3>1
    <3>. QED
      BY <2>3, <3>2 DEF Purge
  <2>. QED
    BY <1>1, <2>2, <2>3
<1>10. Recorded'
  <2>1. \A q \in Repos : {marker'[q], mirror'[q].purged} \subseteq {0} \cup Pushes(q)'
    BY <1>1, <1>2, <1>5 DEF MirrorInv, Recorded, new
  <2>2. \A q \in Repos : mirror'[q].log \cup mirror'[q].commits \subseteq Pushes(q)'
    BY <1>1, <1>2 DEF MirrorInv, Recorded, new
  <2>3. \A e \in acknowledged' : \E q \in Repos : e \in mirror'[q].log
    BY <1>1 DEF MirrorInv, Recorded, old, new
  <2>. QED
    BY <1>1, <1>2, <2>1, <2>2, <2>3 DEF MirrorInv, Recorded
<1>11. RowsAreGenuine'
  BY <1>1, <1>2, <1>7 DEF MirrorInv, RowsAreGenuine, new
<1>12. RecordedHasArrived'
  BY <1>1, <1>2, <1>8 DEF MirrorInv, RecordedHasArrived, new
<1>13. RecordedMarkerEmpties'
  BY <1>1, <1>9 DEF MirrorInv, RecordedMarkerEmpties, new
<1>. QED
  BY <1>10, <1>11, <1>12, <1>13 DEF MirrorInv

\* What is acknowledged is on record.
LEMMA AcknowledgeMirrors ==
  ASSUME MirrorInv, NEW r \in Repos, Acknowledge(r) PROVE MirrorInv'
<1>1. /\ UNCHANGED <<history, head, marker, mirror>>
      /\ \E e \in mirror[r].log : acknowledged' = acknowledged \cup {e}
  BY DEF Acknowledge
<1>2. /\ \A q \in Repos : Pushes(q)' = Pushes(q)
      /\ \A q \in Repos, f \in Files : VersionsOf(q, f)' = VersionsOf(q, f)
  BY <1>1 DEF Pushes, VersionsOf
<1>3. Recorded'
  BY <1>1, <1>2 DEF MirrorInv, Recorded
<1>4. RowsAreGenuine' /\ RecordedHasArrived' /\ RecordedMarkerEmpties'
  BY <1>1, <1>2
     DEF MirrorInv, RowsAreGenuine, RecordedHasArrived, RecordedMarkerEmpties
<1>. QED
  BY <1>3, <1>4 DEF MirrorInv

\* The invariant holds of whatever Mirror allows.
LEMMA MirrorInvHolds == ASSUME MaxEvents \in Nat PROVE Spec => []MirrorInv
<1>1. Init => MirrorInv
  BY InitMirrors
<1>2. MirrorInv /\ [Next]_vars => MirrorInv'
  <2> SUFFICES ASSUME MirrorInv, [Next]_vars PROVE MirrorInv'
    OBVIOUS
  <2>1. CASE Next
    BY <2>1, PushMirrors, IngestMirrors, AcknowledgeMirrors DEF Next
  <2>2. CASE UNCHANGED vars
    <3>1. /\ \A q \in Repos : Pushes(q)' = Pushes(q)
          /\ \A q \in Repos, f \in Files : VersionsOf(q, f)' = VersionsOf(q, f)
      BY <2>2 DEF vars, Pushes, VersionsOf
    <3>. QED
      BY <2>2, <3>1 DEF vars, MirrorInv, Recorded, RowsAreGenuine, RecordedHasArrived,
                        RecordedMarkerEmpties
  <2>. QED
    BY <2>1, <2>2
<1>. QED
  BY <1>1, <1>2, PTL DEF Spec, vars

-----------------------------------------------------------------------------
(* What follows for a reader of the database.                              *)

\* No row is derived from anything but a version its file has had in the repository.
THEOREM MirrorIsGenuine == ASSUME MaxEvents \in Nat PROVE Spec => []RowsAreGenuine
<1>1. MirrorInv => RowsAreGenuine
  BY DEF MirrorInv
<1>. QED
  BY <1>1, MirrorInvHolds, PTL

\* An acknowledged push is on record in the repository it is a push to, and nowhere
\* else.
LEMMA AcknowledgedIsRecorded ==
  ASSUME MirrorInv, NEW r \in Repos, NEW e \in acknowledged, e \in Pushes(r)
  PROVE  e \in mirror[r].log
  BY DEF MirrorInv, Recorded

\* Acknowledged means arrived, unless the repository has been purged.
THEOREM MirrorKeepsAcknowledged ==
  ASSUME MaxEvents \in Nat PROVE Spec => []AcknowledgedIsMirrored
<1>1. ASSUME MirrorInv PROVE AcknowledgedIsMirrored
  <2>1. \A r \in Repos, f \in Files : VersionsOf(r, f) \subseteq Pushes(r)
    BY DEF VersionsOf, Pushes
  <2>. QED
    BY <1>1, <2>1, AcknowledgedIsRecorded
       DEF MirrorInv, RecordedHasArrived, AcknowledgedIsMirrored
<1>. QED
  BY <1>1, MirrorInvHolds, PTL

\* An acknowledged marker that stands has emptied the repository for good.
THEOREM MirrorHonoursMarkers ==
  ASSUME MaxEvents \in Nat PROVE Spec => []AcknowledgedMarkerEmpties
<1>1. ASSUME MaxEvents \in Nat, MirrorInv PROVE AcknowledgedMarkerEmpties
  <2> SUFFICES ASSUME NEW r \in Repos, marker[r] \in acknowledged
               PROVE  /\ \A f \in Files : mirror[r].content[f] = 0 /\ mirror[r].static[f] = 0
                      /\ mirror[r].commits = {}
    BY DEF AcknowledgedMarkerEmpties
  <2>1. marker[r] # 0
    <3>1. \A q \in Repos : 0 \notin Pushes(q)
      BY <1>1 DEF MirrorInv, Recorded, Pushes, Events
    <3>. QED
      BY <1>1, <3>1 DEF MirrorInv, Recorded
  <2>2. marker[r] \in mirror[r].log
    BY <1>1, <2>1, AcknowledgedIsRecorded DEF MirrorInv, Recorded
  <2>. QED
    BY <1>1, <2>1, <2>2 DEF MirrorInv, RecordedMarkerEmpties
<1>. QED
  BY <1>1, MirrorInvHolds, PTL
=============================================================================
