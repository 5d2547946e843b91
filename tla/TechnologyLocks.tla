-------------------------- MODULE TechnologyLocks ---------------------------
(***************************************************************************)
(* sync_technologies of several projects at once.  Each is part of the one *)
(* transaction that ingests its project, and the conflict update of every  *)
(* technology a manifest names locks that technology's row, shared by all  *)
(* projects, until the transaction ends: in the manifest's order.          *)
(*                                                                         *)
(* PostgreSQL breaks a circle of waiting transactions by failing one of    *)
(* them; its worker's message is then delivered again, as often as the     *)
(* queue allows.  A lock goes from the transaction that held it to one     *)
(* that waits for it, as a message is delivered again only after its       *)
(* visibility timeout.                                                     *)
(***************************************************************************)
EXTENDS Naturals, Sequences, FiniteSets

CONSTANTS
    Projects,      \* projects whose manifests are ingested, each once
    Technologies,  \* names of technologies
    Manifests,     \* lists of technologies a manifest may have
    Rank,          \* an order of the technologies, to compare manifests with
    Nobody,        \* no project
    MaxAttempts    \* maxReceiveCount of the queue's redrive policy

ASSUME LocksAssumption ==
    /\ IsFiniteSet(Projects)
    /\ Manifests \subseteq Seq(Technologies)
    /\ Rank \in [Technologies -> Nat]
    /\ Nobody \notin Projects
    /\ MaxAttempts \in Nat \ {0}

VARIABLES
    declared,  \* declared[p]: the technologies p's manifest names, in its order
    stage,     \* stage[p]: where the message about p's push is
    attempts,  \* attempts[p]: how often it has been received
    done,      \* done[p]: how many of the technologies p's transaction has upserted
    owner      \* owner[t]: whose transaction has locked the row of t

lockVars == <<declared, stage, attempts, done, owner>>

Stages == {"queued", "open", "committed", "dead"}

LockTypeOK ==
    /\ declared \in [Projects -> Manifests]
    /\ stage \in [Projects -> Stages]
    /\ attempts \in [Projects -> 0..MaxAttempts]
    /\ done \in [Projects -> Nat]
    /\ owner \in [Technologies -> Projects \cup {Nobody}]

LockInit ==
    /\ declared \in [Projects -> Manifests]
    /\ stage = [p \in Projects |-> "queued"]
    /\ attempts = [p \in Projects |-> 0]
    /\ done = [p \in Projects |-> 0]
    /\ owner = [t \in Technologies |-> Nobody]

-----------------------------------------------------------------------------
\* p's transaction has still to upsert a technology, and this is the next one.
Unfinished(p) == stage[p] = "open" /\ done[p] < Len(declared[p])

\* MUTANT of Wanted: the list goes through a set, whose order differs by process.
WantedOfSet(p) ==
    declared[p][IF Len(declared[p]) % 2 = 0 THEN Len(declared[p]) - done[p] ELSE done[p] + 1]

Wanted(p) == declared[p][done[p] + 1]

WaitsFor(p, q) == Unfinished(p) /\ q \in Projects \ {p} /\ owner[Wanted(p)] = q

\* A circle of transactions each of which waits for another one of it.
IsCircle(c) ==
    /\ c # {}
    /\ \A p \in c : \E q \in c : WaitsFor(p, q)
    /\ \A q \in c : \E p \in c : WaitsFor(p, q)

\* The owners after p's transaction has ended.
Released(p) ==
    LET Waiting(t) == {q \in Projects : WaitsFor(q, p) /\ Wanted(q) = t}
    IN  {o \in [Technologies -> Projects \cup {Nobody}] : \A t \in Technologies :
            o[t] \in IF owner[t] # p THEN {owner[t]}
                     ELSE IF Waiting(t) = {} THEN {Nobody} ELSE Waiting(t)}

\* MUTANT of Receive: there is no redrive policy.
ReceiveForever(p) ==
    /\ stage[p] = "queued"
    /\ stage' = [stage EXCEPT ![p] = "open"]
    /\ attempts' = [attempts EXCEPT ![p] = @ + 1]
    /\ UNCHANGED <<declared, done, owner>>

\* A worker starts the transaction of p.
Receive(p) ==
    /\ stage[p] = "queued" /\ attempts[p] < MaxAttempts
    /\ stage' = [stage EXCEPT ![p] = "open"]
    /\ attempts' = [attempts EXCEPT ![p] = @ + 1]
    /\ UNCHANGED <<declared, done, owner>>

\* The technology's row is locked and the project's row about it inserted.
UpsertTechnology(p) ==
    /\ Unfinished(p) /\ owner[Wanted(p)] \in {p, Nobody}
    /\ owner' = [owner EXCEPT ![Wanted(p)] = p]
    /\ done' = [done EXCEPT ![p] = @ + 1]
    /\ UNCHANGED <<declared, stage, attempts>>

CommitProject(p) ==
    /\ stage[p] = "open" /\ done[p] = Len(declared[p])
    /\ owner' \in Released(p)
    /\ stage' = [stage EXCEPT ![p] = "committed"]
    /\ done' = [done EXCEPT ![p] = 0]
    /\ UNCHANGED <<declared, attempts>>

\* MUTANT of FailDeadlocked: no deadlock is detected.
NeverFail(p) == FALSE /\ UNCHANGED lockVars

\* deadlock_timeout: the statement of one transaction of a circle fails, and the
\* exception rolls the transaction back.
FailDeadlocked(p) ==
    /\ \E c \in SUBSET Projects : p \in c /\ IsCircle(c)
    /\ owner' \in Released(p)
    /\ stage' = [stage EXCEPT ![p] = "queued"]
    /\ done' = [done EXCEPT ![p] = 0]
    /\ UNCHANGED <<declared, attempts>>

MoveToDeadLetters(p) ==
    /\ stage[p] = "queued" /\ attempts[p] = MaxAttempts
    /\ stage' = [stage EXCEPT ![p] = "dead"]
    /\ UNCHANGED <<declared, attempts, done, owner>>

ProjectStep(p) ==
    \/ Receive(p) \/ UpsertTechnology(p) \/ CommitProject(p) \/ FailDeadlocked(p)
    \/ MoveToDeadLetters(p)

LockNext == \E p \in Projects : ProjectStep(p)

LockSpec == LockInit /\ [][LockNext]_lockVars

-----------------------------------------------------------------------------
(* Properties.                                                             *)

\* The manifests list their technologies in one common order.
Aligned ==
    \A p \in Projects : \A i, j \in DOMAIN declared[p] :
        i < j => Rank[declared[p][i]] < Rank[declared[p][j]]

\* If they do, waiting only ever leads to transactions that want something later
\* in that order, so that it never comes back.
WaitingClimbs ==
    Aligned => \A p, q, r \in Projects :
        WaitsFor(p, q) /\ WaitsFor(q, r) => Rank[Wanted(p)] < Rank[Wanted(q)]

\* Then no transaction is ever failed: every push is handled at its first receive.
AlignedNeverFail == Aligned => \A p \in Projects : attempts[p] <= 1

\* Why: a transaction that has locked a row has upserted it, or is about to, having
\* waited for it; and of aligned manifests no message comes back.
OwnersAreOpen ==
    \A t \in Technologies : LET p == owner[t] IN
        p # Nobody => /\ stage[p] = "open"
                      /\ \E i \in DOMAIN declared[p] : i <= done[p] + 1 /\ declared[p][i] = t

NeverBack == Aligned => \A p \in Projects : stage[p] = "queued" => attempts[p] = 0

\* Every push is handled or among the dead letters in the end: no circle of
\* waiting transactions lasts.
EveryoneEnds == <>(\A p \in Projects : stage[p] \in {"committed", "dead"})
=============================================================================
