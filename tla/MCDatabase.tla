----------------------------- MODULE MCDatabase -----------------------------
(***************************************************************************)
(* Small instances of Migrations, TechnologyLocks and Retrieval.  They     *)
(* have no state in common and are explored one after the other: subject   *)
(* says which of them moves, and the others stay where they start.         *)
(***************************************************************************)
EXTENDS Migrations, TechnologyLocks, Retrieval, TLC

CONSTANTS p1, p2, p3, x, y, z, open, closed

VARIABLE subject

MCRank == (x :> 1) @@ (y :> 2) @@ (z :> 3)

\* Lists in the order of MCRank and against it, two of which or all three of
\* three may wait for each other.
MCManifests == {<<x>>, <<x, y>>, <<y, x>>, <<y, z>>, <<z, x>>, <<x, y, z>>}

\* Items of both projects and all layers, two of the same distance; commits of now, of
\* midnight and of yesterday, commits exactly 7, 30, 38 and 365 days old and one of
\* Sunday, four days ago, and one without an embedding.  Now is in day 402, a Thursday.
MCItemData ==
    LET I(project, layer, distance, at, embedded) ==
            [project |-> project, layer |-> layer, distance |-> distance, at |-> at,
             embedded |-> embedded]
    IN  <<I(open, "document", 2, 0, TRUE),  I(closed, "document", 1, 0, TRUE),
          I(open, "code", 2, 0, TRUE),      I(closed, "code", 4, 0, TRUE),
          I(open, "commit", 3, 804, TRUE),  I(closed, "commit", 0, 803, TRUE),
          I(open, "commit", 5, 805, FALSE), I(open, "commit", 6, 805, TRUE),
          I(closed, "commit", 7, 791, TRUE), I(open, "commit", 1, 745, TRUE),
          I(open, "commit", 8, 797, TRUE),  I(open, "commit", 2, 729, TRUE),
          I(open, "commit", 9, 75, TRUE)>>

\* A project appears, grows, changes its visibility or is purged.
MCIngestions ==
    LET T(project, items, private, skills) ==
            [project |-> project, items |-> items, private |-> private, skills |-> skills]
    IN  {T(open, {1, 3, 5, 7, 8, 11}, FALSE, {x, y}), T(open, {1, 7, 10, 12, 13}, FALSE, {y}),
         T(open, {1, 3, 5, 7, 8, 11}, TRUE, {x, y}),  T(open, {}, FALSE, {}),
         T(closed, {2, 4, 6, 9}, TRUE, {x}),      T(closed, {2, 4, 6, 9}, FALSE, {x})}

MCAskedNames == {{}, {"documents", "commit"}, {"graph"}}

MCInit ==
    /\ subject \in {"migrations", "locks", "reads"}
    /\ MigrateInit
    /\ LockInit
    /\ ReadInit
    /\ subject # "locks" => \A p \in Projects : declared[p] = <<x>>

MCNext ==
    \/ subject = "migrations" /\ MigrateNext /\ UNCHANGED <<lockVars, readVars, subject>>
    \/ subject = "locks" /\ LockNext /\ UNCHANGED <<migrateVars, readVars, subject>>
    \/ subject = "reads" /\ ReadNext /\ UNCHANGED <<migrateVars, lockVars, subject>>

mcVars == <<migrateVars, lockVars, readVars, subject>>

\* A worker's transaction takes its next step, a circle is detected, a message is
\* delivered or given up.
MCSpec ==
    /\ MCInit /\ [][MCNext]_mcVars
    /\ \A p \in Projects :
          WF_mcVars(subject = "locks" /\ ProjectStep(p)
                    /\ UNCHANGED <<migrateVars, readVars, subject>>)

DatabaseTypeOK == MigrateTypeOK /\ LockTypeOK /\ ReadTypeOK

PushesEnd == subject = "locks" => EveryoneEnds
=============================================================================
