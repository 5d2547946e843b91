------------------------ MODULE MCIngestionPipeline ------------------------
(***************************************************************************)
(* Small instances of IngestionPipeline: a document, a code file and the   *)
(* manifest, pushed in the combinations whose handling differs.            *)
(***************************************************************************)
EXTENDS IngestionPipeline, TLC

CONSTANTS readme, app, manifest, r1, r2, w1, w2

MCFiles == {readme, app, manifest}

MCLayerOf == (readme :> "documents") @@ (app :> "code") @@ (manifest :> "graph")

Only(files) == [changed |-> files, removed |-> {}, marker |-> "keep"]

\* Pushes that write the code file, write the others and remove it and the marker,
\* and set the marker.
MCPushKinds ==
    {Only({app}),
     [changed |-> {readme, manifest}, removed |-> {app}, marker |-> "remove"],
     [changed |-> {}, removed |-> {}, marker |-> "add"]}

\* Without the document: writes, the marker, and its removal with all else.
SmallFiles == {app, manifest}

SmallLayerOf == (app :> "code") @@ (manifest :> "graph")

SmallPushKinds ==
    {Only(SmallFiles),
     [changed |-> {}, removed |-> {}, marker |-> "add"],
     [changed |-> {}, removed |-> SmallFiles, marker |-> "remove"]}

TwoPushKinds == {k \in SmallPushKinds : k.marker # "remove"}

WorkerSymmetry == Permutations({w1, w2})
=============================================================================
