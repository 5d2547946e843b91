\* One worker and the seed sync, two events that write, exclude, remove or change
\* the visibility; one failure loses or dead-letters one of them. Under fairness.
SPECIFICATION FairSpec
CONSTANTS
    readme = readme
    app = app
    manifest = manifest
    r1 = r1
    r2 = r2
    w1 = w1
    w2 = w2
    Repos = {r1}
    Files <- SmallFiles
    Manifest = manifest
    LayerOf <- SmallLayerOf
    Malformed = {2}
    PushKinds <- SmallPushKinds
    OtherEvents = {"repository"}
    Workers = {w1}
    Sync = sync
    NoOne = noone
    MaxReceives = 1
    MaxCommits = 1
    MaxEvents = 2
    MaxFaults = 1
INVARIANTS
    NothingForgotten
PROPERTIES
    Converges
