\* Two repositories and one event: two failures dead-letter it or end passes
\* before they have seen both, under fairness.
SPECIFICATION FairSpec
CONSTANTS
    readme = readme
    app = app
    manifest = manifest
    r1 = r1
    r2 = r2
    w1 = w1
    w2 = w2
    Repos = {r1, r2}
    Files <- SmallFiles
    Manifest = manifest
    LayerOf <- SmallLayerOf
    Malformed = {}
    PushKinds <- TwoPushKinds
    OtherEvents = {"repository"}
    Workers = {w1}
    Sync = sync
    NoOne = noone
    MaxReceives = 2
    MaxCommits = 1
    MaxEvents = 1
    MaxFaults = 2
INVARIANTS
    TypeOK
PROPERTIES
    QueueDrains
    Converges
