\* One worker and the seed sync, three pushes in any order of delivery.
SPECIFICATION Spec
CONSTANTS
    readme = readme
    app = app
    manifest = manifest
    r1 = r1
    r2 = r2
    w1 = w1
    w2 = w2
    Repos = {r1}
    Files <- SmallFiles
    Manifest = manifest
    LayerOf <- SmallLayerOf
    Malformed = {2}
    PushKinds <- SmallPushKinds
    OtherEvents = {}
    Workers = {w1}
    Sync = sync
    NoOne = noone
    MaxReceives = 2
    MaxCommits = 1
    MaxEvents = 3
    MaxFaults = 1
INVARIANTS
    PurgedStaysEmpty
    MarkerHonoured
