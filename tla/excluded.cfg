\* One worker and the seed sync: ExcludedLeavesNothing.
SPECIFICATION Spec
CONSTANTS
    readme = readme
    app = app
    manifest = manifest
    r1 = r1
    r2 = r2
    w1 = w1
    w2 = w2
    Repos = {r1}
    Files <- MCFiles
    Manifest = manifest
    LayerOf <- MCLayerOf
    Malformed = {}
    PushKinds <- MCPushKinds
    OtherEvents = {}
    Workers = {w1}
    Sync = sync
    NoOne = noone
    MaxReceives = 3
    MaxCommits = 1
    MaxEvents = 2
    MaxFaults = 0
INVARIANTS
    ExcludedLeavesNothing
