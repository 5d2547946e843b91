\* Two workers and the seed sync on one repository, every kind of event.
SPECIFICATION Spec
CONSTANTS
    readme = readme
    app = app
    manifest = manifest
    r1 = r1
    r2 = r2
    w1 = w1
    w2 = w2
    Repos = {r1}
    Files <- MCFiles
    Manifest = manifest
    LayerOf <- MCLayerOf
    Malformed = {2}
    PushKinds <- MCPushKinds
    OtherEvents = {"branch", "repository", "release"}
    Workers = {w1, w2}
    Sync = sync
    NoOne = noone
    MaxReceives = 3
    MaxCommits = 1
    MaxEvents = 2
    MaxFaults = 1
SYMMETRY WorkerSymmetry
INVARIANTS
    NoLostUpdate
    AcknowledgedIsRecorded
PROPERTIES
    ImplementsMirror
