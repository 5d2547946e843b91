\* A worker and seed passes over changing manifests, packages and markers.
SPECIFICATION FairSpec
CONSTANTS
    lib = lib
    app = app
    api = api
    call = call
    url = url
    w1 = w1
    Projects = {lib, app}
    Endpoints = {api}
    Needs = {call, url}
    Urls <- MCUrls
    Outside = outside
    Undeclared = undeclared
    Contents <- MCContents
    Agents = {w1, seed}
    Seed = seed
    MaxPushes = 2
INVARIANTS
    TypeOK
    NothingFabricated
    
    PassCompletes
PROPERTIES
    EdgesResolve
