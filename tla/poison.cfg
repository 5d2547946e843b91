\* A project.yaml whose technologies are no list.
SPECIFICATION Spec
CONSTANTS
    lib = lib
    app = app
    api = api
    call = call
    url = url
    w1 = w1
    Projects = {lib, app}
    Endpoints = {api}
    Needs = {call, url}
    Urls <- MCUrls
    Outside = outside
    Undeclared = undeclared
    Contents <- PoisonContents
    Agents = {w1, seed}
    Seed = seed
    MaxPushes = 1
INVARIANTS
    NeverCrashesTheCaller
