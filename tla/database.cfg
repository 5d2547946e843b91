\* Two runners over three migrations; three projects with every choice of lists;
\* reads of two projects while ingestion goes on.
SPECIFICATION MCSpec
CONSTANTS
    p1 = p1
    p2 = p2
    p3 = p3
    x = x
    y = y
    z = z
    Runners = {a, b}
    MaxFiles = 3
    MaxRuns = 5
    Projects = {p1, p2, p3}
    Technologies = {x, y, z}
    Manifests <- MCManifests
    Rank <- MCRank
    Nobody = nobody
    MaxAttempts = 3
    open = open
    closed = closed
    Catalogue = {open, closed}
    Skills = {x, y}
    Items = {1, 2, 3, 4, 5, 6, 7, 8, 9, 10, 11, 12, 13}
    ItemData <- MCItemData
    AskedNames <- MCAskedNames
    Limits = {1, 3}
    Times = {797, 804}
    DayCounts = {4, 40}
    TimeLimit = 2
    Now = 805
    DayLength = 2
    Ingestions <- MCIngestions
    MaxChanges = 3
CHECK_DEADLOCK FALSE
INVARIANTS
    DatabaseTypeOK
    AppliedOnce
    RunnersDoNotDeadlock
    AlignedNeverFail
    ReadsAreExact
PROPERTIES
    RunIsAllOrNothing
    PushesEnd
