\* Three pushes, events in any order, seed passes, aborts and resolutions.
SPECIFICATION Spec
CONSTANTS
    title = title
    usage = usage
    install = install
    key = key
    import = import
    define = define
    body = body
    blank = blank
    Lines = {title, usage, install, key, import, define, body, blank}
    Headings = {title}
    BlankLines = {blank}
    Rules = {"Secret Keyword"}
    RulesIn <- MCRulesIn
    BlockLines = 2
    Paths <- MCPaths
    Readme <- readme
    Preferred <- MCPreferred
    Marker <- marker
    Absent = absent
    FirstPush <- MCFirstPush
    PushKinds <- MCPushKinds
    Messages <- MCMessages
    Beyond <- MCBeyond
    MaxCommits = 2
    MaxTree = 5
    MaxPushes = 3
INVARIANTS
    TypeOK
    StoreIsClean
    NothingInvented
    PassAccountsForAll
    RecentHistoryIsStored
    QuietPassIsFree
    LossIsLocal
PROPERTIES
    FindingsAreKept
