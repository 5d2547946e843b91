\* Three projects, one commit during the question, chains longer than the bound.
SPECIFICATION FairSpec
CONSTANTS
    a = a
    b = b
    c = c
    asked = asked
    other = other
    Projects = {a, b, c}
    Interfaces = {asked, other}
    Target = a
    Asked = asked
    Outside = outside
    Null = null
    Rows <- ChainRows
    MaxDepth = 2
    MaxWrites = 1
CHECK_DEADLOCK FALSE
INVARIANTS
    TypeOK
    ImpactIsShortest
    PublicSeesPublicChains
PROPERTIES
    Answers
