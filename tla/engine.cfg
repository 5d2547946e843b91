\* Every question, every outcome of the language model.
SPECIFICATION FairSpec
CONSTANTS
    MaxAttempts = 3
    LayerSets <- MCLayerSets
CHECK_DEADLOCK FALSE
INVARIANTS
    GivesUpOnlyOnErrors
    ErrorDoesNotFallBack
    FallbackIsDisclosed
    CallsAreBounded
PROPERTIES
    Ends
    ImplementsContract
