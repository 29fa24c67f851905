CONSTANTS
    Size = 3
    Rules = 2
    None = None
    Limit = 2
    Includes = {4}
    Provided = {1, 2, 3}
    Kind <- SyntaxKind
    Reach <- IncludeReach
SPECIFICATION FairSpec
INVARIANTS
    Deterministic
PROPERTIES
    ImplementsBatch
CHECK_DEADLOCK FALSE
