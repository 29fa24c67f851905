CONSTANTS
    Size = 2
    Rules = 2
    None = None
    Limit = 2
    Includes = {}
    Provided = {1, 2}
    Kind <- FlowKind
    Reach <- AllReach
SPECIFICATION Spec
INVARIANTS
    RaceFree
CHECK_DEADLOCK FALSE
