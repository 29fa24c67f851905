CONSTANTS
    Programs <- MCPrograms
    Callees <- MCCallees
    NPathLimit = 12
SPECIFICATION Spec
INVARIANTS
    FlowIsSound
    WritesAreTracked
    HandlesAreFollowed
    RepeatedWorkIsSteady
CHECK_DEADLOCK FALSE
