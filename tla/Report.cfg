CONSTANTS
    Procs = {p1, p2}
    Files = {1, 2}
    Texts <- TwoFiles
    Ids = {"w", "h", "e"}
    Eligible = {"w", "h"}
    Failing = {"w", "e"}
    Roots = {{2}, {1, 2}}
    Limit = 1
    None = None
SPECIFICATION Spec
SYMMETRY Symmetry
INVARIANTS
    NewFindingsRemain
    BaselineHasNoGaps
    ErrorsStay
    ExitTellsAll
    PruneHidesTheSame
CHECK_DEADLOCK FALSE
