CONSTANTS
    Workspaces <- MCWorkspaces
    Depth = 5
    Elsewhere = {"X"}
    None = None
SPECIFICATION Spec
INVARIANTS
    UnitsAreTexts
    IncludesAreJudged
    NamesAreBound
    ClashesAreReported
CHECK_DEADLOCK FALSE
