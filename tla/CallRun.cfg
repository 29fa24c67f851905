CONSTANTS
    Programs <- MCPrograms
    Depth = 6
SPECIFICATION Spec
INVARIANTS
    SummariesAreExact
    FlowsAreExact
PROPERTY AnalysisAdvances
CHECK_DEADLOCK FALSE
