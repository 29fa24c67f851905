CONSTANTS
    N = 2
    Procs = {p1, p2}
    Contents <- MCContents
    Fixed <- MCFixed
    Conflicted <- MCConflicted
    Missing = Missing
    Partial = Partial
    None = None
    MaxSaves = 2
SPECIFICATION FairSpec
INVARIANTS
    RefusedPlanWritesNothing
    NoTornSource
PROPERTIES
    EarlierSavesSurvive
    EveryRunEnds
