CONSTANTS
    Builders = {b1, b2}
    Paths = {"f"}
    Contents = {v1, v2}
    Defines = {"d1"}
    Profiles <- BothProfiles
    Hosts = {h}
    None = None
    MaxAnalyses = 1
    MaxTrees = 2
    Candidates = 2
    Absent = Absent
    MaxProbes = 1
    MaxChanges = 2
    MaxBuilds = 3
SPECIFICATION SessionSpec
SYMMETRY Symmetry
INVARIANTS
    HeldIsOwn
    BuildsReadTheDisk
PROPERTIES
    FirstParseWins
CHECK_DEADLOCK FALSE
