CONSTANTS
    None = None
    RuleList <- RuleListDef
    AliasList <- AliasListDef
    MaxLevels = 2
    SuppressionID = "unknown-suppression"
    All = "all"
    Raw <- AtMostOne
    Longest = 3
    LastLine = 2
    Runs <- LongRuns
    Answers <- AnswersDef
    Lengths <- LengthsDef
    Capacity = 1
    Limit = 1
SPECIFICATION Spec
INVARIANTS
    LongAnswersFail
CHECK_DEADLOCK FALSE
