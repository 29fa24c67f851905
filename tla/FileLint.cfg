CONSTANTS
    None = None
    RuleList <- RuleListDef
    AliasList <- AliasListDef
    MaxLevels = 2
    SuppressionID = "unknown-suppression"
    All = "all"
    Raw <- AtMostOne
    Longest = 3
    LastLine = 2
    Runs <- RunsDef
    Answers <- AnswersDef
    Lengths <- LengthsDef
    Capacity = 1
    Limit = 1
SPECIFICATION Spec
INVARIANTS
    StacksPair
    ReportedDirectivesAreIdle
    LastWordWins
    FeaturesSuffice
    GlobsMatch
    AnswersAreWholeOrNothing
PROPERTIES
    LintsEnd
CHECK_DEADLOCK FALSE
