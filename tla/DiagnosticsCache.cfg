CONSTANTS
    CliProcs = {c1}
    ApiProcs = {a1}
    Contexts = 2
    Targets = 1
    Contents = {"v1", "v2"}
    Rules = {"r"}
    Configs <- AllConfigs
    Flags <- AllFlags
    NoEntry = NoEntry
    Garbled = Garbled
    Nothing = Nothing
    MaxCommands = 2
    MaxChanges = 2
SPECIFICATION Spec
INVARIANTS
    ServedMatchesInputs
    StoredIsComplete
    UnchangedInputsHit
