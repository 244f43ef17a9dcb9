CONSTANTS
    FunctionFiles = {f1}
    Seeds = {1}
    MAX_MUT = 2
    NumInputs = 2
    Outputs <- TwoOutputs
    NoFile = NoFile
    Torn = Torn
    MaxFaults = 1
    MaxSessions = 2
    MaxEdits = 1
SPECIFICATION Spec
INVARIANTS RunsAttributable BugFilesLatest BugFilesExplained SessionComplete
CHECK_DEADLOCK FALSE
