CONSTANTS
    FunctionFiles = {f1, f2}
    Seeds = {1, 2}
    MAX_MUT = 1
    NumInputs = 1
    Outputs <- ShortOutputs
    NoFile = NoFile
    Torn = Torn
    MaxFaults = 1
    MaxSessions = 1
    MaxEdits = 0
SPECIFICATION FairSpec
INVARIANTS SessionComplete
PROPERTIES JudgementSound EndsIfProgramsReturn
CHECK_DEADLOCK FALSE
