CONSTANTS
    s1 = s1
    s2 = s2
    s3 = s3
    unknown = unknown
    other = other
    NoFile = NoFile
    Torn = Torn
    Samples = {s2, s3}
    Unreadable = {s2}
    Bavs <- MCBavs
    Name <- MCName
    Queries <- TwoQueries
    Answers = {"sat", "unsat", "unknown"}
    MaxFaults = 1
    MaxRuns = 1
SPECIFICATION FairSpec
PROPERTIES JudgementSound EndsIfSolversReturn
CHECK_DEADLOCK FALSE
