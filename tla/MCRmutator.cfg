CONSTANTS
    s1 = s1
    s2 = s2
    s3 = s3
    unknown = unknown
    other = other
    NoFile = NoFile
    Torn = Torn
    Samples = {s1, s2, s3}
    Unreadable = {}
    Bavs <- MCBavs
    Name <- MCName
    Queries <- OwnQuery
    Answers = {"unsat"}
    MaxFaults = 1
    MaxRuns = 2
SPECIFICATION Spec
SYMMETRY Symm
INVARIANTS TypeOK RunComplete VerdictsAttributable EvidenceKept LeftoversExplained
PROPERTIES LostOnlyToNamesake
CHECK_DEADLOCK FALSE
