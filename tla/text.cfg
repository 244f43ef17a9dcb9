\* cswap: what is read, printed and read again.
SPECIFICATION Spec
CONSTANTS
    MaxText = 5
    Samples <- SomeSamples
INVARIANTS
    TidyScriptsKept
    StopsAtImbalance
    PanicsExplained
