\* cswap: the assertion of exec
SPECIFICATION Spec
CONSTANTS
    MaxText = 0
    Samples <- LegalPairs
INVARIANTS
    ParsesTheSame
