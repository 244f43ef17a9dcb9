SPECIFICATION FairSpec
CONSTANTS
    Inputs <- MCInputs
    Bases = {"assertion", "binding", "attribute", "option", "declaration"}
    Strays = {"ParOpen", "ParClose", "Numeral", "UndefinedSymbol", "PK_Named", "CMD_CheckSat", "GRW_Let"}
INVARIANT TypeOK
INVARIANT PrintedIsRead
INVARIANT StopsBetweenCommands
INVARIANT ErrorsAreErrors
PROPERTY WalksTree
PROPERTY Returns
