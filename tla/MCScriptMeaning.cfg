CONSTANTS
    MaxLen = 5
    MaxSize = 7
    Domain = {0, 1}
    Names <- MCNames
    Scripts <- MenuSamples
SPECIFICATION Spec
INVARIANTS TypeOK OnlyConstantsReplaced ConstantsKeptApart NumeralsDeclared CopiesInPlace
INVARIANTS AcceptedExactly QueriesConstrained OriginalRecovered VariantsDisjoint
