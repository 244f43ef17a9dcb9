CONSTANTS
    Chars <- MCChars
    Texts <- MCTexts
    Args = {0, 1, 2, 3, NoNumber}
    NoNumber = NoNumber
SPECIFICATION Spec
INVARIANTS ReplacedInPlace SameCandidates ChangesBounded
CHECK_DEADLOCK FALSE
