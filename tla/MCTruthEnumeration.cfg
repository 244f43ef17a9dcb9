CONSTANT N = 3
SPECIFICATION FairSpec
INVARIANTS NoRepeat AllTried
PROPERTIES ImplementsSweep EventuallyAllTried
CHECK_DEADLOCK FALSE
