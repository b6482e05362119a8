SPECIFICATION Spec
CONSTANTS
    Functions <- MCConditionalFunctions
INVARIANTS
    InitialisedOnly
CHECK_DEADLOCK FALSE
