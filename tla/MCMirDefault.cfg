SPECIFICATION Spec
CONSTANTS
    Functions <- MCDefaultFunctions
INVARIANTS
    LoweringSucceeds
CHECK_DEADLOCK FALSE
