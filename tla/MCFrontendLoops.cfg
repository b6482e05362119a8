SPECIFICATION Spec
CONSTANTS
    Libraries <- MCLibraries
    Scripts <- LoopScripts
    Context <- MCContext
    CopyTypes <- MCCopyTypes
INVARIANTS
    EndsWithValue
CHECK_DEADLOCK FALSE
