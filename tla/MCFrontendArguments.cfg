SPECIFICATION Spec
CONSTANTS
    Libraries <- MCLibraries
    Scripts <- ArgumentScripts
    Context <- MCContext
    CopyTypes <- MCCopyTypes
INVARIANTS
    RecursiveTypesRejected
CHECK_DEADLOCK FALSE
