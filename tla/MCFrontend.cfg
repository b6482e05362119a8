SPECIFICATION Spec
CONSTANTS
    Libraries <- MCLibraries
    Scripts <- MCScripts
    Context <- MCContext
    CopyTypes <- MCCopyTypes
INVARIANTS
    FrontendTypeOK
    ParsedAsWritten
    AcceptedIsWellTyped
    TypesAreFinite
    RecursiveTypesRejected
    ImportsInAnyOrder
    UniqueFullNames
    RegisteredInAnyOrder
    GeneratedFunctionsFit
CHECK_DEADLOCK FALSE
