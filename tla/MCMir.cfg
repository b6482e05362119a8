SPECIFICATION Spec
CONSTANTS
    Functions <- MCFunctions
INVARIANTS
    TypeOK
    InitialisedOnly
    NothingOverwritten
    NothingLeft
    OwnershipIsStatic
    RunsAsLowered
