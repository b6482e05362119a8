SPECIFICATION CompileSpec
CONSTANTS
    Items <- ThreeItems
    Leaves <- OneLeaf
    Kinds <- AllKinds
INVARIANTS
    CompileTypeOK ComponentsAreCycles ReferencesFirst RejectedForCause NeverIce DependenciesFirst AllCompiled
PROPERTY CompilationEnds
CHECK_DEADLOCK FALSE
