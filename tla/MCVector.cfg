\* One instruction of every kind, from every state: memory and lane operations,
\* predicates, reductions and granted lengths over aliased registers.
CONSTANTS
    AddressSpace = 256
    ByteBits = 2
    ScratchpadBytes = 8
    VectorBytes = 8
    MaxInstructions = 1
    VectorRegisters = {1, 2}
    PredicateRegisters = {1, 2}
    RegionTable <- Layout
    Float <- MCFloat
    Repertoire <- Instructions
    InitialUnits <- AllUnits
SPECIFICATION Spec
CHECK_DEADLOCK FALSE
PROPERTIES
    ImplementsContract
    SourcesAreCaptured
    InactiveLanesAreSilent
    AccessesAreExact
    LanesGoInOrder
    LanesAreExact
    LengthsAgree
