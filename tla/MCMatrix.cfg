\* One matrix instruction from every state: views, tile loads and stores in
\* every direction, and products of tiles of every shape and type.
CONSTANTS
    AddressSpace = 256
    ByteBits = 2
    ScratchpadBytes = 8
    MatrixRows = 3
    MatrixCols = 3
    TileBytes = 16
    ViewRegisters = {0, 1}
    TileRegisters = {0, 1, 2}
    MaxInstructions = 1
    RegionTable <- Layout
    Float <- MCFloat
    Repertoire <- Instructions
    InitialUnits <- AllUnits
SPECIFICATION Spec
CHECK_DEADLOCK FALSE
INVARIANT
    TilesFit
PROPERTIES
    ImplementsContract
    TransfersFollowTheView
    ProductsAreExact
