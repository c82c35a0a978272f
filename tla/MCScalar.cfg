\* Every scalar instruction at the edges of its operands, with its memory.
CONSTANTS
    AddressSpace = 256
    Registers = {0, 1, 2, 3}
    ByteValues = 4
    Half = 2
    MaxToken = 9
    RegionTable <- Table
    ProgramBytes = 16
    ScratchpadBytes = 6
    SystemBytes = 16
    SystemView <- View
    Contents <- Patterned
    Starts <- MCStarts
    Repertoire <- MCRepertoire
    Length <- MCLength
    LineSets <- MCLines
SPECIFICATION Spec
\* The driver stops at the end of its program.
CHECK_DEADLOCK FALSE
PROPERTIES
    OperationsAreExact
    AccessesAreExact
    CsrInstructionsSampleThenWrite
    ImplementsPreciseCore
