\* DMA, NPU operations, faults, stop, reset and boot of Holon programs.
CONSTANTS
    AddressSpace = 32
    Registers = {0, 1}
    ByteValues = 4
    Half = 2
    MaxToken = 9
    RegionTable <- Table
    ProgramBytes = 8
    ScratchpadBytes = 2
    Repertoire <- HolonRepertoire
    HolonWords <- HolonInstructions
    Payloads <- HolonPayloads
    FaultAddresses <- HolonFaults
    Images <- HolonImages
    LineSets = {{}}
    Elapsed = {1}
SPECIFICATION Spec
INVARIANTS
    NothingIsStale
    TokensNameOneOperation
    NothingUndefined
PROPERTY
    ImplementsPreciseCore
