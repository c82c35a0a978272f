\* Interrupts, waits and memory operations of scalar programs.
CONSTANTS
    AddressSpace = 32
    Registers = {0, 1}
    ByteValues = 4
    Half = 2
    MaxToken = 7
    RegionTable <- Table
    ProgramBytes = 8
    ScratchpadBytes = 2
    Repertoire <- ScalarRepertoire
    HolonWords <- ScalarHolonWords
    Payloads <- ScalarPayloads
    FaultAddresses <- ScalarFaults
    Images <- ScalarImages
    LineSets = {{}, {3}}
    Elapsed = {}
SPECIFICATION Spec
INVARIANT
    CompletionsAgree
PROPERTIES
    InterruptsBetweenInstructions
    ImplementsPreciseCore
