\* Runs of every small program, with budgets that end them at each point.
CONSTANTS
    AddressSpace = 32
    Registers = {0, 1}
    ByteValues = 4
    Half = 3
    MaxToken = 7
    RegionTable <- Table
    ProgramBytes = 8
    ScratchpadBytes = 2
    Repertoire <- RunnerEffects
    HolonWords <- RunnerWords
    Payloads <- Parcels
    FaultAddresses = {}
    Images <- Boots
    LineSets = {{}, {3}}
    Elapsed = {}
    ViewBase = 22
    ViewBytes = 10
    SystemImages <- ViewImages
    Budgets = {1, 3}
SPECIFICATION RunnerSpec
PROPERTIES
    ReportsAreTrue
    ServiceIsAccepted
    RunsReturn
    InstructionsFinish
