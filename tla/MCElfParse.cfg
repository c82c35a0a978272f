\* Every file of the families of MCElf, parsed.
CONSTANTS
    AddressSpace = 8
    Files = {}
    Tables = {}
    Views = {}
    ProgramBytes = 0
    ScratchpadBytes = 0
    HeaderBytes = 1
    ProgramHeaderBytes = 1
    SectionHeaderBytes = 1
    ReservedSections = 3
    ReservedHeaders = 4
    StackAlignment = 16
    ArchBase = "base"
    ArchExtensions = {"m", "zmmul"}
SPECIFICATION ParseSpec
CHECK_DEADLOCK FALSE
INVARIANT
    ParseAcceptsExactlyWellFormedFiles
