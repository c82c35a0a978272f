\* Images loaded and booted again and again through two maps and two views.
CONSTANTS
    AddressSpace = 20
    Files <- LoadFiles
    Tables <- LoadTables
    Views <- LoadViews
    ProgramBytes = 6
    ScratchpadBytes = 3
    HeaderBytes = 1
    ProgramHeaderBytes = 1
    SectionHeaderBytes = 1
    ReservedSections = 3
    ReservedHeaders = 4
    StackAlignment = 16
    ArchBase = "base"
    ArchExtensions = {"m", "zmmul"}
SPECIFICATION Spec
INVARIANT
    BootsAreClean
PROPERTY
    LoadIsExactOrNothing
