\* Every small table, and all transfers over one mixed map of a twelve-byte
\* space.  Nothing follows the other tables, accepted or not.
CONSTANTS
    AddressSpace = 12
    Proposals <- Tables
    Payloads <- ShortPayloads
    ProgramBytes = 2
    ScratchpadBytes = 2
    SystemBytes = 3
    Views <- SomeViews
    AskedOfViews <- AroundTheEnds
    Bytes = {0, 1}
SPECIFICATION MCSpec
CHECK_DEADLOCK FALSE
INVARIANTS
    CreateAcceptsExactlyValidTables
    RoutesAreExact
PROPERTY
    TransfersAreExact
