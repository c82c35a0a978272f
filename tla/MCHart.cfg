\* Interrupts, waits, traps, pending effects and stale tokens.
CONSTANTS
    AddressSpace = 16
    Registers = {0, 1}
    ByteValues = 2
    Half = 1
    MaxToken = 3
    Repertoire <- TrapRepertoire
    Results <- TrapResults
    Entries = {0, 2, 12}
    LineSets <- TrapLines
    Elapsed = {1}
SPECIFICATION Spec
INVARIANTS
    TypeOK
    TokensNameOneEffect
    AlwaysAligned
PROPERTIES
    PendingFreezesArchitecture
    TrapsArePrecise
