\* Programs of up to three calls, placed up to the end of the address space.
SPECIFICATION Spec
CHECK_DEADLOCK FALSE
CONSTANTS
    AddressSpace = 32
    NpuCalls <- FewNpuCalls
    LiteralCalls <- FewLiterals
    AddCalls <- FewAdditions
    ScalarWords <- FewScalarWords
    HolonWords <- FewHolonWords
    Bases <- Placements
    MaxCalls = 3
INVARIANT
    ImagesReadWhole
