\* One call or word of every kind, at full width.  A program of one call ends.
SPECIFICATION Spec
CHECK_DEADLOCK FALSE
CONSTANTS
    AddressSpace = 32
    NpuCalls <- EveryNpuCall
    LiteralCalls <- SomeLiterals
    AddCalls <- SomeAdditions
    ScalarWords <- EveryScalarWord
    HolonWords <- EveryHolonWord
    Bases <- AtZero
    MaxCalls = 1
INVARIANTS
    CallsEncodeExactly
    WordsDecodeExactly
