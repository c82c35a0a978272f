----------------------------- MODULE MCMachine -----------------------------
(* Instances of Machine for TLC. *)
EXTENDS Machine

Region(base, size, target, allowed) ==
    [base |-> base, size |-> size, target |-> target, allowed |-> allowed]

(* A 32-byte space: program and scratchpad regions larger than what backs   *)
(* them, an uncovered hole at 24..27, and executable system memory at the   *)
(* top so that a Holon word there would wrap.                               *)
Table == <<Region(0, 12, "program", {"read", "execute"}),
           Region(16, 4, "scratchpad", {"read", "write"}),
           Region(20, 4, "system", {"read", "write"}),
           Region(28, 4, "system", {"read", "write", "execute"})>>

ParcelPayloads == {<<3, 0, 0, 0>>, <<0, 0, 0, 0>>}

RawImages ==
    {[kind |-> "raw", base |-> 0, size |-> 8, entry |-> 0],
     [kind |-> "raw", base |-> 0, size |-> 8, entry |-> 8],    \* entry past the image
     [kind |-> "raw", base |-> 4, size |-> 8, entry |-> 8],    \* image past the program store
     [kind |-> "raw", base |-> 28, size |-> 4, entry |-> 28]}  \* not program memory

ElfImage(entry, loads) ==
    [kind |-> "elf", entry |-> entry, loads |-> loads, scratchpad |-> [i \in 0 .. ScratchpadBytes - 1 |-> 0]]

Result(rd, value, target) == [kind |-> "result", rd |-> rd, value |-> value, target |-> target]
Csr(name, value) == [kind |-> "csr", csr |-> name, rd |-> 0, read |-> FALSE, write |-> TRUE, value |-> value, bits |-> 1]
Load(address, width) == [kind |-> "load", rd |-> 1, address |-> address, width |-> width, sign |-> FALSE]
Store(address, payload) == [kind |-> "store", address |-> address, width |-> Len(payload), payload |-> payload]

-----------------------------------------------------------------------------
(* Scalar programs: interrupts, waits, memory operations, jumps and faults. *)
ScalarRepertoire ==
    {Result(0, 1, 28), Csr("mstatus", 8), Csr("mie", 8),
     [kind |-> "mret"], [kind |-> "wfi"], [kind |-> "fence"],
     Load(16, 1), Load(18, 1), Load(20, 2), Store(17, <<1>>), Store(20, <<1>>)}

ScalarPayloads == ParcelPayloads \cup {<<1, 1>>, <<1>>}
ScalarHolonWords == {[kind |-> "illegal", bits |-> 2]}
ScalarImages == {[kind |-> "raw", base |-> 0, size |-> 8, entry |-> 0]}
ScalarFaults == {NoAddress, 21, 22}

-----------------------------------------------------------------------------
(* Holon programs: DMA of every legality, NPU outcomes, stop, reset, boot.  *)
HolonRepertoire == {Result(0, 0, 28), Csr("mstatus", 8), [kind |-> "wfi"]}

Dma(load, count, local, system) ==
    [kind |-> "dma", load |-> load, count |-> count, local |-> local, system |-> system]

HolonInstructions ==
    {[kind |-> "illegal", bits |-> 2],
     Dma(TRUE, 0, 0, 0), Dma(TRUE, 2, 16, 21), Dma(FALSE, 2, 16, 20),
     Dma(TRUE, 2, 17, 20),   \* local range past the scratchpad
     Dma(FALSE, 1, 16, 24),  \* unmapped system address
     Dma(TRUE, 1, 16, 4),    \* program memory as the system side
     [kind |-> "fault", cause |-> 24, value |-> 2], [kind |-> "stop"],
     [kind |-> "write", rd |-> 1, value |-> 1], [kind |-> "npu", value |-> 1],
     [kind |-> "store", bytes |-> (1 :> 1)]}

HolonPayloads == ParcelPayloads \cup {<<1, 0>>}
HolonImages == RawImages \cup {ElfImage(0, FALSE), ElfImage(28, TRUE)}
HolonFaults == {NoAddress, 22, 30}
=============================================================================
