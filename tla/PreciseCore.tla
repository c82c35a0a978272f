---------------------------- MODULE PreciseCore ----------------------------
(***************************************************************************)
(* What the executor promises its guest and its observers: a processor     *)
(* that performs one whole instruction, or one whole trap, at a time.      *)
(* There are no parcels, tokens, pending operations or completions here;   *)
(* everything architectural moves in Retire, TakeTrap or TakeInterrupt.    *)
(***************************************************************************)
EXTENDS Integers, FiniteSets

CONSTANTS
    AddressSpace,  \* Number of byte addresses.
    Registers,     \* Scalar register numbers, 0 hardwired to zero.
    RetireLimit,   \* The retirement counter counts modulo this.
    MemoryStates   \* The values local memory and NPU state may take together.

VARIABLES
    mode,       \* "off", "running", "waiting" (after WFI) or "stopped"
    pc,
    registers,
    retired,    \* Instructions retired since boot.
    csr,        \* Machine CSRs but the interrupt inputs and the counters.
    lines,      \* The interrupt inputs.
    memory      \* Scratchpad, vectors, predicates, views and tiles.

vars == <<mode, pc, registers, retired, csr, lines, memory>>

Enabled == lines \cap csr.mie
Awake == mode = "running" \/ (mode = "waiting" /\ Enabled # {})

(* One instruction: it may write one register, and changes either memory   *)
(* or the CSRs.  WFI waits and STOP stops, with nothing else changed.      *)
Retire ==
    /\ mode = "running"
    /\ retired' = (retired + 1) % RetireLimit
    /\ pc' \in 0 .. AddressSpace - 1 /\ pc' % 4 = 0
    /\ \E r \in Registers : \A q \in Registers \ {r} : registers'[q] = registers[q]
    /\ registers'[0] = 0
    /\ memory' \in MemoryStates
    /\ memory' = memory \/ (csr' = csr /\ registers' = registers)
    /\ mode' \in {"running", "waiting", "stopped"}
    /\ mode' # "running" => csr' = csr /\ registers' = registers /\ memory' = memory
    /\ UNCHANGED lines

(* Entry into the handler: mepc is the pc of the instruction that did not  *)
(* happen, interrupts are masked and the old mask is stacked.              *)
Enter(interrupt, code, value, vector) ==
    /\ pc' = (csr.base + vector) % AddressSpace
    /\ csr' = [csr EXCEPT !.mepc = pc, !.interrupt = interrupt, !.code = code, !.mtval = value,
                          !.mpieBit = csr.mieBit, !.mieBit = FALSE]
    /\ mode' = "running"
    /\ UNCHANGED <<registers, retired, lines, memory>>

(* Any synchronous cause, with any value.                                  *)
TakeTrap == Awake /\ Enter(FALSE, csr'.code, csr'.mtval, 0)

(* The enabled input of the highest priority: external, software, timer.   *)
TakeInterrupt ==
    /\ mode \in {"running", "waiting"} /\ csr.mieBit
    /\ \E code \in Enabled :
        /\ code = 11 \/ (code = 3 /\ 11 \notin Enabled) \/ Enabled = {7}
        /\ Enter(TRUE, code, 0, IF csr.vectored THEN 4 * code ELSE 0)

Wake ==
    /\ mode = "waiting" /\ Enabled # {}
    /\ mode' = "running"
    /\ UNCHANGED <<pc, registers, retired, csr, lines, memory>>

DriveLines ==
    /\ lines' \in SUBSET {3, 7, 11}
    /\ UNCHANGED <<mode, pc, registers, retired, csr, memory>>

(* Reset and boot discard everything; boot leaves an image and an entry.   *)
Fresh ==
    /\ registers = [r \in Registers |-> 0] /\ retired = 0
    /\ ~csr.mieBit /\ csr.mie = {} /\ csr.base = 0
    /\ lines = {}
    /\ pc \in 0 .. AddressSpace - 1 /\ pc % 4 = 0
    /\ memory \in MemoryStates

Restart == Fresh' /\ mode' \in {"off", "running"}

Init == Fresh /\ mode = "off"

Next == Retire \/ TakeTrap \/ TakeInterrupt \/ Wake \/ DriveLines \/ Restart

Spec == Init /\ [][Next]_vars
=============================================================================
