-------------------------------- MODULE Hart --------------------------------
(***************************************************************************)
(* The M-mode hart: registers, CSRs, traps, interrupts and the two-phase   *)
(* commit of one scalar instruction                                        *)
(* (src/sim/semantic/holon_npu_hart.hpp and .cpp).                         *)
(*                                                                         *)
(* The state is one record and each method a function from it to a record  *)
(* [event, hart], so that a caller composes calls in the code's order:     *)
(* HartCalls runs the hart alone, Machine runs it inside program_machine.  *)
(* A word is represented by what scalar::evaluate makes of it, an effect.  *)
(***************************************************************************)
EXTENDS Integers, Sequences, FiniteSets, PhysicalMap

CONSTANTS
    Registers,   \* Register numbers, 0 .. 31 in the code; 0 is hardwired.
    ByteValues,  \* Number of values of a byte, 256 in the code.
    Half,        \* Number of values of half a 64-bit counter, 2^32.
    MaxToken     \* The token that is never issued, 2^64 - 1.

ASSUME HartAssumption ==
    /\ 0 \in Registers /\ Registers \subseteq Nat
    /\ ByteValues \in Nat \ {0} /\ ByteValues % 2 = 0
    /\ Half \in Nat \ {0}
    /\ MaxToken \in Nat \ {0}

-----------------------------------------------------------------------------
(* Types *)

\* Interrupt codes, which are also their bits of mip and mie.
External == 11
Software == 3
Timer    == 7
Lines    == {External, Software, Timer}

Aligned == {a \in Addresses : a % 4 = 0}
Words   == Nat
Bytes   == 0 .. ByteValues - 1
Counters == 0 .. Half * Half - 1

Implemented == {"mstatus", "misa", "mie", "mtvec", "mcountinhibit", "mscratch", "mepc", "mcause", "mtval",
                "mip", "mcycle", "mcycleh", "minstret", "minstreth"}
\* And the addresses of fields fixed at zero, of the read-only identity registers
\* (bits 11:10 set, all zero), and of nothing.
CsrNames == Implemented \cup {"zero", "identity", "unknown"}

Fallthrough == -1

(* What evaluate returns: a trap, or a step with one of the typed effects. *)
(* "result" writes a register and continues at target; branches write x0.  *)
Effects ==
    [kind : {"trap"}, cause : Nat, value : Words]
        \cup [kind : {"result"}, rd : Registers, value : Words, target : Aligned \cup {Fallthrough}]
        \cup [kind : {"csr"}, csr : CsrNames, rd : Registers, read : BOOLEAN, write : BOOLEAN,
              value : Words, bits : Words]
        \cup [kind : {"mret", "wfi", "fence"}]
        \cup {load \in [kind : {"load"}, rd : Registers, address : Addresses, width : {1, 2, 4}, sign : BOOLEAN] :
                 load.address % load.width = 0}
        \cup {store \in [kind : {"store"}, address : Addresses, width : {1, 2, 4}, payload : Seq(Words)] :
                 store.address % store.width = 0}

ExternalEffects == {e \in Effects : e.kind \in {"load", "store", "fence"}}

NoPending == [token |-> 0]
PendingEffects == [token : 1 .. MaxToken - 1, pc : Addresses, request : ExternalEffects, next : Addresses]

Csrs == [mieBit : BOOLEAN, mpieBit : BOOLEAN,        \* mstatus
         mie : SUBSET Lines, mip : SUBSET Lines,
         base : Addresses, vectored : BOOLEAN,         \* mtvec
         mepc : Addresses, interrupt : BOOLEAN, code : Nat,  \* mcause
         mtval : Words, mscratch : Words, inhibit : SUBSET {"CY", "IR"}]

Harts == [registers : [Registers -> Words], pc : Addresses, retired : Counters,
          cycle : Counters, instret : Counters, nextToken : 1 .. MaxToken,
          csr : Csrs, waiting : BOOLEAN, pending : {NoPending} \cup PendingEffects]

(* The addresses a hart may come to execute at are instruction boundaries. *)
OnBoundaries(h) ==
    /\ h.pc \in Aligned /\ h.csr.mepc \in Aligned /\ h.csr.base \in Aligned
    /\ h.pending # NoPending => h.pending.next \in Aligned

\* "none" is an absent event, "error" any hart_error.
Events == {"none", "committed", "pending", "trap", "sleeping", "error"}
Returned(event, h) == [event |-> event, hart |-> h]

-----------------------------------------------------------------------------
(* Reset, start, counters *)

ResetCsrs == [mieBit |-> FALSE, mpieBit |-> FALSE, mie |-> {}, mip |-> {}, base |-> 0,
              vectored |-> FALSE, mepc |-> 0, interrupt |-> FALSE, code |-> 0,
              mtval |-> 0, mscratch |-> 0, inhibit |-> {}]

(* Wrong variant: reset starts the tokens over. *)
TokensRestart(h) == 1

(* Tokens survive: a delayed completion cannot match new work. *)
TokenAfterReset(h) == h.nextToken

Reset(h) == [registers |-> [r \in Registers |-> 0], pc |-> 0, retired |-> 0, cycle |-> 0,
             instret |-> 0, nextToken |-> TokenAfterReset(h), csr |-> ResetCsrs,
             waiting |-> FALSE, pending |-> NoPending]

(* A refused call returns the state as it was. *)
Refused(h) == Returned("error", h)

(* Wrong variant: any entry is taken. *)
StartAnywhere(h, entry) ==
    IF h.pending # NoPending THEN Refused(h)
    ELSE Returned("none", [h EXCEPT !.pc = entry, !.waiting = FALSE])

Start(h, entry) ==
    IF h.pending # NoPending \/ entry % 4 # 0 THEN Refused(h)
    ELSE Returned("none", [h EXCEPT !.pc = entry, !.waiting = FALSE])

AccountCycles(h, elapsed) ==
    IF "CY" \in h.csr.inhibit THEN h ELSE [h EXCEPT !.cycle = (@ + elapsed) % (Half * Half)]

Counted(h, count) == count /\ "IR" \notin h.csr.inhibit

Commit(h, next, count) ==
    [h EXCEPT !.pc = next,
              !.retired = (@ + 1) % (Half * Half),
              !.instret = IF Counted(h, count) THEN (@ + 1) % (Half * Half) ELSE @]

(* Wrong variant: x0 is writable. *)
WriteAnyRegister(h, rd, value) == [h EXCEPT !.registers[rd] = value]

WriteRegister(h, rd, value) == IF rd = 0 THEN h ELSE [h EXCEPT !.registers[rd] = value]

-----------------------------------------------------------------------------
(* Traps and interrupts *)

(* Wrong variant: mepc is the next instruction. *)
EnterTrapAfter(h, interrupt, code, value) ==
    [h EXCEPT !.pc = h.csr.base, !.waiting = FALSE,
              !.csr = [@ EXCEPT !.mepc = (h.pc + 4) % AddressSpace, !.interrupt = interrupt, !.code = code,
                                !.mtval = value, !.mpieBit = h.csr.mieBit, !.mieBit = FALSE]]

EnterTrap(h, interrupt, code, value) ==
    LET vector == IF interrupt /\ h.csr.vectored THEN 4 * code ELSE 0
    IN  [h EXCEPT !.pc = (h.csr.base + vector) % AddressSpace,
                  !.waiting = FALSE,
                  !.csr = [@ EXCEPT !.mepc = h.pc, !.interrupt = interrupt, !.code = code,
                                    !.mtval = value, !.mpieBit = h.csr.mieBit, !.mieBit = FALSE]]

SetInterrupts(h, lines) == [h EXCEPT !.csr.mip = lines]

Enabled(h) == h.csr.mip \cap h.csr.mie

Highest(lines) == IF External \in lines THEN External
                  ELSE IF Software \in lines THEN Software ELSE Timer

(* Wrong variant: an interrupt is taken under a pending effect. *)
PollUnderEffect(h) ==
    IF Enabled(h) # {} /\ h.csr.mieBit
    THEN Returned("trap", EnterTrap(h, TRUE, Highest(Enabled(h)), 0))
    ELSE Returned("none", [h EXCEPT !.waiting = @ /\ Enabled(h) = {}])

PollInterrupt(h) ==
    LET awake == [h EXCEPT !.waiting = @ /\ Enabled(h) = {}]
    IN  IF h.pending # NoPending THEN Refused(h)
        ELSE IF Enabled(h) # {} /\ h.csr.mieBit
             THEN Returned("trap", EnterTrap(awake, TRUE, Highest(Enabled(h)), 0))
             ELSE Returned("none", awake)

FetchFault(h, address) ==
    IF h.pending # NoPending THEN Refused(h)
    ELSE Returned("trap", EnterTrap(h, FALSE, 1, address))

-----------------------------------------------------------------------------
(* CSR instructions.  An effect carries the value its action (replace, set *)
(* or clear) computed.                                                     *)

Bit(value, b) == (value \div 2^b) % 2 = 1
InterruptBit == 4096  \* mcause's top bit: any bit above the codes, 2^31 in the code.
Weight(set, member, value) == IF member \in set THEN value ELSE 0

LineWord(lines) == Weight(lines, Software, 8) + Weight(lines, Timer, 128) + Weight(lines, External, 2048)

ReadCsr(h, name) ==
    CASE name = "mstatus"   -> 6144 + (IF h.csr.mieBit THEN 8 ELSE 0) + (IF h.csr.mpieBit THEN 128 ELSE 0)
      [] name = "misa"      -> 1073746176  \* RV32IM, fixed
      [] name = "mie"       -> LineWord(h.csr.mie)
      [] name = "mip"       -> LineWord(h.csr.mip)
      [] name = "mtvec"     -> h.csr.base + (IF h.csr.vectored THEN 1 ELSE 0)
      [] name = "mcountinhibit" -> Weight(h.csr.inhibit, "CY", 1) + Weight(h.csr.inhibit, "IR", 4)
      [] name = "mscratch"  -> h.csr.mscratch
      [] name = "mepc"      -> h.csr.mepc
      [] name = "mcause"    -> h.csr.code + (IF h.csr.interrupt THEN InterruptBit ELSE 0)
      [] name = "mtval"     -> h.csr.mtval
      [] name = "mcycle"    -> h.cycle % Half
      [] name = "mcycleh"   -> h.cycle \div Half
      [] name = "minstret"  -> h.instret % Half
      [] name = "minstreth" -> h.instret \div Half
      [] OTHER              -> 0

AlignedDown(value) == (value - (value % 4)) % AddressSpace

LowHalf(counter, value)  == counter - (counter % Half) + (value % Half)
HighHalf(counter, value) == (counter % Half) + (value % Half) * Half

WriteCsr(h, name, value) ==
    CASE name = "mstatus"   -> [h EXCEPT !.csr = [@ EXCEPT !.mieBit = Bit(value, 3), !.mpieBit = Bit(value, 7)]]
      [] name = "mie"       -> [h EXCEPT !.csr.mie = {l \in Lines : Bit(value, l)}]
      [] name = "mtvec"     -> [h EXCEPT !.csr = [@ EXCEPT !.base = AlignedDown(value),
                                                          !.vectored = (value % 4 = 1)]]
      [] name = "mcountinhibit" -> [h EXCEPT !.csr.inhibit = {c \in {"CY", "IR"} : Bit(value, IF c = "CY" THEN 0 ELSE 2)}]
      [] name = "mscratch"  -> [h EXCEPT !.csr.mscratch = value]
      [] name = "mepc"      -> [h EXCEPT !.csr.mepc = AlignedDown(value)]
      [] name = "mcause"    -> [h EXCEPT !.csr = [@ EXCEPT !.interrupt = Bit(value, 12), !.code = value % InterruptBit]]
      [] name = "mtval"     -> [h EXCEPT !.csr.mtval = value]
      [] name = "mcycle"    -> [h EXCEPT !.cycle = LowHalf(@, value)]
      [] name = "mcycleh"   -> [h EXCEPT !.cycle = HighHalf(@, value)]
      [] name = "minstret"  -> [h EXCEPT !.instret = LowHalf(@, value)]
      [] name = "minstreth" -> [h EXCEPT !.instret = HighHalf(@, value)]
      [] OTHER              -> h  \* mip follows the input lines, the other fields are fixed.

(* The read samples, then the instruction commits, then the write lands. *)
ExecuteCsr(h, e, next) ==
    LET illegal == e.csr = "unknown" \/ (e.write /\ e.csr = "identity")
        read == IF e.read THEN WriteRegister(h, e.rd, ReadCsr(h, e.csr)) ELSE h
        committed == Commit(read, next, ~(e.write /\ e.csr \in {"minstret", "minstreth"}))
    IN  IF illegal THEN Returned("trap", EnterTrap(h, FALSE, 2, e.bits))
        ELSE Returned("committed", IF e.write THEN WriteCsr(committed, e.csr, e.value) ELSE committed)

-----------------------------------------------------------------------------
(* issue *)

(* Wrong variant: pc does not wrap. *)
NextPcUnbounded(h) == h.pc + 4

NextPc(h) == (h.pc + 4) % AddressSpace

ReturnFromTrap(h) ==
    Commit([h EXCEPT !.csr = [@ EXCEPT !.mieBit = h.csr.mpieBit, !.mpieBit = TRUE]], h.csr.mepc, TRUE)

Defer(h, e) ==
    IF h.nextToken = MaxToken THEN Refused(h)
    ELSE Returned("pending",
             [h EXCEPT !.nextToken = @ + 1,
                       !.pending = [token |-> h.nextToken, pc |-> h.pc, request |-> e, next |-> NextPc(h)]])

Execute(h, e) ==
    CASE e.kind = "trap"   -> Returned("trap", EnterTrap(h, FALSE, e.cause, e.value))
      [] e.kind = "result" -> Returned("committed", Commit(WriteRegister(h, e.rd, e.value),
                                  IF e.target = Fallthrough THEN NextPc(h) ELSE e.target, TRUE))
      [] e.kind = "csr"    -> ExecuteCsr(h, e, NextPc(h))
      [] e.kind = "mret"   -> Returned("committed", ReturnFromTrap(h))
      [] e.kind = "wfi"    -> Returned("committed", Commit([h EXCEPT !.waiting = TRUE], NextPc(h), TRUE))
      [] OTHER             -> Defer(h, e)

Issue(h, e) ==
    LET polled == PollInterrupt(h)
    IN  IF polled.event # "none" THEN polled
        ELSE IF polled.hart.waiting THEN Returned("sleeping", polled.hart)
        ELSE Execute(polled.hart, e)

-----------------------------------------------------------------------------
(* complete *)

\* The address of a fault that names none.
NoAddress == -1

ExternalResults == [kind : {"acknowledged"}]
                     \cup [kind : {"data"}, bytes : Seq(Bytes)]
                     \cup [kind : {"fault"}, address : Addresses \cup {NoAddress}]

(* complete_load: little endian, zero or sign extended to four bytes. *)
Extended(request, b) ==
    LET fill == IF request.sign /\ 2 * b[Len(b)] >= ByteValues THEN ByteValues - 1 ELSE 0
        byte(i) == IF i <= Len(b) THEN b[i] ELSE fill
    IN  byte(1) + ByteValues * (byte(2) + ByteValues * (byte(3) + ByteValues * byte(4)))

Complete(h, token, result) ==
    LET request == h.pending.request
        failing == IF result.address = NoAddress THEN request.address ELSE result.address
        settled == [h EXCEPT !.pending = NoPending]
    IN  IF h.pending = NoPending \/ h.pending.token # token THEN Refused(h)
        ELSE IF result.kind = "fault"
             THEN IF request.kind = "fence" \/ failing < request.address
                        \/ failing >= request.address + request.width
                  THEN Refused(h)
                  ELSE Returned("trap", EnterTrap(settled, FALSE, IF request.kind = "load" THEN 5 ELSE 7, failing))
        ELSE IF request.kind = "load"
             THEN IF result.kind # "data" \/ Len(result.bytes) # request.width
                  THEN Refused(h)
                  ELSE Returned("committed",
                           Commit(WriteRegister(settled, request.rd, Extended(request, result.bytes)), h.pending.next, TRUE))
        ELSE IF result.kind # "acknowledged" THEN Refused(h)
        ELSE Returned("committed", Commit(settled, h.pending.next, TRUE))
=============================================================================
