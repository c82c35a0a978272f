---------------------------- MODULE DirectScalar ----------------------------
(***************************************************************************)
(* A hart driven without program_machine: fetch_instruction over the three  *)
(* bindings, hart_state::issue, and service_scalar for the memory effect it *)
(* leaves pending (src/sim/semantic/holon_npu_execution.cpp).  The driver's *)
(* loop itself, and its choice to report fetch faults, poll a waiting hart  *)
(* and drive the lines, are the caller's.                                   *)
(*                                                                         *)
(* A fetch finds any word of the running program, whatever its address: the *)
(* bytes of the code are not modelled, the accesses that fetch them are.    *)
(***************************************************************************)
EXTENDS ScalarUnit, FiniteSetsExt

CONSTANTS
    RegionTable,      \* The table of the map.
    ProgramBytes, ScratchpadBytes, SystemBytes,  \* Sizes of the three bindings.
    SystemView,       \* The bound system view: [base, length].
    Contents,         \* The bytes of the bindings at the start, per storage.
    Starts,           \* Where a run begins: [program, registers, entry].
    Repertoire,       \* The instructions each program holds.
    Length,           \* How many of them each program runs.
    LineSets          \* The interrupt inputs the driver may set.

VARIABLES
    hart,      \* hart_state
    memory,    \* The bound bytes, per storage.
    event,     \* What the last call returned.
    executed,  \* History: the instruction last issued, kept until the next.
    program,   \* The program that runs.
    left       \* Instructions it has left.

vars == <<hart, memory, event, executed, program, left>>

NoWord == [op |-> "none"]

(* The map the driver creates once. *)
Map == Create(RegionTable).map

Router == INSTANCE MemoryTransfers WITH
    map <- Map, view <- SystemView, call <- event,
    Proposals <- {RegionTable}, Views <- {SystemView}, AskedOfViews <- {}, Payloads <- {}

Init ==
    \E start \in Starts :
        /\ hart = [Reset([nextToken |-> 1]) EXCEPT !.registers = start.registers, !.pc = start.entry]
        /\ memory = Contents
        /\ event = "none" /\ executed = NoWord
        /\ program = start.program /\ left = Length[start.program]

-----------------------------------------------------------------------------
(* fetch_instruction, of a word that is or is not the start of a 64-bit one. *)
Fetched      == [ok |-> TRUE]
NotFetched(value) == [ok |-> FALSE, value |-> value]

(* A pc is aligned whenever a hart holds it; the check of it stands first. *)
FetchInstruction(pc, holon) ==
    IF pc % 4 # 0 \/ ~Router!ReadRoute(pc, 4, "execute").ok THEN NotFetched(pc)
    ELSE IF ~holon THEN Fetched
    ELSE IF pc > AddressSpace - 8 THEN NotFetched(pc)
    ELSE IF ~Router!ReadRoute(pc + 4, 4, "execute").ok THEN NotFetched(pc + 4)
    ELSE Fetched

(* A 64-bit instruction is not the hart's: a driver without an NPU drops it. *)
Run(i) ==
    LET fetched == FetchInstruction(hart.pc, i.op = "HOLON")
        returned == IF fetched.ok THEN Issue(hart, EffectOf(hart, i)) ELSE FetchFault(hart, fetched.value)
    IN  /\ left > 0 /\ hart.pending = NoPending /\ ~hart.waiting
        /\ ~fetched.ok \/ i.op # "HOLON"
        /\ hart' = returned.hart /\ event' = returned.event
        /\ executed' = IF ~fetched.ok THEN [op |-> "fetch", holon |-> i.op = "HOLON"]
                       ELSE IF PollInterrupt(hart).event = "none" THEN i ELSE NoWord
        /\ left' = left - 1
        /\ UNCHANGED <<memory, program>>

Poll ==
    LET returned == PollInterrupt(hart)
    IN  /\ hart.waiting
        /\ hart' = returned.hart /\ event' = returned.event
        /\ executed' = NoWord
        /\ UNCHANGED <<memory, program, left>>

Interrupts(lines) ==
    /\ hart' = SetInterrupts(hart, lines)
    /\ UNCHANGED <<memory, event, executed, program, left>>

-----------------------------------------------------------------------------
(* service_scalar *)

Answer(result, bytes) ==
    LET returned == Complete(hart, hart.pending.token, result)
    IN  /\ hart' = returned.hart /\ event' = returned.event /\ memory' = bytes

ServiceLoad(request) ==
    LET route == Router!ReadRoute(request.address, request.width, "read")
    IN  Answer(IF ~route.ok THEN [kind |-> "fault", address |-> NoAddress]
               ELSE [kind |-> "data",
                     bytes |-> [k \in 1 .. request.width |-> memory[route.storage][Router!Index(route, k - 1)]]],
               memory)

ServiceStore(request) ==
    LET route == Router!WriteRoute(request.address, request.width)
    IN  IF route.ok THEN Answer([kind |-> "acknowledged"], Router!Copied(route, request.payload))
        ELSE Answer([kind |-> "fault", address |-> NoAddress], memory)

Service ==
    /\ IF hart.pending = NoPending THEN hart' = hart /\ memory' = memory /\ event' = "error"
       ELSE LET request == hart.pending.request
            IN  CASE request.kind = "load"  -> ServiceLoad(request)
                  [] request.kind = "store" -> ServiceStore(request)
                  [] request.kind = "fence" -> Answer([kind |-> "acknowledged"], memory)
    /\ UNCHANGED <<executed, program, left>>

Next ==
    \/ \E i \in Repertoire[program] : Run(i)
    \/ Poll
    \/ Service
    \/ \E lines \in LineSets[program] : Interrupts(lines)

Spec == Init /\ [][Next]_vars

-----------------------------------------------------------------------------
(* Properties: what an instruction does to the hart and memory around it,  *)
(* from the values its sources had when it was issued.                     *)
Source1 == hart.registers[executed'.rs1]
Source2 == hart.registers[executed'.rs2]
Operand == IF executed'.op \in DOMAIN OfImmediate THEN Word(executed'.immediate) ELSE Source2
NowIssued == executed' # NoWord /\ left' < left /\ executed'.op # "fetch"
Size(v) == IF v < 0 THEN -v ELSE v

(* What each operation's result satisfies, by the laws that define it: the *)
(* quotient and remainder of a division exist and round to zero, a high    *)
(* half has a low half, a shift loses the bits that leave the word.        *)
ResultLaw(op, a, b, result) ==
    LET x == Signed(a)  y == Signed(b)  z == Signed(result)
        unit == 2 ^ (b % WordBits)
        bitwise(Combined(_, _)) == \A k \in 0 .. WordBits - 1 : Bit(result, k) <=> Combined(Bit(a, k), Bit(b, k))
        highOf(product, high) == \E low \in 0 .. AddressSpace - 1 : product = high * AddressSpace + low
        divides(n, d, q, r) == n = q * d + r /\ Size(r) < Size(d) /\ (r = 0 \/ (r < 0 <=> n < 0))
    IN  CASE op = "ADD"  -> (result - a - b) % AddressSpace = 0
          [] op = "SUB"  -> (result - a + b) % AddressSpace = 0
          [] op = "MUL"  -> (result - (a * b)) % AddressSpace = 0
          [] op = "SLT"  -> result = (IF x < y THEN 1 ELSE 0)
          [] op = "SLTU" -> result = (IF a < b THEN 1 ELSE 0)
          [] op = "XOR"  -> bitwise(LAMBDA p, q : p # q)
          [] op = "OR"   -> bitwise(LAMBDA p, q : p \/ q)
          [] op = "AND"  -> bitwise(LAMBDA p, q : p /\ q)
          [] op = "SLL"  -> result % unit = 0 /\ (result - (a * unit)) % AddressSpace = 0
          [] op = "SRL"  -> result * unit <= a /\ a < (result + 1) * unit
          [] op = "SRA"  -> z * unit <= x /\ x < (z + 1) * unit
          [] op = "MULH"   -> highOf(x * y, z)
          [] op = "MULHSU" -> highOf(x * b, z)
          [] op = "MULHU"  -> highOf(a * b, result)
          [] op \in {"DIV", "REM"} /\ b = 0 -> result = IF op = "REM" THEN a ELSE AddressSpace - 1
          [] op \in {"DIVU", "REMU"} /\ b = 0 -> result = IF op = "REMU" THEN a ELSE AddressSpace - 1
          [] op \in {"DIV", "REM"} /\ 2 * a = AddressSpace /\ y = -1 -> result = IF op = "REM" THEN 0 ELSE a
          [] op = "DIV"  -> \E r \in (-Size(y)) .. Size(y) : divides(x, y, z, r)
          [] op = "REM"  -> \E q \in (-Size(x)) .. Size(x) : divides(x, y, q, z)
          [] op = "DIVU" -> \E r \in 0 .. b : divides(a, b, result, r)
          [] op = "REMU" -> \E q \in 0 .. a : divides(a, b, q, result)

(* Integer operations compute what their laws say, for every operand at the *)
(* edges of the word, write nothing but rd, and fall through; a jump takes  *)
(* its target from the source register before the link overwrites it, and   *)
(* one to a misaligned target links nothing (scalar::evaluate).             *)
OperationsAreExact ==
    [][LET i == executed'
           next == Word(hart.pc + 4)
           written(value) == hart'.registers = [hart.registers EXCEPT ![i.rd] = IF i.rd = 0 THEN 0 ELSE value]
           jumped(target) ==
               IF target % 4 = 0 THEN event' = "committed" /\ hart'.pc = target /\ written(next)
               ELSE event' = "trap" /\ hart'.csr.mtval = target /\ hart'.registers = hart.registers
           condition == CASE i.op \in {"BEQ", "BNE"} -> (Source1 = Source2) <=> (i.op = "BEQ")
                          [] i.op \in {"BLT", "BGE"} -> (Signed(Source1) < Signed(Source2)) <=> (i.op = "BLT")
                          [] OTHER -> (Source1 < Source2) <=> (i.op = "BLTU")
       IN  NowIssued =>
           /\ i.op \in RegisterOps \cup DOMAIN OfImmediate =>
               LET op == IF i.op \in RegisterOps THEN i.op ELSE OfImmediate[i.op]
               IN  \E result \in 0 .. AddressSpace - 1 :
                       ResultLaw(op, Source1, Operand, result) /\ written(result) /\ hart'.pc = next
           /\ i.op = "LUI" => written(i.immediate)
           /\ i.op = "AUIPC" => written(Word(hart.pc + i.immediate))
           /\ i.op = "JAL" => jumped(Word(hart.pc + i.immediate))
           /\ i.op = "JALR" => \E target \in {Word(Source1 + i.immediate), Word(Source1 + i.immediate) - 1} :
                                   target % 2 = 0 /\ jumped(target)
           /\ i.op \in BranchOps =>
               /\ hart'.registers = hart.registers
               /\ ~condition => hart'.pc = next
               /\ condition => \/ event' = "committed" /\ hart'.pc = Word(hart.pc + i.immediate)
                               \/ event' = "trap" /\ Word(hart.pc + i.immediate) % 4 # 0]_vars

(* Every byte of an access lies in one region that grants it, and is bound. *)
Granted(address, width, kind) ==
    \E k \in DOMAIN RegionTable :
        /\ address .. address + width - 1 \subseteq Router!Bound(RegionTable[k])
        /\ kind \in RegionTable[k].allowed
        /\ kind = "write" => RegionTable[k].target # "program"

(* A fetch is of executable bytes, and one that fails names the first half  *)
(* of the instruction that could not be had (fetch_instruction).            *)
FetchesAreExact ==
    LET pc == hart.pc
        second == IF pc = AddressSpace - 4 THEN pc ELSE pc + 4
        half(address) == Granted(address, 4, "execute")
    IN  /\ NowIssued => half(pc)
        /\ executed'.op = "fetch" /\ left' < left =>
             /\ event' = "trap" /\ hart'.csr.code = 1
             /\ hart'.csr.mtval = (IF half(pc) THEN second ELSE pc)
             /\ half(pc) => executed'.holon /\ (second = pc \/ ~half(second))

(* A load or store is of the bytes from rs1 + immediate, all of them inside *)
(* one granting region or none touched: the register gets them little       *)
(* endian and extended, or memory gets the register's low bytes and nothing *)
(* else changes.  A misaligned access traps before anything is pending, a   *)
(* refused one traps with its address (evaluate, service_scalar).           *)
DataAccessesAreExact ==
    LET i == executed'
        store == i.op \in DOMAIN StoreOps
        width == IF store THEN StoreOps[i.op] ELSE LoadOps[i.op]
        address == Word(Source1 + i.immediate)
        granted == Granted(address, width, IF store THEN "write" ELSE "read")
        byte(value, k) == (value \div ByteValues ^ k) % ByteValues
        negative == i.op \in {"LB", "LH"} /\ 2 * Router!ByteAt(address + width - 1) >= ByteValues
        loaded(k) == IF k < width THEN Router!ByteAt(address + k) ELSE IF negative THEN ByteValues - 1 ELSE 0
    IN  i.op \in DOMAIN LoadOps \cup DOMAIN StoreOps =>
          IF NowIssued
          THEN IF address % width = 0 THEN event' = "pending" ELSE event' = "trap" /\ hart'.csr.mtval = address
          ELSE hart.pending # hart'.pending =>
            /\ event' = (IF granted THEN "committed" ELSE "trap")
            /\ ~granted => hart'.csr.mtval = address
            /\ ~(store /\ granted) => memory' = memory
            /\ granted /\ ~store /\ i.rd # 0 => \A k \in 0 .. 3 : byte(hart'.registers[i.rd], k) = loaded(k)
            /\ granted /\ store =>
                 \A n \in DOMAIN RegionTable : \A a \in Router!Bound(RegionTable[n]) :
                     Router!ByteAt(a)' = IF a \in address .. address + width - 1 THEN byte(Source2, a - address)
                                         ELSE Router!ByteAt(a)

(* Every access a hart makes through the map is exact: its fetches, its     *)
(* loads and its stores, the ones that fault included.                      *)
AccessesAreExact == [][FetchesAreExact /\ DataAccessesAreExact]_vars

(* A CSR instruction reads the value of before itself into rd, writes when  *)
(* its source field is not zero whatever the source holds, counts itself    *)
(* under the old mcountinhibit, and the half of minstret it writes is the   *)
(* value it wrote with no increment or carry on top; a read-only register   *)
(* may be read but not written (evaluate, hart_state::issue).               *)
CsrInstructionsSampleThenWrite ==
    [][LET i == executed'
           old == ReadCsr(hart, i.csr)
           new == ReadCsr(hart', i.csr)
           replace == i.op \in {"CSRRW", "CSRRWI"}
           source == IF i.op \in {"CSRRWI", "CSRRSI", "CSRRCI"} THEN i.rs1 ELSE Source1
           writes == replace \/ i.rs1 # 0
           value == IF replace THEN source ELSE
                    LET kept == {k \in 0 .. WordBits - 1 : IF i.op \in {"CSRRS", "CSRRSI"}
                                                           THEN Bit(old, k) \/ Bit(source, k)
                                                           ELSE Bit(old, k) /\ ~Bit(source, k)}
                    IN  MapThenSumSet(LAMBDA k : 2 ^ k, kept)
           half == i.csr \in {"minstret", "minstreth"}
           other == IF i.csr = "minstret" THEN "minstreth" ELSE "minstret"
       IN  NowIssued /\ i.op \in DOMAIN CsrOps =>
           IF i.csr = "unknown" \/ (i.csr = "identity" /\ writes)
           THEN event' = "trap" /\ hart'.csr.code = 2 /\ hart'.registers = hart.registers
           ELSE /\ event' = "committed"
                /\ i.rd # 0 => hart'.registers[i.rd] = old
                /\ i.csr = "mscratch" => new = IF writes THEN value ELSE old
                /\ IF half /\ writes
                   THEN new = value % Half /\ ReadCsr(hart', other) = ReadCsr(hart, other)
                   ELSE hart'.instret = (hart.instret + (IF "IR" \in hart.csr.inhibit THEN 0 ELSE 1)) % (Half * Half)]_vars

(* The hart with its memory implements the processor that takes one whole   *)
(* instruction, trap or interrupt at a time.                                *)
Precise == INSTANCE PreciseCore WITH
    RetireLimit <- Half * Half,
    MemoryStates <- [program : [0 .. ProgramBytes - 1 -> Bytes], scratchpad : [0 .. ScratchpadBytes - 1 -> Bytes],
                     system : [0 .. SystemBytes - 1 -> Bytes]],
    mode <- IF hart.waiting THEN "waiting" ELSE "running",
    pc <- hart.pc, registers <- hart.registers, retired <- hart.retired,
    csr <- [hart.csr EXCEPT !.mip = {}], lines <- hart.csr.mip

ImplementsPreciseCore == [][Precise!Next]_(Precise!vars)
=============================================================================
