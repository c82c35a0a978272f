----------------------------- MODULE ScalarUnit -----------------------------
(***************************************************************************)
(* scalar::evaluate: what one scalar instruction computes, as the effect a  *)
(* hart commits (src/sim/semantic/holon_npu_scalar.cpp), and the completion *)
(* of a CSR request by the hart that holds the CSR.                         *)
(*                                                                         *)
(* A decoded instruction is a record [op, rd, rs1, rs2, immediate, csr,     *)
(* bits], with "bits" standing for the undecoded word; Instruction models   *)
(* the decoding.  A word has four bytes of any size: 32 bits in the code.   *)
(***************************************************************************)
EXTENDS Hart, Bitwise

ASSUME WordAssumption == AddressSpace = ByteValues ^ 4

WordBits == CHOOSE n \in 1 .. 32 : 2 ^ n = AddressSpace
Word(x)   == x % AddressSpace
Signed(v) == IF 2 * v < AddressSpace THEN v ELSE v - AddressSpace

Trapped(cause, value) == [kind |-> "trap", cause |-> cause, value |-> value]
Resulting(rd, value)  == [kind |-> "result", rd |-> rd, value |-> value, target |-> Fallthrough]

-----------------------------------------------------------------------------
(* Integer operations *)

(* Operations on an immediate are the operations on registers.             *)
OfImmediate ==
    [ADDI |-> "ADD", SLTI |-> "SLT", SLTIU |-> "SLTU", XORI |-> "XOR", ORI |-> "OR", ANDI |-> "AND",
     SLLI |-> "SLL", SRLI |-> "SRL", SRAI |-> "SRA"]

RegisterOps == {"ADD", "SUB", "SLL", "SLT", "SLTU", "XOR", "SRL", "SRA", "OR", "AND", "MUL", "MULH", "MULHSU",
                "MULHU", "DIV", "DIVU", "REM", "REMU"}

(* Wrong variant: rounds towards minus infinity. *)
QuotientFloored(x, y) == IF y < 0 THEN (-x) \div (-y) ELSE x \div y

(* Division as in C: towards zero, of the widened operands.                *)
Quotient(x, y) ==
    LET size(v) == IF v < 0 THEN -v ELSE v
        q == size(x) \div size(y)
    IN  IF (x < 0) # (y < 0) THEN -q ELSE q

Truth(condition) == IF condition THEN 1 ELSE 0

Operation(op, a, b) ==
    LET x == Signed(a)  y == Signed(b)  shift == b % WordBits
    IN  CASE op = "ADD"  -> Word(a + b)
          [] op = "SUB"  -> Word(a - b)
          [] op = "SLL"  -> Word(a * 2 ^ shift)
          [] op = "SLT"  -> Truth(x < y)
          [] op = "SLTU" -> Truth(a < b)
          [] op = "XOR"  -> a ^^ b
          [] op = "SRL"  -> a \div 2 ^ shift
          [] op = "SRA"  -> Word(x \div 2 ^ shift)
          [] op = "OR"   -> a | b
          [] op = "AND"  -> a & b
          [] op = "MUL"    -> Word(a * b)
          [] op = "MULH"   -> Word((x * y) \div AddressSpace)
          [] op = "MULHSU" -> Word((x * b) \div AddressSpace)
          [] op = "MULHU"  -> (a * b) \div AddressSpace
          [] op = "DIV"    -> IF b = 0 THEN AddressSpace - 1 ELSE Word(Quotient(x, y))
          [] op = "DIVU"   -> IF b = 0 THEN AddressSpace - 1 ELSE a \div b
          [] op = "REM"    -> IF b = 0 THEN a ELSE Word(x - y * Quotient(x, y))
          [] op = "REMU"   -> IF b = 0 THEN a ELSE a % b

-----------------------------------------------------------------------------
(* Control transfer *)

(* A link to register 0 is none. *)
Jump(rd, pc, target) ==
    IF target % 4 # 0 THEN Trapped(0, target)
    ELSE [kind |-> "result", rd |-> rd, value |-> Word(pc + 4), target |-> target]

BranchOps == {"BEQ", "BNE", "BLT", "BGE", "BLTU", "BGEU"}

Taken(op, a, b) ==
    CASE op = "BEQ" -> a = b
      [] op = "BNE" -> a # b
      [] op = "BLT" -> Signed(a) < Signed(b)
      [] op = "BGE" -> Signed(a) >= Signed(b)
      [] op = "BLTU" -> a < b
      [] op = "BGEU" -> a >= b

-----------------------------------------------------------------------------
(* Memory *)

LoadOps  == [LB |-> 1, LH |-> 2, LW |-> 4, LBU |-> 1, LHU |-> 2]
StoreOps == [SB |-> 1, SH |-> 2, SW |-> 4]

(* Wrong variant: alignment of the base, before the displacement. *)
AccessByBase(i, a, b) ==
    LET store == i.op \in DOMAIN StoreOps
        width == IF store THEN StoreOps[i.op] ELSE LoadOps[i.op]
        address == Word(a + i.immediate)
    IN  IF a % width # 0 THEN Trapped(IF store THEN 6 ELSE 4, address)
        ELSE IF store THEN [kind |-> "store", address |-> address - (address % width), width |-> width,
                            payload |-> [k \in 1 .. width |-> (b \div ByteValues ^ (k - 1)) % ByteValues]]
        ELSE [kind |-> "load", rd |-> i.rd, address |-> address - (address % width), width |-> width,
              sign |-> i.op \notin {"LBU", "LHU"}]

Access(i, a, b) ==
    LET store == i.op \in DOMAIN StoreOps
        width == IF store THEN StoreOps[i.op] ELSE LoadOps[i.op]
        address == Word(a + i.immediate)
    IN  IF address % width # 0 THEN Trapped(IF store THEN 6 ELSE 4, address)
        ELSE IF store THEN [kind |-> "store", address |-> address, width |-> width,
                            payload |-> [k \in 1 .. width |-> (b \div ByteValues ^ (k - 1)) % ByteValues]]
        ELSE [kind |-> "load", rd |-> i.rd, address |-> address, width |-> width, sign |-> i.op \notin {"LBU", "LHU"}]

-----------------------------------------------------------------------------
(* CSR requests *)

CsrOps == [CSRRW |-> "replace", CSRRS |-> "set", CSRRC |-> "clear",
           CSRRWI |-> "replace", CSRRSI |-> "set", CSRRCI |-> "clear"]
CsrImmediateOps == {"CSRRWI", "CSRRSI", "CSRRCI"}

(* Wrong variant: a zero in the source register suppresses the write too. *)
CsrRequestByValue(i, a) ==
    LET action == CsrOps[i.op]
        source == IF i.op \in CsrImmediateOps THEN i.rs1 ELSE a
    IN  [kind |-> "request", csr |-> i.csr, rd |-> i.rd, action |-> action, source |-> source,
         read |-> action # "replace" \/ i.rd # 0, write |-> action = "replace" \/ source # 0]

(* An immediate is the number in the rs1 field, and it is that field that   *)
(* asks for the write.                                                     *)
CsrRequest(i, a) ==
    LET action == CsrOps[i.op]
    IN  [kind |-> "request", csr |-> i.csr, rd |-> i.rd, action |-> action,
         source |-> IF i.op \in CsrImmediateOps THEN i.rs1 ELSE a,
         read |-> action # "replace" \/ i.rd # 0, write |-> action = "replace" \/ i.rs1 # 0]

-----------------------------------------------------------------------------
(* The effect of an instruction at pc, from the values of its sources.     *)
Evaluate(i, pc, a, b) ==
    CASE i.op = "LUI"   -> Resulting(i.rd, Word(i.immediate))
      [] i.op = "AUIPC" -> Resulting(i.rd, Word(pc + i.immediate))
      [] i.op \in DOMAIN OfImmediate -> Resulting(i.rd, Operation(OfImmediate[i.op], a, Word(i.immediate)))
      [] i.op \in RegisterOps -> Resulting(i.rd, Operation(i.op, a, b))
      [] i.op = "JAL"   -> Jump(i.rd, pc, Word(pc + i.immediate))
      [] i.op = "JALR"  -> LET target == Word(a + i.immediate) IN Jump(i.rd, pc, target - (target % 2))
      [] i.op \in BranchOps -> IF Taken(i.op, a, b) THEN Jump(0, pc, Word(pc + i.immediate)) ELSE Resulting(0, 0)
      [] i.op \in DOMAIN LoadOps \cup DOMAIN StoreOps -> Access(i, a, b)
      [] i.op = "FENCE" -> [kind |-> "fence"]
      [] i.op \in DOMAIN CsrOps -> CsrRequest(i, a)
      [] i.op = "ECALL"  -> Trapped(11, 0)
      [] i.op = "EBREAK" -> Trapped(3, pc)
      [] i.op = "MRET"   -> [kind |-> "mret"]
      [] i.op = "WFI"    -> [kind |-> "wfi"]
      [] OTHER           -> Trapped(2, i.bits)

(* The value a request writes, from the one it samples. *)
CsrValue(request, previous) ==
    CASE request.action = "replace" -> request.source
      [] request.action = "set"     -> previous | request.source
      [] request.action = "clear"   -> previous - (previous & request.source)

(* The effect hart_state::issue commits of a word, in Hart's terms.         *)
EffectOf(h, i) ==
    LET source(field) == IF field \in Registers THEN h.registers[field] ELSE 0
        e == Evaluate(i, h.pc, source(i.rs1), source(i.rs2))
    IN  IF e.kind # "request" THEN e
        ELSE [kind |-> "csr", csr |-> e.csr, rd |-> e.rd, read |-> e.read, write |-> e.write,
              value |-> CsrValue(e, ReadCsr(h, e.csr)), bits |-> i.bits]
=============================================================================
