---------------------------- MODULE Instruction ----------------------------
(***************************************************************************)
(* Framing, decoding and encoding of instructions: fetch, decode_scalar,   *)
(* decode_holon and encode_holon                                           *)
(* (src/sim/semantic/holon_npu_instruction.hpp and .cpp).                  *)
(*                                                                         *)
(* A byte is the set of its one bits in 0 .. 7 and a word the set of its   *)
(* one bits in 0 .. 31 or 0 .. 63.  Full-width words keep their width; only *)
(* the address space is a parameter.                                       *)
(***************************************************************************)
EXTENDS InstructionTables, SequencesExt

CONSTANT AddressSpace  \* 2^32 in the code.

ASSUME InstructionAssumption == AddressSpace \in Nat /\ AddressSpace % 4 = 0

Alignment  == 4
ScalarSize == 4
HolonSize  == 8

(* prefix_mask and scalar_prefix *)
Prefix == {0, 1}

WordOf(bytes) == UNION {{8 * (i - 1) + b : b \in bytes[i]} : i \in DOMAIN bytes}
BytesOf(word, size) == [i \in 1 .. size |-> Moved(word, 8 * (i - 1), 8 * i - 1, 0)]

Error(error) == [kind |-> "error", error |-> error]
Frame(kind, word) == [kind |-> kind, word |-> word]

-----------------------------------------------------------------------------
(* fetch *)

(* The frame at the start of the bytes left in the image. *)
FrameOf(left) ==
    LET low  == WordOf(SubSeq(left, 1, ScalarSize))
        size == IF Prefix \subseteq low THEN ScalarSize ELSE HolonSize
    IN  IF Len(left) < ScalarSize \/ Len(left) < size THEN Error("truncated")
        ELSE IF size = ScalarSize THEN Frame("scalar", low)
        ELSE Frame("holon", WordOf(SubSeq(left, 1, HolonSize)))

(* Wrong variant: the image may run over the end of the address space. *)
FetchPastTheEnd(image, pc, base) ==
    IF base % Alignment # 0 THEN Error("invalid_image")
    ELSE IF pc < base \/ pc - base >= Len(image) THEN Error("out_of_bounds")
    ELSE FrameOf(SubSeq(image, pc - base + 1, Len(image)))

Fetch(image, pc, base) ==
    IF base % Alignment # 0 \/ Len(image) > AddressSpace - base THEN Error("invalid_image")
    ELSE IF pc % Alignment # 0 THEN Error("misaligned_pc")
    ELSE IF pc < base \/ pc - base >= Len(image) THEN Error("out_of_bounds")
    ELSE FrameOf(SubSeq(image, pc - base + 1, Len(image)))

-----------------------------------------------------------------------------
(* decode_scalar *)

Register(word, shift) == Number(Moved(word, shift, shift + 4, 0))

(* A two's complement number of width bits, extended to 32 bits. *)
SignExtended(bits, width) == IF width - 1 \in bits THEN bits \cup (width .. 31) ELSE bits

BranchOffset(word) == SignExtended(Moved(word, 31, 31, 12) \cup Moved(word, 7, 7, 11)
                                       \cup Moved(word, 25, 30, 5) \cup Moved(word, 8, 11, 1), 13)

Immediate(word, format) ==
    CASE format = "i" -> SignExtended(Moved(word, 20, 31, 0), 12)
      [] format = "s" -> SignExtended(Moved(word, 25, 31, 5) \cup Moved(word, 7, 11, 0), 12)
      [] format = "b" -> BranchOffset(word)
      [] format = "u" -> word \cap (12 .. 31)
      [] format = "j" -> SignExtended(Moved(word, 31, 31, 20) \cup (word \cap (12 .. 19))
                                          \cup Moved(word, 20, 20, 11) \cup Moved(word, 21, 30, 1), 21)
      [] format = "shift" -> Moved(word, 20, 24, 0)
      [] format \in {"csr", "csr_immediate"} -> Moved(word, 15, 19, 0)
      [] OTHER -> {}

ScalarMatches(word) == {p \in ScalarPatterns : word \cap p.fixed = p.bits}

(* scalar_instruction; upper is csr_address, or fence_mode, predecessor and *)
(* successor together, and empty for the formats that have neither.         *)
DecodeScalar(word) ==
    LET p == CHOOSE q \in ScalarMatches(word) : TRUE
    IN  IF ScalarMatches(word) = {} THEN Error("illegal_scalar")
        ELSE [kind |-> "scalar", opcode |-> p.opcode, format |-> p.format,
              rd |-> Register(word, 7), rs1 |-> Register(word, 15), rs2 |-> Register(word, 20),
              immediate |-> Immediate(word, p.format),
              upper |-> IF p.format \in {"csr", "csr_immediate", "fence"} THEN Moved(word, 20, 31, 0) ELSE {}]

-----------------------------------------------------------------------------
(* decode_holon *)

Named(role, kind, value) == [role |-> role, kind |-> kind, value |-> value]

NpuMatches(word) == {p \in NpuPatterns : word \ p.variable = p.bits}

Raw(word, f) == Number(Moved(word, f.shift, f.shift + f.width - 1, 0))

(* operand: the element kind has fewer values than its field. *)
IsOperand(kind, raw) == kind = "element" => raw <= 6

Operand(f, raw) ==
    Named(f.role, Kind(f.role),
          IF Kind(f.role) = "displacement" /\ raw >= 2^(f.width - 1) THEN raw - 2^f.width ELSE raw)

InType(p, f, raw) == f.role = "type" => raw \in p.types

(* Wrong variant: bits outside the pattern's fields are ignored. *)
DecodeHolonIgnoringRest(word) ==
    LET matches == {p \in NpuPatterns : word \cap (0 .. 11) = p.bits}
        p == CHOOSE q \in matches : TRUE
    IN  IF matches = {} THEN Error("illegal_holon")
        ELSE [kind |-> "holon", opcode |-> p.opcode,
              operands |-> [i \in DOMAIN p.fields |-> Operand(p.fields[i], Raw(word, p.fields[i]))]]

DecodeHolon(word) ==
    LET p == CHOOSE q \in NpuMatches(word) : TRUE
        raw(i) == Raw(word, p.fields[i])
        Legal(i) == InType(p, p.fields[i], raw(i)) /\ IsOperand(Kind(p.fields[i].role), raw(i))
    IN  IF NpuMatches(word) = {} \/ (\E i \in DOMAIN p.fields : ~Legal(i)) THEN Error("illegal_holon")
        ELSE [kind |-> "holon", opcode |-> p.opcode,
              operands |-> [i \in DOMAIN p.fields |-> Operand(p.fields[i], raw(i))]]

-----------------------------------------------------------------------------
(* encode_holon *)

Given(f, arguments) == SelectSeq(arguments, LAMBDA argument : argument.role = f.role)

(* Wrong variant: the argument at the field's position is taken. *)
ArgumentByPosition(p, i, arguments) == arguments[i]

(* The argument that fills field i. *)
ArgumentOf(p, i, arguments) == Given(p.fields[i], arguments)[1]

InField(f, value) ==
    IF Kind(f.role) = "displacement" THEN value \in -(2^(f.width - 1)) .. 2^(f.width - 1) - 1
    ELSE value \in 0 .. 2^f.width - 1

FieldError(p, i, arguments) ==
    LET f == p.fields[i]
        argument == ArgumentOf(p, i, arguments)
    IN  IF Len(Given(f, arguments)) # 1 THEN "operand_set"
        ELSE IF argument.kind # Kind(f.role) THEN "operand_type"
        ELSE IF /\ InField(f, argument.value)
                /\ InType(p, f, argument.value)
                /\ IsOperand(Kind(f.role), argument.value) THEN "none"
        ELSE "operand_range"

Placed(f, value) == {f.shift + k : k \in Bits(value % 2^f.width)}

Encode(opcode, arguments) ==
    LET matches == {p \in NpuPatterns : p.opcode = opcode}
        p == CHOOSE q \in matches : TRUE
        errors == SelectSeq([i \in DOMAIN p.fields |-> FieldError(p, i, arguments)],
                            LAMBDA error : error # "none")
    IN  IF matches = {} THEN Error("unknown_opcode")
        ELSE IF Len(arguments) # Len(p.fields) THEN Error("operand_set")
        ELSE IF errors # <<>> THEN Error(Head(errors))
        ELSE Frame("holon", p.bits \cup UNION {Placed(p.fields[i], ArgumentOf(p, i, arguments).value) :
                                                  i \in DOMAIN p.fields})

=============================================================================
