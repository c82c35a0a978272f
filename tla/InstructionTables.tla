------------------------- MODULE InstructionTables -------------------------
(***************************************************************************)
(* The opcode tables generated from spec/holon_npu_isa.json: npu_patterns  *)
(* (src/sim/semantic/holon_npu_operand_metadata.hpp) and scalar_patterns   *)
(* (src/sim/semantic/holon_npu_scalar_metadata.hpp).                       *)
(*                                                                         *)
(* A word is the set of its one bits' positions.  npu_patterns repeats the *)
(* fields for every opcode of a format; here the opcodes of one format are *)
(* one row.  variable_mask is the union of the fields in every entry of    *)
(* the header, so it is computed.  Order in the tables matters only if two *)
(* patterns match one word: AtMostOnePattern of Builder says none do.      *)
(***************************************************************************)
EXTENDS Integers, Sequences, FiniteSets, FiniteSetsExt

(* The bits of the number n, and the number whose bits are given. *)
Bits(n) == {k \in 0 .. 30 : (n \div 2^k) % 2 = 1}
Number(bits) == MapThenSumSet(LAMBDA k : 2^k, bits)

(* The bits first .. last of a word, moved so that first lands on to. *)
Moved(word, first, last, to) == {k - first + to : k \in word \cap (first .. last)}

-----------------------------------------------------------------------------
(* npu_kind and npu_field: each role has one kind wherever it appears. *)

Field(role, shift, width) == [role |-> role, shift |-> shift, width |-> width]
FieldBits(f) == f.shift .. f.shift + f.width - 1

Kind(role) ==
    CASE role \in {"vd", "va", "vb", "vc", "indices"}             -> "vector"
      [] role \in {"pd", "pa", "pb", "pg", "select"}              -> "predicate"
      [] role \in {"td", "ta", "tb", "ts"}                        -> "tile"
      [] role = "view"                                            -> "view"
      [] role \in {"type", "peer_type", "result_type"}            -> "element"
      [] role \in {"policy", "rounding", "scale"}                 -> role
      [] role = "offset"                                          -> "displacement"
      [] role = "selector"                                        -> "capability"
      [] OTHER                                                    -> "scalar"

(* npu_type: i8, u8, i16, u16, i32, u32, f32 are 0 to 6.  A type_mask is the *)
(* set of types it admits.                                                   *)
AnyType  == 0 .. 6
Integral == 0 .. 5
Signed   == {0, 2, 4}
Products == {4, 5, 6}
Float    == {6}

(* Every entry of npu_patterns with these fields and this type mask. *)
NpuRow(types, fields, codes) ==
    {[opcode |-> name, bits |-> Bits(codes[name]), types |-> types, fields |-> fields,
      variable |-> UNION {FieldBits(fields[i]) : i \in DOMAIN fields}] : name \in DOMAIN codes}

(* Fields that end most vector formats, at their lane or memory positions. *)
Lanes   == <<Field("pg", 32, 5), Field("vl", 37, 5), Field("type", 42, 4)>>
Merged  == Lanes \o <<Field("policy", 46, 1)>>
Vd      == Field("vd", 12, 5)
Va      == Field("va", 17, 5)
Vb      == Field("vb", 22, 5)
Pd      == Field("pd", 12, 5)
Pa      == Field("pa", 17, 5)
Base    == Field("base", 17, 5)
Length  == Field("vl", 37, 5)
Access  == <<Field("pg", 27, 5), Field("vl", 32, 5), Field("type", 37, 4)>>
Policy  == <<Field("policy", 41, 1)>>
Scale   == <<Field("scale", 42, 2)>>
Offset  == <<Field("offset", 44, 20)>>
Source  == Field("va", 12, 5)
Stride  == Field("stride", 22, 5)
Indices == Field("indices", 22, 5)

LanePatterns ==
    LET Binary == <<Vd, Va, Vb>> \o Merged
    IN  NpuRow(AnyType, <<Field("rd", 12, 5), Field("avl", 17, 5), Field("type", 42, 4), Field("peer_type", 47, 4)>>,
               [VSETL |-> \h07c])
        \cup NpuRow(AnyType, Binary,
                    [VADD |-> \h004, VSUB |-> \h008, VMUL |-> \h00c, VMIN |-> \h010, VMAX |-> \h014])
        \cup NpuRow(Integral, Binary, [VMULH |-> \h06c, VAND |-> \h024, VOR |-> \h028, VXOR |-> \h02c,
                                       VSHL |-> \h030, VSHR |-> \h034])
        \cup NpuRow(Signed, Binary, [VASHR |-> \h038])
        \cup NpuRow(Float, Binary, [VDIV |-> \h018])
        \cup NpuRow(Float, <<Vd, Va>> \o Merged, [VSQRT |-> \h01c])
        \cup NpuRow(Float, <<Vd, Va, Vb, Field("vc", 27, 5)>> \o Merged, [VFMA |-> \h020])

CrossLanePatterns ==
    NpuRow(AnyType, <<Vd, Va>> \o Merged \o <<Field("result_type", 47, 4), Field("rounding", 51, 2)>>,
           [VCONVERT |-> \h03c])
    \cup NpuRow(AnyType, <<Pd, Va, Vb>> \o Lanes,
                [VCMPEQ |-> \h040, VCMPLT |-> \h044, VCMPLE |-> \h048, VCMPNE |-> \h04c])
    \cup NpuRow(AnyType, <<Vd, Va, Vb, Field("select", 27, 5)>> \o Merged, [VSELECT |-> \h050])
    \cup NpuRow(AnyType, <<Vd, Field("value", 17, 5)>> \o Merged, [VBROADCAST |-> \h054])
    \cup NpuRow(AnyType, <<Field("rd", 12, 5), Va, Field("index", 22, 5), Length, Field("type", 42, 4)>>,
                [VEXTRACT |-> \h058])
    \cup NpuRow(AnyType, <<Vd, Va, Indices>> \o Merged, [VPERMUTE |-> \h05c])
    \cup NpuRow(AnyType, <<Field("rd", 12, 5), Va, Field("seed", 22, 5)>> \o Lanes,
                [VREDSUM |-> \h060, VREDMIN |-> \h064, VREDMAX |-> \h068])

MemoryPatterns ==
    NpuRow(AnyType, <<Vd, Base>> \o Access \o Policy \o Offset, [VLD |-> \h080])
    \cup NpuRow(AnyType, <<Source, Base>> \o Access \o Offset, [VST |-> \h084])
    \cup NpuRow(AnyType, <<Vd, Base, Stride>> \o Access \o Policy \o Offset, [VLDS |-> \h088])
    \cup NpuRow(AnyType, <<Source, Base, Stride>> \o Access \o Offset, [VSTS |-> \h08c])
    \cup NpuRow(AnyType, <<Vd, Base, Indices>> \o Access \o Policy \o Scale \o Offset, [VGATHER |-> \h090])
    \cup NpuRow(AnyType, <<Source, Base, Indices>> \o Access \o Scale \o Offset, [VSCATTER |-> \h094])

PredicatePatterns ==
    NpuRow(AnyType, <<Pd, Length>>, [PTRUE |-> \h100])
    \cup NpuRow(AnyType, <<Pd, Base, Field("end", 22, 5), Length>>, [PWHILELT |-> \h104])
    \cup NpuRow(AnyType, <<Pd, Pa, Field("pb", 22, 5), Length>>, [PAND |-> \h108, POR |-> \h10c, PXOR |-> \h110])
    \cup NpuRow(AnyType, <<Pd, Pa, Length>>, [PNOT |-> \h114])
    \cup NpuRow(AnyType, <<Field("rd", 12, 5), Pa, Length>>, [PCOUNT |-> \h118, PFIRST |-> \h11c])
    \cup NpuRow(AnyType, <<Pd, Base, Field("vl", 32, 5)>> \o Offset, [PLD |-> \h120])
    \cup NpuRow(AnyType, <<Field("pa", 12, 5), Base, Field("vl", 32, 5)>> \o Offset, [PST |-> \h124])

MatrixPatterns ==
    NpuRow(AnyType, <<Field("view", 12, 4), Field("base", 16, 5), Field("rows", 21, 5), Field("cols", 26, 5),
                      Field("row_stride", 31, 5), Field("col_stride", 36, 5), Field("type", 41, 4)>>,
           [MVIEW |-> \h001])
    \cup NpuRow(AnyType, <<Field("td", 12, 3), Field("view", 15, 4)>>, [MLOAD |-> \h005])
    \cup NpuRow(AnyType, <<Field("td", 12, 3), Field("rows", 17, 5), Field("cols", 22, 5), Field("type", 42, 4)>>,
                [MCLEAR |-> \h009])
    \cup NpuRow(Products, <<Field("td", 12, 3), Field("ta", 15, 3), Field("tb", 18, 3), Field("type", 21, 4)>>,
                [MDOT |-> \h00d, MMACC |-> \h011])
    \cup NpuRow(AnyType, <<Field("ts", 12, 3), Field("view", 15, 4)>>, [MSTORE |-> \h015])

SystemPatterns ==
    NpuRow(AnyType, <<Field("dst", 12, 5), Field("src", 17, 5), Field("count", 22, 5)>>,
           [DLOAD |-> \h002, DSTORE |-> \h006])
    \cup NpuRow(AnyType, <<Field("status", 12, 5)>>, [STOP |-> \h00e])
    \cup NpuRow(AnyType, <<Field("rd", 12, 5), Field("selector", 17, 2)>>, [CAPS |-> \h012])

NpuPatterns == LanePatterns \cup CrossLanePatterns \cup MemoryPatterns \cup PredicatePatterns
                   \cup MatrixPatterns \cup SystemPatterns

-----------------------------------------------------------------------------
(* scalar_patterns: the masks that occur, and the entries under each. *)

Major  == 0 .. 6
Funct3 == Major \cup (12 .. 14)
Funct7 == Funct3 \cup (25 .. 31)
Whole  == 0 .. 31

ScalarRow(format, fixed, codes) ==
    {[opcode |-> name, format |-> format, fixed |-> fixed, bits |-> Bits(codes[name])] : name \in DOMAIN codes}

ImmediatePatterns ==
    ScalarRow("u", Major, [LUI |-> \h37, AUIPC |-> \h17])
    \cup ScalarRow("j", Major, [JAL |-> \h6f])
    \cup ScalarRow("i", Funct3, [JALR |-> \h67, LB |-> \h03, LH |-> \h1003, LW |-> \h2003, LBU |-> \h4003,
                                 LHU |-> \h5003, ADDI |-> \h13, SLTI |-> \h2013, SLTIU |-> \h3013,
                                 XORI |-> \h4013, ORI |-> \h6013, ANDI |-> \h7013])
    \cup ScalarRow("b", Funct3, [BEQ |-> \h63, BNE |-> \h1063, BLT |-> \h4063, BGE |-> \h5063,
                                 BLTU |-> \h6063, BGEU |-> \h7063])
    \cup ScalarRow("s", Funct3, [SB |-> \h23, SH |-> \h1023, SW |-> \h2023])
    \cup ScalarRow("shift", Funct7, [SLLI |-> \h1013, SRLI |-> \h5013, SRAI |-> \h40005013])

RegisterPatterns ==
    ScalarRow("r", Funct7,
              [ADD |-> \h33, SUB |-> \h40000033, SLL |-> \h1033, SLT |-> \h2033, SLTU |-> \h3033,
               XOR |-> \h4033, SRL |-> \h5033, SRA |-> \h40005033, OR |-> \h6033, AND |-> \h7033,
               MUL |-> \h2000033, MULH |-> \h2001033, MULHSU |-> \h2002033, MULHU |-> \h2003033,
               DIV |-> \h2004033, DIVU |-> \h2005033, REM |-> \h2006033, REMU |-> \h2007033])

MachinePatterns ==
    ScalarRow("fence", Funct3, [FENCE |-> \h0f])
    \cup ScalarRow("csr", Funct3, [CSRRW |-> \h1073, CSRRS |-> \h2073, CSRRC |-> \h3073])
    \cup ScalarRow("csr_immediate", Funct3, [CSRRWI |-> \h5073, CSRRSI |-> \h6073, CSRRCI |-> \h7073])
    \cup ScalarRow("system", Whole, [ECALL |-> \h73, EBREAK |-> \h100073, MRET |-> \h30200073, WFI |-> \h10500073])

ScalarPatterns == ImmediatePatterns \cup RegisterPatterns \cup MachinePatterns

=============================================================================
