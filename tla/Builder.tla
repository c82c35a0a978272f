------------------------------ MODULE Builder ------------------------------
(***************************************************************************)
(* program_builder, which appends encoded instructions to a byte image     *)
(* (src/include/holon_npu_runtime.hpp, src/sw/holon_npu_runtime.cpp), and  *)
(* a reader that walks the image frame by frame and decodes what it finds, *)
(* as the linked-program check of src/tests/instruction_test.cpp does and  *)
(* as every executor must.                                                 *)
(*                                                                         *)
(* The log remembers what each accepted call asked for, at its offset.     *)
(***************************************************************************)
EXTENDS Instruction

CONSTANTS
    NpuCalls,      \* npu() calls offered: [opcode, arguments].
    LiteralCalls,  \* li() calls offered: [rd, value], a value the set of its bits.
    AddCalls,      \* addi() calls offered: [rd, rs, value].
    ScalarWords,   \* Raw words offered to emit(scalar_word).
    HolonWords,    \* Raw words offered to emit(holon_word).
    Bases,         \* Addresses the image may be placed at.
    MaxCalls       \* Bound on the calls of one program.

ASSUME BuilderAssumption ==
    /\ \A c \in NpuCalls : c.arguments \in Seq([role : STRING, kind : STRING, value : Int])
    /\ \A c \in LiteralCalls : c.rd \in 0 .. 255 /\ c.value \subseteq 0 .. 31
    /\ AddCalls \subseteq [rd : 0 .. 255, rs : 0 .. 255, value : Int]
    /\ \A w \in ScalarWords : w \subseteq 0 .. 31
    /\ \A w \in HolonWords : w \subseteq 0 .. 63
    /\ Bases \subseteq 0 .. AddressSpace - 1
    /\ MaxCalls \in Nat

VARIABLES
    bytes,    \* bytes_
    log,      \* History: the accepted calls, [at, call].
    calls,    \* History: how many calls were made, to bound them.
    call,     \* The last call of the builder.
    thrown,   \* What it threw, "none" if it returned.
    base,     \* Where the image is placed.
    pc,       \* The reader's position.
    listing   \* What it has read: [at, frame, reading].

vars == <<bytes, log, calls, call, thrown, base, pc, listing>>

Idle == [kind |-> "idle"]

Init ==
    /\ bytes = <<>> /\ log = <<>> /\ listing = <<>>
    /\ calls = 0 /\ call = Idle /\ thrown = "none"
    /\ base \in Bases /\ pc = base

-----------------------------------------------------------------------------
(* Words the builder assembles itself *)

PatternBits(opcode) == (CHOOSE p \in ScalarPatterns : p.opcode = opcode).bits
RegisterAt(register, shift) == {shift + k : k \in Bits(register)}
IsRegister(register) == register < 32   \* check_register

AddiWord(rd, rs, low) ==
    {20 + k : k \in low} \cup RegisterAt(rs, 15) \cup RegisterAt(rd, 7) \cup PatternBits("ADDI")

(* (value + 0x800) & 0xfffff000: the upper 20 bits, rounded by bit 11. *)
Upper(value) ==
    LET high  == Number(Moved(value, 12, 31, 0))
        carry == IF 11 \in value THEN 1 ELSE 0
    IN  {12 + k : k \in Bits((high + carry) % 2^20)}

(* An append returns the bytes added, or the exception that stopped it and *)
(* the bytes added before it.                                              *)
Appended(added)         == [added |-> added, thrown |-> "none"]
Stopped(added, message) == [added |-> added, thrown |-> message]

Addi(rd, rs, value) ==
    IF ~IsRegister(rd) \/ ~IsRegister(rs) THEN Stopped(<<>>, "register")
    ELSE IF value \notin -2048 .. 2047 THEN Stopped(<<>>, "immediate")
    ELSE Appended(BytesOf(AddiWord(rd, rs, Bits(value % 4096)), ScalarSize))

(* LUI, then the addi whose immediate is the low twelve bits read as signed. *)
Li(rd, value) ==
    LET upper == BytesOf(Upper(value) \cup RegisterAt(rd, 7) \cup PatternBits("LUI"), ScalarSize)
        low   == Number(value \cap (0 .. 11))
        rest  == Addi(rd, rd, IF low >= 2048 THEN low - 4096 ELSE low)
    IN  IF ~IsRegister(rd) THEN Stopped(<<>>, "register")
        ELSE [added |-> upper \o rest.added, thrown |-> rest.thrown]

Npu(opcode, arguments) ==
    LET word == Encode(opcode, arguments)
    IN  IF word.kind = "error" THEN Stopped(<<>>, word.error)
        ELSE Appended(BytesOf(word.word, HolonSize))

-----------------------------------------------------------------------------
(* Actions *)

Call(made, result) ==
    /\ calls < MaxCalls
    /\ calls' = calls + 1
    /\ bytes' = bytes \o result.added
    /\ call' = made
    /\ thrown' = result.thrown
    /\ log' = IF result.thrown = "none" THEN Append(log, [at |-> Len(bytes), call |-> made]) ELSE log
    /\ UNCHANGED <<base, pc, listing>>

CallNpu  == \E c \in NpuCalls :
                Call([kind |-> "npu", opcode |-> c.opcode, arguments |-> c.arguments], Npu(c.opcode, c.arguments))
CallLi   == \E c \in LiteralCalls : Call([kind |-> "li", rd |-> c.rd, value |-> c.value], Li(c.rd, c.value))
CallAddi == \E c \in AddCalls :
                Call([kind |-> "addi", rd |-> c.rd, rs |-> c.rs, value |-> c.value], Addi(c.rd, c.rs, c.value))

(* emit() checks nothing: it appends the word's bytes, least significant first. *)
EmitScalar == \E w \in ScalarWords : Call([kind |-> "scalar", word |-> w], Appended(BytesOf(w, ScalarSize)))
EmitHolon  == \E w \in HolonWords : Call([kind |-> "holon", word |-> w], Appended(BytesOf(w, HolonSize)))

Reading(frame) ==
    CASE frame.kind = "scalar" -> DecodeScalar(frame.word)
      [] frame.kind = "holon"  -> DecodeHolon(frame.word)
      [] OTHER -> frame

(* One turn of the reader's loop: it stops for good at a frame it cannot read. *)
Read ==
    LET frame == Fetch(bytes, pc, base)
    IN  /\ pc - base < Len(bytes)
        /\ \A i \in DOMAIN listing : listing[i].reading.kind # "error"
        /\ listing' = Append(listing, [at |-> pc, frame |-> frame, reading |-> Reading(frame)])
        /\ pc' = IF frame.kind = "error" THEN pc ELSE pc + (IF frame.kind = "scalar" THEN ScalarSize ELSE HolonSize)
        /\ UNCHANGED <<bytes, log, calls, call, thrown, base>>

Next == CallNpu \/ CallLi \/ CallAddi \/ EmitScalar \/ EmitHolon \/ Read

Spec == Init /\ [][Next]_vars

-----------------------------------------------------------------------------
(* Properties *)

TypeOK ==
    /\ bytes \in Seq(SUBSET (0 .. 7))
    /\ \A i \in DOMAIN log : log[i].at \in 0 .. Len(bytes) - 1
    /\ calls \in 0 .. MaxCalls /\ Len(log) <= calls
    /\ thrown \in {"none", "register", "immediate", "unknown_opcode", "operand_set", "operand_type", "operand_range"}
    /\ base \in Bases /\ pc \in base .. base + Len(bytes)
    /\ \A i \in DOMAIN listing : listing[i].at \in base .. pc

(* The values an operand of each kind can name: the register counts and     *)
(* enumerators of the operand metadata.                                     *)
Domain(kind) ==
    CASE kind \in {"scalar", "vector", "predicate"}      -> 0 .. 31
      [] kind = "tile"                                   -> 0 .. 7
      [] kind = "view"                                   -> 0 .. 15
      [] kind = "element"                                -> 0 .. 6
      [] kind = "policy"                                 -> 0 .. 1
      [] kind \in {"rounding", "scale", "capability"}    -> 0 .. 3
      [] kind = "displacement"                           -> -524288 .. 524287

(* The arguments are the pattern's operands, each once and in any order,    *)
(* each of its role's kind, in that kind's domain and in the type domain.   *)
WellFormed(opcode, arguments) ==
    \E p \in NpuPatterns :
        /\ p.opcode = opcode
        /\ Len(arguments) = Len(p.fields)
        /\ {a.role : a \in ToSet(arguments)} = {f.role : f \in ToSet(p.fields)}
        /\ \A a \in ToSet(arguments) : /\ a.kind = Kind(a.role) /\ a.value \in Domain(a.kind)
                                       /\ a.role = "type" => a.value \in p.types

(* Calls that keep the image a sequence of whole instructions: emit() also  *)
(* takes scalar words with a Holon prefix and Holon words with the scalar.  *)
Honest == \A e \in ToSet(log) : /\ e.call.kind = "scalar" => {0, 1} \subseteq e.call.word
                                /\ e.call.kind = "holon" => ~({0, 1} \subseteq e.call.word)

(* Where each appended instruction starts, and its kind. *)
Starts ==
    {<<e.at, IF e.call.kind \in {"npu", "holon"} THEN "holon" ELSE "scalar">> : e \in ToSet(log)}
        \cup {<<e.at + ScalarSize, "scalar">> : e \in {d \in ToSet(log) : d.call.kind = "li"}}

(* What was read where the call e began. *)
ReadAt(e) == {l \in ToSet(listing) : l.at - base = e.at}

(* npu() accepts exactly the arguments that name every operand once, in the *)
(* right register file, type domain and range: encode_holon's set, kind,    *)
(* range and type checks together leave nothing out and refuse nothing else.*)
NpuCallsAcceptTheirDomain == call.kind = "npu" => (thrown = "none" <=> WellFormed(call.opcode, call.arguments))

(* An instruction reads back as it was called: decode_holon after           *)
(* encode_holon returns the same operands whatever order they were named    *)
(* in, and decode_scalar returns the registers and immediate given to addi. *)
ReadsBack ==
    Honest => \A e \in ToSet(log) : \A l \in ReadAt(e) :
        /\ e.call.kind = "npu" => /\ l.reading.kind = "holon" /\ l.reading.opcode = e.call.opcode
                                  /\ ToSet(l.reading.operands) = ToSet(e.call.arguments)
        /\ e.call.kind = "addi" => /\ l.reading.kind = "scalar" /\ l.reading.opcode = "ADDI"
                                   /\ l.reading.rd = e.call.rd /\ l.reading.rs1 = e.call.rs
                                   /\ Number(l.reading.immediate \cap (0 .. 11)) = e.call.value % 4096
                                   /\ 31 \in l.reading.immediate <=> e.call.value < 0

(* The two instructions of li load its value: the rounded upper part of LUI *)
(* plus the signed immediate of ADDI is the 32-bit literal, across the      *)
(* carry at bit 11 and the wrap at the top (holon_npu_runtime.cpp li).      *)
LiteralsAreExact ==
    \A e \in ToSet(log) : \A i \in DOMAIN listing :
        e.call.kind = "li" /\ Honest /\ listing[i].at - base = e.at /\ i + 1 \in DOMAIN listing =>
            LET lui  == listing[i].reading
                addi == listing[i + 1].reading
                high == Number(Moved(lui.immediate, 12, 31, 0))
                low  == Number(addi.immediate \cap (0 .. 11))
                borrow == IF 31 \in addi.immediate THEN 1 ELSE 0
            IN  /\ lui.opcode = "LUI" /\ addi.opcode = "ADDI"
                /\ lui.rd = e.call.rd /\ addi.rs1 = e.call.rd /\ addi.rd = e.call.rd
                /\ low = Number(e.call.value \cap (0 .. 11))
                /\ (high - borrow) % 2^20 = Number(Moved(e.call.value, 12, 31, 0))

(* A Holon word decodes only if it is an encoding: reserved bits, types     *)
(* outside the opcode's domain and element codes past f32 are illegal, and  *)
(* two words never decode alike (decode_holon).                             *)
OnlyEncodingsDecode ==
    \A l \in ToSet(listing) : l.reading.kind = "holon" =>
        /\ WellFormed(l.reading.opcode, l.reading.operands)
        /\ Encode(l.reading.opcode, l.reading.operands) = l.frame

(* No word matches two patterns, so decode_scalar and decode_holon, which   *)
(* take the first match, do not depend on the order of the generated table. *)
AtMostOnePattern ==
    \A l \in ToSet(listing) :
        /\ l.frame.kind = "scalar" => Cardinality(ScalarMatches(l.frame.word)) <= 1
        /\ l.frame.kind = "holon" => Cardinality(NpuMatches(l.frame.word)) <= 1

(* The manual's encoding of an immediate, the inverse of decode_scalar's    *)
(* reading of it; immediates() in src/tests/instruction_test.cpp builds its *)
(* words the same way.                                                      *)
Assembled(r) ==
    LET immediate == r.immediate
        Registers(S) == UNION {IF s = "rd" THEN RegisterAt(r.rd, 7)
                               ELSE IF s = "rs1" THEN RegisterAt(r.rs1, 15) ELSE RegisterAt(r.rs2, 20) : s \in S}
    IN  CASE r.format = "i" -> Registers({"rd", "rs1"}) \cup Moved(immediate, 0, 11, 20)
          [] r.format = "s" -> Registers({"rs1", "rs2"}) \cup Moved(immediate, 5, 11, 25) \cup Moved(immediate, 0, 4, 7)
          [] r.format = "b" -> Registers({"rs1", "rs2"}) \cup Moved(immediate, 12, 12, 31) \cup Moved(immediate, 5, 10, 25)
                                   \cup Moved(immediate, 1, 4, 8) \cup Moved(immediate, 11, 11, 7)
          [] r.format = "u" -> Registers({"rd"}) \cup immediate
          [] r.format = "j" -> Registers({"rd"}) \cup Moved(immediate, 20, 20, 31) \cup Moved(immediate, 1, 10, 21)
                                   \cup Moved(immediate, 11, 11, 20) \cup Moved(immediate, 12, 19, 12)
          [] r.format = "shift" -> Registers({"rd", "rs1"}) \cup Moved(immediate, 0, 4, 20)
          [] r.format = "r" -> Registers({"rd", "rs1", "rs2"})
          [] r.format \in {"csr", "csr_immediate"} -> Registers({"rd", "rs1"}) \cup Moved(r.upper, 0, 11, 20)
          [] r.format = "fence" -> Registers({"rd", "rs1"}) \cup Moved(r.upper, 0, 11, 20)
          [] r.format = "system" -> {}

(* Bits that only repeat the sign of a format's immediate. *)
SignBits(format) ==
    CASE format \in {"i", "s"} -> 11 .. 31 [] format = "b" -> 12 .. 31 [] format = "j" -> 20 .. 31 [] OTHER -> {}

(* Every bit of a legal scalar word is the pattern's or read into exactly   *)
(* one place: assembling what decode_scalar returns gives the word back,    *)
(* and the immediate is sign extended to all of 32 bits.                    *)
ScalarWordsReadBack ==
    \A l \in ToSet(listing) : l.reading.kind = "scalar" =>
        /\ PatternBits(l.reading.opcode) \cup Assembled(l.reading) = l.frame.word
        /\ SignBits(l.reading.format) \cap l.reading.immediate \in {{}, SignBits(l.reading.format)}

(* A frame is bytes of the image in place, whole: fetch never runs past the *)
(* end for the upper half of a Holon word, and an image is read only where  *)
(* it ends inside the address space.                                        *)
FramesAreWhole ==
    \A l \in ToSet(listing) : l.frame.kind # "error" =>
        LET size == IF l.frame.kind = "scalar" THEN ScalarSize ELSE HolonSize
        IN  /\ l.at - base + size <= Len(bytes)
            /\ BytesOf(l.frame.word, size) = SubSeq(bytes, l.at - base + 1, l.at - base + size)
            /\ base % Alignment = 0 /\ l.at + size <= AddressSpace

(* Reading an honest image stops at every instruction that was appended and *)
(* nowhere else: no scalar word is swallowed by a Holon word before it and  *)
(* no upper half is taken for an instruction (fetch, the prefix rule).      *)
FramesFollowTheLog ==
    Honest => \A l \in ToSet(listing) :
        l.frame = Error("invalid_image") \/ <<l.at - base, l.frame.kind>> \in Starts

(* What the builder accepts is what the codec can say, and it reads back as   *)
(* it was said (npu, li, addi; encode_holon and the decoders).              *)
CallsEncodeExactly == NpuCallsAcceptTheirDomain /\ ReadsBack /\ LiteralsAreExact

(* A word of either width has at most one reading, and only if some encoding  *)
(* makes that word (decode_scalar, decode_holon over the generated tables).  *)
WordsDecodeExactly == OnlyEncodingsDecode /\ AtMostOnePattern /\ ScalarWordsReadBack

(* An image is a sequence of whole instructions, those that were appended by  *)
(* accepted calls: a call that throws has appended nothing, not even the     *)
(* first half of a literal (emit, li, fetch).                                *)
ImagesReadWhole == TypeOK /\ FramesAreWhole /\ FramesFollowTheLog
=============================================================================
