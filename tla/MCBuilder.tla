----------------------------- MODULE MCBuilder -----------------------------
(***************************************************************************)
(* Instances of Builder for TLC.                                           *)
(*                                                                         *)
(* MCCodec makes one call at full width: npu() for every opcode, with      *)
(* every operand moved through its boundary values while the others are    *)
(* all least, all greatest or all different, and with its operands         *)
(* reordered, missing, repeated or of the wrong kind; li and addi with     *)
(* literals at the carry; and, for every pattern, emit() of the word with  *)
(* no operand bits and the one with all of them, and of both with any one  *)
(* bit flipped.  Then the word is read back.                               *)
(*                                                                         *)
(* MCProgram builds programs of up to three calls from a small menu that   *)
(* mixes both widths, at bases up to the end of a 32-byte address space.   *)
(***************************************************************************)
EXTENDS Builder

(* In turn: below, at and above the ends of each operand's range. *)
Boundary(kind) ==
    CASE kind \in {"scalar", "vector", "predicate"} -> {0, 1, 16, 31, 32, 255}
      [] kind = "tile"                              -> {0, 1, 4, 7, 8, 31}
      [] kind = "view"                              -> {0, 1, 8, 15, 16}
      [] kind = "element"                           -> 0 .. 7 \cup {15, 16}
      [] kind = "policy"                            -> 0 .. 2
      [] kind \in {"rounding", "scale", "capability"} -> 0 .. 4
      [] kind = "displacement" -> {-524289, -524288, -2, -1, 0, 1, 524287, 524288, 1048575}

Least(p, f)    == IF f.role = "type" THEN Min(p.types)
                  ELSE IF Kind(f.role) = "displacement" THEN -524288 ELSE 0
Greatest(p, f) == IF f.role = "type" THEN Max(p.types)
                  ELSE IF Kind(f.role) = "displacement" THEN 524287 ELSE Max(Domain(Kind(f.role)))

(* No two fields alike, so an operand that lands in another's place shows. *)
Distinct(p, f) == IF f.role = "type" THEN Max(p.types)
                  ELSE IF Kind(f.role) = "displacement" THEN f.shift - 100
                  ELSE f.shift % Cardinality(Domain(Kind(f.role)))

Arguments(p, Value(_, _)) == [i \in DOMAIN p.fields |->
    Named(p.fields[i].role, Kind(p.fields[i].role), Value(p, p.fields[i]))]

Backgrounds(p) == {Arguments(p, Least), Arguments(p, Greatest), Arguments(p, Distinct)}

Moves(a) ==
    UNION {{[a EXCEPT ![i].value = v] : v \in Boundary(a[i].kind)} : i \in DOMAIN a}
        \cup {[a EXCEPT ![i].kind = k] : i \in DOMAIN a, k \in {"scalar", "vector", "tile", "element"}}
        \cup {[a EXCEPT ![i].role = a[1].role] : i \in DOMAIN a}
        \cup {Reverse(a), Tail(a) \o <<Head(a)>>, Tail(a), Append(a, a[1])}

EveryNpuCall ==
    UNION {[opcode : {p.opcode}, arguments : UNION {Moves(a) : a \in Backgrounds(p)}] : p \in NpuPatterns}
        \cup {[opcode |-> "UNKNOWN", arguments |-> <<>>]}

Flipped(word, last) == {word} \cup {(word \ {k}) \cup ({k} \ word) : k \in 0 .. last}

EveryHolonWord  == UNION {Flipped(p.bits, 63) \cup Flipped(p.bits \cup p.variable, 63) : p \in NpuPatterns}
EveryScalarWord == UNION {Flipped(p.bits, 31) \cup Flipped(p.bits \cup ((0 .. 31) \ p.fixed), 31) : p \in ScalarPatterns}

(* Literals around the carry from bit 11 and the wrap at the top. *)
From(high, low) == {12 + k : k \in Bits(high)} \cup Bits(low)
SomeLiterals == [rd : {0, 1, 31, 32}, value : {From(h, l) : h \in {0, 1, 1048575}, l \in {0, 2047, 2048, 4095}}]
SomeAdditions == [rd : {0, 31, 32}, rs : {0, 17, 255}, value : {-2049, -2048, -1, 0, 2047, 2048}]

Stop  == [opcode |-> "STOP", arguments |-> <<Named("status", "scalar", 3)>>]
Caps  == [opcode |-> "CAPS", arguments |-> <<Named("selector", "capability", 3), Named("rd", "scalar", 31)>>]
Wrong == [opcode |-> "CAPS", arguments |-> <<Named("selector", "capability", 4), Named("rd", "scalar", 31)>>]

FewLiterals  == [rd : {1, 32}, value : {From(1048575, 4095), From(1, 2048)}]
FewAdditions == {[rd |-> 1, rs |-> 2, value |-> -1], [rd |-> 1, rs |-> 2, value |-> 2048]}
FewNpuCalls  == {Stop, Caps, Wrong}

(* A branch, a word with a Holon prefix, and Holon words: two legal ones,   *)
(* one with a scalar prefix and one whose upper half has the scalar prefix. *)
FewScalarWords == {Bits(\h1063) \cup {31, 7, 25}, Bits(\h20) \cup {31}}
FewHolonWords  == {Bits(\h0e) \cup {12}, Bits(\h11) \cup {23}, Bits(\h13) \cup {32}, Bits(\h004) \cup {32, 33, 42, 44}}

AtZero == {0}
Placements == {0, 2, 16, 20}

=============================================================================
