------------------------------ MODULE NpuData ------------------------------
(***************************************************************************)
(* What vector and matrix instructions share: element types and their      *)
(* little-endian bytes, the map and size of the scratchpad, and the check  *)
(* of a local address (src/sim/semantic/holon_npu_npu.cpp, local_range of  *)
(* holon_npu_semantic.cpp).                                                *)
(*                                                                         *)
(* A byte has ByteBits bits and a word four bytes, so an address is a word *)
(* as in the code.  What binary32 arithmetic computes is left to the       *)
(* constant Float; f32 elements are otherwise words like any other.        *)
(***************************************************************************)
EXTENDS PhysicalMap

CONSTANTS
    ByteBits,         \* Bits of a byte, 8 in the code.
    RegionTable,      \* The table physical_map::create accepted.
    ScratchpadBytes,  \* machine_config::scratchpad_bytes
    Float(_, _)       \* An opcode and its binary32 operands to the result bits.

ByteValues == 2 ^ ByteBits
Bytes      == 0 .. ByteValues - 1
Scratchpads == [0 .. ScratchpadBytes - 1 -> Bytes]

ASSUME NpuDataAssumption ==
    /\ ByteBits \in Nat \ {0} /\ AddressSpace = ByteValues ^ 4
    /\ RegionTable \in Seq(Regions) /\ Create(RegionTable).ok /\ ScratchpadBytes \in Nat

(* What a power is, for the ones used here: provers know no exponents.     *)
ASSUME PowersAssumption ==
    /\ 2 ^ 0 = 1 /\ \A n \in 0 .. 4 * ByteBits - 1 : 2 ^ (n + 1) = 2 * 2 ^ n
    /\ ByteValues ^ 0 = 1 /\ \A n \in 0 .. 3 : ByteValues ^ (n + 1) = ByteValues * ByteValues ^ n
    /\ \A w \in {1, 2, 4} : 2 ^ (ByteBits * w) = ByteValues ^ w

(* A fused product and sum of words is a word.                             *)
ASSUME FusedAssumption == \A a, b, c \in Addresses : Float("VFMA", <<a, b, c>>) \in Addresses

Map == Create(RegionTable).map

-----------------------------------------------------------------------------
(* Elements *)

Types  == {"i8", "u8", "i16", "u16", "i32", "u32", "f32"}
Signed == {"i8", "i16", "i32"}

Width(type) == CASE type \in {"i8", "u8"} -> 1 [] type \in {"i16", "u16"} -> 2 [] OTHER -> 4

Bits(type)    == ByteBits * Width(type)
Modulus(type) == 2 ^ Bits(type)
WordOf(value) == value % AddressSpace

(* integer(): the value of an element's bits under its type.               *)
Integer(value, type) ==
    LET bits == value % Modulus(type)
    IN  IF type \in Signed /\ bits >= Modulus(type) \div 2 THEN bits - Modulus(type) ELSE bits

(* read() and write(): little-endian, "size" bytes from "at".               *)
ReadBytes(bytes, at, size) ==
    LET sum[k \in 0 .. size] == IF k = 0 THEN 0 ELSE sum[k - 1] + bytes[at + k - 1] * ByteValues ^ (k - 1)
    IN  sum[size]

WriteBytes(bytes, at, size, value) ==
    [b \in DOMAIN bytes |-> IF b \in at .. at + size - 1 THEN (value \div ByteValues ^ (b - at)) % ByteValues
                                                         ELSE bytes[b]]

-----------------------------------------------------------------------------
(* What execute_npu returns, beside the local state it leaves: nothing, the *)
(* value for rd, or a fault.  An invalid operand reports the instruction's  *)
(* low word, abstracted to 0.                                               *)

Done                == [kind |-> "done"]
Write(value)        == [kind |-> "write", value |-> value]
Fault(cause, value) == [kind |-> "fault", cause |-> cause, value |-> value]
Invalid             == Fault(24, 0)

Finish(u)        == [unit |-> u, outcome |-> Done]
Return(u, value) == [unit |-> u, outcome |-> Write(value)]
Refuse(u, fault) == [unit |-> u, outcome |-> fault]

-----------------------------------------------------------------------------
(* local_range: alignment before range, the range before the map, and the  *)
(* value reported is the low word.                                          *)

(* Wrong variant: the low word is checked, so a sum that leaves the address *)
(* space comes back at its other end.                                       *)
WrappedLocalAddress(address, size, write, alignment) ==
    LET low == WordOf(address)
        route == Resolve(Map, low, size, IF write THEN "write" ELSE "read")
    IN  IF low % alignment # 0 THEN Fault(IF write THEN 6 ELSE 4, low)
        ELSE IF ~route.ok \/ route.storage # "scratchpad" \/ ~LocalRange(ScratchpadBytes, route.at, size)
        THEN Fault(IF write THEN 7 ELSE 5, low)
        ELSE [kind |-> "local", at |-> route.at]

LocalAddress(address, size, write, alignment) ==
    LET low == WordOf(address)
        route == Resolve(Map, low, size, IF write THEN "write" ELSE "read")
    IN  IF address % alignment # 0 THEN Fault(IF write THEN 6 ELSE 4, low)
        ELSE IF \/ address \notin Addresses
                \/ ~route.ok
                \/ route.storage # "scratchpad"
                \/ ~LocalRange(ScratchpadBytes, route.at, size)
        THEN Fault(IF write THEN 7 ELSE 5, low)
        ELSE [kind |-> "local", at |-> route.at]

(* Every element of a sequence of accesses is checked, in order, before any *)
(* is performed: the first fault, or nothing.                               *)
FirstFault(checks) ==
    LET bad == {k \in DOMAIN checks : checks[k].kind = "fault"}
    IN  IF bad = {} THEN << >> ELSE <<checks[CHOOSE k \in bad : \A j \in bad : k <= j]>>

-----------------------------------------------------------------------------
(* For the properties: the region of the scratchpad, and whether an element *)
(* lies, aligned, in bytes behind it that the region lets be accessed so.   *)

Home == Map[CHOOSE r \in DOMAIN Map : Map[r].target = "scratchpad"]

Held(address, size, write) ==
    \E r \in DOMAIN Map :
        /\ Map[r].target = "scratchpad" /\ (IF write THEN "write" ELSE "read") \in Map[r].allowed
        /\ address % size = 0 /\ Map[r].base <= address
        /\ address + size <= Map[r].base + (IF ScratchpadBytes < Map[r].size THEN ScratchpadBytes ELSE Map[r].size)
=============================================================================
