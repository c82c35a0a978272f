----------------------------- MODULE VectorUnit -----------------------------
(***************************************************************************)
(* Vector and predicate instructions: what execute_npu and describe_npu do  *)
(* for the opcodes that name a vector length (and VSETL, which grants one)  *)
(* (src/sim/semantic/holon_npu_npu.cpp).                                    *)
(*                                                                         *)
(* An instruction is a record of its opcode and operands under their role   *)
(* names; operands in scalar registers are given by the value read, the     *)
(* others by number.  Whether an operand exists is asked of the record's    *)
(* domain, as the code asks find().  A predicate register is the set of the *)
(* lanes it selects.                                                        *)
(***************************************************************************)
EXTENDS NpuData

CONSTANTS
    VectorBytes,      \* machine_config::vector_bytes
    VectorRegisters, PredicateRegisters,
    Repertoire,       \* The instructions offered.
    InitialUnits,     \* Register and scratchpad contents to start from.
    MaxInstructions   \* Bound on the length of a program.

AllLanes == 0 .. VectorBytes - 1
Vectors  == [AllLanes -> Bytes]
Units    == [vectors : [VectorRegisters -> Vectors],
             predicates : [PredicateRegisters -> SUBSET AllLanes],
             scratchpad : Scratchpads]

-----------------------------------------------------------------------------
(* What can be named: the operands of each opcode (npu_patterns; rd is not   *)
(* read here), the values of each and the types the opcode is defined for.   *)

LoadOps    == {"VLD", "VLDS", "VGATHER"}
StoreOps   == {"VST", "VSTS", "VSCATTER"}
CompareOps == {"VCMPEQ", "VCMPNE", "VCMPLT", "VCMPLE"}
ReduceOps  == {"VREDSUM", "VREDMIN", "VREDMAX"}
MaskOps    == {"PTRUE", "PWHILELT", "PAND", "POR", "PXOR", "PNOT", "PLD"}
BitOps     == {"VMULH", "VAND", "VOR", "VXOR", "VSHL", "VSHR"}
BinaryOps  == {"VADD", "VSUB", "VMUL", "VMIN", "VMAX", "VDIV", "VASHR"} \cup BitOps
Roundings  == {"rne", "rtz", "rdn", "rup"}

Masked == {"vl", "type", "pg"}
Result == Masked \cup {"vd", "policy"}
Memory == {"base", "offset"}

Operands(op) ==
    CASE op = "VSETL"      -> {"avl", "type", "peer_type"}
      [] op \in BinaryOps  -> Result \cup {"va", "vb"}
      [] op = "VSQRT"      -> Result \cup {"va"}
      [] op = "VFMA"       -> Result \cup {"va", "vb", "vc"}
      [] op = "VCONVERT"   -> Result \cup {"va", "result_type", "rounding"}
      [] op = "VSELECT"    -> Result \cup {"va", "vb", "select"}
      [] op = "VBROADCAST" -> Result \cup {"value"}
      [] op = "VPERMUTE"   -> Result \cup {"va", "indices"}
      [] op = "VLD"        -> Result \cup Memory
      [] op = "VLDS"       -> Result \cup Memory \cup {"stride"}
      [] op = "VGATHER"    -> Result \cup Memory \cup {"indices", "scale"}
      [] op = "VST"        -> Masked \cup Memory \cup {"va"}
      [] op = "VSTS"       -> Masked \cup Memory \cup {"va", "stride"}
      [] op = "VSCATTER"   -> Masked \cup Memory \cup {"va", "indices", "scale"}
      [] op \in CompareOps -> Masked \cup {"pd", "va", "vb"}
      [] op \in ReduceOps  -> Masked \cup {"va", "seed"}
      [] op = "VEXTRACT"   -> {"vl", "type", "va", "index"}
      [] op = "PTRUE"      -> {"vl", "pd"}
      [] op = "PWHILELT"   -> {"vl", "pd", "base", "end"}
      [] op = "PNOT"       -> {"vl", "pd", "pa"}
      [] op = "PLD"        -> {"vl", "pd"} \cup Memory
      [] op = "PST"        -> {"vl", "pa"} \cup Memory
      [] op \in {"PCOUNT", "PFIRST"}    -> {"vl", "pa"}
      [] op \in {"PAND", "POR", "PXOR"} -> {"vl", "pd", "pa", "pb"}

TypesOf(op) ==
    CASE op \in BitOps -> Types \ {"f32"}
      [] op = "VASHR"  -> Signed
      [] op \in {"VDIV", "VSQRT", "VFMA"} -> {"f32"}
      [] OTHER -> Types

Values(op, role) ==
    CASE role \in {"vd", "va", "vb", "vc", "indices"}   -> VectorRegisters
      [] role \in {"pd", "pa", "pb", "pg", "select"}    -> PredicateRegisters
      [] role = "type" -> TypesOf(op)
      [] role \in {"peer_type", "result_type"} -> Types
      [] role = "policy"   -> {"merge", "zero"}
      [] role = "rounding" -> Roundings
      [] role = "offset"   -> Int
      [] role = "scale"    -> 0 .. 3
      [] OTHER -> Addresses

Opcodes ==
    LoadOps \cup StoreOps \cup CompareOps \cup ReduceOps \cup MaskOps \cup BinaryOps \cup
    {"VSETL", "VSQRT", "VFMA", "VCONVERT", "VSELECT", "VBROADCAST", "VPERMUTE", "VEXTRACT", "PST", "PCOUNT", "PFIRST"}

IsInstruction(i) ==
    /\ i.op \in Opcodes /\ DOMAIN i = {"op"} \cup Operands(i.op)
    /\ \A role \in Operands(i.op) : i[role] \in Values(i.op, role)

ASSUME VectorAssumption ==
    /\ VectorBytes \in Addresses /\ VectorBytes >= 4 /\ VectorBytes % 4 = 0
    /\ VectorRegisters \subseteq Nat /\ PredicateRegisters \subseteq Nat
    /\ InitialUnits \subseteq Units
    /\ \A i \in Repertoire : IsInstruction(i)
    /\ MaxInstructions \in Nat

(* Whatever binary32 arithmetic gives is a word (fp_bits, convert).          *)
ASSUME FloatAssumption ==
    /\ \A a, b \in Addresses : \A op \in {"VADD", "VSUB", "VMUL", "VMIN", "VMAX", "VDIV", "VSQRT"} :
           Float(op, <<a, b, 0>>) \in Addresses
    /\ \A a \in Addresses, from, to \in Types, mode \in Roundings : Float("VCONVERT", <<a, from, to, mode>>) \in Addresses

VARIABLES
    unit,      \* vectors_, predicates_ and scratchpad_
    outcome,   \* What execute_npu returned.
    executed,  \* History: the last instruction.
    count      \* Instructions executed.

vars == <<unit, outcome, executed, count>>

-----------------------------------------------------------------------------
(* Lanes, capacity and footprint *)

Has(inst, role) == role \in DOMAIN inst
Size(inst)      == IF Has(inst, "type") THEN Width(inst.type) ELSE 1
Lanes(inst)     == 0 .. inst.vl - 1
Packed(length)  == (length + ByteBits - 1) \div ByteBits
Least(set)      == CHOOSE x \in set : \A y \in set : x <= y

Capacity(inst) ==
    Least({VectorBytes \div w : w \in {Size(inst)} \cup {Width(inst[r]) : r \in {"result_type"} \cap DOMAIN inst}
                                                  \cup {4 : r \in {"indices"} \cap DOMAIN inst}})

(* Wrong variant: every lane below the vector length is executed. *)
ActiveIgnoringMask(u, inst) == Lanes(inst)

Active(u, inst) == {i \in Lanes(inst) : Has(inst, "pg") => i \in u.predicates[inst.pg]}

Traffic(inst, lanes, active) == IF Has(inst, "pg") THEN active * Size(inst) ELSE Packed(lanes)

(* describe_npu: the work announced to the environment at issue.           *)
Footprint(u, inst) ==
    LET lanes   == IF inst.vl > Capacity(inst) THEN 0 ELSE inst.vl
        active  == IF lanes = 0 THEN 0 ELSE Cardinality(Active(u, inst))
        traffic == Traffic(inst, lanes, active)
    IN  [lanes |-> lanes, active |-> active,
         reads |-> IF inst.op \in LoadOps \cup {"PLD"} THEN traffic ELSE 0,
         writes |-> IF inst.op \in StoreOps \cup {"PST"} THEN traffic ELSE 0]

(* Wrong variant: the peer type is forgotten. *)
GrantedByType(type, peer) == VectorBytes \div Width(type)

Granted(type, peer) == VectorBytes \div (IF Width(type) > Width(peer) THEN Width(type) ELSE Width(peer))

(* Wrong variant: lanes are visited from the last to the first. *)
VisitBackwards(inst, k) == inst.vl - k

Visit(inst, k) == k - 1

(* One pass over the active lanes, in the order of the code's loops.       *)
Pass(u, inst, first, Step(_, _)) ==
    LET after[k \in 0 .. inst.vl] ==
            IF k = 0 THEN first
            ELSE IF Visit(inst, k) \in Active(u, inst) THEN Step(after[k - 1], Visit(inst, k)) ELSE after[k - 1]
    IN  after[inst.vl]

-----------------------------------------------------------------------------
(* Predicates *)

Number(bits, n) ==
    LET sum[k \in 0 .. n] == IF k = 0 THEN 0 ELSE sum[k - 1] + IF k - 1 \in bits THEN 2 ^ (k - 1) ELSE 0
    IN  sum[n]

BitsOf(value, n) == {k \in 0 .. n - 1 : (value \div 2 ^ k) % 2 = 1}

While(inst) == {i \in Lanes(inst) : inst.base + i < inst.end}

MaskValue(u, inst, at) ==
    LET a == u.predicates[inst.pa]  b == u.predicates[inst.pb]
        loaded(i) == i % ByteBits \in BitsOf(u.scratchpad[at + i \div ByteBits], ByteBits)
    IN  CASE inst.op = "PTRUE"    -> Lanes(inst)
          [] inst.op = "PWHILELT" -> While(inst)
          [] inst.op = "PAND"     -> Lanes(inst) \cap a \cap b
          [] inst.op = "POR"      -> Lanes(inst) \cap (a \cup b)
          [] inst.op = "PXOR"     -> Lanes(inst) \cap ((a \ b) \cup (b \ a))
          [] inst.op = "PNOT"     -> Lanes(inst) \ a
          [] inst.op = "PLD"      -> {i \in Lanes(inst) : loaded(i)}

MakeMask(u, inst) ==
    LET address == LocalAddress(inst.base + inst.offset, Packed(inst.vl), FALSE, 1)
    IN  IF inst.op = "PLD" /\ inst.vl # 0 /\ address.kind = "fault" THEN Refuse(u, address)
        ELSE Finish([u EXCEPT !.predicates[inst.pd] = MaskValue(u, inst, address.at)])

QueryMask(u, inst) ==
    LET set == Lanes(inst) \cap u.predicates[inst.pa]
    IN  Return(u, IF inst.op = "PCOUNT" THEN Cardinality(set) ELSE IF set = {} THEN AddressSpace - 1 ELSE Least(set))

PackedByte(mask, n, length) ==
    Number({i \in 0 .. ByteBits - 1 : n * ByteBits + i \in mask /\ n * ByteBits + i < length}, ByteBits)

StoreMask(u, inst) ==
    LET address == LocalAddress(inst.base + inst.offset, Packed(inst.vl), TRUE, 1)
        byte(b) == IF b \in address.at .. address.at + Packed(inst.vl) - 1
                   THEN PackedByte(u.predicates[inst.pa], b - address.at, inst.vl) ELSE u.scratchpad[b]
    IN  IF inst.vl = 0 THEN Finish(u)
        ELSE IF address.kind = "fault" THEN Refuse(u, address)
        ELSE Finish([u EXCEPT !.scratchpad = [b \in DOMAIN @ |-> byte(b)]])

-----------------------------------------------------------------------------
(* Arithmetic; what f32 operands give is left to Float *)

Holds(op, a, b, type) ==
    LET x == Integer(a, type)  y == Integer(b, type)
    IN  IF type = "f32" THEN Float(op, <<a, b>>) = 1
        ELSE CASE op = "VCMPEQ" -> x = y [] op = "VCMPNE" -> x # y
               [] op = "VCMPLT" -> x < y [] op = "VCMPLE" -> x <= y

High(a, b, type) == (Integer(a, type) * Integer(b, type)) \div Modulus(type)

Arithmetic(op, a, b, c, type) ==
    LET n == Bits(type)
        shift == 2 ^ (b % n)
    IN  IF type = "f32" THEN Float(op, <<a, b, c>>)
        ELSE CASE op = "VMIN"  -> IF Holds("VCMPLT", a, b, type) THEN a ELSE b
               [] op = "VMAX"  -> IF Holds("VCMPLT", b, a, type) THEN a ELSE b
               [] op = "VADD"  -> WordOf(a + b)
               [] op = "VSUB"  -> WordOf(a - b)
               [] op = "VMUL"  -> WordOf(a * b)
               [] op = "VMULH" -> WordOf(High(a, b, type))
               [] op = "VAND"  -> Number(BitsOf(a, n) \cap BitsOf(b, n), n)
               [] op = "VOR"   -> Number(BitsOf(a, n) \cup BitsOf(b, n), n)
               [] op = "VXOR"  -> Number((BitsOf(a, n) \ BitsOf(b, n)) \cup (BitsOf(b, n) \ BitsOf(a, n)), n)
               [] op = "VSHL"  -> WordOf(a * shift)
               [] op = "VSHR"  -> a \div shift
               [] op = "VASHR" -> WordOf(Integer(a, type) \div shift)

Lowest(type)   == IF type \in Signed THEN -(Modulus(type) \div 2) ELSE 0
Greatest(type) == Lowest(type) + Modulus(type) - 1

(* Wrong variant: narrowing keeps the low bits. *)
Unclamped(v, type) == v

Clamped(v, type) == IF v < Lowest(type) THEN Lowest(type) ELSE IF v > Greatest(type) THEN Greatest(type) ELSE v

Convert(value, source, type, mode) ==
    IF "f32" \in {source, type} THEN Float("VCONVERT", <<value, source, type, mode>>)
    ELSE WordOf(Clamped(Integer(value, source), type))

-----------------------------------------------------------------------------
(* Lanes of registers and memory *)

Element(u, v, i, size) == ReadBytes(u.vectors[v], i * size, size)

Extended(u, inst, i) == WordOf(Integer(Element(u, inst.va, i, Size(inst)), inst.type))

Extract(u, inst) == IF inst.index >= inst.vl THEN Refuse(u, Invalid) ELSE Return(u, Extended(u, inst, inst.index))

Reduce(u, inst) ==
    LET type == IF inst.type = "f32" THEN inst.type ELSE IF inst.type \in Signed THEN "i32" ELSE "u32"
        op   == CASE inst.op = "VREDSUM" -> "VADD" [] inst.op = "VREDMIN" -> "VMIN" [] inst.op = "VREDMAX" -> "VMAX"
    IN  Return(u, Pass(u, inst, inst.seed, LAMBDA value, i : Arithmetic(op, value, Extended(u, inst, i), 0, type)))

(* A 64-bit sum in the code, which no operand can overflow.                *)
EffectiveAddress(u, inst, i) ==
    inst.base + inst.offset +
    (IF Has(inst, "indices") THEN Element(u, inst.indices, i, 4) * 2 ^ inst.scale
     ELSE IF Has(inst, "stride") THEN i * Integer(inst.stride, "i32")
     ELSE i * Size(inst))

(* The check of each active lane, in lane order.                           *)
Checks(u, inst) ==
    [k \in 1 .. inst.vl |->
        IF k - 1 \in Active(u, inst)
        THEN LocalAddress(EffectiveAddress(u, inst, k - 1), Size(inst), inst.op \in StoreOps, Size(inst))
        ELSE [kind |-> "none"]]

(* The scratchpad after the stores of the lanes that passed their checks.  *)
Stored(u, inst, checks) ==
    Pass(u, inst, u.scratchpad, LAMBDA memory, i :
        IF checks[i + 1].kind # "local" THEN memory
        ELSE WriteBytes(memory, checks[i + 1].at, Size(inst), Element(u, inst.va, i, Size(inst))))

(* Wrong variant: each lane is stored as soon as its own address is good.  *)
StoreLanesEagerly(u, inst) ==
    LET checks == Checks(u, inst)
        stored == [u EXCEPT !.scratchpad = Stored(u, inst, checks)]
    IN  IF FirstFault(checks) = << >> THEN Finish(stored) ELSE Refuse(stored, FirstFault(checks)[1])

StoreLanes(u, inst) ==
    LET checks == Checks(u, inst)
    IN  IF FirstFault(checks) # << >> THEN Refuse(u, FirstFault(checks)[1])
        ELSE Finish([u EXCEPT !.scratchpad = Stored(u, inst, checks)])

Compare(u, inst) ==
    LET lane(v, i) == Element(u, v, i, Size(inst))
    IN  Finish([u EXCEPT !.predicates[inst.pd] =
                  {i \in Active(u, inst) : Holds(inst.op, lane(inst.va, i), lane(inst.vb, i), inst.type)}])

LaneValue(u, inst, i, checks) ==
    LET lane(role) == IF Has(inst, role) THEN Element(u, inst[role], i, Size(inst)) ELSE 0
        index == Element(u, inst.indices, i, 4)
    IN  CASE inst.op \in LoadOps    -> ReadBytes(u.scratchpad, checks[i + 1].at, Size(inst))
          [] inst.op = "VCONVERT"   -> Convert(lane("va"), inst.type, inst.result_type, inst.rounding)
          [] inst.op = "VSELECT"    -> IF i \in u.predicates[inst.select] THEN lane("va") ELSE lane("vb")
          [] inst.op = "VBROADCAST" -> inst.value
          [] inst.op = "VPERMUTE"   -> IF index < inst.vl THEN Element(u, inst.va, index, Size(inst)) ELSE 0
          [] OTHER                  -> Arithmetic(inst.op, lane("va"), lane("vb"), lane("vc"), inst.type)

(* Wrong variant: lanes are read from the destination being written.       *)
SourcesInPlace(u, inst, written) == [u EXCEPT !.vectors[inst.vd] = written]

(* The registers a lane reads once "written" is the new destination so far. *)
Sources(u, inst, written) == u

(* A copy of the destination is cleared in its inactive lanes if so asked   *)
(* and in its tail, and written lane by lane.                               *)
Output(u, inst, checks) ==
    LET size == Width(IF inst.op = "VCONVERT" THEN inst.result_type ELSE inst.type)
        kept == [b \in AllLanes |-> IF inst.policy = "merge" /\ b < inst.vl * size THEN u.vectors[inst.vd][b] ELSE 0]
    IN  Pass(u, inst, kept, LAMBDA written, i :
            WriteBytes(written, i * size, size, LaneValue(Sources(u, inst, written), inst, i, checks)))

MakeVector(u, inst) ==
    LET checks == IF inst.op \in LoadOps THEN Checks(u, inst) ELSE << >>
    IN  IF FirstFault(checks) # << >> THEN Refuse(u, FirstFault(checks)[1])
        ELSE Finish([u EXCEPT !.vectors[inst.vd] = Output(u, inst, checks)])

-----------------------------------------------------------------------------
(* execute_npu, and programs of such instructions *)

SetLength(u, inst) == Return(u, Least({inst.avl, Granted(inst.type, inst.peer_type)}))

Execute(u, inst) ==
    IF inst.op = "VSETL" THEN SetLength(u, inst)
    ELSE IF inst.vl > Capacity(inst) THEN Refuse(u, Invalid)
    ELSE CASE inst.op \in MaskOps              -> MakeMask(u, inst)
           [] inst.op \in {"PCOUNT", "PFIRST"} -> QueryMask(u, inst)
           [] inst.op = "PST"                  -> StoreMask(u, inst)
           [] inst.op = "VEXTRACT"             -> Extract(u, inst)
           [] inst.op \in ReduceOps            -> Reduce(u, inst)
           [] inst.op \in StoreOps             -> StoreLanes(u, inst)
           [] inst.op \in CompareOps           -> Compare(u, inst)
           [] OTHER                            -> MakeVector(u, inst)

Init ==
    /\ unit \in InitialUnits
    /\ outcome = [kind |-> "none"] /\ executed = [op |-> "none"] /\ count = 0

ExecuteNpu(inst) ==
    LET result == Execute(unit, inst)
    IN  /\ count < MaxInstructions
        /\ unit' = result.unit /\ outcome' = result.outcome
        /\ executed' = inst /\ count' = count + 1

Next == \E inst \in Repertoire : ExecuteNpu(inst)

Spec == Init /\ [][Next]_vars

-----------------------------------------------------------------------------
(* Types: registers hold bytes and lanes, and a result is a word.  The code  *)
(* behind it is the truncation of write() and of the uint32_t results.      *)
TypeOK ==
    /\ unit \in Units
    /\ \/ outcome.kind \in {"none", "done"}
       \/ outcome.kind = "write" /\ outcome.value \in Addresses
       \/ outcome.kind = "fault" /\ outcome.cause \in {4, 5, 6, 7, 24} /\ outcome.value \in Addresses

(* An instruction does what program_machine::complete relies on: it faults   *)
(* leaving memory and registers as they were, or returns a scalar, or        *)
(* changes registers or the scratchpad but not both (ISA.md: all active      *)
(* addresses are checked before local effects).                             *)
Contract == INSTANCE NpuContract WITH Causes <- {4, 5, 6, 7, 24}, Words <- Addresses,
                scratchpad <- unit.scratchpad, local <- <<unit.vectors, unit.predicates>>

ImplementsContract == Contract!Spec

(* A register file with one more register, a copy of register r.           *)
WithCopy(file, r, spare) == [x \in DOMAIN file \cup {spare} |-> file[IF x = spare THEN r ELSE x]]

(* Whatever registers an instruction names twice, it computes what it would  *)
(* into a register of its own, started as a copy of the destination.        *)
ResultsComeApart ==
    LET i == executed'
        spare == -1
        apart(role, copies) == Execute(copies, [i EXCEPT ![role] = spare]).unit
    IN  /\ Has(i, "vd") =>
             unit'.vectors[i.vd] =
                 apart("vd", [unit EXCEPT !.vectors = WithCopy(@, i.vd, spare)]).vectors[spare]
        /\ Has(i, "pd") =>
             unit'.predicates[i.pd] =
                 apart("pd", [unit EXCEPT !.predicates = WithCopy(@, i.pd, spare)]).predicates[spare]

(* Sources and masks are captured before any destination write (execute_npu). *)
SourcesAreCaptured == [][ResultsComeApart]_vars

(* The lanes a mask selects, and a unit with every byte that only other       *)
(* lanes hold cleared.                                                       *)
Selected(u, i) == Lanes(i) \cap u.predicates[i.pg]

Quiet(u, i) ==
    LET read(b) == \/ b \div Size(i) \in Selected(u, i)
                   \/ Has(i, "indices") /\ b \div 4 \in Selected(u, i)
    IN  [u EXCEPT !.vectors = [v \in VectorRegisters |-> [b \in AllLanes |-> IF read(b) THEN u.vectors[v][b] ELSE 0]]]

(* What only inactive lanes hold bears neither on the outcome nor on the      *)
(* scratchpad.  (VPERMUTE's active lanes read the lanes they name.)          *)
QuietLanesAgree ==
    LET i == executed'
        quiet == Execute(Quiet(unit, i), i)
    IN  Has(i, "pg") /\ i.op # "VPERMUTE" =>
            outcome' = quiet.outcome /\ unit'.scratchpad = quiet.unit.scratchpad

(* No inactive lane accesses memory, faults or contributes to a reduction     *)
(* (the loops over active lanes of execute_npu).                             *)
InactiveLanesAreSilent == [][QuietLanesAgree]_vars

(* Addresses are judged in lane order: a faulting access faults alike when    *)
(* the vector ends at some lane, and not at all when it ends before it.      *)
FaultsNameTheFirstBadLane ==
    LET i == executed'
        upto(n) == Execute(unit, [i EXCEPT !.vl = n]).outcome
    IN  outcome'.kind = "fault" /\ outcome' # Invalid /\ Has(i, "pg") =>
            \E n \in Lanes(i) : upto(n + 1) = outcome' /\ upto(n).kind # "fault"

(* An access is judged by the sum itself, not by the word it would leave: it  *)
(* succeeds exactly when every active lane's element lies, aligned, in the    *)
(* bytes behind the scratchpad's region, however the address was formed.     *)
AccessesFitTheScratchpad ==
    LET i == executed'
    IN  i.op \in LoadOps \cup StoreOps /\ outcome' # Invalid =>
            (outcome' = Done) = (\A k \in Selected(unit, i) : Held(EffectiveAddress(unit, i, k), Size(i), i.op \in StoreOps))

(* Repeated store addresses resolve in increasing lane order: a byte of the   *)
(* scratchpad holds what the last active lane covering it stored.            *)
StoresResolveInLaneOrder ==
    LET i == executed'
        at(k) == LocalAddress(EffectiveAddress(unit, i, k), Size(i), TRUE, Size(i)).at
        writers(b) == {k \in Selected(unit, i) : b \in at(k) .. at(k) + Size(i) - 1}
        last(b) == CHOOSE k \in writers(b) : \A j \in writers(b) : j <= k
    IN  i.op \in StoreOps /\ outcome' = Done =>
            \A b \in DOMAIN unit.scratchpad :
                unit'.scratchpad[b] = IF writers(b) = {} THEN unit.scratchpad[b]
                                      ELSE unit.vectors[i.va][last(b) * Size(i) + b - at(last(b))]

(* The footprint announced at issue covers the work done at completion: no    *)
(* more bytes change than it announces, nothing is read when it announces no *)
(* read, and its lanes are bounded by the capacity.                          *)
FootprintCoversTraffic ==
    LET i == executed'
        f == Footprint(unit, i)
        blank == Execute([unit EXCEPT !.scratchpad = [b \in DOMAIN @ |-> 0]], i)
    IN  Has(i, "vl") =>
            /\ Cardinality({b \in DOMAIN unit.scratchpad : unit'.scratchpad[b] # unit.scratchpad[b]}) <= f.writes
            /\ f.reads = 0 => /\ blank.outcome = outcome'
                              /\ blank.unit.vectors = unit'.vectors /\ blank.unit.predicates = unit'.predicates
            /\ f.active <= f.lanes /\ f.lanes <= VectorBytes

(* A length granted by VSETL for two types is within the capacity of every    *)
(* instruction on those types (index vectors asked for as u32), and is not   *)
(* zero while elements remain, so a loop over it ends.                       *)
GrantedLengthsFit ==
    LET i == executed'
        types == {i.type, i.peer_type}
        uses(x) == {x[r] : r \in {"type", "result_type"} \cap DOMAIN x} \cup {"u32" : r \in {"indices"} \cap DOMAIN x}
    IN  i.op = "VSETL" =>
            /\ outcome'.value > 0 \/ i.avl = 0
            /\ \A x \in Repertoire : Has(x, "vl") /\ uses(x) \subseteq types => outcome'.value <= Capacity(x)

(* Carrying the seed across chunks preserves numeric order: a reduction is    *)
(* the reduction of its first lanes, continued over the others.              *)
ReductionsChain ==
    LET i == executed'
        first(k) == Execute(unit, [i EXCEPT !.vl = k]).outcome.value
        rest(k) == Execute([unit EXCEPT !.predicates[i.pg] = @ \ (0 .. k - 1)], [i EXCEPT !.seed = first(k)])
    IN  i.op \in ReduceOps /\ outcome'.kind = "write" => \A k \in 0 .. i.vl : rest(k).outcome = outcome'

(* A predicate stored in memory comes back, where it can be read, and the     *)
(* unused bits of its last byte are zero: loading whole bytes finds nothing   *)
(* past the vector length.                                                   *)
PackedMasksRoundTrip ==
    LET i == executed'
        load == [op |-> "PLD", pd |-> i.pa, base |-> i.base, offset |-> i.offset,
                 vl |-> Least({VectorBytes, Packed(i.vl) * ByteBits})]
    IN  i.op = "PST" /\ outcome' = Done /\ "read" \in Home.allowed =>
            Execute(unit', load).unit.predicates[i.pa] = unit.predicates[i.pa] \cap Lanes(i)

(* PWHILELT selects a prefix, the elements left before the end, even where    *)
(* the loop counter would wrap.                                              *)
WhileStopsAtTheEnd ==
    LET i == executed'
        left == IF i.base < i.end THEN i.end - i.base ELSE 0
    IN  i.op = "PWHILELT" /\ outcome' = Done =>
            unit'.predicates[i.pd] = 0 .. Least({i.vl, left}) - 1

(* VMULH and VMUL make the whole product, signed or not.                     *)
ProductsAreWhole ==
    LET i == executed'
        low == Execute(unit, [i EXCEPT !.op = "VMUL"]).unit
        value(u, v, k, type) == Integer(Element(u, v, k, Size(i)), type)
    IN  i.op = "VMULH" /\ outcome' = Done =>
            \A k \in Active(unit, i) :
                value(unit', i.vd, k, i.type) * Modulus(i.type) + Element(low, i.vd, k, Size(i))
                    = value(unit, i.va, k, i.type) * value(unit, i.vb, k, i.type)

(* Integer conversion yields the value of the destination type nearest to     *)
(* the source's: itself where it fits, the bound it passed otherwise.        *)
ConversionsAreNearest ==
    LET i == executed'
        from(k) == Integer(Element(unit, i.va, k, Size(i)), i.type)
        to(k) == Integer(Element(unit', i.vd, k, Width(i.result_type)), i.result_type)
        gap(x, y) == IF x < y THEN y - x ELSE x - y
    IN  i.op = "VCONVERT" /\ outcome' = Done /\ "f32" \notin {i.type, i.result_type} =>
            \A k \in Active(unit, i) : \A x \in Lowest(i.result_type) .. Greatest(i.result_type) :
                gap(to(k), from(k)) <= gap(x, from(k))

(* The accesses of an instruction are preflighted exactly: by the address     *)
(* itself, in lane order (the checks of execute_npu before its effects).     *)
AccessesAreExact == [][AccessesFitTheScratchpad /\ FaultsNameTheFirstBadLane]_vars

(* Lanes take effect in increasing order wherever the order shows: where      *)
(* stores overlap, and in reductions that do not associate.                  *)
LanesGoInOrder == [][StoresResolveInLaneOrder /\ ReductionsChain]_vars

(* Lanes are exact where a width runs out: in the bytes of a register, at the *)
(* end of a loop counter, in the high half of a product, past the range of a *)
(* narrower type and in the last byte of a packed predicate.                 *)
LanesAreExact == [][TypeOK' /\ WhileStopsAtTheEnd /\ ProductsAreWhole /\ ConversionsAreNearest /\ PackedMasksRoundTrip]_vars

(* Lengths computed apart agree: those granted with those accepted, and the   *)
(* work announced by describe_npu with the work execute_npu does.            *)
LengthsAgree == [][GrantedLengthsFit /\ FootprintCoversTraffic]_vars
=============================================================================
