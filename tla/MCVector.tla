------------------------------ MODULE MCVector ------------------------------
(* Instances of VectorUnit for TLC: bytes of two bits, so that words have     *)
(* eight, and registers of eight bytes.                                       *)
EXTENDS VectorUnit

(* The scratchpad at the bottom of the space, its region longer than the      *)
(* bytes behind it, and a system region next to it.                           *)
Layout == <<[base |-> 12, size |-> 8, target |-> "system", allowed |-> {"read", "write"}],
            [base |-> 0, size |-> 12, target |-> "scratchpad", allowed |-> {"read", "write"}]>>

(* Any function will do that tells its operands and their order apart.        *)
MCFloat(op, operands) ==
    CASE op \in CompareOps -> IF operands[1] < operands[2] THEN 1 ELSE 0
      [] op = "VCONVERT"   -> (operands[1] * 3 + 1) % 256
      [] OTHER             -> (operands[1] * 3 + operands[2] * 5 + 1) % 256

-----------------------------------------------------------------------------
(* Memory: every way to form an address, in and out of range at either end.   *)

Ramp == [b \in 0 .. 7 |-> (b + 1 + b \div 4) % 4]

(* As indices of words: 1 and 0, so that lanes cross; or 1 and 1.             *)
IndexVectors == {[b \in 0 .. 7 |-> IF b = 0 THEN 1 ELSE 0], [b \in 0 .. 7 |-> IF b \in {0, 4} THEN 1 ELSE 0]}

MemoryUnits ==
    {[vectors |-> <<Ramp, v>>, predicates |-> <<p, 0 .. 7>>, scratchpad |-> [b \in 0 .. 7 |-> (b * b + 1) % 4]] :
        v \in IndexVectors, p \in {{}, {1}, {0, 2, 5}}}

Accesses(lengths, types, offsets) ==
    [vl : lengths, type : types, pg : {1, 2}, base : {0, 3, 254}, offset : offsets]

Strided(accesses) == {a @@ [stride |-> s] : a \in accesses, s \in {0, 1, 255}}
Indexed(accesses) == {a @@ [indices |-> 2, scale |-> k] : a \in accesses, k \in {0, 1}}

Loads(op, accesses)  == {[op |-> op, vd |-> d, policy |-> p] @@ a : d \in {1, 2}, p \in {"merge", "zero"}, a \in accesses}
Stores(op, accesses) == {[op |-> op, va |-> 1] @@ a : a \in accesses}

Plain == Accesses({0, 2, 3, 8, 9}, {"i8", "u16", "i32"}, {-2, 0, 2})
Few   == Accesses({1, 2}, {"u8", "i32"}, {-2, 0, 2})

MemoryRepertoire ==
    UNION {Loads("VLD", Plain), Loads("VLDS", Strided(Few)), Loads("VGATHER", Indexed(Few)),
           Stores("VST", Plain), Stores("VSTS", Strided(Plain)), Stores("VSCATTER", Indexed(Few)),
           [op : {"PLD"}, vl : {0, 3, 5, 8, 9}, base : {0, 5, 254}, offset : {-2, 0, 2}, pd : {1}],
           [op : {"PST"}, vl : {0, 3, 5, 8, 9}, base : {0, 5, 254}, offset : {-2, 0, 2}, pa : {1}]}

-----------------------------------------------------------------------------
(* Lanes: every operation, on every pair of sources and destinations.         *)

LaneUnits ==
    {[vectors |-> <<v, w>>, predicates |-> <<p, q>>, scratchpad |-> [b \in 0 .. 7 |-> 0]] :
        v \in {Ramp, [b \in 0 .. 7 |-> 3]}, w \in {[b \in 0 .. 7 |-> (3 - b) % 4], [b \in 0 .. 7 |-> IF b = 4 THEN 1 ELSE 0]},
        p \in {{0, 1, 3}, {1, 2}}, q \in {0 .. 7}}

Registers == {1, 2}

Binary(ops, types, policies) == [op : ops, type : types, vl : {1, 2, 4}, pg : {1}, policy : policies, vd : Registers,
                                 va : Registers, vb : Registers]

LaneRepertoire ==
    UNION {Binary({"VADD", "VSUB", "VMUL", "VMIN", "VMAX", "VAND", "VOR", "VXOR", "VSHL", "VSHR"},
                  {"i8", "u16"}, {"merge"}),
           Binary({"VASHR"}, {"i8", "i16"}, {"merge"}),
           Binary({"VMULH"}, {"i8", "u8", "i16", "u16"}, {"zero"}),
           [op : {"VSELECT"}, select : {2}, type : {"i16", "f32"}, vl : {1, 2, 4}, pg : {1}, policy : {"merge"},
            vd : Registers, va : Registers, vb : Registers],
           [op : {"VFMA"}, type : {"f32"}, vl : {2, 3}, pg : {1}, policy : {"zero"}, vd : {2}, va : Registers, vb : {1}, vc : {2}],
           [op : CompareOps, type : {"i8", "u16", "f32"}, vl : {1, 2, 4}, pg : {1}, pd : Registers, va : {1}, vb : {2}],
           [op : {"VBROADCAST"}, type : {"i8", "i32"}, vl : {2, 3}, pg : {1}, policy : {"merge", "zero"}, vd : {1}, value : {0, 255}],
           [op : {"VPERMUTE"}, type : {"u8", "u32"}, vl : {1, 2}, pg : Registers, policy : {"merge"}, vd : Registers,
            va : Registers, indices : Registers],
           [op : {"VCONVERT"}, type : {"i8", "u8", "i16", "u16", "f32"}, result_type : {"i8", "u8", "i16", "u16", "i32", "f32"},
            rounding : {"rne"}, vl : {1, 2, 4}, pg : {1}, policy : {"merge"}, vd : Registers, va : {1}],
           [op : ReduceOps, type : {"i8", "u16", "f32"}, vl : {0, 2, 4}, pg : Registers, va : {1}, seed : {0, 128, 255}],
           [op : {"VEXTRACT"}, type : {"i8", "u16"}, vl : {2, 4}, va : {1}, index : {0, 1, 3}],
           [op : {"VSETL"}, avl : {0, 1, 3, 255}, type : Types, peer_type : Types],
           [op : {"PTRUE"}, vl : {0, 3, 8, 9}, pd : Registers],
           [op : {"PWHILELT"}, vl : {0, 3, 8}, pd : {1}, base : {0, 250, 255}, end : {0, 2, 252, 255}],
           [op : {"PAND", "POR", "PXOR"}, vl : {3, 8}, pd : Registers, pa : {1}, pb : Registers],
           [op : {"PNOT"}, vl : {3, 8}, pd : Registers, pa : Registers],
           [op : {"PCOUNT", "PFIRST"}, vl : {0, 1, 3}, pa : Registers]}

(* Every instruction from every state: memory contents do not matter to most  *)
(* of them, but the registers' do.                                           *)
Instructions == MemoryRepertoire \cup LaneRepertoire
AllUnits == MemoryUnits \cup LaneUnits
=============================================================================
