----------------------------- MODULE MatrixUnit -----------------------------
(***************************************************************************)
(* Matrix instructions: what execute_npu and describe_npu do for MVIEW,     *)
(* MCLEAR, MLOAD, MSTORE, MDOT and MMACC                                    *)
(* (src/sim/semantic/holon_npu_npu.cpp).                                    *)
(*                                                                         *)
(* As in VectorUnit an instruction is a record of its operands, those in    *)
(* scalar registers given by value.  A view describes where in memory a     *)
(* tile lies; a tile holds its elements row by row, from element 0.         *)
(***************************************************************************)
EXTENDS NpuData

CONSTANTS
    MatrixRows, MatrixCols, TileBytes,  \* machine_config
    ViewRegisters, TileRegisters,
    Repertoire,       \* The instructions offered.
    InitialUnits,     \* Views, tiles and scratchpad contents to start from.
    MaxInstructions   \* Bound on the length of a program.

VARIABLES
    unit,      \* views_, tiles_ and scratchpad_
    outcome,   \* What execute_npu returned.
    executed,  \* History: the last instruction.
    count      \* Instructions executed.

vars == <<unit, outcome, executed, count>>

(* Wrong variant: capacity is counted in elements. *)
FitsInElements(rows, cols, type) == rows <= MatrixRows /\ cols <= MatrixCols /\ rows * cols <= TileBytes

(* tile_shape_fits *)
Fits(rows, cols, type) == rows <= MatrixRows /\ cols <= MatrixCols /\ rows * cols * Width(type) <= TileBytes

Absent == [valid |-> FALSE, rows |-> 0, cols |-> 0, type |-> "i8"]

(* A register never written is Absent; every other holds a shape that fits. *)
IsShape(x) ==
    /\ x.valid /\ x.type \in Types
    /\ x.rows \in 0 .. MatrixRows /\ x.cols \in 0 .. MatrixCols /\ x.rows * x.cols * Width(x.type) <= TileBytes

IsView(x) ==
    \/ x = Absent
    \/ /\ DOMAIN x = {"valid", "base", "rows", "cols", "row_stride", "col_stride", "type"} /\ IsShape(x)
       /\ x.base \in Addresses /\ x.row_stride \in Int /\ x.col_stride \in Int

IsTile(x) ==
    \/ x = Absent
    \/ /\ DOMAIN x = {"valid", "rows", "cols", "type", "elements"} /\ IsShape(x)
       /\ x.elements \in [0 .. x.rows * x.cols - 1 -> Addresses]

(* What an instruction can name: registers, and words of scalar registers.  *)
IsInstruction(i) ==
    CASE i.op = "MVIEW"  -> /\ i.view \in ViewRegisters /\ i.type \in Types
                            /\ {i.base, i.rows, i.cols, i.row_stride, i.col_stride} \subseteq Addresses
      [] i.op = "MCLEAR" -> i.td \in TileRegisters /\ i.type \in Types /\ {i.rows, i.cols} \subseteq Addresses
      [] i.op = "MLOAD"  -> i.view \in ViewRegisters /\ i.td \in TileRegisters
      [] i.op = "MSTORE" -> i.view \in ViewRegisters /\ i.ts \in TileRegisters
      [] OTHER           -> /\ {"op", "type", "ta", "tb", "td"} \subseteq DOMAIN i
                            /\ i.op \in {"MDOT", "MMACC"} /\ i.type \in {"i32", "u32", "f32"}
                            /\ {i.ta, i.tb, i.td} \subseteq TileRegisters

ASSUME MatrixAssumption ==
    /\ MatrixRows \in Nat /\ MatrixCols \in Nat /\ TileBytes \in Nat /\ TileRegisters \subseteq Nat
    /\ MaxInstructions \in Nat
    /\ \A i \in Repertoire : IsInstruction(i)
    /\ \A u \in InitialUnits :
           /\ DOMAIN u = {"views", "tiles", "scratchpad"} /\ u.scratchpad \in Scratchpads
           /\ DOMAIN u.views = ViewRegisters /\ \A v \in ViewRegisters : IsView(u.views[v])
           /\ DOMAIN u.tiles = TileRegisters /\ \A t \in TileRegisters : IsTile(u.tiles[t])

-----------------------------------------------------------------------------
(* MVIEW and MCLEAR *)

SetView(u, inst) ==
    IF ~Fits(inst.rows, inst.cols, inst.type) THEN Refuse(u, Invalid)
    ELSE Finish([u EXCEPT !.views[inst.view] =
                   [valid |-> TRUE, base |-> inst.base, rows |-> inst.rows, cols |-> inst.cols, type |-> inst.type,
                    row_stride |-> Integer(inst.row_stride, "i32"), col_stride |-> Integer(inst.col_stride, "i32")]])

Tile(rows, cols, type, elements) ==
    [valid |-> TRUE, rows |-> rows, cols |-> cols, type |-> type, elements |-> elements]

ClearTile(u, inst) ==
    IF ~Fits(inst.rows, inst.cols, inst.type) THEN Refuse(u, Invalid)
    ELSE Finish([u EXCEPT !.tiles[inst.td] =
                   Tile(inst.rows, inst.cols, inst.type, [e \in 0 .. inst.rows * inst.cols - 1 |-> 0])])

-----------------------------------------------------------------------------
(* MLOAD and MSTORE: all elements are located before any is moved *)

(* Wrong variant: the two strides of the view are swapped. *)
TransposedAddress(v, e) == v.base + (e % v.cols) * v.row_stride + (e \div v.cols) * v.col_stride

(* A 64-bit sum in the code, which no view can overflow.                   *)
ElementAddress(v, e) == v.base + (e \div v.cols) * v.row_stride + (e % v.cols) * v.col_stride

(* The check of element e, in the position of the order it comes in.        *)
Checks(v, write) ==
    [k \in 1 .. v.rows * v.cols |-> LocalAddress(ElementAddress(v, k - 1), Width(v.type), write, Width(v.type))]

SameShape(x, y) == x.rows = y.rows /\ x.cols = y.cols /\ x.type = y.type

LoadTile(u, inst) ==
    LET v == u.views[inst.view]
        checks == Checks(v, FALSE)
        loaded == [e \in 0 .. v.rows * v.cols - 1 |-> ReadBytes(u.scratchpad, checks[e + 1].at, Width(v.type))]
    IN  IF ~v.valid THEN Refuse(u, Invalid)
        ELSE IF FirstFault(checks) # << >> THEN Refuse(u, FirstFault(checks)[1])
        ELSE Finish([u EXCEPT !.tiles[inst.td] = Tile(v.rows, v.cols, v.type, loaded)])

(* The scratchpad after the elements before the n-th that passed.           *)
Stored(u, v, tile, checks) ==
    LET after[n \in 0 .. v.rows * v.cols] ==
            IF n = 0 THEN u.scratchpad
            ELSE IF checks[n].kind # "local" THEN after[n - 1]
            ELSE WriteBytes(after[n - 1], checks[n].at, Width(v.type), tile.elements[n - 1])
    IN  after[v.rows * v.cols]

Storable(v, tile) == v.valid /\ tile.valid /\ SameShape(v, tile)

(* Wrong variant: each element is stored as soon as its own address is good. *)
StoreTileEagerly(u, inst) ==
    LET v == u.views[inst.view]
        checks == Checks(v, TRUE)
        stored == [u EXCEPT !.scratchpad = Stored(u, v, u.tiles[inst.ts], checks)]
    IN  IF ~Storable(v, u.tiles[inst.ts]) THEN Refuse(u, Invalid)
        ELSE IF FirstFault(checks) # << >> THEN Refuse(stored, FirstFault(checks)[1])
        ELSE Finish(stored)

StoreTile(u, inst) ==
    LET v == u.views[inst.view]
        checks == Checks(v, TRUE)
    IN  IF ~Storable(v, u.tiles[inst.ts]) THEN Refuse(u, Invalid)
        ELSE IF FirstFault(checks) # << >> THEN Refuse(u, FirstFault(checks)[1])
        ELSE Finish([u EXCEPT !.scratchpad = Stored(u, v, u.tiles[inst.ts], checks)])

-----------------------------------------------------------------------------
(* MDOT and MMACC *)

Inner(a, k) == k - 1

Accumulated(a, b, r, c, seed, type) ==
    LET x(k) == a.elements[r * a.cols + Inner(a, k)]
        y(k) == b.elements[Inner(a, k) * b.cols + c]
        sum[k \in 0 .. a.cols] ==
            IF k = 0 THEN seed
            ELSE IF type = "f32" THEN WordOf(Float("VFMA", <<x(k), y(k), sum[k - 1]>>))
            ELSE WordOf(sum[k - 1] + Integer(x(k), a.type) * Integer(y(k), b.type))
    IN  sum[a.cols]

(* Element e of the product, added to what the destination held if asked.  *)
ProductElement(u, inst, a, b, e) ==
    Accumulated(a, b, e \div b.cols, e % b.cols, IF inst.op = "MMACC" THEN u.tiles[inst.td].elements[e] ELSE 0, inst.type)

(* Wrong variant: elements are written to the destination as they come. *)
ProductInPlace(u, inst) ==
    LET a == u.tiles[inst.ta]  b == u.tiles[inst.tb]
        now(t, tile, partial) ==
            IF t # inst.td THEN tile
            ELSE [tile EXCEPT !.elements = [e \in DOMAIN @ |-> IF e \in DOMAIN partial THEN partial[e] ELSE @[e]]]
        after[n \in 0 .. a.rows * b.cols] ==
            IF n = 0 THEN << >>
            ELSE after[n - 1] @@ (n - 1 :> ProductElement(u, inst, now(inst.ta, a, after[n - 1]), now(inst.tb, b, after[n - 1]), n - 1))
    IN  after[a.rows * b.cols]

Product(u, inst) ==
    LET a == u.tiles[inst.ta]  b == u.tiles[inst.tb]
    IN  [e \in 0 .. a.rows * b.cols - 1 |-> ProductElement(u, inst, a, b, e)]

Multipliable(u, inst) ==
    LET a == u.tiles[inst.ta]  b == u.tiles[inst.tb]  old == u.tiles[inst.td]
    IN  /\ a.valid /\ b.valid /\ a.cols = b.rows /\ Fits(a.rows, b.cols, inst.type)
        /\ (a.type = "f32") = (inst.type = "f32") /\ (b.type = "f32") = (inst.type = "f32")
        /\ inst.op = "MMACC" => old.valid /\ old.rows = a.rows /\ old.cols = b.cols /\ old.type = inst.type

Multiply(u, inst) ==
    IF ~Multipliable(u, inst) THEN Refuse(u, Invalid)
    ELSE Finish([u EXCEPT !.tiles[inst.td] =
                   Tile(u.tiles[inst.ta].rows, u.tiles[inst.tb].cols, inst.type, Product(u, inst))])

-----------------------------------------------------------------------------
(* execute_npu, and programs of such instructions *)

Execute(u, inst) ==
    CASE inst.op = "MVIEW"  -> SetView(u, inst)
      [] inst.op = "MCLEAR" -> ClearTile(u, inst)
      [] inst.op = "MLOAD"  -> LoadTile(u, inst)
      [] inst.op = "MSTORE" -> StoreTile(u, inst)
      [] OTHER              -> Multiply(u, inst)

Nothing == [m |-> 0, n |-> 0, k |-> 0, reads |-> 0, writes |-> 0]

ClearFootprint(inst) ==
    IF Fits(inst.rows, inst.cols, inst.type) THEN [Nothing EXCEPT !.m = inst.rows, !.n = inst.cols] ELSE Nothing

(* describe_npu: the work announced to the environment at issue.           *)
Footprint(u, inst) ==
    LET v == u.views[inst.view]  a == u.tiles[inst.ta]  b == u.tiles[inst.tb]
        bytes == v.rows * v.cols * Width(v.type)
    IN  CASE inst.op = "MLOAD" /\ v.valid  -> [Nothing EXCEPT !.m = v.rows, !.n = v.cols, !.reads = bytes]
          [] inst.op = "MSTORE" /\ v.valid -> [Nothing EXCEPT !.m = v.rows, !.n = v.cols, !.writes = bytes]
          [] inst.op \in {"MDOT", "MMACC"} /\ a.valid /\ b.valid -> [Nothing EXCEPT !.m = a.rows, !.n = b.cols, !.k = a.cols]
          [] inst.op = "MCLEAR" -> ClearFootprint(inst)
          [] OTHER -> Nothing

Init ==
    /\ unit \in InitialUnits
    /\ outcome = [kind |-> "none"] /\ executed = [op |-> "none"] /\ count = 0

ExecuteNpu(inst) ==
    LET result == Execute(unit, inst)
    IN  /\ count < MaxInstructions
        /\ unit' = result.unit /\ outcome' = result.outcome
        /\ executed' = inst /\ count' = count + 1

Next == \E inst \in Repertoire : ExecuteNpu(inst)

Spec == Init /\ [][Next]_vars

-----------------------------------------------------------------------------
(* What every view and tile register holds fits the machine's capacities and  *)
(* has its elements in full: MLOAD, MSTORE and the products allocate and      *)
(* index by shapes that other instructions checked.                          *)
TilesFit ==
    /\ \A v \in ViewRegisters : unit.views[v] = Absent \/ IsShape(unit.views[v])
    /\ \A t \in TileRegisters :
           LET x == unit.tiles[t]
           IN  x = Absent \/ (IsShape(x) /\ DOMAIN x.elements = 0 .. x.rows * x.cols - 1)

(* An instruction does what program_machine::complete relies on: it faults   *)
(* leaving memory and registers as they were, or changes tiles or the         *)
(* scratchpad but not both (ISA.md: LOAD and STORE validate all active local  *)
(* addresses before effects).                                                *)
Contract == INSTANCE NpuContract WITH Causes <- {4, 5, 6, 7, 24}, Words <- Addresses,
                scratchpad <- unit.scratchpad, local <- <<unit.views, unit.tiles>>

ImplementsContract == Contract!Spec

(* A product is the product of the tiles as they were, the destination being  *)
(* a source or not: each element is, modulo 2^32, the sum over the inner      *)
(* dimension of the exact products, each operand signed by its own type.     *)
ProductsAreTrue ==
    LET i == executed'
        a == unit.tiles[i.ta]  b == unit.tiles[i.tb]  c == unit'.tiles[i.td]
        term(r, s, k) == Integer(a.elements[r * a.cols + k], a.type) * Integer(b.elements[k * b.cols + s], b.type)
        total(r, s) == LET sum[k \in 0 .. a.cols] == IF k = 0 THEN 0 ELSE sum[k - 1] + term(r, s, k - 1)
                       IN  sum[a.cols]
        old(e) == IF i.op = "MMACC" THEN unit.tiles[i.td].elements[e] ELSE 0
    IN  i.op \in {"MDOT", "MMACC"} /\ outcome' = Done /\ i.type # "f32" =>
            /\ c.rows = a.rows /\ c.cols = b.cols
            /\ \A r \in 0 .. a.rows - 1, s \in 0 .. b.cols - 1 :
                   c.elements[r * b.cols + s] = (old(r * b.cols + s) + total(r, s)) % Modulus("i32")

(* Accumulating over part of the inner dimension and then over the rest is    *)
(* accumulating over the whole of it, in f32 too, where the order of the      *)
(* additions shows.                                                          *)
AccumulationsChain ==
    LET i == executed'
        a == unit.tiles[i.ta]  b == unit.tiles[i.tb]
        columns(x, from, to) ==
            Tile(x.rows, to - from, x.type,
                 [e \in 0 .. x.rows * (to - from) - 1 |-> x.elements[(e \div (to - from)) * x.cols + from + (e % (to - from))]])
        rows(x, from, to) ==
            Tile(to - from, x.cols, x.type, [e \in 0 .. (to - from) * x.cols - 1 |-> x.elements[from * x.cols + e]])
        slice(u, from, to) == [u EXCEPT !.tiles = [t \in TileRegisters \cup {-1, -2} |->
                                   CASE t = -1 -> columns(a, from, to) [] t = -2 -> rows(b, from, to) [] OTHER -> @[t]]]
        first(k) == Execute(slice(unit, 0, k), [i EXCEPT !.ta = -1, !.tb = -2]).unit.tiles[i.td]
        rest(k) == Execute(slice([unit EXCEPT !.tiles[i.td] = first(k)], k, a.cols),
                           [i EXCEPT !.op = "MMACC", !.ta = -1, !.tb = -2])
    IN  i.op \in {"MDOT", "MMACC"} /\ outcome' = Done =>
            \A k \in 0 .. a.cols : rest(k).unit.tiles[i.td] = unit'.tiles[i.td]

(* The addresses of the elements of a view, row by row, by row and column.    *)
Place(v, e) == v.base + (e \div v.cols) * v.row_stride + (e % v.cols) * v.col_stride

(* A tile moves whole or not at all, whatever the signs of its strides: when  *)
(* every element lies, aligned, in the bytes behind the scratchpad's region,  *)
(* and otherwise the first that does not, row by row, is the one reported.   *)
AccessesFitTheScratchpad ==
    LET i == executed'
        v == unit.views[i.view]
        outside == {e \in 0 .. v.rows * v.cols - 1 : ~Held(Place(v, e), Width(v.type), i.op = "MSTORE")}
        worst == CHOOSE e \in outside : \A f \in outside : e <= f
    IN  i.op \in {"MLOAD", "MSTORE"} /\ outcome' # Invalid =>
            IF outside = {} THEN outcome' = Done
            ELSE outcome'.kind = "fault" /\ outcome'.value = Place(v, worst) % AddressSpace

(* Elements of a tile are where rows and strides say; where a stored view     *)
(* overlaps itself a byte holds what the last element in row-major order has  *)
(* there, so that loading the view again finds the last elements.            *)
TransfersAreInPlace ==
    LET i == executed'
        v == unit.views[i.view]
        tile == IF i.op = "MLOAD" THEN unit'.tiles[i.td] ELSE unit.tiles[i.ts]
        at(e) == Place(v, e) - Home.base
        covering(b) == {e \in 0 .. v.rows * v.cols - 1 : b \in at(e) .. at(e) + Width(v.type) - 1}
        last(b) == CHOOSE e \in covering(b) : \A f \in covering(b) : f <= e
        byte(e, b) == (tile.elements[e] \div ByteValues ^ (b - at(e))) % ByteValues
    IN  i.op \in {"MLOAD", "MSTORE"} /\ outcome' = Done =>
            \A b \in DOMAIN unit.scratchpad :
                IF i.op = "MLOAD" THEN \A e \in covering(b) : byte(e, b) = unit.scratchpad[b]
                ELSE unit'.scratchpad[b] = IF covering(b) = {} THEN unit.scratchpad[b] ELSE byte(last(b), b)

(* The footprint announced at issue is bounded by the machine's capacities,   *)
(* whatever the registers hold, and covers the work done at completion.      *)
FootprintCoversWork ==
    LET f == Footprint(unit, executed')
    IN  /\ f.m <= MatrixRows /\ f.n <= MatrixCols /\ f.k <= MatrixCols
        /\ f.reads <= TileBytes /\ f.writes <= TileBytes
        /\ f.writes >= Cardinality({b \in DOMAIN unit.scratchpad : unit'.scratchpad[b] # unit.scratchpad[b]})
        /\ \A t \in TileRegisters : unit'.tiles[t] # unit.tiles[t] =>
               f.m = unit'.tiles[t].rows /\ f.n = unit'.tiles[t].cols

(* Tiles move whole and in place or not at all, in either direction, through  *)
(* views of any stride (MLOAD, MSTORE).                                      *)
TransfersFollowTheView == [][AccessesFitTheScratchpad /\ TransfersAreInPlace]_vars

(* Products are exact in the word, taken in one order of the inner dimension, *)
(* and no more work than was announced (MDOT, MMACC, and describe_npu).      *)
ProductsAreExact == [][ProductsAreTrue /\ AccumulationsChain /\ FootprintCoversWork]_vars
=============================================================================
