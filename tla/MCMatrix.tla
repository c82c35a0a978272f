------------------------------ MODULE MCMatrix ------------------------------
(* Instances of MatrixUnit for TLC: bytes of two bits, so that words have      *)
(* eight, and tiles of up to three rows and columns and 16 bytes.             *)
EXTENDS MatrixUnit

(* The scratchpad at the bottom of the space, its region longer than the       *)
(* bytes behind it, and a system region next to it.                           *)
Layout == <<[base |-> 0, size |-> 12, target |-> "scratchpad", allowed |-> {"read", "write"}],
            [base |-> 12, size |-> 8, target |-> "system", allowed |-> {"read", "write"}]>>

(* Any function will do that tells its operands and their order apart.         *)
MCFloat(op, operands) == (operands[1] * 3 + operands[2] * 5 + operands[3] * 7 + 1) % 256

Filled(rows, cols, type, from) ==
    Tile(rows, cols, type, [e \in 0 .. rows * cols - 1 |-> (from + 37 * e) % Modulus(type)])

-----------------------------------------------------------------------------
(* Transfers: views of every shape and direction, in and out of range, and a   *)
(* tile of each shape to store.                                               *)

Shapes == {<<2, 2, "u8">>, <<3, 1, "i16">>, <<2, 2, "i16">>, <<1, 2, "i32">>, <<0, 3, "u8">>}

MViews == [op : {"MVIEW"}, view : {0}, base : {4}, rows : {2, 3}, cols : {0, 2, 4}, type : {"u8", "i32"},
           row_stride : {1, 254}, col_stride : {1}]

ViewedUnits ==
    {[views |-> (0 :> [valid |-> TRUE, base |-> base, rows |-> s[1], cols |-> s[2], type |-> s[3],
                       row_stride |-> r, col_stride |-> c]) @@ (1 :> Absent),
      tiles |-> (0 :> t) @@ (1 :> Absent) @@ (2 :> Absent),
      scratchpad |-> [b \in 0 .. 7 |-> (b * b + 1) % 4]] :
        s \in Shapes, base \in {0, 2, 4, 7, 252}, r \in {0, 1, 2, 3, -2}, c \in {0, 1, 2, 4, -1},
        t \in {Filled(2, 2, "u8", 1), Filled(3, 1, "i16", 3), Filled(2, 2, "i16", 9), Filled(1, 2, "i32", 201)}}

Transfers == [op : {"MLOAD"}, view : {0, 1}, td : {0, 1}] \cup [op : {"MSTORE"}, view : {0, 1}, ts : {0, 1}]

TransfersAndViews == Transfers \cup MViews

-----------------------------------------------------------------------------
(* Products: tiles of every shape that meets another, on every three registers. *)

Sources ==
    {Absent, Filled(2, 2, "i8", 1), Filled(2, 2, "u8", 2), Filled(2, 2, "i32", 250), Filled(2, 2, "f32", 11),
     Filled(3, 2, "i16", 5), Filled(2, 3, "u16", 7), Filled(3, 1, "u8", 3), Filled(0, 2, "u8", 0), Filled(2, 0, "i8", 0)}

Outputs == {Absent, Filled(2, 2, "i32", 250), Filled(2, 2, "f32", 11), Filled(3, 1, "u32", 30)}

TileUnits ==
    {[views |-> (0 :> Absent) @@ (1 :> Absent), tiles |-> (0 :> a) @@ (1 :> b) @@ (2 :> c), scratchpad |-> [at \in 0 .. 7 |-> 0]] :
        a \in Sources, b \in Sources, c \in Outputs}

Products ==
    [op : {"MDOT", "MMACC"}, type : {"i32", "u32", "f32"}, ta : {0, 1, 2}, tb : {0, 1, 2}, td : {0, 2}]

ProductsAndClears ==
    Products \cup [op : {"MCLEAR"}, td : {0}, type : {"u8", "i16", "i32"}, rows : {0, 2, 3, 200}, cols : {0, 1, 2, 3, 4}]

-----------------------------------------------------------------------------
(* Every instruction from every state. *)
AllUnits     == ViewedUnits \cup TileUnits
Instructions == TransfersAndViews \cup ProductsAndClears
=============================================================================
