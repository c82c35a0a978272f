------------------------------ MODULE MCMemory ------------------------------
(* An instance of MemoryTransfers for TLC: a map is created from every table   *)
(* of up to two regions, and transfers are made through one richer map.        *)
EXTENDS MemoryTransfers

Permissions == {{}, {"read", "write"}, {"read", "execute"}}

(* Bases and sizes at which two regions of a twelve-byte space are apart,     *)
(* touch, overlap by a byte, contain each other, end with the space or wrap.  *)
SmallRegions == [base : {0, 4, 5, 11}, size : {0, 1, 4, 5, 7, 8, 12}, target : Storages, allowed : Permissions]

(* One table, unsorted, with a program and a scratchpad region whose bindings *)
(* are shorter than the regions, adjacent to system regions the view covers   *)
(* only in part.                                                              *)
Layout ==
    <<[base |-> 8, size |-> 3, target |-> "system", allowed |-> {"read", "write", "execute"}],
      [base |-> 4, size |-> 3, target |-> "scratchpad", allowed |-> {"read", "write"}],
      [base |-> 1, size |-> 3, target |-> "program", allowed |-> {"read", "execute"}],
      [base |-> 7, size |-> 1, target |-> "system", allowed |-> {"read"}]>>

Tables == {<<r>> : r \in SmallRegions} \cup {<<r, s>> : r \in SmallRegions, s \in SmallRegions} \cup {Layout}

(* Views of a three-byte memory: at the regions, below them so that they    *)
(* cover less, and at the end of the 144 system addresses, where one runs   *)
(* past it.                                                                 *)
SomeViews == {[base |-> 7, length |-> 3], [base |-> 6, length |-> 3], [base |-> 141, length |-> 3],
              [base |-> 143, length |-> 3]}

AroundTheEnds == [address : (0 .. 12) \cup (138 .. 143), size : (0 .. 5) \cup {143, 144, 145}]

ShortPayloads == UNION {[1 .. n -> Bytes] : n \in 0 .. 3}

(* The guard, CreateMap's own, spares TLC the enumeration of the tables       *)
(* where it does not hold; a table other than the layout is the question.     *)
MCNext ==
    \/ call.op = "none" /\ \E table \in Proposals : CreateMap(table)
    \/ map = SortByBase(Layout) /\ Transfer

MCInit == Init /\ view = [base |-> 7, length |-> 3] /\ \A s \in Storages : \A i \in Backing[s] : memory[s][i] = 0

MCSpec == MCInit /\ [][MCNext]_vars
=============================================================================
