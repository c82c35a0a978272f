---------------------------- MODULE PhysicalMap ----------------------------
(***************************************************************************)
(* The physical memory map of the simulator: validation of a region table, *)
(* routing of an access, and the transfers that copy through a route       *)
(* (src/sim/semantic/holon_npu_memory.hpp and .cpp).                       *)
(*                                                                         *)
(* The operators are pure, as physical_map's methods are, and Machine uses *)
(* them for every access.  A region table is a sequence of records         *)
(*   [base, size, target, allowed], allowed being the set of granted kinds *)
(* and every outcome is a record with a field "ok".                        *)
(***************************************************************************)
EXTENDS Integers, Sequences, FiniteSets, TLC

CONSTANT AddressSpace  \* Number of physical byte addresses, 2^32 in the code.

ASSUME AddressSpaceAssumption == AddressSpace \in Nat \ {0} /\ AddressSpace % 4 = 0

Storages    == {"program", "scratchpad", "system"}
AccessKinds == {"read", "write", "execute"}
Addresses   == 0 .. AddressSpace - 1
Regions     == [base : Addresses, size : Nat, target : Storages, allowed : SUBSET AccessKinds]

Failed(error) == [ok |-> FALSE, error |-> error]

-----------------------------------------------------------------------------
(* physical_map::create *)

(* Wrong variant: entries are checked in the order given. *)
Unsorted(table) == table

(* order puts a sequence of numbers in ascending order.                    *)
Ascends(order, keys) ==
    /\ \A i, j \in DOMAIN keys : order[i] = order[j] => i = j
    /\ \A k \in DOMAIN keys : \E i \in DOMAIN keys : order[i] = k
    /\ \A i, j \in DOMAIN keys : i < j => keys[order[i]] <= keys[order[j]]

(* The order ranges::sort leaves; of equal keys either may come first.     *)
SortingOrder(keys) == CHOOSE order \in [DOMAIN keys -> DOMAIN keys] : Ascends(order, keys)

SortByBase(table) ==
    LET order == SortingOrder([i \in DOMAIN table |-> table[i].base])
    IN  [i \in DOMAIN table |-> table[order[i]]]

(* What the loop body demands of entry i of the sorted table, given the    *)
(* entries before it.                                                      *)
RegionError(sorted, i) ==
    LET r == sorted[i]
        seen(target) == \E j \in 1 .. i - 1 : sorted[j].target = target
        \* "end", the limit the previous entry left.
        end == IF i = 1 THEN 0 ELSE sorted[i - 1].base + sorted[i - 1].size
    IN  CASE r.size = 0                      -> "empty_region"
          [] r.size > AddressSpace - r.base  -> "address_overflow"
          [] r.base < end                    -> "overlap"
          [] r.allowed = {}                  -> "invalid_permissions"
          [] r.target = "program" /\ "write" \in r.allowed -> "invalid_permissions"
          [] r.target = "scratchpad" /\ "execute" \in r.allowed -> "invalid_permissions"
          [] r.target \in {"program", "scratchpad"} /\ seen(r.target) -> "duplicate_local"
          [] OTHER -> "none"

Create(table) ==
    LET sorted == SortByBase(table)
        bad == {i \in DOMAIN sorted : RegionError(sorted, i) # "none"}
    IN  IF bad = {}
        THEN [ok |-> TRUE, map |-> sorted]
        ELSE Failed(RegionError(sorted, CHOOSE i \in bad : \A j \in bad : i <= j))

-----------------------------------------------------------------------------
(* physical_map::resolve *)

Contains(r, address) == address >= r.base /\ address - r.base < r.size

Resolve(map, address, size, kind) ==
    LET hits == {i \in DOMAIN map : Contains(map[i], address)}
        r == map[CHOOSE i \in hits : \A j \in hits : i <= j]
        offset == address - r.base
    IN  IF size = 0 THEN Failed("invalid_request")
        ELSE IF size > AddressSpace - address THEN Failed("address_overflow")
        ELSE IF hits = {} THEN Failed("unmapped")
        ELSE IF size > r.size - offset THEN Failed("unmapped")
        ELSE IF kind \notin r.allowed THEN Failed("permission")
        ELSE [ok |-> TRUE, storage |-> r.target, size |-> size,
              at |-> IF r.target = "system" THEN address ELSE offset]

-----------------------------------------------------------------------------
(* bindings and the transfers *)

(* A local binding holds the bytes at offsets 0..length-1 of its region.   *)
LocalRange(length, offset, size) == offset <= length /\ size <= length - offset

(* System addresses are 64 bits wide, twice a physical address's width.    *)
SystemSpace == AddressSpace * AddressSpace

(* Wrong variant: the end of a view may wrap to the start of the space. *)
ViewRangeWrapping(base, length, address, size) ==
    address >= base /\ address - base <= length /\ size <= length - (address - base)

(* system_memory_view::range of a view of "length" bytes at "base": neither *)
(* the view nor the range asked for may run past the last system address.   *)
ViewRange(base, length, address, size) ==
    /\ length > 0 => length - 1 <= SystemSpace - 1 - base
    /\ address >= base
    /\ size > 0 => size - 1 <= SystemSpace - 1 - address
    /\ address - base <= length /\ size <= length - (address - base)
=============================================================================
