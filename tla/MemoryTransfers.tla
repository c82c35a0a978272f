-------------------------- MODULE MemoryTransfers --------------------------
(***************************************************************************)
(* physical_map::read and write over the three bindings, for any sequence  *)
(* of calls: a map is created from a proposed table, then transfers copy   *)
(* bytes through the routes PhysicalMap computes.  The bindings are an     *)
(* argument of each call, so the system view may differ from call to call. *)
(***************************************************************************)
EXTENDS PhysicalMap

CONSTANTS
    Proposals,        \* The region tables offered to create, sequences.
    ProgramBytes,     \* Size of the program binding.
    ScratchpadBytes,  \* Size of the scratchpad binding.
    SystemBytes,      \* Size of the host memory under the system view.
    Views,            \* The system views a caller may bind: [base, length].
    AskedOfViews,     \* The [address, size] pairs range is checked for.
    Payloads,         \* The byte sequences a caller writes.
    Bytes             \* The byte values told apart.

ASSUME ViewsAssumption ==
    /\ Views \subseteq [base : 0 .. SystemSpace - 1, length : 0 .. SystemBytes]
    /\ AskedOfViews \subseteq [address : 0 .. SystemSpace - 1, size : Nat]

ASSUME TransfersAssumption ==
    /\ Proposals \subseteq Seq(Regions)
    /\ ProgramBytes \in Nat /\ ScratchpadBytes \in Nat /\ SystemBytes \in Nat
    /\ Payloads \subseteq Seq(Bytes)

VARIABLES
    map,     \* The validated map, << >> before a create succeeds.
    view,    \* The system view bound to the next transfer.
    memory,  \* The bound bytes, per storage.
    call     \* The last call and what it returned.

vars == <<map, view, memory, call>>

Backing == [program    |-> 0 .. ProgramBytes - 1,
            scratchpad |-> 0 .. ScratchpadBytes - 1,
            system     |-> 0 .. SystemBytes - 1]

-----------------------------------------------------------------------------
(* Wrong variant: local offsets ignored. *)
IndexFromBase(route, k) == IF route.storage = "system" THEN route.at - view.base + k ELSE k

(* The byte of a binding that the k-th byte of a route is, k from 0.       *)
Index(route, k) == IF route.storage = "system" THEN route.at - view.base + k ELSE route.at + k

(* The bounds check both transfers make against the bound spans.           *)
Backed(route) ==
    CASE route.storage = "program"    -> LocalRange(ProgramBytes, route.at, route.size)
      [] route.storage = "scratchpad" -> LocalRange(ScratchpadBytes, route.at, route.size)
      [] route.storage = "system"     -> ViewRange(view.base, view.length, route.at, route.size)

ReadRoute(address, size, kind) ==
    LET route == Resolve(map, address, size, kind)
    IN  IF kind = "write" THEN Failed("invalid_request")
        ELSE IF ~route.ok THEN route
        ELSE IF ~Backed(route) THEN Failed("backing_bounds")
        ELSE route

WriteRoute(address, size) ==
    LET route == Resolve(map, address, size, "write")
    IN  IF ~route.ok THEN route
        ELSE IF route.storage = "program" \/ ~Backed(route) THEN Failed("backing_bounds")
        ELSE route

(* The memory a write through route leaves; the copy is of whole bytes in order. *)
Copied(route, payload) ==
    [memory EXCEPT ![route.storage] =
        [i \in DOMAIN @ |-> IF \E k \in DOMAIN payload : i = Index(route, k - 1)
                            THEN payload[CHOOSE k \in DOMAIN payload : i = Index(route, k - 1)]
                            ELSE @[i]]]

-----------------------------------------------------------------------------
Init ==
    /\ map = << >>
    /\ view \in Views
    /\ \E b \in Bytes : memory = [s \in Storages |-> [i \in Backing[s] |-> b]]
    /\ call = [op |-> "none", ok |-> TRUE]

(* create is a factory: it is called once, and a failed one constructs nothing. *)
CreateMap(table) ==
    LET made == Create(table)
    IN  /\ call.op = "none"
        /\ map' = IF made.ok THEN made.map ELSE map
        /\ call' = [op |-> "create", ok |-> made.ok, table |-> table]
        /\ UNCHANGED <<view, memory>>

Read(address, size, kind) ==
    LET route == ReadRoute(address, size, kind)
    IN  /\ map # << >>
        /\ call' = IF route.ok
                   THEN [op |-> "read", ok |-> TRUE, address |-> address,
                         data |-> [k \in 1 .. size |-> memory[route.storage][Index(route, k - 1)]]]
                   ELSE [op |-> "read", ok |-> FALSE, error |-> route.error]
        /\ UNCHANGED <<map, view, memory>>

Write(address, payload) ==
    LET route == WriteRoute(address, Len(payload))
    IN  /\ map # << >>
        /\ memory' = IF route.ok THEN Copied(route, payload) ELSE memory
        /\ call' = IF route.ok
                   THEN [op |-> "write", ok |-> TRUE, address |-> address, data |-> payload]
                   ELSE [op |-> "write", ok |-> FALSE, error |-> route.error]
        /\ UNCHANGED <<map, view>>

(* The caller's next transfer comes with another view of the same memory. *)
Bind(next) ==
    /\ map # << >> /\ next # view
    /\ view' = next
    /\ call' = [op |-> "bind", ok |-> TRUE]
    /\ UNCHANGED <<map, memory>>

Sizes == 0 .. AddressSpace + 1

(* One call of a map that exists. *)
Transfer ==
    \/ \E address \in Addresses, size \in Sizes, kind \in AccessKinds : Read(address, size, kind)
    \/ \E address \in Addresses, payload \in Payloads : Write(address, payload)
    \/ \E next \in Views : Bind(next)

Next == (\E table \in Proposals : CreateMap(table)) \/ Transfer

Spec == Init /\ [][Next]_vars

-----------------------------------------------------------------------------
(* The reference: a table as sets of byte addresses, with no sorting, no   *)
(* first match and no offset arithmetic on the way.                        *)
Span(r) == r.base .. r.base + r.size - 1

ValidTable(table) ==
    /\ \A i \in DOMAIN table :
        /\ Span(table[i]) # {} /\ Span(table[i]) \subseteq Addresses
        /\ table[i].allowed # {}
        /\ table[i].target = "program" => "write" \notin table[i].allowed
        /\ table[i].target = "scratchpad" => "execute" \notin table[i].allowed
    /\ \A i, j \in DOMAIN table : i # j =>
        /\ Span(table[i]) \cap Span(table[j]) = {}
        /\ table[i].target = table[j].target => table[i].target = "system"

(* create accepts exactly the tables whose regions are non-empty, in range,*)
(* disjoint, sensibly permitted and with at most one region per local      *)
(* storage, whatever the order they are given in.                          *)
CreateAcceptsExactlyValidTables ==
    call.op = "create" => (call.ok <=> ValidTable(call.table))

(* resolve grants an access exactly when one region holds every byte of it *)
(* and allows its kind, and the route designates those bytes: a local      *)
(* offset counts from the region's base, a system address is itself.       *)
ResolveIsExact ==
    map # << >> =>
        \A address \in Addresses, size \in Sizes, kind \in AccessKinds :
            LET route == Resolve(map, address, size, kind)
                within(r) == address .. address + size - 1 \subseteq Span(r)
                granting == {i \in DOMAIN map : size > 0 /\ within(map[i]) /\ kind \in map[i].allowed}
            IN  /\ route.ok <=> granting # {}
                /\ \A i \in granting :
                    /\ route.storage = map[i].target
                    /\ IF map[i].target = "system" THEN route.at = address
                       ELSE map[i].base + route.at = address

(* The bound byte that physical address a denotes, by the table alone, and *)
(* the addresses that denote one.                                          *)
Place(r, a) == a - (IF r.target = "system" THEN view.base ELSE r.base)

ByteAt(a) ==
    LET r == map[CHOOSE i \in DOMAIN map : a \in Span(map[i])]
    IN  memory[r.target][Place(r, a)]

Bound(r) == {a \in Span(r) : Place(r, a) \in Backing[r.target]}

(* A successful read returned, and a successful write left behind, exactly *)
(* the bytes at the addresses it named: no transfer is shifted, truncated  *)
(* or crosses into a neighbouring region.                                  *)
TransferMatchesAddresses ==
    call.op \in {"read", "write"} /\ call.ok =>
        \A k \in DOMAIN call.data : ByteAt(call.address + k - 1) = call.data[k]

(* A view grants exactly the ranges that lie inside it, a view that runs   *)
(* past the last system address grants nothing, and no range wraps to the  *)
(* view's first bytes (system_memory_view::range).                         *)
ViewsGrantExactlyTheirBytes ==
    \A ask \in AskedOfViews :
        LET named == ask.address .. ask.address + ask.size - 1
            held  == view.base .. view.base + view.length - 1
        IN  ViewRange(view.base, view.length, ask.address, ask.size) <=>
                /\ held \subseteq 0 .. SystemSpace - 1
                /\ named \subseteq held
                /\ ask.address \in held \cup {view.base + view.length}

(* A byte changes only under a successful write that covers its address;   *)
(* the program store never changes through the map.                        *)
WritesStayInRange ==
    view' = view =>
        \A r \in {map[i] : i \in DOMAIN map} : \A a \in Bound(r) :
          ByteAt(a)' # ByteAt(a) =>
              /\ call'.op = "write" /\ call'.ok
              /\ a \in call'.address .. call'.address + Len(call'.data) - 1
              /\ r.target # "program"

(* Every route is exact: through the regions of the map and, between calls,  *)
(* through the view under them (physical_map::resolve and                   *)
(* system_memory_view::range, which each bound the same access).            *)
RoutesAreExact == ResolveIsExact /\ (call.op # "create" => ViewsGrantExactlyTheirBytes)

(* Every transfer is exact: it moves the bytes it names, all of them, and no *)
(* other byte changes in any storage (physical_map::read and write).        *)
TransfersAreExact == [][TransferMatchesAddresses' /\ WritesStayInRange]_vars
=============================================================================
