---------------------------- MODULE MemoryProofs ----------------------------
(***************************************************************************)
(* MemoryTransfers for every address space, table, view and transfer:      *)
(* create accepts exactly the valid tables, every route is exact and every *)
(* transfer moves exactly the bytes it names.                              *)
(***************************************************************************)
EXTENDS MemoryTransfers, MapProofs

-----------------------------------------------------------------------------
(* Spans *)

LEMMA SpanFacts ==
    ASSUME NEW r \in Regions
    PROVE  /\ r.base \in Nat /\ r.size \in Nat /\ r.base < AddressSpace
           /\ \A a : a \in Span(r) <=> a \in Int /\ r.base <= a /\ a < r.base + r.size
           /\ Span(r) # {} <=> r.size > 0
           /\ r.size > 0 => (Span(r) \subseteq Addresses <=> r.base + r.size <= AddressSpace)
<1>1. r.base \in Nat /\ r.size \in Nat /\ r.base < AddressSpace /\ AddressSpace \in Nat
  BY AddressSpaceAssumption DEF AddressSpaceAssumption, Regions, Addresses
<1>2. \A a : a \in Span(r) <=> a \in Int /\ r.base <= a /\ a < r.base + r.size
  BY <1>1 DEF Span
<1>3. Span(r) # {} <=> r.size > 0
  <2>1. r.size > 0 => r.base \in Span(r)
    BY <1>1, <1>2
  <2>2. r.size = 0 => Span(r) = {}
    BY <1>1, <1>2
  <2> QED
    BY <1>1, <2>1, <2>2
<1>4. ASSUME r.size > 0
      PROVE  Span(r) \subseteq Addresses <=> r.base + r.size <= AddressSpace
  <2> DEFINE last == r.base + r.size - 1
  <2>1. last \in Span(r) /\ last \in Int
    BY <1>1, <1>2, <1>4
  <2>2. last \in Addresses <=> r.base + r.size <= AddressSpace
    BY <1>1, <1>4 DEF Addresses
  <2>3. r.base + r.size <= AddressSpace => \A a \in Span(r) : a \in Addresses
    BY <1>1, <1>2 DEF Addresses
  <2> HIDE DEF last
  <2> QED
    BY <2>1, <2>2, <2>3
<1> QED
  BY <1>1, <1>2, <1>3, <1>4

LEMMA SpansApart ==
    ASSUME NEW r \in Regions, NEW s \in Regions, r.size > 0, s.size > 0, r.base <= s.base
    PROVE  Span(r) \cap Span(s) = {} <=> r.base + r.size <= s.base
<1>1. ASSUME ~(r.base + r.size <= s.base)
      PROVE  s.base \in Span(r) /\ s.base \in Span(s)
  BY <1>1, SpanFacts
<1>2. ASSUME r.base + r.size <= s.base, NEW a, a \in Span(r), a \in Span(s)
      PROVE  FALSE
  BY <1>2, SpanFacts
<1> QED
  BY <1>1, <1>2

LEMMA SpansDisjoint ==
    ASSUME NEW m, MapIsValid(m), NEW i \in DOMAIN m, NEW j \in DOMAIN m, i # j
    PROVE  Span(m[i]) \cap Span(m[j]) = {}
<1>1. m[i] \in Regions /\ m[j] \in Regions /\ m[i].size > 0 /\ m[j].size > 0
  BY RegionIsGood DEF GoodRegion
<1>2. i \in Int /\ j \in Int
  BY DEF MapIsValid
<1>3. CASE i < j
  <2>1. m[i].base + m[i].size <= m[j].base
    BY <1>3, RegionsAscend
  <2> QED
    BY <1>1, <2>1, SpanFacts, SpansApart
<1>4. CASE j < i
  <2>1. m[j].base + m[j].size <= m[i].base
    BY <1>4, RegionsAscend
  <2> QED
    BY <1>1, <2>1, SpanFacts, SpansApart
<1> QED
  BY <1>2, <1>3, <1>4

-----------------------------------------------------------------------------
(* create *)

LEMMA ValidMapIsValidTable ==
    ASSUME NEW m, MapIsValid(m)
    PROVE  ValidTable(m)
<1>1. ASSUME NEW i \in DOMAIN m
      PROVE  /\ Span(m[i]) # {} /\ Span(m[i]) \subseteq Addresses
             /\ m[i].allowed # {}
             /\ m[i].target = "program" => "write" \notin m[i].allowed
             /\ m[i].target = "scratchpad" => "execute" \notin m[i].allowed
  BY RegionIsGood, SpanFacts DEF GoodRegion
<1> QED
  BY <1>1, SpansDisjoint, LocalsAreUnique DEF ValidTable

LEMMA ValidTableIsValidMap ==
    ASSUME NEW m \in Seq(Regions), ValidTable(m),
           \A i, j \in DOMAIN m : i < j => m[i].base <= m[j].base
    PROVE  MapIsValid(m)
<1> SUFFICES ASSUME NEW i \in DOMAIN m
             PROVE  RegionError(m, i) = "none"
  BY DEF MapIsValid
<1>1. m[i] \in Regions /\ i \in Nat /\ i >= 1
  OBVIOUS
<1>2. m[i].base \in Nat /\ m[i].size \in Nat /\ AddressSpace \in Nat
  BY <1>1, SpanFacts, AddressSpaceAssumption DEF AddressSpaceAssumption
<1>3. m[i].size > 0 /\ m[i].base + m[i].size <= AddressSpace
  BY <1>1, SpanFacts DEF ValidTable
<1>4. ~(m[i].size = 0) /\ ~(m[i].size > AddressSpace - m[i].base)
  BY <1>2, <1>3
<1>5. ~(m[i].base < IF i = 1 THEN 0 ELSE m[i - 1].base + m[i - 1].size)
  <2>1. CASE i = 1
    BY <1>2, <2>1
  <2>2. CASE i # 1
    <3>1. i - 1 \in DOMAIN m /\ i - 1 < i /\ i - 1 # i
      BY <1>1, <2>2
    <3>2. m[i - 1] \in Regions /\ m[i - 1].size > 0 /\ m[i - 1].base <= m[i].base
      BY <3>1, SpanFacts DEF ValidTable
    <3>3. Span(m[i - 1]) \cap Span(m[i]) = {}
      BY <3>1 DEF ValidTable
    <3>4. m[i - 1].base + m[i - 1].size <= m[i].base
      BY <1>1, <1>3, <3>2, <3>3, SpansApart
    <3> QED
      BY <1>1, <2>2, <3>2, <3>4, SpanFacts
  <2> QED
    BY <2>1, <2>2
<1>6. /\ ~(m[i].allowed = {})
      /\ ~(m[i].target = "program" /\ "write" \in m[i].allowed)
      /\ ~(m[i].target = "scratchpad" /\ "execute" \in m[i].allowed)
  BY DEF ValidTable
<1>7. ~(m[i].target \in {"program", "scratchpad"} /\ \E j \in 1 .. i - 1 : m[j].target = m[i].target)
  <2> SUFFICES ASSUME NEW j \in 1 .. i - 1, m[j].target = m[i].target
               PROVE  m[i].target = "system"
    OBVIOUS
  <2>1. j \in DOMAIN m /\ j # i
    BY <1>1
  <2> QED
    BY <2>1 DEF ValidTable
<1> QED
  BY <1>4, <1>5, <1>6, <1>7 DEF RegionError

(* The order of a table decides nothing about its validity. *)
LEMMA ValidInAnyOrder ==
    ASSUME NEW table, NEW order \in [DOMAIN table -> DOMAIN table],
           \A i, j \in DOMAIN table : order[i] = order[j] => i = j,
           \A k \in DOMAIN table : \E i \in DOMAIN table : order[i] = k
    PROVE  ValidTable([i \in DOMAIN table |-> table[order[i]]]) <=> ValidTable(table)
<1> DEFINE sorted == [i \in DOMAIN table |-> table[order[i]]]
<1>1. DOMAIN sorted = DOMAIN table /\ \A i \in DOMAIN table : sorted[i] = table[order[i]] /\ order[i] \in DOMAIN table
  OBVIOUS
<1> HIDE DEF sorted
<1>2. ASSUME ValidTable(table) PROVE ValidTable(sorted)
  BY <1>1, <1>2 DEF ValidTable
<1>3. ASSUME ValidTable(sorted) PROVE ValidTable(table)
  <2>1. ASSUME NEW k \in DOMAIN table
        PROVE  /\ Span(table[k]) # {} /\ Span(table[k]) \subseteq Addresses
               /\ table[k].allowed # {}
               /\ table[k].target = "program" => "write" \notin table[k].allowed
               /\ table[k].target = "scratchpad" => "execute" \notin table[k].allowed
    <3>1. PICK i \in DOMAIN table : order[i] = k
      OBVIOUS
    <3> QED
      BY <1>1, <1>3, <3>1 DEF ValidTable
  <2>2. ASSUME NEW k \in DOMAIN table, NEW l \in DOMAIN table, k # l
        PROVE  /\ Span(table[k]) \cap Span(table[l]) = {}
               /\ table[k].target = table[l].target => table[k].target = "system"
    <3>1. PICK i \in DOMAIN table : order[i] = k
      OBVIOUS
    <3>2. PICK j \in DOMAIN table : order[j] = l
      OBVIOUS
    <3>3. i # j /\ sorted[i] = table[k] /\ sorted[j] = table[l]
      BY <1>1, <2>2, <3>1, <3>2
    <3> QED
      BY <1>1, <1>3, <3>3 DEF ValidTable
  <2> QED
    BY <2>1, <2>2 DEF ValidTable
<1> QED
  BY <1>2, <1>3 DEF sorted

(* create accepts a table exactly when it is valid, in whatever order its  *)
(* regions are given.                                                      *)
LEMMA CreateIsExact ==
    ASSUME NEW table \in Seq(Regions)
    PROVE  Create(table).ok <=> ValidTable(table)
<1> DEFINE sorted == SortByBase(table)
<1>1. PICK order : Rearranges(order, table)
  BY SortedTable
<1>2. sorted \in Seq(Regions) /\ sorted = [i \in DOMAIN table |-> table[order[i]]]
  BY <1>1, SortedTable DEF Rearranges
<1>3. ValidTable(sorted) <=> ValidTable(table)
  <2>1. DOMAIN [i \in DOMAIN table |-> table[i].base] = DOMAIN table
    OBVIOUS
  <2>2. /\ order \in [DOMAIN table -> DOMAIN table]
        /\ \A i, j \in DOMAIN table : order[i] = order[j] => i = j
        /\ \A k \in DOMAIN table : \E i \in DOMAIN table : order[i] = k
    BY <1>1, <2>1 DEF Rearranges, Ascends
  <2>3. ValidTable([i \in DOMAIN table |-> table[order[i]]]) <=> ValidTable(table)
    BY <2>2, ValidInAnyOrder
  <2> QED
    BY <1>2, <2>3
<1>4. \A i, j \in DOMAIN sorted : i < j => sorted[i].base <= sorted[j].base
  <2> DEFINE keys == [i \in DOMAIN table |-> table[i].base]
  <2>1. DOMAIN keys = DOMAIN table /\ \A i \in DOMAIN table : keys[i] = table[i].base
    OBVIOUS
  <2>2. Ascends(order, keys) /\ order \in [DOMAIN table -> DOMAIN table]
    BY <1>1 DEF Rearranges
  <2> HIDE DEF keys
  <2>3. \A i, j \in DOMAIN table : i < j => keys[order[i]] <= keys[order[j]]
    BY <2>1, <2>2 DEF Ascends
  <2>4. \A i \in DOMAIN table : order[i] \in DOMAIN table
    BY <2>2
  <2>5. \A i, j \in DOMAIN table : i < j => table[order[i]].base <= table[order[j]].base
    BY <2>1, <2>3, <2>4
  <2>6. DOMAIN sorted = DOMAIN table /\ \A i \in DOMAIN table : sorted[i] = table[order[i]]
    BY <1>2
  <2> HIDE DEF sorted
  <2> QED
    BY <2>5, <2>6
<1>5. Create(table).ok <=> \A i \in DOMAIN sorted : RegionError(sorted, i) = "none"
  <2> HIDE DEF sorted
  <2> QED
    BY DEF Create, Failed, sorted
<1> HIDE DEF sorted
<1>6. ASSUME Create(table).ok PROVE ValidTable(sorted)
  BY <1>2, <1>5, <1>6, ValidMapIsValidTable DEF MapIsValid
<1>7. ASSUME ValidTable(sorted) PROVE Create(table).ok
  BY <1>2, <1>4, <1>5, <1>7, ValidTableIsValidMap DEF MapIsValid
<1> QED
  BY <1>3, <1>6, <1>7

-----------------------------------------------------------------------------
(* resolve *)

LEMMA RoutesOfAValidMap ==
    ASSUME NEW m, MapIsValid(m), NEW address \in Addresses, NEW size \in Sizes, NEW kind \in AccessKinds
    PROVE  LET route == Resolve(m, address, size, kind)
               within(r) == address .. address + size - 1 \subseteq Span(r)
               granting == {i \in DOMAIN m : size > 0 /\ within(m[i]) /\ kind \in m[i].allowed}
           IN  /\ route.ok <=> granting # {}
               /\ \A i \in granting :
                   /\ route.storage = m[i].target
                   /\ IF m[i].target = "system" THEN route.at = address
                      ELSE m[i].base + route.at = address
<1> DEFINE route == Resolve(m, address, size, kind)
           within(r) == address .. address + size - 1 \subseteq Span(r)
           granting == {i \in DOMAIN m : size > 0 /\ within(m[i]) /\ kind \in m[i].allowed}
<1>1. address \in Int /\ size \in Nat
  BY AddressSpaceAssumption DEF AddressSpaceAssumption, Addresses, Sizes
<1>2. \A i \in DOMAIN m : m[i] \in Regions
  BY DEF MapIsValid
<1>3. ASSUME NEW i \in DOMAIN m, size > 0
      PROVE  within(m[i]) <=> address \in Span(m[i]) /\ address + size <= m[i].base + m[i].size
  <2>1. m[i].base \in Nat /\ m[i].size \in Nat
    BY <1>2, SpanFacts
  <2>2. address \in address .. address + size - 1 /\ address + size - 1 \in address .. address + size - 1
    BY <1>1, <1>3
  <2>3. ASSUME within(m[i]) PROVE address \in Span(m[i]) /\ address + size <= m[i].base + m[i].size
    <3>1. address \in Span(m[i]) /\ address + size - 1 \in Span(m[i])
      BY <2>2, <2>3
    <3> QED
      BY <1>1, <1>2, <2>1, <3>1, SpanFacts
  <2>4. ASSUME address \in Span(m[i]), address + size <= m[i].base + m[i].size,
               NEW a \in address .. address + size - 1
        PROVE  a \in Span(m[i])
    BY <1>1, <1>2, <2>1, <2>4, SpanFacts
  <2> QED
    BY <2>3, <2>4
<1>4. ASSUME NEW i \in granting
      PROVE  /\ route.ok /\ route.storage = m[i].target
             /\ IF m[i].target = "system" THEN route.at = address ELSE m[i].base + route.at = address
  <2>1. address \in Span(m[i]) /\ address + size <= m[i].base + m[i].size /\ size > 0 /\ kind \in m[i].allowed
    BY <1>3
  <2>2. route = [ok |-> TRUE, storage |-> m[i].target, size |-> size,
                 at |-> IF m[i].target = "system" THEN address ELSE address - m[i].base]
    <3>1. Contains(m[i], address)
      BY <1>1, <1>2, <2>1, SpanFacts DEF Contains
    <3> QED
      BY <1>1, <2>1, <3>1, ResolvedIn
  <2>3. m[i].base \in Nat
    BY <1>2, SpanFacts
  <2> HIDE DEF route
  <2> QED
    BY <1>1, <2>2, <2>3
<1>5. ASSUME route.ok PROVE granting # {}
  <2>1. PICK i \in DOMAIN m : RoutedBy(m[i], address, size, kind, route)
    BY <1>1, <1>5, RouteShape
  <2>2. m[i].base <= address /\ address + size <= m[i].base + m[i].size /\ kind \in m[i].allowed /\ size > 0
    BY <2>1 DEF RoutedBy
  <2>3. address \in Span(m[i])
    BY <1>1, <1>2, <2>2, SpanFacts
  <2>4. i \in granting
    BY <1>3, <2>2, <2>3
  <2> QED
    BY <2>4
<1> HIDE DEF route, granting
<1> QED
  BY <1>4, <1>5 DEF route, granting

-----------------------------------------------------------------------------
(* system_memory_view::range *)

LEMMA ViewIsExact ==
    ASSUME view \in Views, NEW ask \in AskedOfViews
    PROVE  LET named == ask.address .. ask.address + ask.size - 1
               held  == view.base .. view.base + view.length - 1
           IN  ViewRange(view.base, view.length, ask.address, ask.size) <=>
                   /\ held \subseteq 0 .. SystemSpace - 1
                   /\ named \subseteq held
                   /\ ask.address \in held \cup {view.base + view.length}
<1> DEFINE named == ask.address .. ask.address + ask.size - 1
           held  == view.base .. view.base + view.length - 1
<1>1. /\ view.base \in Nat /\ view.length \in Nat /\ ask.address \in Nat /\ ask.size \in Nat
      /\ view.base < SystemSpace /\ ask.address < SystemSpace /\ SystemSpace \in Int
  <2>1. SystemSpace \in Int
    BY AddressSpaceAssumption DEF AddressSpaceAssumption, SystemSpace
  <2> QED
    BY <2>1, ViewsAssumption, TransfersAssumption DEF ViewsAssumption, TransfersAssumption
<1>2. \A a, b, c, d \in Int : a .. b \subseteq c .. d <=> a > b \/ (c <= a /\ b <= d)
  <2> SUFFICES ASSUME NEW a \in Int, NEW b \in Int, NEW c \in Int, NEW d \in Int
               PROVE  a .. b \subseteq c .. d <=> a > b \/ (c <= a /\ b <= d)
    OBVIOUS
  <2>1. ASSUME a <= b, a .. b \subseteq c .. d PROVE c <= a /\ b <= d
    <3>1. a \in a .. b /\ b \in a .. b
      BY <2>1
    <3> QED
      BY <2>1, <3>1
  <2>2. ASSUME a > b \/ (c <= a /\ b <= d) PROVE a .. b \subseteq c .. d
    BY <2>2
  <2> QED
    BY <2>1, <2>2
<1>3. held \subseteq 0 .. SystemSpace - 1 <=> view.length = 0 \/ view.base + view.length <= SystemSpace
  <2>1. held \subseteq 0 .. SystemSpace - 1 <=>
          view.base > view.base + view.length - 1 \/ (0 <= view.base /\ view.base + view.length - 1 <= SystemSpace - 1)
    BY <1>1, <1>2
  <2> QED
    BY <1>1, <2>1
<1>4. named \subseteq held <=>
        ask.size = 0 \/ (view.base <= ask.address /\ ask.address + ask.size <= view.base + view.length)
  <2>1. named \subseteq held <=>
          \/ ask.address > ask.address + ask.size - 1
          \/ view.base <= ask.address /\ ask.address + ask.size - 1 <= view.base + view.length - 1
    BY <1>1, <1>2
  <2> QED
    BY <1>1, <2>1
<1>5. ask.address \in held \cup {view.base + view.length} <=>
        view.base <= ask.address /\ ask.address <= view.base + view.length
  BY <1>1
<1> HIDE DEF named, held
<1>6. ViewRange(view.base, view.length, ask.address, ask.size) <=>
        /\ held \subseteq 0 .. SystemSpace - 1
        /\ named \subseteq held
        /\ ask.address \in held \cup {view.base + view.length}
  BY <1>1, <1>3, <1>4, <1>5, SMTT(30) DEF ViewRange
<1> QED
  BY <1>6 DEF named, held

-----------------------------------------------------------------------------
(* The invariant *)

MapOK == map = << >> \/ MapIsValid(map)

MemoryOK == memory = [s \in Storages |-> memory[s]] /\ \A s \in Storages : memory[s] \in [Backing[s] -> Bytes]

(* Nothing is called before a map exists, and a map once made stays valid;  *)
(* the bindings keep their sizes.                                          *)
Inv ==
    /\ MapOK /\ MemoryOK /\ view \in Views
    /\ call.op = "none" => map = << >>
    /\ CreateAcceptsExactlyValidTables

LEMMA InitEstablishesInv == Init => Inv
<1> SUFFICES ASSUME Init PROVE Inv
  OBVIOUS
<1>1. PICK b \in Bytes : memory = [s \in Storages |-> [i \in Backing[s] |-> b]]
  BY DEF Init
<1>2. MemoryOK
  BY <1>1 DEF MemoryOK
<1>3. call.op = "none"
  BY DEF Init
<1> QED
  BY <1>2, <1>3 DEF Init, Inv, MapOK, CreateAcceptsExactlyValidTables

LEMMA CopyKeepsShape ==
    ASSUME MemoryOK, NEW route, NEW payload \in Seq(Bytes)
    PROVE  MemoryOK' \/ memory' # Copied(route, payload)
<1> SUFFICES ASSUME memory' = Copied(route, payload)
             PROVE  MemoryOK'
  OBVIOUS
<1> DEFINE hit(i) == \E k \in DOMAIN payload : i = Index(route, k - 1)
           chosen(i) == payload[CHOOSE k \in DOMAIN payload : i = Index(route, k - 1)]
<1>1. \A i : hit(i) => chosen(i) \in Bytes
  OBVIOUS
<1>2. ASSUME NEW s \in Storages
      PROVE  memory'[s] \in [Backing[s] -> Bytes]
  <2>1. memory[s] \in [Backing[s] -> Bytes]
    BY DEF MemoryOK
  <2>2. memory'[s] = memory[s] \/ memory'[s] = [i \in DOMAIN memory[s] |-> IF hit(i) THEN chosen(i) ELSE memory[s][i]]
    BY DEF Copied, MemoryOK
  <2> HIDE DEF hit, chosen
  <2> QED
    BY <1>1, <2>1, <2>2
<1>3. memory' = [s \in Storages |-> memory'[s]]
  BY DEF Copied, MemoryOK
<1> QED
  BY <1>2, <1>3 DEF MemoryOK, Backing

LEMMA CreateKeepsInv ==
    ASSUME Inv, NEW table \in Proposals, CreateMap(table)
    PROVE  Inv'
<1>1. table \in Seq(Regions)
  BY TransfersAssumption DEF TransfersAssumption
<1>2. map = << >>
  BY DEF Inv, CreateMap
<1>3. MapOK'
  BY <1>1, <1>2, CreatedMapIsValid DEF CreateMap, MapOK
<1>4. call' = [op |-> "create", ok |-> Create(table).ok, table |-> table]
  BY DEF CreateMap
<1>5. CreateAcceptsExactlyValidTables'
  <2>1. call'.ok = Create(table).ok /\ call'.table = table
    BY <1>4
  <2>2. Create(table).ok <=> ValidTable(table)
    BY <1>1, CreateIsExact
  <2>3. call'.ok <=> ValidTable(call'.table)
    BY <2>1, <2>2
  <2> QED
    BY <2>3 DEF CreateAcceptsExactlyValidTables
<1>6. MemoryOK' /\ view' \in Views
  BY DEF Inv, CreateMap, MemoryOK, Backing
<1> QED
  BY <1>3, <1>4, <1>5, <1>6 DEF Inv

LEMMA TransferKeepsInv ==
    ASSUME Inv, Transfer
    PROVE  Inv'
<1>1. ASSUME NEW address \in Addresses, NEW size \in Sizes, NEW kind \in AccessKinds, Read(address, size, kind)
      PROVE  Inv'
  <2>1. call'.op = "read"
    BY <1>1 DEF Read
  <2> QED
    BY <1>1, <2>1 DEF Inv, Read, MapOK, MemoryOK, Backing, CreateAcceptsExactlyValidTables
<1>2. ASSUME NEW address \in Addresses, NEW payload \in Payloads, Write(address, payload)
      PROVE  Inv'
  <2>1. call'.op = "write"
    BY <1>2 DEF Write
  <2>2. payload \in Seq(Bytes)
    BY TransfersAssumption DEF TransfersAssumption
  <2>3. MemoryOK'
    <3>1. CASE WriteRoute(address, Len(payload)).ok
      BY <1>2, <2>2, <3>1, CopyKeepsShape DEF Write, Inv
    <3>2. CASE ~WriteRoute(address, Len(payload)).ok
      BY <1>2, <3>2 DEF Write, Inv, MemoryOK, Backing
    <3> QED
      BY <3>1, <3>2
  <2> QED
    BY <1>2, <2>1, <2>3 DEF Inv, Write, MapOK, CreateAcceptsExactlyValidTables
<1>3. ASSUME NEW next \in Views, Bind(next)
      PROVE  Inv'
  <2>1. call'.op = "bind"
    BY <1>3 DEF Bind
  <2> QED
    BY <1>3, <2>1 DEF Inv, Bind, MapOK, MemoryOK, Backing, CreateAcceptsExactlyValidTables
<1> QED
  BY <1>1, <1>2, <1>3 DEF Transfer

LEMMA StutterKeepsInv ==
    ASSUME Inv, UNCHANGED vars
    PROVE  Inv'
BY DEF Inv, vars, MapOK, MemoryOK, Backing, CreateAcceptsExactlyValidTables, ValidTable, Span

LEMMA MemoryInv == Spec => []Inv
<1>1. Inv /\ [Next]_vars => Inv'
  BY CreateKeepsInv, TransferKeepsInv, StutterKeepsInv DEF Next
<1> QED
  BY InitEstablishesInv, <1>1, PTL DEF Spec

(* create accepts exactly the tables whose regions are non-empty, in range,*)
(* disjoint, sensibly permitted and with at most one region per local      *)
(* storage, whatever the order they are given in (physical_map::create).   *)
THEOREM CreateAcceptsHolds == Spec => []CreateAcceptsExactlyValidTables
<1>1. Inv => CreateAcceptsExactlyValidTables
  BY DEF Inv
<1> QED
  BY MemoryInv, <1>1, PTL

(* Every access is granted exactly when one region holds and allows it, and *)
(* the route designates its bytes; a view grants exactly the bytes it holds *)
(* (physical_map::resolve and system_memory_view::range).                  *)
THEOREM RoutesAreExactHolds == Spec => []RoutesAreExact
<1>1. Inv => ResolveIsExact
  <2>1. map # << >> /\ Inv => MapIsValid(map)
    BY DEF Inv, MapOK
  <2> QED
    BY <2>1, RoutesOfAValidMap DEF ResolveIsExact
<1>2. Inv => ViewsGrantExactlyTheirBytes
  BY ViewIsExact DEF Inv, ViewsGrantExactlyTheirBytes
<1>3. Inv => RoutesAreExact
  BY <1>1, <1>2 DEF RoutesAreExact
<1> QED
  BY MemoryInv, <1>3, PTL

-----------------------------------------------------------------------------
(* Transfers *)

LEMMA HolderIsUnique ==
    ASSUME NEW m, MapIsValid(m), NEW i \in DOMAIN m, NEW a \in Span(m[i])
    PROVE  (CHOOSE j \in DOMAIN m : a \in Span(m[j])) = i
<1>1. \A j \in DOMAIN m : a \in Span(m[j]) => j = i
  BY SpansDisjoint
<1> QED
  BY <1>1

LEMMA ViewIsPlaced ==
    ASSUME Inv
    PROVE  /\ view.base \in Nat /\ view.length \in Nat /\ view.length <= SystemBytes
           /\ ProgramBytes \in Nat /\ ScratchpadBytes \in Nat /\ SystemBytes \in Nat
<1>1. SystemSpace \in Int
  BY AddressSpaceAssumption DEF AddressSpaceAssumption, SystemSpace
<1> QED
  BY <1>1, ViewsAssumption, TransfersAssumption DEF ViewsAssumption, TransfersAssumption, Inv

(* The bytes of a granted and backed route are those of one region, each in *)
(* its place in the binding.                                               *)
Carries(i, address, size, route) ==
    /\ route.storage = map[i].target /\ route.at \in Int
    /\ \A k \in 1 .. size :
        /\ address + k - 1 \in Span(map[i])
        /\ Index(route, k - 1) = Place(map[i], address + k - 1)
        /\ Index(route, k - 1) \in Backing[route.storage]

LEMMA BackedRouteCarries ==
    ASSUME Inv, map # << >>, NEW address \in Addresses, NEW size \in Nat, NEW kind,
           Resolve(map, address, size, kind).ok, Backed(Resolve(map, address, size, kind))
    PROVE  \E i \in DOMAIN map : Carries(i, address, size, Resolve(map, address, size, kind))
<1> DEFINE route == Resolve(map, address, size, kind)
<1>1. MapIsValid(map)
  BY DEF Inv, MapOK
<1>2. address \in Int
  BY AddressSpaceAssumption DEF AddressSpaceAssumption, Addresses
<1>3. PICK i \in DOMAIN map : RoutedBy(map[i], address, size, kind, route)
  BY <1>1, <1>2, RouteShape
<1> HIDE DEF route
<1> DEFINE r == map[i]
<1>4. r \in Regions /\ r.base \in Nat /\ r.size \in Nat /\ r.target \in Storages
  <2>1. r \in Regions
    BY <1>1 DEF MapIsValid
  <2> QED
    BY <2>1, SpanFacts DEF Regions
<1>5. /\ r.base <= address /\ address + size <= r.base + r.size
      /\ route.storage = r.target /\ route.size = size
      /\ route.at = IF r.target = "system" THEN address ELSE address - r.base
  BY <1>3 DEF RoutedBy
<1> HIDE DEF r
<1>6. route.at \in Nat
  BY <1>2, <1>4, <1>5
<1>7. ASSUME NEW k \in 1 .. size
      PROVE  /\ address + k - 1 \in Span(r)
             /\ Index(route, k - 1) = Place(r, address + k - 1)
             /\ Index(route, k - 1) \in Backing[route.storage]
  <2>1. address + k - 1 \in Span(r)
    BY <1>2, <1>4, <1>5, SpanFacts
  <2>2. Index(route, k - 1) = Place(r, address + k - 1)
    BY <1>2, <1>4, <1>5, ViewIsPlaced DEF Index, Place
  <2>3. CASE route.storage = "program"
    <3>1. LocalRange(ProgramBytes, route.at, size)
      BY <1>5, <2>3 DEF Backed, route
    <3> QED
      BY <1>6, <2>1, <2>2, <2>3, <3>1, ViewIsPlaced DEF LocalRange, Index, Backing
  <2>4. CASE route.storage = "scratchpad"
    <3>1. LocalRange(ScratchpadBytes, route.at, size)
      BY <1>5, <2>4 DEF Backed, route
    <3> QED
      BY <1>6, <2>1, <2>2, <2>4, <3>1, ViewIsPlaced DEF LocalRange, Index, Backing
  <2>5. CASE route.storage = "system"
    <3>1. ViewRange(view.base, view.length, route.at, size)
      BY <1>5, <2>5 DEF Backed, route
    <3>2. view.base <= route.at /\ size <= view.length - (route.at - view.base)
      BY <3>1 DEF ViewRange
    <3> QED
      BY <1>6, <2>1, <2>2, <2>5, <3>2, ViewIsPlaced DEF Index, Backing
  <2> QED
    BY <1>4, <1>5, <2>3, <2>4, <2>5 DEF Storages
<1>8. map[i] = r
  BY DEF r
<1>9. route.storage = map[i].target /\ route.at \in Int
  BY <1>5, <1>6, <1>8
<1>10. \A k \in 1 .. size :
        /\ address + k - 1 \in Span(map[i])
        /\ Index(route, k - 1) = Place(map[i], address + k - 1)
        /\ Index(route, k - 1) \in Backing[route.storage]
  BY <1>7, <1>8
<1>11. Carries(i, address, size, route)
  BY <1>9, <1>10 DEF Carries
<1> QED
  BY <1>11 DEF route

LEMMA CopiedBytes ==
    ASSUME MemoryOK, view.base \in Nat, NEW payload \in Seq(Bytes), NEW route,
           route.storage \in Storages, route.at \in Int
    PROVE  /\ \A k \in DOMAIN payload :
                Index(route, k - 1) \in Backing[route.storage] =>
                    Copied(route, payload)[route.storage][Index(route, k - 1)] = payload[k]
           /\ \A s \in Storages : \A i \in Backing[s] :
                Copied(route, payload)[s][i] # memory[s][i] =>
                    s = route.storage /\ \E k \in DOMAIN payload : i = Index(route, k - 1)
<1> DEFINE hit(i) == \E k \in DOMAIN payload : i = Index(route, k - 1)
           chosen(i) == CHOOSE k \in DOMAIN payload : i = Index(route, k - 1)
<1>1. /\ Copied(route, payload)[route.storage] =
            [i \in Backing[route.storage] |-> IF hit(i) THEN payload[chosen(i)] ELSE memory[route.storage][i]]
      /\ \A s \in Storages : s # route.storage => Copied(route, payload)[s] = memory[s]
  BY DEF Copied, MemoryOK
<1>2. \A k \in DOMAIN payload : k \in Int
  OBVIOUS
<1>3. ASSUME NEW k \in DOMAIN payload
      PROVE  hit(Index(route, k - 1)) /\ chosen(Index(route, k - 1)) = k
  <2>1. \A l \in DOMAIN payload : Index(route, l - 1) = Index(route, k - 1) => l = k
    BY <1>2 DEF Index
  <2> QED
    BY <2>1
<1> HIDE DEF chosen
<1>4. ASSUME NEW k \in DOMAIN payload, Index(route, k - 1) \in Backing[route.storage]
      PROVE  Copied(route, payload)[route.storage][Index(route, k - 1)] = payload[k]
  <2> HIDE DEF hit
  <2> QED
    BY <1>1, <1>3, <1>4
<1>5. ASSUME NEW s \in Storages, NEW i \in Backing[s], Copied(route, payload)[s][i] # memory[s][i]
      PROVE  s = route.storage /\ hit(i)
  <2> HIDE DEF hit
  <2> QED
    BY <1>1, <1>5
<1> QED
  BY <1>4, <1>5

(* The byte at an address of a region, in the state a step leaves. *)
LEMMA ByteAfter ==
    ASSUME MapIsValid(map), map' = map, view' = view, NEW i \in DOMAIN map, NEW a \in Span(map[i])
    PROVE  ByteAt(a)' = memory'[map[i].target][Place(map[i], a)]
<1>1. (CHOOSE j \in DOMAIN map : a \in Span(map[j])) = i
  BY HolderIsUnique
<1>2. ByteAt(a)' = LET r == map[CHOOSE j \in DOMAIN map : a \in Span(map[j])] IN memory'[r.target][Place(r, a)]
  BY DEF ByteAt, Place, Span
<1> QED
  BY <1>1, <1>2

LEMMA ByteBefore ==
    ASSUME MapIsValid(map), NEW i \in DOMAIN map, NEW a \in Span(map[i])
    PROVE  ByteAt(a) = memory[map[i].target][Place(map[i], a)]
BY HolderIsUnique DEF ByteAt

-----------------------------------------------------------------------------
(* What each call moves *)

LEMMA ReadIsExact ==
    ASSUME Inv, NEW address \in Addresses, NEW size \in Sizes, NEW kind \in AccessKinds, Read(address, size, kind)
    PROVE  TransferMatchesAddresses' /\ WritesStayInRange
<1> DEFINE route == ReadRoute(address, size, kind)
<1>1. map # << >> /\ map' = map /\ view' = view /\ memory' = memory /\ MapIsValid(map) /\ size \in Nat
  BY AddressSpaceAssumption DEF AddressSpaceAssumption, Read, Inv, MapOK, Sizes
<1>2. WritesStayInRange
  <2>1. \A i \in DOMAIN map : \A a \in Span(map[i]) : ByteAt(a)' = ByteAt(a)
    BY <1>1, ByteAfter, ByteBefore
  <2> QED
    BY <1>1, <2>1 DEF WritesStayInRange, Bound
<1>3. CASE ~route.ok
  <2>1. call'.op = "read" /\ call'.ok = FALSE
    BY <1>3 DEF Read
  <2> QED
    BY <1>2, <2>1 DEF TransferMatchesAddresses
<1>4. CASE route.ok
  <2>1. /\ route = Resolve(map, address, size, kind) /\ Backed(Resolve(map, address, size, kind))
        /\ Resolve(map, address, size, kind).ok
    BY <1>4 DEF ReadRoute, Failed
  <2>2. PICK i \in DOMAIN map : Carries(i, address, size, route)
    BY <1>1, <2>1, BackedRouteCarries
  <2>3. call' = [op |-> "read", ok |-> TRUE, address |-> address,
                 data |-> [k \in 1 .. size |-> memory[route.storage][Index(route, k - 1)]]]
    BY <1>4 DEF Read
  <2> HIDE DEF route
  <2>4. ASSUME NEW k \in 1 .. size
        PROVE  ByteAt(address + k - 1)' = memory[route.storage][Index(route, k - 1)]
    BY <1>1, <2>2, ByteAfter DEF Carries
  <2>5. \A k \in 1 .. size : ByteAt(address + k - 1)' = call'.data[k]
    BY <2>3, <2>4
  <2>6. call'.address = address /\ DOMAIN call'.data = 1 .. size
    BY <2>3
  <2>7. TransferMatchesAddresses'
    BY <2>5, <2>6 DEF TransferMatchesAddresses
  <2> QED
    BY <1>2, <2>7
<1> QED
  BY <1>3, <1>4

LEMMA WriteIsExact ==
    ASSUME Inv, NEW address \in Addresses, NEW payload \in Payloads, Write(address, payload)
    PROVE  TransferMatchesAddresses' /\ WritesStayInRange
<1> DEFINE size == Len(payload)
           route == WriteRoute(address, size)
<1>1. map # << >> /\ map' = map /\ view' = view /\ MapIsValid(map)
  BY DEF Write, Inv, MapOK
<1>2. payload \in Seq(Bytes) /\ size \in Nat /\ DOMAIN payload = 1 .. size
  BY TransfersAssumption DEF TransfersAssumption
<1>3. CASE ~route.ok
  <2>1. call'.ok = FALSE /\ memory' = memory
    BY <1>3 DEF Write
  <2>2. \A i \in DOMAIN map : \A a \in Span(map[i]) : ByteAt(a)' = ByteAt(a)
    BY <1>1, <2>1, ByteAfter, ByteBefore
  <2>3. WritesStayInRange
    BY <1>1, <2>2 DEF WritesStayInRange, Bound
  <2> QED
    BY <2>1, <2>3 DEF TransferMatchesAddresses
<1>4. CASE route.ok
  <2>1. /\ route = Resolve(map, address, size, "write") /\ Backed(Resolve(map, address, size, "write"))
        /\ Resolve(map, address, size, "write").ok /\ route.storage # "program"
    BY <1>4 DEF WriteRoute, Failed
  <2>2. PICK i \in DOMAIN map : Carries(i, address, size, route)
    BY <1>1, <1>2, <2>1, BackedRouteCarries
  <2>3. /\ call' = [op |-> "write", ok |-> TRUE, address |-> address, data |-> payload]
        /\ memory' = Copied(route, payload)
    BY <1>4 DEF Write
  <2>4. map[i].target \in Storages /\ map[i].base \in Nat /\ address \in Int
    <3>1. map[i] \in Regions
      BY <1>1 DEF MapIsValid
    <3> QED
      BY <3>1, AddressSpaceAssumption DEF Regions, Addresses, AddressSpaceAssumption
  <2>5. /\ MemoryOK /\ view.base \in Nat /\ route.storage \in Storages /\ route.at \in Int
        /\ route.storage = map[i].target
    BY <2>2, <2>4, ViewIsPlaced DEF Inv, Carries
  <2> HIDE DEF route, size
  <2>6. TransferMatchesAddresses'
    <3>1. ASSUME NEW k \in 1 .. size
          PROVE  ByteAt(address + k - 1)' = payload[k]
      <4>1. address + k - 1 \in Span(map[i]) /\ Index(route, k - 1) \in Backing[route.storage]
            /\ Index(route, k - 1) = Place(map[i], address + k - 1)
        BY <2>2 DEF Carries
      <4>2. ByteAt(address + k - 1)' = memory'[map[i].target][Place(map[i], address + k - 1)]
        BY <1>1, <4>1, ByteAfter
      <4>3. Copied(route, payload)[route.storage][Index(route, k - 1)] = payload[k]
        <5>1. k \in DOMAIN payload
          BY <1>2
        <5>2. \A l \in DOMAIN payload :
                Index(route, l - 1) \in Backing[route.storage] =>
                    Copied(route, payload)[route.storage][Index(route, l - 1)] = payload[l]
          BY <1>2, <2>5, CopiedBytes
        <5> QED
          BY <4>1, <5>1, <5>2
      <4> QED
        BY <2>3, <2>5, <4>1, <4>2, <4>3
    <3>2. call'.address = address /\ call'.data = payload
      BY <2>3
    <3> QED
      BY <1>2, <3>1, <3>2 DEF TransferMatchesAddresses
  <2>7. ASSUME NEW j \in DOMAIN map, NEW a \in Bound(map[j]), ByteAt(a)' # ByteAt(a)
        PROVE  /\ call'.op = "write" /\ call'.ok
               /\ a \in call'.address .. call'.address + Len(call'.data) - 1
               /\ map[j].target # "program"
    <3>1. a \in Span(map[j]) /\ Place(map[j], a) \in Backing[map[j].target]
      BY DEF Bound
    <3>2. map[j] \in Regions /\ map[j].target \in Storages /\ map[j].base \in Nat /\ a \in Int
      <4>1. map[j] \in Regions
        BY <1>1 DEF MapIsValid
      <4> QED
        BY <3>1, <4>1, SpanFacts DEF Regions
    <3>3. Copied(route, payload)[map[j].target][Place(map[j], a)] # memory[map[j].target][Place(map[j], a)]
      BY <1>1, <2>3, <2>7, <3>1, ByteAfter, ByteBefore
    <3>4. map[j].target = route.storage /\ \E k \in DOMAIN payload : Place(map[j], a) = Index(route, k - 1)
      <4>1. \A st \in Storages : \A x \in Backing[st] :
              Copied(route, payload)[st][x] # memory[st][x] =>
                  st = route.storage /\ \E k \in DOMAIN payload : x = Index(route, k - 1)
        BY <1>2, <2>5, CopiedBytes
      <4> QED
        BY <3>1, <3>2, <3>3, <4>1
    <3>5. PICK k \in 1 .. size : Place(map[j], a) = Index(route, k - 1)
      BY <1>2, <3>4
    <3>6. Place(map[j], a) = Place(map[i], address + k - 1)
      BY <2>2, <3>5 DEF Carries
    <3>7. a = address + k - 1
      <4>0. k \in Int /\ a \in Int /\ address \in Int /\ view.base \in Int
            /\ map[i].base \in Int /\ map[i].target = map[j].target
        BY <1>2, <2>4, <2>5, <3>2, <3>4
      <4>1. CASE map[j].target = "system"
        BY <3>6, <4>0, <4>1 DEF Place
      <4>2. CASE map[j].target # "system"
        <5>1. j = i
          BY <1>1, <2>5, <3>4, <4>2, LocalsAreUnique
        <5> QED
          BY <3>6, <4>0, <4>2, <5>1 DEF Place
      <4> QED
        BY <4>1, <4>2
    <3>8. call'.op = "write" /\ call'.ok /\ call'.address = address /\ Len(call'.data) = size
      BY <2>3 DEF size
    <3> QED
      BY <1>2, <2>1, <2>4, <3>4, <3>7, <3>8 DEF size
  <2>8. WritesStayInRange
    BY <1>1, <2>7 DEF WritesStayInRange, Bound
  <2> QED
    BY <2>6, <2>8
<1> QED
  BY <1>3, <1>4

LEMMA StepIsExact ==
    ASSUME Inv, [Next]_vars
    PROVE  [TransferMatchesAddresses' /\ WritesStayInRange]_vars
<1>1. ASSUME NEW table \in Proposals, CreateMap(table)
      PROVE  TransferMatchesAddresses' /\ WritesStayInRange
  <2>1. map = << >> /\ call'.op = "create"
    BY <1>1 DEF CreateMap, Inv
  <2>2. {map[i] : i \in DOMAIN map} = {}
    BY <2>1
  <2> QED
    BY <2>1, <2>2 DEF TransferMatchesAddresses, WritesStayInRange
<1>2. ASSUME NEW next \in Views, Bind(next)
      PROVE  TransferMatchesAddresses' /\ WritesStayInRange
  <2>1. call'.op = "bind" /\ view' # view
    BY <1>2 DEF Bind
  <2> QED
    BY <2>1 DEF TransferMatchesAddresses, WritesStayInRange
<1> QED
  BY <1>1, <1>2, ReadIsExact, WriteIsExact DEF Next, Transfer

(* Every transfer moves the bytes it names, all of them and in order, and no *)
(* other byte of any storage changes (physical_map::read and write).        *)
THEOREM TransfersAreExactHolds == Spec => TransfersAreExact
BY MemoryInv, StepIsExact, PTL DEF Spec, TransfersAreExact
=============================================================================
