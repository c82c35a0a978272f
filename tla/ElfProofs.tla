------------------------------ MODULE ElfProofs ------------------------------
(***************************************************************************)
(* ElfLoader for every file, map, view and store: what an accepted image   *)
(* is, that a load places all of it or nothing, and that parse accepts     *)
(* exactly the well-formed files.                                          *)
(***************************************************************************)
EXTENDS ElfLoader, MapProofs

-----------------------------------------------------------------------------
(* What a file's fields hold *)

LEMMA FileTypes ==
    ASSUME NEW file \in Files
    PROVE  /\ file.length \in Nat /\ file.phoff \in Nat /\ file.shoff \in Nat /\ file.shstr \in Nat
           /\ file.entry \in Addresses /\ file.entry \in Nat
           /\ Len(file.headers) \in Nat /\ DOMAIN file.headers = 1 .. Len(file.headers)
           /\ (file.headers = << >>) <=> Len(file.headers) = 0
           /\ Len(file.sections) \in Nat /\ DOMAIN file.sections = 1 .. Len(file.sections)
           /\ (file.sections = << >>) <=> Len(file.sections) = 0
           /\ \A i \in DOMAIN file.headers : IsHeader(file.headers[i])
           /\ \A i \in DOMAIN file.sections : IsSection(file.sections[i])
           /\ \A range \in DOMAIN file.profiles : IsProfile(file.profiles[range])
<1>1. IsFile(file)
  BY LoaderAssumption DEF LoaderAssumption
<1>2. /\ file.length \in Nat /\ file.phoff \in Nat /\ file.shoff \in Nat /\ file.shstr \in Nat
      /\ file.entry \in Addresses
  BY <1>1 DEF IsFile
<1>3. file.entry \in Nat
  BY <1>2, AddressSpaceAssumption DEF AddressSpaceAssumption, Addresses
<1>4. Len(file.headers) \in Nat /\ DOMAIN file.headers = 1 .. Len(file.headers)
      /\ ((file.headers = << >>) <=> Len(file.headers) = 0)
  <2>1. IsList(file.headers)
    BY <1>1 DEF IsFile
  <2> QED
    BY <2>1 DEF IsList
<1>5. Len(file.sections) \in Nat /\ DOMAIN file.sections = 1 .. Len(file.sections)
      /\ ((file.sections = << >>) <=> Len(file.sections) = 0)
  <2>1. IsList(file.sections)
    BY <1>1 DEF IsFile
  <2> QED
    BY <2>1 DEF IsList
<1>6. /\ \A i \in DOMAIN file.headers : IsHeader(file.headers[i])
      /\ \A i \in DOMAIN file.sections : IsSection(file.sections[i])
      /\ \A range \in DOMAIN file.profiles : IsProfile(file.profiles[range])
  BY <1>1 DEF IsFile
<1> QED
  BY <1>2, <1>3, <1>4, <1>5, <1>6

-----------------------------------------------------------------------------
(* Images *)

SegmentShapes == [address : Addresses, offset : Nat, file_size : Nat, memory_size : Nat,
                  allowed : SUBSET AccessKinds]

GoodSegment(s, length) ==
    /\ s \in SegmentShapes
    /\ s.memory_size > 0 /\ s.file_size <= s.memory_size
    /\ s.address + s.memory_size <= AddressSpace
    /\ s.offset + s.file_size <= length
    /\ s.allowed # {}

GoodImage(im) ==
    /\ im.entry \in Addresses /\ im.entry % 4 = 0 /\ im.length \in Nat
    /\ im.segments \in Seq(SegmentShapes)
    /\ \A k \in DOMAIN im.segments : GoodSegment(im.segments[k], im.length)
    /\ \A k \in DOMAIN im.segments :
        k > 1 => im.segments[k - 1].address + im.segments[k - 1].memory_size <= im.segments[k].address
    /\ \E k \in DOMAIN im.segments : HoldsEntry(im.segments[k], im.entry)

LEMMA InOrderExists ==
    ASSUME NEW n \in Nat, NEW positions \in SUBSET (1 .. n)
    PROVE  /\ Cardinality(positions) \in Nat
           /\ InOrder(positions) \in [1 .. Cardinality(positions) -> positions]
           /\ \A p \in positions : \E i \in 1 .. Cardinality(positions) : InOrder(positions)[i] = p
           /\ \A i, j \in 1 .. Cardinality(positions) : i < j => InOrder(positions)[i] < InOrder(positions)[j]
<1> DEFINE size == Cardinality(positions)
           Lists(f) == /\ \A p \in positions : \E i \in DOMAIN f : f[i] = p
                       /\ \A i, j \in DOMAIN f : i < j => f[i] < f[j]
<1>1. IsFiniteSet(positions)
  <2>1. IsFiniteSet(1 .. n)
    BY FS_Interval
  <2> QED
    BY <2>1, FS_Subset
<1>2. size \in Nat
  BY <1>1, FS_CardinalityType
<1>3. PICK any : any \in Bijection(1 .. size, positions)
  BY <1>1, FS_NatBijection, FS_CountingElements DEF ExistsBijection
<1>4. /\ any \in [1 .. size -> Nat] /\ any \in [1 .. size -> positions]
      /\ \A a, b \in 1 .. size : any[a] = any[b] => a = b
      /\ \A p \in positions : \E i \in 1 .. size : any[i] = p
  <2>1. /\ any \in [1 .. size -> positions]
        /\ \A a, b \in 1 .. size : any[a] = any[b] => a = b
        /\ \A p \in positions : \E i \in 1 .. size : any[i] = p
    <3> HIDE DEF size
    <3> QED
      BY <1>3 DEF Bijection, Injection, Surjection, IsInjective
  <2>2. \A p \in positions : p \in Nat
    OBVIOUS
  <2> HIDE DEF size
  <2> QED
    BY <2>1, <2>2
<1> HIDE DEF size
<1>5. PICK order \in [1 .. size -> 1 .. size] : Ascends(order, any)
  BY <1>2, <1>4, SortingOrderExists
<1> DEFINE f == [i \in 1 .. size |-> any[order[i]]]
<1>6. DOMAIN any = 1 .. size
  BY <1>4
<1>7. f \in [1 .. size -> positions]
  BY <1>4
<1>8. \A p \in positions : \E i \in 1 .. size : f[i] = p
  <2> SUFFICES ASSUME NEW p \in positions PROVE \E i \in 1 .. size : f[i] = p
    OBVIOUS
  <2>1. PICK k \in 1 .. size : any[k] = p
    BY <1>4
  <2>2. PICK i \in 1 .. size : order[i] = k
    BY <1>5, <1>6 DEF Ascends
  <2> QED
    BY <2>1, <2>2
<1>9. ASSUME NEW i \in 1 .. size, NEW j \in 1 .. size, i < j
      PROVE  f[i] < f[j]
  <2>1. any[order[i]] <= any[order[j]] /\ order[i] # order[j]
    <3>1. i \in Int /\ j \in Int /\ i # j
      BY <1>2, <1>9
    <3>2. \A a, b \in 1 .. size : order[a] = order[b] => a = b
      BY <1>5, <1>6 DEF Ascends
    <3>3. \A a, b \in 1 .. size : a < b => any[order[a]] <= any[order[b]]
      BY <1>5, <1>6 DEF Ascends
    <3> QED
      BY <1>9, <3>1, <3>2, <3>3
  <2>2. order[i] \in 1 .. size /\ order[j] \in 1 .. size
    OBVIOUS
  <2>3. any[order[i]] # any[order[j]] /\ any[order[i]] \in Nat /\ any[order[j]] \in Nat
    BY <1>4, <2>1, <2>2
  <2> QED
    BY <2>1, <2>3
<1>10. DOMAIN f = 1 .. size
  OBVIOUS
<1> HIDE DEF f
<1>11. Lists(f)
  BY <1>8, <1>9, <1>10
<1>12. InOrder(positions) = CHOOSE g \in [1 .. size -> positions] : Lists(g)
  BY DEF InOrder, size
<1> HIDE DEF Lists
<1>13. InOrder(positions) \in [1 .. size -> positions] /\ Lists(InOrder(positions))
  BY <1>7, <1>11, <1>12
<1>14. DOMAIN InOrder(positions) = 1 .. size
  BY <1>13
<1> QED
  BY <1>2, <1>13, <1>14 DEF size, Lists

SegmentOf(h) == [address |-> h.address, offset |-> h.offset, file_size |-> h.file_size,
                 memory_size |-> h.memory_size, allowed |-> h.flags]

(* A load header parse has passed over describes a good segment. *)
LEMMA CheckedLoadIsGood ==
    ASSUME NEW file \in Files, NEW i \in DOMAIN file.headers,
           file.headers[i].type = "load", file.headers[i].memory_size # 0,
           ProgramHeaderError(file, i) = "none"
    PROVE  GoodSegment(SegmentOf(file.headers[i]), file.length)
<1> DEFINE h == file.headers[i]
<1>1. /\ h.address \in Addresses /\ h.offset \in Nat /\ h.file_size \in Nat /\ h.memory_size \in Nat
      /\ file.length \in Nat /\ h.address \in Nat /\ AddressSpace \in Nat
  <2>1. h.address \in Addresses /\ {h.offset, h.file_size, h.memory_size} \subseteq Nat /\ file.length \in Nat
    BY FileTypes DEF IsHeader
  <2> QED
    BY <2>1, AddressSpaceAssumption DEF AddressSpaceAssumption, Addresses
<1>2. Fits(file.length, h.offset, h.file_size) /\ LoadError(h) = "none"
  <2>1. h.type = "load"
    OBVIOUS
  <2>2. ProgramHeaderError(file, i) = IF ~Fits(file.length, h.offset, h.file_size) THEN "truncated" ELSE LoadError(h)
    BY <2>1 DEF ProgramHeaderError
  <2> QED
    BY <2>2
<1>3. /\ ~(h.file_size > h.memory_size) /\ ~(h.memory_size > AddressSpace - h.address)
      /\ h.flags # {} /\ h.flags \subseteq AccessKinds
  BY <1>2 DEF LoadError
<1> DEFINE s == SegmentOf(h)
<1>4. /\ s.address = h.address /\ s.offset = h.offset /\ s.file_size = h.file_size
      /\ s.memory_size = h.memory_size /\ s.allowed = h.flags
  BY DEF SegmentOf
<1>5. s \in SegmentShapes
  BY <1>1, <1>3 DEF SegmentOf, SegmentShapes
<1>6. h.memory_size # 0
  OBVIOUS
<1> HIDE DEF s, h
<1>7. GoodSegment(s, file.length)
  BY <1>1, <1>2, <1>3, <1>4, <1>5, <1>6 DEF GoodSegment, Fits
<1> QED
  BY <1>7 DEF s, h

(* Sorting rearranges the segments: each place holds one of them, each of   *)
(* them has one place, and addresses ascend.                               *)
Permutes(order, n) ==
    /\ order \in [1 .. n -> 1 .. n]
    /\ \A i, j \in 1 .. n : order[i] = order[j] => i = j
    /\ \A k \in 1 .. n : \E i \in 1 .. n : order[i] = k

LEMMA SortingPermutes ==
    ASSUME NEW n \in Nat, NEW plain \in [1 .. n -> SegmentShapes]
    PROVE  \E order : /\ Permutes(order, n)
                      /\ SortByAddress(plain) = [i \in 1 .. n |-> plain[order[i]]]
                      /\ \A i, j \in 1 .. n : i < j => plain[order[i]].address <= plain[order[j]].address
<1> DEFINE keys == [i \in DOMAIN plain |-> plain[i].address]
           order == SortingOrder(keys)
<1>1. DOMAIN plain = 1 .. n /\ DOMAIN keys = 1 .. n /\ \A i \in 1 .. n : keys[i] = plain[i].address
  OBVIOUS
<1>2. keys \in [1 .. n -> Nat]
  <2>1. \A i \in 1 .. n : plain[i].address \in Nat
    BY AddressSpaceAssumption DEF AddressSpaceAssumption, SegmentShapes, Addresses
  <2> QED
    BY <1>1, <2>1
<1>3. SortByAddress(plain) = [i \in 1 .. n |-> plain[order[i]]]
  BY <1>1 DEF SortByAddress
<1> HIDE DEF keys
<1>4. order \in [1 .. n -> 1 .. n] /\ Ascends(order, keys)
  <2>1. \E o \in [DOMAIN keys -> DOMAIN keys] : Ascends(o, keys)
    BY <1>1, <1>2, SortingOrderExists
  <2>2. order \in [DOMAIN keys -> DOMAIN keys] /\ Ascends(order, keys)
    BY <2>1 DEF SortingOrder
  <2> QED
    BY <1>1, <2>2
<1> HIDE DEF order
<1>5. Permutes(order, n)
  BY <1>1, <1>4 DEF Ascends, Permutes
<1>6. \A i, j \in 1 .. n : i < j => plain[order[i]].address <= plain[order[j]].address
  <2>1. \A i, j \in 1 .. n : i < j => keys[order[i]] <= keys[order[j]]
    BY <1>1, <1>4 DEF Ascends
  <2>2. \A i \in 1 .. n : order[i] \in 1 .. n
    BY <1>4
  <2> QED
    BY <1>1, <2>1, <2>2
<1> QED
  BY <1>3, <1>5, <1>6

LEMMA SortedSegments ==
    ASSUME NEW n \in Nat, NEW plain \in [1 .. n -> SegmentShapes]
    PROVE  /\ SortByAddress(plain) \in Seq(SegmentShapes)
           /\ DOMAIN SortByAddress(plain) = 1 .. n
           /\ \A k \in 1 .. n : \E i \in 1 .. n : SortByAddress(plain)[k] = plain[i]
<1>1. PICK order : Permutes(order, n) /\ SortByAddress(plain) = [i \in 1 .. n |-> plain[order[i]]]
  BY SortingPermutes
<1>2. \A i \in 1 .. n : order[i] \in 1 .. n /\ plain[order[i]] \in SegmentShapes
  BY <1>1 DEF Permutes
<1>3. SortByAddress(plain) \in Seq(SegmentShapes)
  BY <1>1, <1>2
<1> QED
  BY <1>1, <1>2, <1>3

LEMMA ParsedImageIsGood ==
    ASSUME NEW file \in Files, Parse(file).ok
    PROVE  GoodImage(Parse(file).image)
<1> DEFINE hs == file.headers
           n == Len(hs)
           im == Parse(file).image
           positions == {i \in DOMAIN hs : hs[i].type = "load" /\ hs[i].memory_size # 0}
           loads == InOrder(positions)
           plain == [i \in DOMAIN loads |-> SegmentOf(hs[loads[i]])]
<1>1. n \in Nat /\ DOMAIN hs = 1 .. n
  BY FileTypes
<1>2. /\ FirstError(LAMBDA i : ProgramHeaderError(file, i), Len(file.headers)) = "none"
      /\ PlanError(Segments(file), file.entry) = "none"
      /\ im = [entry |-> file.entry, segments |-> Segments(file), length |-> file.length]
  BY DEF Parse, Failed
<1>3. \A i \in 1 .. n : ProgramHeaderError(file, i) = "none"
  <2> DEFINE bad == {i \in 1 .. n : ProgramHeaderError(file, i) # "none"}
  <2>1. (IF bad = {} THEN "none" ELSE ProgramHeaderError(file, CHOOSE i \in bad : \A j \in bad : i <= j)) = "none"
    BY <1>2 DEF FirstError
  <2>2. CASE bad = {}
    BY <2>2
  <2>3. CASE bad # {}
    <3>1. bad \in SUBSET Nat
      BY <1>1
    <3>2. (CHOOSE i \in bad : \A j \in bad : i <= j) \in bad
      <4> HIDE DEF bad
      <4> QED
        BY <2>3, <3>1, LeastExists
    <3> QED
      BY <2>1, <2>3, <3>2
  <2> QED
    BY <2>2, <2>3
<1>4. /\ Cardinality(positions) \in Nat /\ loads \in [1 .. Cardinality(positions) -> positions]
  BY <1>1, InOrderExists
<1>5. \A p \in positions : GoodSegment(SegmentOf(hs[p]), file.length)
  BY <1>1, <1>3, CheckedLoadIsGood
<1>6. Segments(file) = SortByAddress(plain)
  BY DEF Segments, SegmentOf
<1> DEFINE c == Cardinality(positions)
<1> HIDE DEF positions, loads, c
<1>7. DOMAIN plain = 1 .. c /\ \A i \in 1 .. c : plain[i] = SegmentOf(hs[loads[i]]) /\ loads[i] \in positions
  BY <1>4 DEF c
<1>8. \A i \in 1 .. c : GoodSegment(plain[i], file.length)
  <2> HIDE DEF plain, hs
  <2> QED
    BY <1>5, <1>7
<1>9. plain \in [1 .. c -> SegmentShapes]
  <2>1. plain = [i \in 1 .. c |-> plain[i]]
    BY <1>7
  <2> HIDE DEF plain
  <2> QED
    BY <1>7, <1>8, <2>1 DEF GoodSegment
<1> HIDE DEF plain
<1> DEFINE segments == Segments(file)
<1>10. segments \in Seq(SegmentShapes) /\ DOMAIN segments = 1 .. c /\ c \in Nat
  BY <1>4, <1>6, <1>9, SortedSegments DEF c
<1>11. \A k \in DOMAIN segments : GoodSegment(segments[k], file.length)
  <2>1. \A k \in 1 .. c : \E i \in 1 .. c : segments[k] = plain[i]
    <3>1. \A k \in 1 .. c : \E i \in 1 .. c : SortByAddress(plain)[k] = plain[i]
      BY <1>9, <1>10, SortedSegments
    <3> QED
      BY <1>6, <3>1
  <2> HIDE DEF segments
  <2> QED
    BY <1>8, <1>10, <2>1
<1> HIDE DEF segments
<1>12. PlanError(segments, file.entry) = "none"
  BY <1>2 DEF segments
<1>13. /\ \A k \in DOMAIN segments :
            ~(k > 1 /\ segments[k].address < segments[k - 1].address + segments[k - 1].memory_size)
       /\ ~ \A k \in DOMAIN segments : ~HoldsEntry(segments[k], file.entry)
       /\ file.entry % 4 = 0
  BY <1>12 DEF PlanError
<1>14. ASSUME NEW k \in DOMAIN segments, k > 1
       PROVE  segments[k - 1].address + segments[k - 1].memory_size <= segments[k].address
  <2>1. k - 1 \in DOMAIN segments
    BY <1>10, <1>14
  <2>2. segments[k] \in SegmentShapes /\ segments[k - 1] \in SegmentShapes
    BY <1>11, <2>1 DEF GoodSegment
  <2>3. segments[k].address \in Nat /\ segments[k - 1].address \in Nat /\ segments[k - 1].memory_size \in Nat
    BY <2>2, AddressSpaceAssumption DEF AddressSpaceAssumption, SegmentShapes, Addresses
  <2> QED
    BY <1>13, <1>14, <2>3
<1>15. file.entry \in Addresses /\ file.length \in Nat
  BY FileTypes
<1>16. im.entry = file.entry /\ im.segments = segments /\ im.length = file.length
  BY <1>2 DEF segments
<1> HIDE DEF im
<1>17. GoodImage(im)
  BY <1>10, <1>11, <1>13, <1>14, <1>15, <1>16 DEF GoodImage
<1> QED
  BY <1>17 DEF im

-----------------------------------------------------------------------------
(* The segments of an image *)

LEMMA SegmentTypes ==
    ASSUME NEW s, NEW length, GoodSegment(s, length)
    PROVE  /\ s.address \in Nat /\ s.offset \in Nat /\ s.file_size \in Nat /\ s.memory_size \in Nat
           /\ s.address \in Addresses
           /\ \A a : a \in Span(s) <=> a \in Int /\ s.address <= a /\ a < s.address + s.memory_size
           /\ \A a : a \in FileSpan(s) <=> a \in Int /\ s.address <= a /\ a < s.address + s.file_size
           /\ Span(s) \subseteq Addresses
<1>1. /\ s.address \in Nat /\ s.offset \in Nat /\ s.file_size \in Nat /\ s.memory_size \in Nat
      /\ s.address \in Addresses /\ AddressSpace \in Nat
  BY AddressSpaceAssumption DEF AddressSpaceAssumption, GoodSegment, SegmentShapes, Addresses
<1>2. s.address + s.memory_size <= AddressSpace
  BY DEF GoodSegment
<1> QED
  BY <1>1, <1>2 DEF Span, FileSpan, Addresses

LEMMA SegmentsDisjoint ==
    ASSUME NEW im, GoodImage(im), NEW i \in DOMAIN im.segments, NEW j \in DOMAIN im.segments,
           NEW a, a \in Span(im.segments[i]), a \in Span(im.segments[j])
    PROVE  i = j
<1> DEFINE n == Len(im.segments)
           from == [k \in 1 .. n |-> im.segments[k].address]
           to == [k \in 1 .. n |-> im.segments[k].address + im.segments[k].memory_size]
<1>1. n \in Nat /\ DOMAIN im.segments = 1 .. n
  BY DEF GoodImage
<1>2. \A k \in 1 .. n : GoodSegment(im.segments[k], im.length)
  BY <1>1 DEF GoodImage
<1>3. \A k \in 1 .. n : im.segments[k].address \in Nat /\ im.segments[k].memory_size \in Nat
  BY <1>2, SegmentTypes
<1>4. \A k \in 2 .. n : k - 1 \in 1 .. n /\ k \in 1 .. n /\
        im.segments[k - 1].address + im.segments[k - 1].memory_size <= im.segments[k].address
  BY <1>1 DEF GoodImage
<1> HIDE DEF n
<1>5. /\ from \in [1 .. n -> Nat] /\ to \in [1 .. n -> Nat]
      /\ \A k \in 1 .. n : from[k] <= to[k]
      /\ \A k \in 2 .. n : to[k - 1] <= from[k]
  <2>1. \A k \in 1 .. n : from[k] = im.segments[k].address /\ to[k] = im.segments[k].address + im.segments[k].memory_size
    OBVIOUS
  <2>2. from \in [1 .. n -> Nat] /\ to \in [1 .. n -> Nat]
    BY <1>3
  <2> HIDE DEF from, to
  <2>3. \A k \in 1 .. n : from[k] <= to[k]
    BY <1>3, <2>1
  <2>4. ASSUME NEW k \in 2 .. n
        PROVE  to[k - 1] <= from[k]
    <3>1. k - 1 \in 1 .. n /\ k \in 1 .. n
      BY <1>4
    <3>2. to[k - 1] = im.segments[k - 1].address + im.segments[k - 1].memory_size
      BY <2>1, <3>1
    <3>3. from[k] = im.segments[k].address
      BY <2>1, <3>1
    <3> QED
      BY <1>4, <3>2, <3>3
  <2> QED
    BY <2>2, <2>3, <2>4
<1>6. from[i] <= a /\ a < to[i] /\ from[j] <= a /\ a < to[j] /\ a \in Int
  BY <1>1, <1>2, SegmentTypes
<1>7. i < j => to[i] <= from[j]
  <2> HIDE DEF from, to
  <2> QED
    BY <1>1, <1>5, IntervalsAscend
<1>8. j < i => to[j] <= from[i]
  <2> HIDE DEF from, to
  <2> QED
    BY <1>1, <1>5, IntervalsAscend
<1> HIDE DEF from, to
<1>9. from[i] \in Nat /\ to[i] \in Nat /\ from[j] \in Nat /\ to[j] \in Nat /\ i \in Int /\ j \in Int
  <2>1. i \in 1 .. n /\ j \in 1 .. n
    BY <1>1
  <2> QED
    BY <1>1, <1>5, <2>1
<1> QED
  BY <1>6, <1>7, <1>8, <1>9

-----------------------------------------------------------------------------
(* Where a segment goes *)

(* Region i holds all of a segment, grants what it asks for, and its bytes  *)
(* are there.                                                              *)
Hosts(map, view, i, s) ==
    /\ map[i].base <= s.address /\ s.address + s.memory_size <= map[i].base + map[i].size
    /\ s.allowed \subseteq map[i].allowed
    /\ \A a \in Span(s) : Backs(view, map[i], a)

RouteInto(r, s) ==
    [ok |-> TRUE, storage |-> r.target, size |-> s.memory_size,
     at |-> IF r.target = "system" THEN s.address ELSE s.address - r.base]

BackedRoute(view, route) ==
    CASE route.storage = "program"    -> LocalRange(ProgramBytes, route.at, route.size)
      [] route.storage = "scratchpad" -> LocalRange(ScratchpadBytes, route.at, route.size)
      [] route.storage = "system"     -> ViewRange(view.base, view.length, route.at, route.size)

(* The bounds of the bindings, checked once, hold of every byte. *)
LEMMA BackedIsBacking ==
    ASSUME NEW view \in Views, NEW r \in Regions, NEW s, NEW length, GoodSegment(s, length), r.base <= s.address
    PROVE  BackedRoute(view, RouteInto(r, s)) <=> \A a \in Span(s) : Backs(view, r, a)
<1> DEFINE route == RouteInto(r, s)
           last == s.address + s.memory_size - 1
<1>1. /\ r.base \in Nat /\ r.target \in Storages /\ AddressSpace \in Nat /\ AddressSpace > 0
      /\ s.address \in Nat /\ s.memory_size \in Nat /\ s.memory_size > 0
      /\ s.address + s.memory_size <= AddressSpace
  BY SegmentTypes, RegionTypes, AddressSpaceAssumption DEF AddressSpaceAssumption, GoodSegment
<1>2. s.address \in Span(s) /\ last \in Span(s)
  BY <1>1, SegmentTypes
<1>3. \A a \in Span(s) : a \in Int /\ s.address <= a /\ a <= last
  BY <1>1, SegmentTypes
<1>4. route.storage = r.target /\ route.size = s.memory_size
      /\ route.at = IF r.target = "system" THEN s.address ELSE s.address - r.base
  BY DEF RouteInto
<1>5. /\ ProgramBytes \in Nat /\ ScratchpadBytes \in Nat /\ view.base \in Nat /\ view.length \in Nat
      /\ SystemSpace \in Int
  BY <1>1, LoaderAssumption DEF LoaderAssumption, SystemSpace
<1> HIDE DEF route, last
<1>6. CASE r.target = "program"
  <2>1. BackedRoute(view, route) <=> s.address - r.base + s.memory_size <= ProgramBytes
    BY <1>1, <1>4, <1>5, <1>6 DEF BackedRoute, LocalRange
  <2>2. \A a \in Span(s) : Backs(view, r, a) <=> a - r.base \in 0 .. ProgramBytes - 1
    BY <1>6 DEF Backs, Cells
  <2>3. last = s.address + s.memory_size - 1
    BY DEF last
  <2> QED
    BY <1>1, <1>2, <1>3, <1>5, <2>1, <2>2, <2>3 DEF route
<1>7. CASE r.target = "scratchpad"
  <2>1. BackedRoute(view, route) <=> s.address - r.base + s.memory_size <= ScratchpadBytes
    BY <1>1, <1>4, <1>5, <1>7 DEF BackedRoute, LocalRange
  <2>2. \A a \in Span(s) : Backs(view, r, a) <=> a - r.base \in 0 .. ScratchpadBytes - 1
    BY <1>7 DEF Backs, Cells
  <2>3. last = s.address + s.memory_size - 1
    BY DEF last
  <2> QED
    BY <1>1, <1>2, <1>3, <1>5, <2>1, <2>2, <2>3 DEF route
<1>8. CASE r.target = "system"
  <2>1. BackedRoute(view, route) <=>
          /\ view.base + view.length <= SystemSpace /\ view.base <= s.address
          /\ s.address + s.memory_size <= view.base + view.length
    <3>1. BackedRoute(view, route) <=> ViewRange(view.base, view.length, s.address, s.memory_size)
      BY <1>4, <1>8 DEF BackedRoute
    <3> QED
      BY <1>1, <1>5, <3>1 DEF ViewRange
  <2>2. \A a \in Span(s) : Backs(view, r, a) <=>
          view.base + view.length <= SystemSpace /\ a \in view.base .. view.base + view.length - 1
    BY <1>8 DEF Backs
  <2>3. last = s.address + s.memory_size - 1
    BY DEF last
  <2> QED
    BY <1>1, <1>2, <1>3, <1>5, <2>1, <2>2, <2>3 DEF route
<1> QED
  BY <1>1, <1>6, <1>7, <1>8 DEF Storages

LEMMA DestinationExact ==
    ASSUME NEW m, MapIsValid(m), NEW view \in Views, NEW s, NEW length, GoodSegment(s, length)
    PROVE  /\ \A i \in DOMAIN m : Hosts(m, view, i, s) => Destination(m, view, s) = RouteInto(m[i], s)
           /\ Destination(m, view, s).ok => \E i \in DOMAIN m : Hosts(m, view, i, s)
<1> DEFINE Route(kind) == Resolve(m, s.address, s.memory_size, kind)
           some == CHOOSE kind \in s.allowed : TRUE
<1>1. some \in s.allowed
  BY DEF GoodSegment
<1>2. s.address \in Int /\ s.memory_size \in Nat /\ s.memory_size > 0
  BY SegmentTypes DEF GoodSegment
<1>3. Destination(m, view, s) =
        IF \E kind \in s.allowed : ~Route(kind).ok THEN Failed("mapping")
        ELSE IF ~BackedRoute(view, Route(some)) THEN Failed("backing")
        ELSE Route(some)
  BY DEF Destination, BackedRoute
<1>4. ASSUME NEW i \in DOMAIN m, Contains(m[i], s.address), NEW kind
      PROVE  /\ Route(kind).ok <=> s.address + s.memory_size <= m[i].base + m[i].size /\ kind \in m[i].allowed
             /\ Route(kind).ok => Route(kind) = RouteInto(m[i], s)
  <2>1. LET route == Route(kind)
            r == m[i]
        IN  /\ route.ok <=> s.memory_size > 0 /\ s.address + s.memory_size <= r.base + r.size /\ kind \in r.allowed
            /\ route.ok =>
                 route = [ok |-> TRUE, storage |-> r.target, size |-> s.memory_size,
                          at |-> IF r.target = "system" THEN s.address ELSE s.address - r.base]
    BY <1>2, <1>4, ResolvedIn
  <2> QED
    BY <1>2, <2>1 DEF RouteInto
<1>5. \A i \in DOMAIN m : m[i] \in Regions /\ m[i].base \in Nat /\ m[i].size \in Nat
  BY RegionTypes DEF MapIsValid
<1> HIDE DEF Route, some
<1>6. ASSUME NEW i \in DOMAIN m, Hosts(m, view, i, s)
      PROVE  Destination(m, view, s) = RouteInto(m[i], s)
  <2>1. /\ m[i].base <= s.address /\ s.address + s.memory_size <= m[i].base + m[i].size
        /\ s.allowed \subseteq m[i].allowed /\ \A a \in Span(s) : Backs(view, m[i], a)
    BY <1>6 DEF Hosts
  <2>2. Contains(m[i], s.address)
    BY <1>2, <1>5, <2>1 DEF Contains
  <2>3. \A kind \in s.allowed : Route(kind).ok /\ Route(kind) = RouteInto(m[i], s)
    BY <1>4, <2>1, <2>2
  <2>4. BackedRoute(view, RouteInto(m[i], s))
    BY <1>5, <2>1, BackedIsBacking
  <2> QED
    BY <1>1, <1>3, <2>3, <2>4
<1>7. ASSUME Destination(m, view, s).ok
      PROVE  \E i \in DOMAIN m : Hosts(m, view, i, s)
  <2>1. (\A kind \in s.allowed : Route(kind).ok) /\ BackedRoute(view, Route(some))
    BY <1>3, <1>7 DEF Failed
  <2>2. PICK i \in DOMAIN m : RoutedBy(m[i], s.address, s.memory_size, some, Route(some))
    BY <1>1, <1>2, <2>1, RouteShape DEF Route
  <2>3. m[i].base <= s.address /\ s.address + s.memory_size <= m[i].base + m[i].size
    BY <2>2 DEF RoutedBy
  <2>4. Contains(m[i], s.address)
    BY <1>2, <1>5, <2>3 DEF Contains
  <2>5. s.allowed \subseteq m[i].allowed
    BY <1>4, <2>1, <2>4
  <2>6. Route(some) = RouteInto(m[i], s)
    BY <1>1, <1>4, <2>1, <2>4
  <2>7. \A a \in Span(s) : Backs(view, m[i], a)
    BY <1>5, <2>1, <2>3, <2>6, BackedIsBacking
  <2> QED
    BY <2>3, <2>5, <2>7 DEF Hosts
<1> QED
  BY <1>6, <1>7

LEMMA PlaceableExact ==
    ASSUME GoodImage(image), NEW m, MapIsValid(m), NEW view \in Views
    PROVE  Placeable(m, view) <=>
             \A k \in DOMAIN image.segments : \E i \in DOMAIN m : Hosts(m, view, i, image.segments[k])
<1>1. ASSUME NEW k \in DOMAIN image.segments, NEW i \in DOMAIN m
      PROVE  Hosts(m, view, i, image.segments[k]) <=>
               /\ Span(image.segments[k]) \subseteq m[i].base .. m[i].base + m[i].size - 1
               /\ image.segments[k].allowed \subseteq m[i].allowed
               /\ \A a \in Span(image.segments[k]) : Backs(view, m[i], a)
  <2> DEFINE s == image.segments[k]
             last == s.address + s.memory_size - 1
  <2>1. GoodSegment(s, image.length)
    BY DEF GoodImage
  <2>2. m[i].base \in Nat /\ m[i].size \in Nat
    BY RegionTypes DEF MapIsValid
  <2>3. s.address \in Nat /\ s.memory_size \in Nat /\ s.memory_size > 0
    BY <2>1, SegmentTypes DEF GoodSegment
  <2>4. \A a : a \in Span(s) <=> a \in Int /\ s.address <= a /\ a < s.address + s.memory_size
    BY <2>1, SegmentTypes
  <2>5. s.address \in Span(s) /\ last \in Span(s)
    BY <2>3, <2>4
  <2>6. Span(s) \subseteq m[i].base .. m[i].base + m[i].size - 1 <=>
          m[i].base <= s.address /\ s.address + s.memory_size <= m[i].base + m[i].size
    <3>1. ASSUME Span(s) \subseteq m[i].base .. m[i].base + m[i].size - 1
          PROVE  m[i].base <= s.address /\ s.address + s.memory_size <= m[i].base + m[i].size
      <4>1. s.address \in m[i].base .. m[i].base + m[i].size - 1 /\ last \in m[i].base .. m[i].base + m[i].size - 1
        BY <2>5, <3>1
      <4> QED
        BY <2>2, <2>3, <4>1
    <3>2. ASSUME m[i].base <= s.address, s.address + s.memory_size <= m[i].base + m[i].size
          PROVE  Span(s) \subseteq m[i].base .. m[i].base + m[i].size - 1
      BY <2>2, <2>3, <2>4, <3>2
    <3> QED
      BY <3>1, <3>2
  <2> QED
    BY <2>6 DEF Hosts
<1>2. Placeable(m, view) <=>
        \A k \in DOMAIN image.segments : \E i \in DOMAIN m :
            /\ Span(image.segments[k]) \subseteq m[i].base .. m[i].base + m[i].size - 1
            /\ image.segments[k].allowed \subseteq m[i].allowed
            /\ \A a \in Span(image.segments[k]) : Backs(view, m[i], a)
  BY DEF Placeable
<1> QED
  BY <1>1, <1>2

(* The cell of a hosted address: the route's, counted from its start. *)
LEMMA HostedCells ==
    ASSUME NEW m, MapIsValid(m), NEW view, NEW s, NEW length, GoodSegment(s, length),
           NEW i \in DOMAIN m, Hosts(m, view, i, s), NEW a \in Span(s)
    PROVE  /\ RegionOf(m, a) = m[i]
           /\ CellOf(m, a) = RouteInto(m[i], s).at + (a - s.address)
           /\ CellOf(m, a) \in Cells[m[i].target]
<1>1. /\ m[i].base \in Nat /\ m[i].size \in Nat /\ m[i].target \in Storages
      /\ \A j \in DOMAIN m : m[j].base \in Nat /\ m[j].size \in Nat
  BY RegionTypes DEF MapIsValid
<1>2. a \in Int /\ s.address <= a /\ a < s.address + s.memory_size /\ a \in Addresses /\ s.address \in Nat
  BY SegmentTypes
<1>3. /\ m[i].base <= s.address /\ s.address + s.memory_size <= m[i].base + m[i].size
      /\ Backs(view, m[i], a)
  BY DEF Hosts
<1>4. s.memory_size \in Nat
  BY SegmentTypes
<1>5. Contains(m[i], a)
  BY <1>1, <1>2, <1>3, <1>4 DEF Contains
<1>6. \A j \in DOMAIN m : a \in m[j].base .. m[j].base + m[j].size - 1 <=> j = i
  <2>1. \A j \in DOMAIN m : a \in m[j].base .. m[j].base + m[j].size - 1 <=> Contains(m[j], a)
    BY <1>1, <1>2 DEF Contains
  <2> QED
    BY <1>2, <1>5, <2>1, RegionsDisjoint
<1>7. RegionOf(m, a) = m[i]
  BY <1>6 DEF RegionOf
<1>8. CellOf(m, a) = IF m[i].target = "system" THEN a ELSE a - m[i].base
  BY <1>7 DEF CellOf
<1>9. CellOf(m, a) = RouteInto(m[i], s).at + (a - s.address)
  BY <1>1, <1>2, <1>8 DEF RouteInto
<1>10. CellOf(m, a) \in Cells[m[i].target]
  BY <1>1, <1>2, <1>3, <1>8 DEF Backs, Cells, Storages
<1> QED
  BY <1>7, <1>9, <1>10

-----------------------------------------------------------------------------
(* What the actions of a load leave *)

Stores(bytes) ==
    /\ bytes = [s \in Storages |-> bytes[s]]
    /\ \A s \in Storages : bytes[s] = [i \in Cells[s] |-> bytes[s][i]]

(* The cells one action writes, and what with. *)
Covers(route, s, storage, i) == storage = route.storage /\ i \in route.at .. route.at + s.memory_size - 1

Written(route, s, i) == IF i - route.at < s.file_size THEN s.offset + (i - route.at) ELSE Zero

LEMMA FilledCells ==
    ASSUME NEW bytes, Stores(bytes), NEW route, route.storage \in Storages, NEW s
    PROVE  /\ Stores(Filled(bytes, route, s))
           /\ \A storage \in Storages : \A i \in Cells[storage] :
                Filled(bytes, route, s)[storage][i] =
                    IF Covers(route, s, storage, i) THEN Written(route, s, i) ELSE bytes[storage][i]
<1> DEFINE new == Filled(bytes, route, s)
           target == route.storage
           filled == [i \in Cells[target] |->
                        IF i \notin route.at .. route.at + s.memory_size - 1 THEN bytes[target][i]
                        ELSE IF i - route.at < s.file_size THEN s.offset + (i - route.at) ELSE Zero]
<1>1. DOMAIN bytes = Storages /\ \A storage \in Storages : DOMAIN bytes[storage] = Cells[storage]
  BY DEF Stores
<1>2. new = [storage \in Storages |-> IF storage = target THEN filled ELSE bytes[storage]]
  BY <1>1 DEF Filled
<1>3. new[target] = filled /\ \A storage \in Storages : storage # target => new[storage] = bytes[storage]
  BY <1>2
<1>4. filled = [i \in Cells[target] |-> filled[i]]
  OBVIOUS
<1>5. \A i \in Cells[target] :
        filled[i] = IF Covers(route, s, target, i) THEN Written(route, s, i) ELSE bytes[target][i]
  BY DEF Covers, Written
<1>6. \A storage \in Storages : \A i : storage # target => ~Covers(route, s, storage, i)
  BY DEF Covers
<1>7. new = [storage \in Storages |-> new[storage]]
  BY <1>2
<1> HIDE DEF new, filled
<1>8. Stores(new)
  BY <1>3, <1>4, <1>7 DEF Stores
<1>9. \A storage \in Storages : \A i \in Cells[storage] :
        new[storage][i] = IF Covers(route, s, storage, i) THEN Written(route, s, i) ELSE bytes[storage][i]
  BY <1>3, <1>5, <1>6
<1> QED
  BY <1>8, <1>9 DEF new

(* The bytes after each action of a plan: the function FilledAll recurses by. *)
Progress(f, bytes, m, view, segments, n) ==
    f = [k \in 0 .. n |-> IF k = 0 THEN bytes
                          ELSE Filled(f[k - 1], Destination(m, view, segments[k]), segments[k])]

LEMMA ProgressExists ==
    ASSUME NEW bytes, NEW m, NEW view, NEW segments, NEW length \in Nat
    PROVE  \E f : Progress(f, bytes, m, view, segments, length)
<1> DEFINE Next1(k, b) == Filled(b, Destination(m, view, segments[k]), segments[k])
           Some(n) == \E f : Progress(f, bytes, m, view, segments, n)
           stuck == {n \in Nat : ~Some(n)}
<1> SUFFICES ASSUME stuck # {}
             PROVE  FALSE
  OBVIOUS
<1>1. PICK n \in stuck : \A y \in stuck : n <= y
  <2>1. stuck \in SUBSET Nat
    OBVIOUS
  <2> HIDE DEF stuck
  <2> QED
    BY <2>1, LeastExists
<1>2. n \in Nat /\ ~Some(n)
  BY <1>1
<1>3. n # 0
  <2> SUFFICES ASSUME n = 0 PROVE FALSE
    OBVIOUS
  <2> DEFINE f == [k \in 0 .. 0 |-> bytes]
  <2>1. 0 .. 0 = {0}
    OBVIOUS
  <2>2. Progress(f, bytes, m, view, segments, 0)
    BY <2>1 DEF Progress
  <2> QED
    BY <1>2, <2>2
<1>4. n - 1 \in Nat /\ n - 1 < n
  BY <1>2, <1>3
<1>5. Some(n - 1)
  <2>1. n - 1 \notin stuck
    <3> HIDE DEF stuck
    <3> QED
      BY <1>1, <1>2, <1>4
  <2> QED
    BY <1>4, <2>1
<1>6. PICK g : g = [k \in 0 .. n - 1 |-> IF k = 0 THEN bytes ELSE Next1(k, g[k - 1])]
  BY <1>5 DEF Progress
<1> HIDE DEF Next1
<1> DEFINE f == [k \in 0 .. n |-> IF k = n THEN Next1(n, g[n - 1]) ELSE g[k]]
<1>7. \A k \in 0 .. n - 1 : k \in 0 .. n /\ f[k] = g[k]
  BY <1>2, <1>4
<1>8. ASSUME NEW k \in 0 .. n
      PROVE  f[k] = IF k = 0 THEN bytes ELSE Next1(k, f[k - 1])
  <2>1. CASE k = n
    <3>1. n - 1 \in 0 .. n - 1 /\ k # 0
      BY <1>3, <1>4, <2>1
    <3>2. f[n - 1] = g[n - 1] /\ f[n] = Next1(n, g[n - 1])
      BY <1>2, <1>7, <3>1
    <3> HIDE DEF f
    <3> QED
      BY <2>1, <3>1, <3>2
  <2>2. CASE k # n
    <3>1. k \in 0 .. n - 1 /\ (k # 0 => k - 1 \in 0 .. n - 1)
      BY <1>2, <2>2
    <3>2. f[k] = g[k] /\ (k # 0 => f[k - 1] = g[k - 1])
      BY <1>7, <3>1
    <3>3. g[k] = IF k = 0 THEN bytes ELSE Next1(k, g[k - 1])
      BY <1>6, <3>1
    <3> HIDE DEF f
    <3> QED
      BY <3>2, <3>3
  <2> QED
    BY <2>1, <2>2
<1>9. f = [k \in 0 .. n |-> f[k]]
  OBVIOUS
<1> HIDE DEF f
<1>10. f = [k \in 0 .. n |-> IF k = 0 THEN bytes ELSE Next1(k, f[k - 1])]
  BY <1>8, <1>9
<1>11. Progress(f, bytes, m, view, segments, n)
  BY <1>10 DEF Progress, Next1
<1> QED
  BY <1>2, <1>11

LEMMA FilledAllIsProgress ==
    ASSUME NEW bytes, NEW m, NEW view, NEW segments, Len(segments) \in Nat
    PROVE  \E f : /\ Progress(f, bytes, m, view, segments, Len(segments))
                  /\ FilledAll(bytes, m, view, segments) = f[Len(segments)]
<1> DEFINE f == CHOOSE g : Progress(g, bytes, m, view, segments, Len(segments))
<1>1. Progress(f, bytes, m, view, segments, Len(segments))
  BY ProgressExists
<1>2. FilledAll(bytes, m, view, segments) = f[Len(segments)]
  BY DEF FilledAll, Progress
<1> HIDE DEF f
<1> QED
  BY <1>1, <1>2

(* Every segment of the image has a region that hosts it. *)
Hosted(m, view, im) == \A k \in DOMAIN im.segments : \E i \in DOMAIN m : Hosts(m, view, i, im.segments[k])

LEMMA HostedRoute ==
    ASSUME NEW im, GoodImage(im), NEW m, MapIsValid(m), NEW view \in Views, Hosted(m, view, im),
           NEW k \in DOMAIN im.segments
    PROVE  LET route == Destination(m, view, im.segments[k])
           IN  /\ \E i \in DOMAIN m : Hosts(m, view, i, im.segments[k]) /\ route = RouteInto(m[i], im.segments[k])
               /\ route.ok /\ route.storage \in Storages /\ route.at \in Nat
<1> DEFINE s == im.segments[k]
<1>1. GoodSegment(s, im.length)
  BY DEF GoodImage
<1>2. PICK i \in DOMAIN m : Hosts(m, view, i, s)
  BY DEF Hosted
<1>3. Destination(m, view, s) = RouteInto(m[i], s)
  BY <1>1, <1>2, DestinationExact
<1>4. m[i].base \in Nat /\ m[i].target \in Storages /\ s.address \in Nat /\ m[i].base <= s.address
  BY <1>1, <1>2, RegionTypes, SegmentTypes DEF MapIsValid, Hosts
<1>5. RouteInto(m[i], s).ok /\ RouteInto(m[i], s).storage \in Storages /\ RouteInto(m[i], s).at \in Nat
  BY <1>4 DEF RouteInto
<1> HIDE DEF s
<1>6. \E j \in DOMAIN m : Hosts(m, view, j, s) /\ Destination(m, view, s) = RouteInto(m[j], s)
  BY <1>2, <1>3
<1> QED
  BY <1>3, <1>5, <1>6 DEF s

(* No two segments write one cell. *)
LEMMA CoversOnce ==
    ASSUME NEW im, GoodImage(im), NEW m, MapIsValid(m), NEW view \in Views, Hosted(m, view, im),
           NEW j \in DOMAIN im.segments, NEW k \in DOMAIN im.segments, NEW storage, NEW c,
           Covers(Destination(m, view, im.segments[j]), im.segments[j], storage, c),
           Covers(Destination(m, view, im.segments[k]), im.segments[k], storage, c)
    PROVE  j = k
<1> DEFINE Route(x) == Destination(m, view, im.segments[x])
<1>1. PICK a \in DOMAIN m : Hosts(m, view, a, im.segments[j]) /\ Route(j) = RouteInto(m[a], im.segments[j])
  BY HostedRoute
<1>2. PICK b \in DOMAIN m : Hosts(m, view, b, im.segments[k]) /\ Route(k) = RouteInto(m[b], im.segments[k])
  BY HostedRoute
<1> DEFINE s == im.segments[j]
           t == im.segments[k]
<1>3. GoodSegment(s, im.length) /\ GoodSegment(t, im.length)
  BY DEF GoodImage
<1>4. /\ m[a].base \in Nat /\ m[b].base \in Nat
      /\ s.address \in Nat /\ s.memory_size \in Nat /\ t.address \in Nat /\ t.memory_size \in Nat
  BY <1>3, RegionTypes, SegmentTypes DEF MapIsValid
<1>5. /\ storage = m[a].target /\ c \in Int
      /\ Route(j).at <= c /\ c < Route(j).at + s.memory_size
      /\ Route(j).at = IF m[a].target = "system" THEN s.address ELSE s.address - m[a].base
  <2>1. Route(j).at \in Nat /\ Covers(Route(j), s, storage, c)
    BY HostedRoute
  <2>2. /\ Route(j).storage = m[a].target
        /\ Route(j).at = IF m[a].target = "system" THEN s.address ELSE s.address - m[a].base
    BY <1>1 DEF RouteInto
  <2> HIDE DEF s, Route
  <2> QED
    BY <1>4, <2>1, <2>2 DEF Covers
<1>6. /\ storage = m[b].target
      /\ Route(k).at <= c /\ c < Route(k).at + t.memory_size
      /\ Route(k).at = IF m[b].target = "system" THEN t.address ELSE t.address - m[b].base
  <2>1. Route(k).at \in Nat /\ Covers(Route(k), t, storage, c)
    BY HostedRoute
  <2>2. /\ Route(k).storage = m[b].target
        /\ Route(k).at = IF m[b].target = "system" THEN t.address ELSE t.address - m[b].base
    BY <1>2 DEF RouteInto
  <2> HIDE DEF t, Route
  <2> QED
    BY <1>4, <2>1, <2>2 DEF Covers
<1> HIDE DEF s, t, Route
<1>7. \E x : x \in Span(s) /\ x \in Span(t)
  <2>1. CASE storage = "system"
    <3>1. c \in Span(s) /\ c \in Span(t)
      BY <1>3, <1>4, <1>5, <1>6, <2>1, SegmentTypes
    <3> QED
      BY <3>1
  <2>2. CASE storage # "system"
    <3>1. a = b
      BY <1>5, <1>6, <2>2, LocalsAreUnique
    <3>2. c + m[a].base \in Span(s) /\ c + m[a].base \in Span(t)
      BY <1>3, <1>4, <1>5, <1>6, <2>2, <3>1, SegmentTypes
    <3> QED
      BY <3>2
  <2> QED
    BY <2>1, <2>2
<1> QED
  BY <1>7, SegmentsDisjoint DEF s, t

(* What a plan carried out leaves: in a cell a segment covers, the byte of   *)
(* that segment; in any other, what was there.                             *)
LEMMA FilledAllCells ==
    ASSUME NEW im, GoodImage(im), NEW m, MapIsValid(m), NEW view \in Views, Hosted(m, view, im),
           NEW bytes, Stores(bytes)
    PROVE  LET after == FilledAll(bytes, m, view, im.segments)
               Route(k) == Destination(m, view, im.segments[k])
           IN  /\ Stores(after)
               /\ \A storage \in Storages : \A c \in Cells[storage] :
                   /\ \A k \in DOMAIN im.segments :
                        Covers(Route(k), im.segments[k], storage, c) =>
                            after[storage][c] = Written(Route(k), im.segments[k], c)
                   /\ (\A k \in DOMAIN im.segments : ~Covers(Route(k), im.segments[k], storage, c)) =>
                        after[storage][c] = bytes[storage][c]
<1> DEFINE segments == im.segments
           n == Len(segments)
           Route(k) == Destination(m, view, segments[k])
<1>1. n \in Nat /\ DOMAIN segments = 1 .. n
  BY DEF GoodImage
<1>2. PICK f : /\ Progress(f, bytes, m, view, segments, n)
               /\ FilledAll(bytes, m, view, segments) = f[n]
  BY <1>1, FilledAllIsProgress
<1>3. \A k \in 0 .. n : f[k] = IF k = 0 THEN bytes ELSE Filled(f[k - 1], Route(k), segments[k])
  <2> HIDE DEF segments, n
  <2> QED
    BY <1>2 DEF Progress
<1>4. \A k \in 1 .. n : Route(k).storage \in Storages
  BY <1>1, HostedRoute
<1>5. \A j, k \in 1 .. n : \A storage, c :
        Covers(Route(j), segments[j], storage, c) /\ Covers(Route(k), segments[k], storage, c) => j = k
  BY <1>1, CoversOnce
<1> HIDE DEF segments, n, Route
<1> DEFINE Cell(k, storage, c) ==
               /\ \A j \in 1 .. k : Covers(Route(j), segments[j], storage, c) =>
                                       f[k][storage][c] = Written(Route(j), segments[j], c)
               /\ (\A j \in 1 .. k : ~Covers(Route(j), segments[j], storage, c)) =>
                    f[k][storage][c] = bytes[storage][c]
           Exact(k) == Stores(f[k]) /\ \A storage \in Storages : \A c \in Cells[storage] : Cell(k, storage, c)
           wrong == {k \in 0 .. n : ~Exact(k)}
<1>6. wrong = {}
  <2> SUFFICES ASSUME wrong # {} PROVE FALSE
    OBVIOUS
  <2>1. PICK k \in wrong : \A y \in wrong : k <= y
    <3>1. wrong \in SUBSET Nat
      BY <1>1
    <3> HIDE DEF wrong
    <3> QED
      BY <3>1, LeastExists
  <2>2. k \in 0 .. n /\ ~Exact(k)
    BY <2>1
  <2>3. k # 0
    <3>1. 0 \in 0 .. n /\ f[0] = bytes
      BY <1>1, <1>3
    <3>2. 1 .. 0 = {}
      OBVIOUS
    <3>3. Exact(0)
      BY <3>1, <3>2
    <3> HIDE DEF Exact
    <3> QED
      BY <2>2, <3>3
  <2>4. k \in 1 .. n /\ k - 1 \in 0 .. n
    BY <1>1, <2>2, <2>3
  <2>5. Exact(k - 1)
    <3>1. k - 1 \notin wrong
      <4> HIDE DEF wrong
      <4> QED
        BY <2>1, <2>4
    <3> QED
      BY <2>4, <3>1
  <2>6. f[k] = Filled(f[k - 1], Route(k), segments[k])
    BY <1>3, <2>2, <2>3
  <2>7. /\ Stores(f[k])
        /\ \A storage \in Storages : \A c \in Cells[storage] :
             f[k][storage][c] = IF Covers(Route(k), segments[k], storage, c) THEN Written(Route(k), segments[k], c)
                                ELSE f[k - 1][storage][c]
    <3>1. Stores(f[k - 1]) /\ Route(k).storage \in Storages
      BY <1>4, <2>4, <2>5
    <3> QED
      BY <2>6, <3>1, FilledCells
  <2>8. ASSUME NEW storage \in Storages, NEW c \in Cells[storage]
        PROVE  Cell(k, storage, c)
    <3> DEFINE Hit(j) == Covers(Route(j), segments[j], storage, c)
    <3>1. Cell(k - 1, storage, c)
      BY <2>5, <2>8
    <3>2. f[k][storage][c] = IF Hit(k) THEN Written(Route(k), segments[k], c) ELSE f[k - 1][storage][c]
      BY <2>7, <2>8
    <3>3. \A j \in 1 .. k : j = k \/ j \in 1 .. k - 1
      BY <2>4
    <3>4. \A j \in 1 .. k - 1 : j \in 1 .. k /\ j \in 1 .. n /\ j # k
      BY <1>1, <2>4
    <3>5. \A j \in 1 .. k - 1 : Hit(k) => ~Hit(j)
      BY <1>5, <2>4, <3>4
    <3>6. \A j \in 1 .. k - 1 : Hit(j) => f[k - 1][storage][c] = Written(Route(j), segments[j], c)
      BY <3>1
    <3>7. (\A j \in 1 .. k - 1 : ~Hit(j)) => f[k - 1][storage][c] = bytes[storage][c]
      BY <3>1
    <3> HIDE DEF Hit
    <3>8. \A j \in 1 .. k : Hit(j) => f[k][storage][c] = Written(Route(j), segments[j], c)
      BY <3>2, <3>3, <3>5, <3>6
    <3>9. (\A j \in 1 .. k : ~Hit(j)) => f[k][storage][c] = bytes[storage][c]
      <4>1. k \in 1 .. k
        BY <2>4
      <4> QED
        BY <3>2, <3>4, <3>7, <4>1
    <3> QED
      BY <3>8, <3>9 DEF Hit
  <2> HIDE DEF Cell
  <2> QED
    BY <2>2, <2>7, <2>8
<1>7. Exact(n)
  <2>1. n \in 0 .. n
    BY <1>1
  <2> HIDE DEF Exact
  <2> QED
    BY <1>6, <2>1
<1> QED
  BY <1>1, <1>2, <1>7 DEF segments, Route

-----------------------------------------------------------------------------
(* What a load leaves *)

(* The first error is none exactly when no check has one. *)
LEMMA LoadDecides ==
    ASSUME GoodImage(image), NEW m, MapIsValid(m), NEW view \in Views, NEW bytes
    PROVE  /\ Load(bytes, m, view).ok <=> Placeable(m, view)
           /\ Load(bytes, m, view).ok => Hosted(m, view, image)
           /\ Load(bytes, m, view).ok => Load(bytes, m, view).bytes = FilledAll(bytes, m, view, image.segments)
           /\ ~Load(bytes, m, view).ok => Load(bytes, m, view).bytes = bytes
<1> DEFINE Route(i) == Destination(m, view, image.segments[i])
           Error(i) == IF Route(i).ok THEN "none" ELSE Route(i).error
           n == Len(image.segments)
           bad == {i \in 1 .. n : Error(i) # "none"}
           error == IF bad = {} THEN "none" ELSE Error(CHOOSE i \in bad : \A j \in bad : i <= j)
<1>1. n \in Nat /\ DOMAIN image.segments = 1 .. n
  BY DEF GoodImage
<1>2. Load(bytes, m, view) =
        [ok |-> error = "none", error |-> error,
         bytes |-> IF error = "none" THEN FilledAll(bytes, m, view, image.segments) ELSE bytes]
  BY DEF Load, FirstError
<1>3. \A i \in 1 .. n : Error(i) = "none" <=> Route(i).ok
  <2> TAKE i \in 1 .. n
  <2>1. ~Route(i).ok => Route(i).error # "none"
    <3>1. GoodSegment(image.segments[i], image.length)
      BY <1>1 DEF GoodImage
    <3>2. (CHOOSE kind \in image.segments[i].allowed : TRUE) \in image.segments[i].allowed
      BY <3>1 DEF GoodSegment
    <3> QED
      BY <3>2 DEF Destination, Failed
  <2> QED
    BY <2>1
<1> HIDE DEF Route
<1>4. error = "none" <=> bad = {}
  <2>1. ASSUME bad # {}
        PROVE  error # "none"
    <3>1. bad \in SUBSET Nat
      BY <1>1
    <3>2. (CHOOSE i \in bad : \A j \in bad : i <= j) \in bad
      <4> HIDE DEF bad
      <4> QED
        BY <2>1, <3>1, LeastExists
    <3> QED
      BY <2>1, <3>2
  <2> QED
    BY <2>1
<1>5. bad = {} <=> \A i \in 1 .. n : Route(i).ok
  BY <1>3
<1> HIDE DEF bad, error
<1>6. (\A i \in 1 .. n : Route(i).ok) <=> Hosted(m, view, image)
  <2>1. ASSUME NEW i \in 1 .. n
        PROVE  Route(i).ok <=> \E j \in DOMAIN m : Hosts(m, view, j, image.segments[i])
    <3>1. GoodSegment(image.segments[i], image.length)
      BY <1>1 DEF GoodImage
    <3>2. \A j \in DOMAIN m : RouteInto(m[j], image.segments[i]).ok
      BY DEF RouteInto
    <3> QED
      BY <3>1, <3>2, DestinationExact DEF Route
  <2> QED
    BY <1>1, <2>1 DEF Hosted
<1>7. Hosted(m, view, image) <=> Placeable(m, view)
  BY PlaceableExact DEF Hosted
<1>8. /\ Load(bytes, m, view).ok <=> error = "none"
      /\ error = "none" => Load(bytes, m, view).bytes = FilledAll(bytes, m, view, image.segments)
      /\ error # "none" => Load(bytes, m, view).bytes = bytes
  <2> DEFINE full == FilledAll(bytes, m, view, image.segments)
  <2> HIDE DEF full
  <2>1. Load(bytes, m, view) = [ok |-> error = "none", error |-> error,
                                bytes |-> IF error = "none" THEN full ELSE bytes]
    BY <1>2 DEF full
  <2>2. Load(bytes, m, view).ok = (error = "none")
    BY <2>1
  <2>3. Load(bytes, m, view).bytes = IF error = "none" THEN full ELSE bytes
    BY <2>1
  <2>4. full = FilledAll(bytes, m, view, image.segments)
    BY DEF full
  <2> QED
    BY <2>2, <2>3, <2>4
<1> QED
  BY <1>4, <1>5, <1>6, <1>7, <1>8

(* The byte an image gives an address of its segment. *)
ByteOf(s, a) == IF a \in FileSpan(s) THEN s.offset + (a - s.address) ELSE Zero

LEMMA ImageBytes ==
    ASSUME GoodImage(image), NEW k \in DOMAIN image.segments, NEW a \in Span(image.segments[k])
    PROVE  a \in Image /\ ImageByte(a) = ByteOf(image.segments[k], a)
<1> DEFINE choice == CHOOSE i \in DOMAIN image.segments : a \in Span(image.segments[i])
<1>1. choice \in DOMAIN image.segments /\ a \in Span(image.segments[choice])
  OBVIOUS
<1> HIDE DEF choice
<1>2. choice = k
  BY <1>1, SegmentsDisjoint
<1>3. ImageByte(a) = ByteOf(image.segments[choice], a)
  BY DEF ImageByte, ByteOf, choice
<1>4. a \in Image
  BY DEF Image
<1> QED
  BY <1>2, <1>3, <1>4

(* Every address of an image holds its byte. *)
Placed(m, bytes, im) ==
    \A k \in DOMAIN im.segments : \A a \in Span(im.segments[k]) :
        bytes[RegionOf(m, a).target][CellOf(m, a)] = ByteOf(im.segments[k], a)

(* The cell of an address a segment holds is one its action covers, and the  *)
(* byte written there is the image's.                                      *)
LEMMA HostedAddress ==
    ASSUME NEW im, GoodImage(im), NEW m, MapIsValid(m), NEW view \in Views, Hosted(m, view, im),
           NEW k \in DOMAIN im.segments, NEW a \in Span(im.segments[k])
    PROVE  LET route == Destination(m, view, im.segments[k])
           IN  /\ RegionOf(m, a).target \in Storages
               /\ CellOf(m, a) \in Cells[RegionOf(m, a).target]
               /\ RegionOf(m, a).target = route.storage
               /\ CellOf(m, a) = route.at + (a - im.segments[k].address)
               /\ Covers(route, im.segments[k], RegionOf(m, a).target, CellOf(m, a))
               /\ Written(route, im.segments[k], CellOf(m, a)) = ByteOf(im.segments[k], a)
<1> DEFINE s == im.segments[k]
           route == Destination(m, view, s)
<1>1. GoodSegment(s, im.length)
  BY DEF GoodImage
<1>2. PICK i \in DOMAIN m : Hosts(m, view, i, s) /\ route = RouteInto(m[i], s)
  BY HostedRoute
<1>3. route.storage \in Storages /\ route.at \in Nat
  BY HostedRoute
<1>4. /\ RegionOf(m, a) = m[i]
      /\ CellOf(m, a) = RouteInto(m[i], s).at + (a - s.address)
      /\ CellOf(m, a) \in Cells[m[i].target]
  BY <1>1, <1>2, HostedCells
<1>5. route.storage = m[i].target
  BY <1>2 DEF RouteInto
<1>6. /\ s.address \in Nat /\ s.memory_size \in Nat /\ s.file_size \in Nat
      /\ a \in Int /\ s.address <= a /\ a < s.address + s.memory_size
      /\ a \in FileSpan(s) <=> a < s.address + s.file_size
  BY <1>1, SegmentTypes
<1> HIDE DEF s, route
<1>7. CellOf(m, a) = route.at + (a - s.address)
  BY <1>2, <1>4
<1>8. Covers(route, s, RegionOf(m, a).target, CellOf(m, a))
  BY <1>3, <1>4, <1>5, <1>6, <1>7 DEF Covers
<1>9. Written(route, s, CellOf(m, a)) = ByteOf(s, a)
  BY <1>3, <1>6, <1>7 DEF Written, ByteOf
<1> QED
  BY <1>3, <1>4, <1>5, <1>7, <1>8, <1>9 DEF s, route

LEMMA LoadHolds ==
    ASSUME GoodImage(image), NEW m, MapIsValid(m), NEW view \in Views, Hosted(m, view, image),
           NEW bytes, Stores(bytes)
    PROVE  LET after == FilledAll(bytes, m, view, image.segments)
           IN  Stores(after) /\ Placed(m, after, image) /\ Holds(after, bytes, m)
<1> DEFINE after == FilledAll(bytes, m, view, image.segments)
           Route(k) == Destination(m, view, image.segments[k])
<1>1. /\ Stores(after)
      /\ \A storage \in Storages : \A c \in Cells[storage] :
           /\ \A k \in DOMAIN image.segments :
                Covers(Route(k), image.segments[k], storage, c) =>
                    after[storage][c] = Written(Route(k), image.segments[k], c)
           /\ (\A k \in DOMAIN image.segments : ~Covers(Route(k), image.segments[k], storage, c)) =>
                after[storage][c] = bytes[storage][c]
  BY FilledAllCells
<1> HIDE DEF after, Route
<1>2. Placed(m, after, image)
  <2> SUFFICES ASSUME NEW k \in DOMAIN image.segments, NEW a \in Span(image.segments[k])
               PROVE  after[RegionOf(m, a).target][CellOf(m, a)] = ByteOf(image.segments[k], a)
    BY DEF Placed
  <2>1. /\ RegionOf(m, a).target \in Storages
        /\ CellOf(m, a) \in Cells[RegionOf(m, a).target]
        /\ Covers(Route(k), image.segments[k], RegionOf(m, a).target, CellOf(m, a))
        /\ Written(Route(k), image.segments[k], CellOf(m, a)) = ByteOf(image.segments[k], a)
    BY HostedAddress DEF Route
  <2> QED
    BY <1>1, <2>1
<1>3. ASSUME NEW a \in Image
      PROVE  after[RegionOf(m, a).target][CellOf(m, a)] = ImageByte(a)
  <2>1. PICK k \in DOMAIN image.segments : a \in Span(image.segments[k])
    BY DEF Image
  <2> QED
    BY <1>2, <2>1, ImageBytes DEF Placed
<1>4. ASSUME NEW storage \in Storages, NEW c \in Cells[storage],
             \A a \in Image : RegionOf(m, a).target # storage \/ CellOf(m, a) # c
      PROVE  after[storage][c] = bytes[storage][c]
  <2>1. ASSUME NEW k \in DOMAIN image.segments, Covers(Route(k), image.segments[k], storage, c)
        PROVE  FALSE
    <3> DEFINE s == image.segments[k]
               a == s.address + (c - Route(k).at)
    <3>1. GoodSegment(s, image.length)
      BY DEF GoodImage
    <3>2. s.address \in Nat /\ s.memory_size \in Nat
      BY <3>1, SegmentTypes
    <3>3. Route(k).at \in Nat
      BY HostedRoute DEF Route
    <3>4. c \in Int /\ Route(k).at <= c /\ c < Route(k).at + s.memory_size /\ storage = Route(k).storage
      BY <2>1, <3>2, <3>3 DEF Covers
    <3>5. a \in Int /\ s.address <= a /\ a < s.address + s.memory_size /\ c = Route(k).at + (a - s.address)
      BY <3>2, <3>3, <3>4
    <3> HIDE DEF a
    <3>6. a \in Span(s)
      BY <3>1, <3>5, SegmentTypes
    <3>7. RegionOf(m, a).target = Route(k).storage /\ CellOf(m, a) = Route(k).at + (a - s.address)
      BY <3>6, HostedAddress DEF Route
    <3>8. a \in Image
      BY <3>6, ImageBytes
    <3> HIDE DEF s
    <3> QED
      BY <1>4, <3>4, <3>5, <3>7, <3>8
  <2> QED
    BY <1>1, <2>1
<1>5. Holds(after, bytes, m)
  BY <1>3, <1>4 DEF Holds
<1> QED
  BY <1>1, <1>2, <1>5 DEF after

(* The bytes the stores of a loader that holds im can have. *)
ByteNames(im) == {Old, Zero} \cup (IF im = NoImage THEN {} ELSE 0 .. im.length - 1)

TypedStores(bytes, im) ==
    /\ bytes = [s \in Storages |-> bytes[s]]
    /\ \A s \in Storages : bytes[s] \in [Cells[s] -> ByteNames(im)]

LEMMA TypedIsStores ==
    ASSUME NEW bytes, NEW im, TypedStores(bytes, im)
    PROVE  Stores(bytes)
BY DEF TypedStores, Stores

LEMMA GoodImageIsSome ==
    ASSUME NEW im, GoodImage(im)
    PROVE  im # NoImage
BY DEF GoodImage, NoImage

LEMMA ByteOfIsTyped ==
    ASSUME NEW im, GoodImage(im), NEW k \in DOMAIN im.segments, NEW a
    PROVE  /\ a \in FileSpan(im.segments[k]) => ByteOf(im.segments[k], a) \in 0 .. im.length - 1
           /\ a \notin FileSpan(im.segments[k]) => ByteOf(im.segments[k], a) = Zero
           /\ ByteOf(im.segments[k], a) \in ByteNames(im)
<1> DEFINE s == im.segments[k]
<1>1. GoodSegment(s, im.length) /\ im.length \in Nat
  BY DEF GoodImage
<1>2. /\ s.address \in Nat /\ s.offset \in Nat /\ s.file_size \in Nat /\ s.offset + s.file_size <= im.length
      /\ a \in FileSpan(s) <=> a \in Int /\ s.address <= a /\ a < s.address + s.file_size
  BY <1>1, SegmentTypes DEF GoodSegment
<1>3. im # NoImage
  BY GoodImageIsSome
<1> HIDE DEF s
<1>4. a \in FileSpan(s) => ByteOf(s, a) \in 0 .. im.length - 1
  BY <1>1, <1>2 DEF ByteOf
<1>5. a \notin FileSpan(s) => ByteOf(s, a) = Zero
  BY DEF ByteOf
<1> QED
  BY <1>3, <1>4, <1>5 DEF ByteNames, s

LEMMA LoadIsTyped ==
    ASSUME GoodImage(image), NEW m, MapIsValid(m), NEW view \in Views, Hosted(m, view, image),
           NEW bytes, TypedStores(bytes, image)
    PROVE  TypedStores(FilledAll(bytes, m, view, image.segments), image)
<1> DEFINE after == FilledAll(bytes, m, view, image.segments)
<1>1. Stores(after) /\ Placed(m, after, image) /\ Holds(after, bytes, m)
  BY LoadHolds, TypedIsStores
<1> HIDE DEF after
<1>2. ASSUME NEW storage \in Storages, NEW c \in Cells[storage]
      PROVE  after[storage][c] \in ByteNames(image)
  <2>1. CASE \E a \in Image : RegionOf(m, a).target = storage /\ CellOf(m, a) = c
    <3>1. PICK a \in Image : RegionOf(m, a).target = storage /\ CellOf(m, a) = c
      BY <2>1
    <3>2. PICK k \in DOMAIN image.segments : a \in Span(image.segments[k])
      BY DEF Image
    <3>3. after[storage][c] = ByteOf(image.segments[k], a)
      BY <1>1, <3>1, <3>2 DEF Placed
    <3> QED
      BY <3>3, ByteOfIsTyped
  <2>2. CASE \A a \in Image : RegionOf(m, a).target # storage \/ CellOf(m, a) # c
    <3>1. after[storage][c] = bytes[storage][c]
      BY <1>1, <2>2 DEF Holds
    <3>2. bytes[storage] \in [Cells[storage] -> ByteNames(image)]
      BY DEF TypedStores
    <3> QED
      BY <3>1, <3>2
  <2> QED
    BY <2>1, <2>2
<1>3. after = [s \in Storages |-> after[s]]
      /\ \A s \in Storages : after[s] \in [Cells[s] -> ByteNames(image)]
  <2>1. \A s \in Storages : after[s] = [i \in Cells[s] |-> after[s][i]]
    BY <1>1 DEF Stores
  <2>2. ASSUME NEW s \in Storages
        PROVE  after[s] \in [Cells[s] -> ByteNames(image)]
    <3>1. \A i \in Cells[s] : after[s][i] \in ByteNames(image)
      BY <1>2
    <3>2. after[s] = [i \in Cells[s] |-> after[s][i]]
      BY <2>1
    <3> DEFINE bank == after[s]
    <3> HIDE DEF bank
    <3>3. bank = [i \in Cells[s] |-> bank[i]] /\ \A i \in Cells[s] : bank[i] \in ByteNames(image)
      BY <3>1, <3>2 DEF bank
    <3>4. bank \in [Cells[s] -> ByteNames(image)]
      BY <3>3
    <3> QED
      BY <3>4 DEF bank
  <2> QED
    BY <1>1, <2>2 DEF Stores
<1> QED
  BY <1>3 DEF TypedStores, after

LEMMA FreshIsTyped ==
    ASSUME NEW bytes, NEW im, TypedStores(bytes, im)
    PROVE  /\ TypedStores(Fresh(bytes), im)
           /\ [bytes EXCEPT !.system = Fresh(bytes).system] = bytes
<1>1. \A s \in Storages : Fresh(bytes)[s] = IF s = "system" THEN bytes[s] ELSE [i \in Cells[s] |-> Zero]
  BY DEF Fresh
<1>2. Zero \in ByteNames(im)
  BY DEF ByteNames
<1>3. \A s \in Storages : Fresh(bytes)[s] \in [Cells[s] -> ByteNames(im)]
  BY <1>1, <1>2 DEF TypedStores
<1>4. Fresh(bytes) = [s \in Storages |-> Fresh(bytes)[s]]
  BY DEF Fresh
<1>5. Fresh(bytes).system = bytes.system /\ DOMAIN bytes = Storages
  <2>1. "system" \in Storages
    BY DEF Storages
  <2> QED
    BY <1>1, <2>1 DEF TypedStores
<1>6. [bytes EXCEPT !.system = Fresh(bytes).system] = bytes
  <2>1. [bytes EXCEPT !.system = bytes.system] = bytes
    BY DEF TypedStores
  <2> QED
    BY <1>5, <2>1
<1> QED
  BY <1>3, <1>4, <1>6 DEF TypedStores

-----------------------------------------------------------------------------
(* The invariant: an image parse has accepted is good, the stores hold what  *)
(* a loader can have put there, and what the last load or boot placed is in  *)
(* the map it was given.                                                   *)
LastLoad ==
    call.op \in {"load", "boot"} /\ call.ok =>
        /\ GoodImage(image) /\ call.map \in Maps /\ call.view \in Views
        /\ Hosted(call.map, call.view, image) /\ Placed(call.map, memory, image)

IInv ==
    /\ image = NoImage \/ GoodImage(image)
    /\ TypedStores(memory, image)
    /\ LastLoad
    /\ BootLeavesNoResidue

LEMMA MapsAreValid ==
    ASSUME NEW m \in Maps
    PROVE  MapIsValid(m)
BY LoaderAssumption, CreatedMapIsValid DEF LoaderAssumption, Maps

LEMMA InitIsSafe == Init => IInv
<1> SUFFICES ASSUME Init PROVE IInv
  OBVIOUS
<1>1. image = NoImage /\ call.op = "none"
  BY DEF Init
<1>2. Old \in ByteNames(image)
  BY DEF ByteNames
<1>3. memory = [s \in Storages |-> [i \in Cells[s] |-> Old]]
  BY DEF Init
<1>4. TypedStores(memory, image)
  BY <1>2, <1>3 DEF TypedStores
<1> QED
  BY <1>1, <1>4 DEF IInv, LastLoad, BootLeavesNoResidue

(* A parse holds no image back: what it accepts is good. *)
LEMMA ParseKeeps ==
    ASSUME IInv, NEW file \in Files, ParseFile(file)
    PROVE  IInv'
<1>1. image = NoImage /\ memory' = memory /\ call'.op = "parse"
  BY DEF ParseFile
<1>2. image' = NoImage \/ GoodImage(image')
  <2>1. CASE Parse(file).ok
    BY <2>1, ParsedImageIsGood DEF ParseFile
  <2>2. CASE ~Parse(file).ok
    BY <1>1, <2>2 DEF ParseFile
  <2> QED
    BY <2>1, <2>2
<1>3. TypedStores(memory, image')
  <2>1. ByteNames(image) \subseteq ByteNames(image')
    BY <1>1 DEF ByteNames
  <2>2. TypedStores(memory, image)
    BY DEF IInv
  <2> QED
    BY <2>1, <2>2 DEF TypedStores
<1> QED
  BY <1>1, <1>2, <1>3 DEF IInv, LastLoad, BootLeavesNoResidue

(* What a call to load, or a boot from the stores "bytes", does. *)
LEMMA LoadOutcome ==
    ASSUME GoodImage(image), NEW m \in Maps, NEW view \in Views, NEW bytes, TypedStores(bytes, image)
    PROVE  LET loaded == Load(bytes, m, view)
           IN  /\ loaded.ok <=> Placeable(m, view)
               /\ loaded.ok => /\ Hosted(m, view, image) /\ TypedStores(loaded.bytes, image)
                               /\ Placed(m, loaded.bytes, image) /\ Holds(loaded.bytes, bytes, m)
               /\ ~loaded.ok => loaded.bytes = bytes
<1>1. MapIsValid(m) /\ Stores(bytes)
  BY MapsAreValid, TypedIsStores
<1> QED
  BY <1>1, LoadDecides, LoadHolds, LoadIsTyped

LEMMA LoadKeeps ==
    ASSUME IInv, NEW m \in Maps, NEW view \in Views, LoadImage(m, view)
    PROVE  /\ IInv'
           /\ call'.ok <=> Placeable(call'.map, call'.view)
           /\ IF call'.ok THEN Holds(memory', memory, call'.map) ELSE memory' = memory
           /\ call'.op = "load"
<1> DEFINE loaded == Load(memory, m, view)
<1>1. /\ image' = image /\ GoodImage(image) /\ TypedStores(memory, image)
      /\ memory' = loaded.bytes
      /\ call' = [op |-> "load", ok |-> loaded.ok, map |-> m, view |-> view]
  BY DEF LoadImage, IInv
<1>2. call'.op = "load" /\ call'.ok = loaded.ok /\ call'.map = m /\ call'.view = view
  BY <1>1
<1>3. /\ loaded.ok <=> Placeable(m, view)
      /\ loaded.ok => /\ Hosted(m, view, image) /\ TypedStores(loaded.bytes, image)
                      /\ Placed(m, loaded.bytes, image) /\ Holds(loaded.bytes, memory, m)
      /\ ~loaded.ok => loaded.bytes = memory
  BY <1>1, LoadOutcome
<1> HIDE DEF loaded
<1>4. TypedStores(memory', image')
  BY <1>1, <1>3
<1>5. LastLoad'
  BY <1>1, <1>2, <1>3 DEF LastLoad
<1>6. IInv'
  BY <1>1, <1>2, <1>4, <1>5 DEF IInv, BootLeavesNoResidue
<1> QED
  BY <1>1, <1>2, <1>3, <1>6

LEMMA BootKeeps ==
    ASSUME IInv, NEW m \in Maps, NEW view \in Views, BootImage(m, view)
    PROVE  /\ IInv'
           /\ call'.ok <=> Placeable(call'.map, call'.view)
           /\ IF call'.ok THEN Holds(memory', Fresh(memory), call'.map) ELSE memory' = memory
           /\ call'.op = "boot"
<1> DEFINE fresh == Fresh(memory)
           loaded == Load(fresh, m, view)
<1>1. /\ image' = image /\ GoodImage(image) /\ TypedStores(memory, image)
      /\ memory' = IF loaded.ok THEN loaded.bytes ELSE [memory EXCEPT !.system = loaded.bytes.system]
      /\ call' = [op |-> "boot", ok |-> loaded.ok, map |-> m, view |-> view]
  BY DEF BootImage, IInv
<1>2. call'.op = "boot" /\ call'.ok = loaded.ok /\ call'.map = m /\ call'.view = view
  BY <1>1
<1>3. TypedStores(fresh, image) /\ [memory EXCEPT !.system = fresh.system] = memory
  BY <1>1, FreshIsTyped
<1>4. /\ loaded.ok <=> Placeable(m, view)
      /\ loaded.ok => /\ Hosted(m, view, image) /\ TypedStores(loaded.bytes, image)
                      /\ Placed(m, loaded.bytes, image) /\ Holds(loaded.bytes, fresh, m)
      /\ ~loaded.ok => loaded.bytes = fresh
  BY <1>1, <1>3, LoadOutcome
<1>5. \A s \in {"program", "scratchpad"} : s \in Storages /\ \A i \in Cells[s] : fresh[s][i] = Zero
  BY DEF Fresh, Storages
<1> HIDE DEF loaded, fresh
<1>6. /\ loaded.ok => memory' = loaded.bytes
      /\ ~loaded.ok => memory' = memory
  BY <1>1, <1>3, <1>4
<1>7. TypedStores(memory', image')
  BY <1>1, <1>4, <1>6
<1>8. LastLoad'
  BY <1>1, <1>2, <1>4, <1>6 DEF LastLoad
<1>9. BootLeavesNoResidue'
  <2> SUFFICES ASSUME call'.ok, NEW s \in {"program", "scratchpad"}, NEW i \in Cells[s], memory'[s][i] # Zero
               PROVE  \E a \in Image' : RegionOf(call'.map, a).target = s /\ CellOf(call'.map, a) = i
    BY DEF BootLeavesNoResidue
  <2>1. Holds(memory', fresh, m) /\ fresh[s][i] = Zero /\ s \in Storages
    BY <1>2, <1>4, <1>5, <1>6
  <2>2. ~ \A a \in Image : RegionOf(m, a).target # s \/ CellOf(m, a) # i
    BY <2>1 DEF Holds
  <2>3. Image' = Image
    BY <1>1 DEF Image
  <2> QED
    BY <1>2, <2>2, <2>3
<1>10. IInv'
  BY <1>1, <1>7, <1>8, <1>9 DEF IInv
<1>11. IF call'.ok THEN Holds(memory', fresh, m) ELSE memory' = memory
  BY <1>2, <1>4, <1>6
<1> QED
  BY <1>2, <1>4, <1>10, <1>11 DEF fresh

LEMMA IInvHolds == Spec => []IInv
<1>1. ASSUME IInv, [Next]_vars
      PROVE  IInv'
  <2>1. CASE UNCHANGED vars
    <3>1. image' = image /\ memory' = memory /\ call' = call
      BY <2>1 DEF vars
    <3> QED
      BY <1>1, <3>1 DEF IInv, LastLoad, BootLeavesNoResidue, Image
  <2> QED
    BY <1>1, <2>1, ParseKeeps, LoadKeeps, BootKeeps DEF Next
<1> QED
  BY <1>1, InitIsSafe, PTL DEF Spec

(* The entry of a good image that is in place can be fetched. *)
LEMMA EntryIsThere ==
    ASSUME IInv
    PROVE  EntryIsFetchable
<1> SUFFICES ASSUME call.op \in {"load", "boot"} /\ call.ok
             PROVE  /\ image.entry % 4 = 0
                    /\ Resolve(call.map, image.entry, 4, "execute").ok
                    /\ \A a \in image.entry .. image.entry + 3 :
                        memory[RegionOf(call.map, a).target][CellOf(call.map, a)] \in 0 .. image.length - 1
  BY DEF EntryIsFetchable
<1>1. /\ GoodImage(image) /\ call.map \in Maps /\ call.view \in Views
      /\ Hosted(call.map, call.view, image) /\ Placed(call.map, memory, image)
  BY DEF IInv, LastLoad
<1>2. MapIsValid(call.map)
  BY <1>1, MapsAreValid
<1>3. PICK k \in DOMAIN image.segments : HoldsEntry(image.segments[k], image.entry)
  BY <1>1 DEF GoodImage
<1> DEFINE s == image.segments[k]
           entry == image.entry
<1>4. GoodSegment(s, image.length) /\ entry % 4 = 0 /\ entry \in Nat
  BY <1>1, AddressSpaceAssumption DEF GoodImage, Addresses, AddressSpaceAssumption
<1>5. PICK i \in DOMAIN call.map : Hosts(call.map, call.view, i, s)
  BY <1>1 DEF Hosted
<1>6. /\ s.address \in Nat /\ s.file_size \in Nat /\ s.memory_size \in Nat /\ s.file_size <= s.memory_size
      /\ \A a : a \in Span(s) <=> a \in Int /\ s.address <= a /\ a < s.address + s.memory_size
      /\ \A a : a \in FileSpan(s) <=> a \in Int /\ s.address <= a /\ a < s.address + s.file_size
  BY <1>4, SegmentTypes DEF GoodSegment
<1>7. /\ "execute" \in s.allowed /\ s.address <= entry
      /\ entry + 4 <= s.address + s.file_size
  BY <1>3, <1>4, <1>6 DEF HoldsEntry
<1>8. /\ call.map[i].base \in Nat /\ call.map[i].size \in Nat
      /\ call.map[i].base <= s.address /\ s.address + s.memory_size <= call.map[i].base + call.map[i].size
      /\ s.allowed \subseteq call.map[i].allowed
  BY <1>2, <1>5, RegionTypes DEF Hosts, MapIsValid
<1> HIDE DEF s, entry
<1>9. Resolve(call.map, entry, 4, "execute").ok
  <2>1. Contains(call.map[i], entry) /\ entry + 4 <= call.map[i].base + call.map[i].size
        /\ "execute" \in call.map[i].allowed /\ entry \in Int
    BY <1>4, <1>6, <1>7, <1>8 DEF Contains
  <2> QED
    BY <1>2, <2>1, ResolvedIn
<1>10. ASSUME NEW a \in entry .. entry + 3
       PROVE  memory[RegionOf(call.map, a).target][CellOf(call.map, a)] \in 0 .. image.length - 1
  <2>1. a \in Span(s) /\ a \in FileSpan(s)
    BY <1>4, <1>6, <1>7
  <2>2. memory[RegionOf(call.map, a).target][CellOf(call.map, a)] = ByteOf(s, a)
    BY <1>1, <2>1 DEF Placed, s
  <2>3. GoodImage(image) /\ s = image.segments[k]
    BY <1>1 DEF s
  <2>4. ByteOf(s, a) \in 0 .. image.length - 1
    BY <2>1, <2>3, ByteOfIsTyped
  <2> QED
    BY <2>2, <2>4
<1> QED
  BY <1>4, <1>9, <1>10 DEF entry

(* What a boot leaves is a program and nothing else: bytes of its own file,  *)
(* zero elsewhere, and a first instruction that can be fetched              *)
(* (program_machine::boot over image::load).                                *)
THEOREM BootsAreCleanHolds == Spec => []BootsAreClean
<1>1. IInv => BootsAreClean
  BY EntryIsThere DEF IInv, BootsAreClean, TypeOK, TypedStores, ByteNames, GoodImage
<1> QED
  BY <1>1, IInvHolds, PTL

LEMMA LoadStepIsExact ==
    ASSUME IInv, [Next]_vars
    PROVE  [call'.op \in {"load", "boot"} =>
              /\ call'.ok <=> Placeable(call'.map, call'.view)
              /\ IF call'.ok
                 THEN Holds(memory', IF call'.op = "boot" THEN Fresh(memory) ELSE memory, call'.map)
                 ELSE memory' = memory]_vars
<1>1. ASSUME NEW file \in Files, ParseFile(file)
      PROVE  call'.op = "parse"
  BY <1>1 DEF ParseFile
<1> QED
  BY <1>1, LoadKeeps, BootKeeps DEF Next

(* load and boot succeed exactly when every segment lies in one region that *)
(* grants what it asks for and whose bytes are all there; then the image is  *)
(* in place and nothing else has changed, and otherwise nothing has changed *)
(* (image::load, program_machine::boot).                                    *)
THEOREM LoadIsExactOrNothingHolds == Spec => LoadIsExactOrNothing
BY IInvHolds, LoadStepIsExact, PTL DEF Spec, LoadIsExactOrNothing

-----------------------------------------------------------------------------
(* parse against the reference: each check, in its order, against the set   *)
(* of files it is for                                                       *)

LEMMA FitsInFile ==
    ASSUME NEW file \in Files, NEW offset \in Nat, NEW size \in Nat
    PROVE  Fits(file.length, offset, size) <=> InFile(file, offset, size)
<1>1. file.length \in Nat
  BY FileTypes
<1>2. Fits(file.length, offset, size) => InFile(file, offset, size)
  BY <1>1 DEF Fits, InFile
<1>3. ASSUME InFile(file, offset, size) PROVE Fits(file.length, offset, size)
  <2>1. offset + size \in offset .. offset + size
    OBVIOUS
  <2>2. offset + size \in 0 .. file.length
    BY <1>3, <2>1 DEF InFile
  <2> QED
    BY <1>1, <2>2 DEF Fits
<1> QED
  BY <1>2, <1>3

LEMMA TablesPass ==
    ASSUME NEW file \in Files
    PROVE  HeaderError(file) = "none" <=> WellFormedTables(file)
<1> DEFINE headers  == Len(file.headers) * ProgramHeaderBytes
           sections == Len(file.sections) * SectionHeaderBytes
           Odd      == (file.shoff # 0) # (file.sections # << >>)
<1>1. /\ HeaderBytes \in Nat /\ HeaderBytes > 0 /\ ProgramHeaderBytes \in Nat /\ SectionHeaderBytes \in Nat
      /\ ReservedSections \in Nat /\ ReservedHeaders \in Nat
  BY LoaderAssumption DEF LoaderAssumption
<1>2. headers \in Nat /\ sections \in Nat
  BY <1>1, FileTypes
<1>3. Odd <=> ((file.shoff # 0) <=> (file.sections = << >>))
  OBVIOUS
<1>4. /\ Fits(file.length, file.phoff, headers) <=> InFile(file, file.phoff, headers)
      /\ Fits(file.length, file.shoff, sections) <=> InFile(file, file.shoff, sections)
  <2> HIDE DEF headers, sections
  <2> QED
    BY <1>2, FileTypes, FitsInFile
<1>5. HeaderError(file) = "none" <=>
        /\ ~(file.length < HeaderBytes) /\ file.identified /\ ~file.flagged /\ ~Odd
        /\ ~(Len(file.sections) >= ReservedSections)
        /\ ~(file.shstr # 0 /\ file.shstr >= Len(file.sections))
        /\ ~(/\ file.sections # << >>
             /\ file.shoff < HeaderBytes \/ ~Fits(file.length, file.shoff, sections))
        /\ ~(file.headers = << >> \/ Len(file.headers) = ReservedHeaders \/ file.phoff < HeaderBytes)
        /\ Fits(file.length, file.phoff, headers)
  <2> HIDE DEF Odd
  <2>1. HeaderError(file) =
          CASE file.length < HeaderBytes -> "truncated"
            [] ~file.identified -> "header"
            [] file.flagged -> "unsupported_profile"
            [] Odd -> "header"
            [] Len(file.sections) >= ReservedSections -> "header"
            [] file.shstr # 0 /\ file.shstr >= Len(file.sections) -> "header"
            [] /\ file.sections # << >>
               /\ file.shoff < HeaderBytes \/ ~Fits(file.length, file.shoff, sections) -> "header"
            [] file.headers = << >> \/ Len(file.headers) = ReservedHeaders \/ file.phoff < HeaderBytes -> "header"
            [] ~Fits(file.length, file.phoff, headers) -> "truncated"
            [] OTHER -> "none"
    BY Zenon DEF HeaderError, Odd
  <2> HIDE DEF headers, sections
  <2> QED
    BY <2>1
<1>6. WellFormedTables(file) <=>
        /\ file.identified /\ ~file.flagged /\ file.length >= HeaderBytes
        /\ Len(file.headers) \notin {0, ReservedHeaders} /\ Len(file.sections) < ReservedSections
        /\ file.phoff >= HeaderBytes
        /\ Fits(file.length, file.phoff, headers)
        /\ IF file.sections = << >> THEN file.shoff = 0 /\ file.shstr = 0
           ELSE /\ file.shoff >= HeaderBytes /\ file.shstr \in 0 .. Len(file.sections) - 1
                /\ Fits(file.length, file.shoff, sections)
  BY <1>4 DEF WellFormedTables
<1>7. /\ file.length \in Nat /\ file.phoff \in Nat /\ file.shoff \in Nat /\ file.shstr \in Nat
      /\ Len(file.sections) \in Nat /\ ((file.sections = << >>) <=> Len(file.sections) = 0)
      /\ Len(file.headers) \in Nat /\ ((file.headers = << >>) <=> Len(file.headers) = 0)
  BY FileTypes
<1> HIDE DEF headers, sections, Odd
<1>8. /\ ~(file.length < HeaderBytes) <=> file.length >= HeaderBytes
      /\ ~(Len(file.sections) >= ReservedSections) <=> Len(file.sections) < ReservedSections
      /\ ~(file.headers = << >> \/ Len(file.headers) = ReservedHeaders \/ file.phoff < HeaderBytes) <=>
            Len(file.headers) \notin {0, ReservedHeaders} /\ file.phoff >= HeaderBytes
  BY <1>1, <1>7
<1>9. /\ ~Odd
      /\ ~(file.shstr # 0 /\ file.shstr >= Len(file.sections))
      /\ ~(/\ file.sections # << >>
           /\ file.shoff < HeaderBytes \/ ~Fits(file.length, file.shoff, sections))
      <=>
      IF file.sections = << >> THEN file.shoff = 0 /\ file.shstr = 0
      ELSE /\ file.shoff >= HeaderBytes /\ file.shstr \in 0 .. Len(file.sections) - 1
           /\ Fits(file.length, file.shoff, sections)
  <2>1. CASE file.sections = << >>
    BY <1>3, <1>7, <2>1
  <2>2. CASE file.sections # << >>
    <3>1. ~Odd <=> file.shoff # 0
      BY <1>3, <2>2
    <3>2. ~(file.shstr # 0 /\ file.shstr >= Len(file.sections)) <=> file.shstr \in 0 .. Len(file.sections) - 1
      BY <1>7, <2>2
    <3>3. /\ ~(file.shoff < HeaderBytes) <=> file.shoff >= HeaderBytes
          /\ file.shoff >= HeaderBytes => file.shoff # 0
      BY <1>1, <1>7
    <3> QED
      BY <2>2, <3>1, <3>2, <3>3
  <2> QED
    BY <2>1, <2>2
<1> QED
  BY <1>5, <1>6, <1>8, <1>9

(* Two numbers leave one remainder when their difference leaves none. *)
LEMMA AlignedAlike ==
    ASSUME NEW a \in Nat, NEW b \in Nat, NEW n \in Nat \ {0}
    PROVE  a % n = b % n <=> (a - b) % n = 0
<1> DEFINE qa == a \div n
           qb == b \div n
           q  == (a - b) \div n
<1>1. /\ a = n * qa + (a % n) /\ qa \in Int /\ (a % n) \in 0 .. n - 1
      /\ b = n * qb + (b % n) /\ qb \in Int /\ (b % n) \in 0 .. n - 1
      /\ a - b = n * q + ((a - b) % n) /\ q \in Int
  OBVIOUS
<1> HIDE DEF qa, qb, q
<1>2. ASSUME a % n = b % n PROVE (a - b) % n = 0
  <2>1. a - b = (qa - qb) * n + 0 /\ qa - qb \in Int /\ 0 \in 0 .. n - 1 /\ a - b \in Int
    BY <1>1, <1>2
  <2> QED
    BY <2>1, QuotientIsUnique
<1>3. ASSUME (a - b) % n = 0 PROVE a % n = b % n
  <2>1. a = (q + qb) * n + (b % n) /\ q + qb \in Int /\ a \in Int
    BY <1>1, <1>3
  <2> QED
    BY <1>1, <2>1, QuotientIsUnique
<1> QED
  BY <1>2, <1>3

(* What the reference asks of a load segment. *)
GoodLoad(h) ==
    /\ FileSpan(h) \subseteq Span(h) /\ Span(h) \subseteq Addresses
    /\ h.physical = h.address /\ h.flags \subseteq AccessKinds /\ h.flags # {}
    /\ h.align > 1 => \E k \in 1 .. h.align : h.align = 2 ^ k /\ (h.address - h.offset) % h.align = 0

LEMMA LoadPasses ==
    ASSUME NEW h, IsHeader(h), h.type = "load"
    PROVE  LoadError(h) = "none" <=> GoodLoad(h)
<1> DEFINE a == h.address
           o == h.offset
           f == h.file_size
           m == h.memory_size
           n == h.align
           Alike == (a - o) % n = 0
<1>1. /\ a \in Addresses /\ a \in Nat /\ o \in Nat /\ f \in Nat /\ m \in Nat /\ n \in Nat
      /\ AddressSpace \in Nat /\ a < AddressSpace
  <2>1. a \in Addresses /\ o \in Nat /\ f \in Nat /\ m \in Nat /\ n \in Nat
    BY DEF IsHeader
  <2> QED
    BY <2>1, AddressSpaceAssumption DEF AddressSpaceAssumption, Addresses
<1>2. FileSpan(h) = a .. a + f - 1 /\ Span(h) = a .. a + m - 1
  BY DEF FileSpan, Span
<1>3. LoadError(h) = "none" <=>
        /\ ~(f > m) /\ ~(m > AddressSpace - a) /\ h.physical = a
        /\ h.flags # {} /\ h.flags \subseteq AccessKinds
        /\ n > 1 => PowerOfTwo(n) /\ a % n = o % n
  BY DEF LoadError
<1>4. n > 1 => (a % n = o % n <=> Alike)
  <2> HIDE DEF a, o, n
  <2>1. n > 1 => n \in Nat \ {0}
    BY <1>1
  <2> QED
    BY <1>1, <2>1, AlignedAlike DEF Alike
<1>5. n > 1 => (PowerOfTwo(n) <=> \E k \in 1 .. n : n = 2 ^ k)
  <2> HIDE DEF n
  <2>1. ASSUME n > 1, NEW k \in 0 .. n, 2 ^ k = n PROVE k \in 1 .. n
    <3>1. k = 0 => n = 2 ^ 0
      BY <2>1
    <3>2. 2 ^ 0 = 1
      BY PowersAssumption, Zenon DEF PowersAssumption
    <3> QED
      BY <1>1, <2>1, <3>1, <3>2
  <2> QED
    BY <1>1, <2>1 DEF PowerOfTwo
<1>6. GoodLoad(h) <=>
        /\ a .. a + f - 1 \subseteq a .. a + m - 1 /\ a .. a + m - 1 \subseteq Addresses
        /\ h.physical = a /\ h.flags # {} /\ h.flags \subseteq AccessKinds
        /\ n > 1 => (\E k \in 1 .. n : n = 2 ^ k) /\ Alike
  <2>1. GoodLoad(h) <=>
        /\ a .. a + f - 1 \subseteq a .. a + m - 1 /\ a .. a + m - 1 \subseteq Addresses
        /\ h.physical = a /\ h.flags # {} /\ h.flags \subseteq AccessKinds
        /\ n > 1 => \E k \in 1 .. n : n = 2 ^ k /\ Alike
    BY <1>2 DEF GoodLoad
  <2> HIDE DEF a, f, m, n, Alike
  <2> QED
    BY <2>1
<1> HIDE DEF a, o, f, m, n, Alike
<1>7. a .. a + f - 1 \subseteq a .. a + m - 1 <=> ~(f > m)
  <2>1. ASSUME a .. a + f - 1 \subseteq a .. a + m - 1, f > m PROVE FALSE
    <3>1. a + f - 1 \in a .. a + f - 1
      BY <1>1, <2>1
    <3>2. a + f - 1 \in a .. a + m - 1
      BY <2>1, <3>1
    <3> QED
      BY <1>1, <2>1, <3>2
  <2>2. ~(f > m) => a .. a + f - 1 \subseteq a .. a + m - 1
    BY <1>1
  <2> QED
    BY <2>1, <2>2
<1>8. a .. a + m - 1 \subseteq Addresses <=> ~(m > AddressSpace - a)
  <2>1. ASSUME a .. a + m - 1 \subseteq Addresses, m > AddressSpace - a PROVE FALSE
    <3>1. a + m - 1 \in a .. a + m - 1
      BY <1>1, <2>1
    <3>2. a + m - 1 \in Addresses
      BY <2>1, <3>1
    <3> QED
      BY <1>1, <2>1, <3>2 DEF Addresses
  <2>2. ~(m > AddressSpace - a) => a .. a + m - 1 \subseteq Addresses
    BY <1>1 DEF Addresses
  <2> QED
    BY <2>1, <2>2
<1> QED
  BY <1>3, <1>4, <1>5, <1>6, <1>7, <1>8

LEMMA HeadersPass ==
    ASSUME NEW file \in Files
    PROVE  FirstError(LAMBDA i : ProgramHeaderError(file, i), Len(file.headers)) = "none"
             <=> \A i \in DOMAIN file.headers : ProgramHeaderError(file, i) = "none"
<1> DEFINE n == Len(file.headers)
           bad == {i \in 1 .. n : ProgramHeaderError(file, i) # "none"}
           first == CHOOSE i \in bad : \A j \in bad : i <= j
<1>1. n \in Nat /\ DOMAIN file.headers = 1 .. n
  BY FileTypes
<1>2. FirstError(LAMBDA i : ProgramHeaderError(file, i), Len(file.headers))
        = IF bad = {} THEN "none" ELSE ProgramHeaderError(file, first)
  BY DEF FirstError
<1>3. ASSUME bad # {} PROVE first \in bad
  <2>1. bad \in SUBSET Nat
    BY <1>1
  <2> HIDE DEF bad
  <2> QED
    BY <1>3, <2>1, LeastExists
<1>4. first \in bad => ProgramHeaderError(file, first) # "none"
  OBVIOUS
<1>5. bad = {} <=> \A i \in DOMAIN file.headers : ProgramHeaderError(file, i) = "none"
  BY <1>1
<1> HIDE DEF bad, first
<1> QED
  BY <1>2, <1>3, <1>4, <1>5

LEMMA FieldsPass ==
    ASSUME NEW fields, Len(fields) \in Nat, DOMAIN fields = 1 .. Len(fields)
    PROVE  FirstError(LAMBDA i : FieldError(fields, i), Len(fields)) = "none"
             <=> \A i \in DOMAIN fields : FieldError(fields, i) = "none"
<1> DEFINE n == Len(fields)
           bad == {i \in 1 .. n : FieldError(fields, i) # "none"}
           first == CHOOSE i \in bad : \A j \in bad : i <= j
<1>1. FirstError(LAMBDA i : FieldError(fields, i), Len(fields))
        = IF bad = {} THEN "none" ELSE FieldError(fields, first)
  BY DEF FirstError
<1>2. ASSUME bad # {} PROVE first \in bad
  <2>1. bad \in SUBSET Nat
    OBVIOUS
  <2> HIDE DEF bad
  <2> QED
    BY <1>2, <2>1, LeastExists
<1>3. first \in bad => FieldError(fields, first) # "none"
  OBVIOUS
<1>4. bad = {} <=> \A i \in DOMAIN fields : FieldError(fields, i) = "none"
  OBVIOUS
<1> HIDE DEF bad, first
<1> QED
  BY <1>1, <1>2, <1>3, <1>4

(* The one attributes header a file may have. *)
OneAttributes(file) ==
    \A i, j \in DOMAIN file.headers :
        file.headers[i].type = "attributes" /\ file.headers[j].type = "attributes" => i = j

(* What the reference asks of one header. *)
GoodHeader(file, h) ==
    h.type # "null" =>
        /\ InFile(file, h.offset, h.file_size)
        /\ h.type \in {"load", "attributes", "stack", "note", "phdr"}
        /\ h.type = "stack" => "execute" \notin h.flags
        /\ h.type = "load" => GoodLoad(h)

LEMMA HeaderPasses ==
    ASSUME NEW file \in Files, NEW i \in DOMAIN file.headers
    PROVE  ProgramHeaderError(file, i) = "none" <=>
             /\ GoodHeader(file, file.headers[i])
             /\ file.headers[i].type = "attributes" =>
                    \A j \in 1 .. i - 1 : file.headers[j].type # "attributes"
<1> DEFINE h == file.headers[i]
           Earlier == \E j \in 1 .. i - 1 : file.headers[j].type = "attributes"
           fits == Fits(file.length, h.offset, h.file_size)
<1>1. IsHeader(h)
  BY FileTypes
<1>2. fits <=> InFile(file, h.offset, h.file_size)
  <2>1. h.offset \in Nat /\ h.file_size \in Nat
    BY <1>1 DEF IsHeader
  <2> HIDE DEF h
  <2> QED
    BY <2>1, FitsInFile DEF fits
<1>3. h.type = "load" => (LoadError(h) = "none" <=> GoodLoad(h))
  <2> HIDE DEF h
  <2> QED
    BY <1>1, LoadPasses
<1>4. ProgramHeaderError(file, i) =
        IF h.type = "null" THEN "none"
        ELSE IF ~fits THEN "truncated"
        ELSE CASE h.type = "attributes" -> (IF Earlier THEN "attributes" ELSE "none")
               [] h.type = "load" -> LoadError(h)
               [] h.type = "stack" -> (IF "execute" \in h.flags THEN "unsupported_profile" ELSE "none")
               [] h.type \in {"note", "phdr"} -> "none"
               [] OTHER -> "unsupported_segment"
  BY DEF ProgramHeaderError
<1>5. Earlier <=> ~ \A j \in 1 .. i - 1 : file.headers[j].type # "attributes"
  OBVIOUS
<1> HIDE DEF h, Earlier, fits
<1>6. ProgramHeaderError(file, i) = "none" <=> GoodHeader(file, h) /\ (h.type = "attributes" => ~Earlier)
  <2>1. CASE h.type = "null"
    BY <1>4, <2>1 DEF GoodHeader
  <2>2. CASE h.type # "null" /\ ~fits
    BY <1>2, <1>4, <2>2 DEF GoodHeader
  <2>3. CASE fits /\ h.type = "attributes"
    BY <1>2, <1>4, <2>3 DEF GoodHeader
  <2>4. CASE fits /\ h.type = "load"
    BY <1>2, <1>3, <1>4, <2>4 DEF GoodHeader
  <2>5. CASE fits /\ h.type = "stack"
    BY <1>2, <1>4, <2>5 DEF GoodHeader
  <2>6. CASE fits /\ h.type \in {"note", "phdr"}
    BY <1>2, <1>4, <2>6 DEF GoodHeader
  <2>7. CASE fits /\ h.type \notin {"null", "load", "attributes", "stack", "note", "phdr"}
    BY <1>2, <1>4, <2>7 DEF GoodHeader
  <2> QED
    BY <2>1, <2>2, <2>3, <2>4, <2>5, <2>6, <2>7
<1> QED
  BY <1>5, <1>6 DEF h

LEMMA HeadersMatch ==
    ASSUME NEW file \in Files
    PROVE  (\A i \in DOMAIN file.headers : ProgramHeaderError(file, i) = "none")
             <=> WellFormedHeaders(file) /\ OneAttributes(file)
<1> DEFINE n == Len(file.headers)
           Attributes(i) == file.headers[i].type = "attributes"
           Passes(i) == ProgramHeaderError(file, i) = "none"
           Good(i) == GoodHeader(file, file.headers[i])
<1>1. n \in Nat /\ DOMAIN file.headers = 1 .. n
  BY FileTypes
<1>2. \A i \in 1 .. n : Passes(i) <=> Good(i) /\ (Attributes(i) => \A j \in 1 .. i - 1 : ~Attributes(j))
  BY <1>1, HeaderPasses
<1>3. WellFormedHeaders(file) <=> \A i \in 1 .. n : Good(i)
  BY <1>1, Zenon DEF WellFormedHeaders, GoodHeader, GoodLoad
<1>4. OneAttributes(file) <=> \A i, j \in 1 .. n : Attributes(i) /\ Attributes(j) => i = j
  BY <1>1 DEF OneAttributes
<1> HIDE DEF n, Attributes, Passes, Good
<1>5. (\A i, j \in 1 .. n : Attributes(i) /\ Attributes(j) => i = j)
        <=> \A i \in 1 .. n : Attributes(i) => \A j \in 1 .. i - 1 : ~Attributes(j)
  <2>1. ASSUME \A i, j \in 1 .. n : Attributes(i) /\ Attributes(j) => i = j,
               NEW i \in 1 .. n, Attributes(i), NEW j \in 1 .. i - 1, Attributes(j)
        PROVE  FALSE
    <3>1. j \in 1 .. n /\ j # i
      BY <1>1, <2>1
    <3> QED
      BY <2>1, <3>1
  <2>2. ASSUME \A i \in 1 .. n : Attributes(i) => \A j \in 1 .. i - 1 : ~Attributes(j),
               NEW i \in 1 .. n, NEW j \in 1 .. n, Attributes(i), Attributes(j)
        PROVE  i = j
    <3>1. i < j => i \in 1 .. j - 1
      BY <1>1
    <3>2. j < i => j \in 1 .. i - 1
      BY <1>1
    <3>3. ~(i < j) /\ ~(j < i)
      BY <2>2, <3>1, <3>2
    <3> QED
      BY <1>1, <3>3
  <2> QED
    BY <2>1, <2>2
<1>6. (\A i \in 1 .. n : Passes(i)) <=> (\A i \in 1 .. n : Good(i)) /\ OneAttributes(file)
  BY <1>2, <1>4, <1>5
<1> QED
  BY <1>1, <1>3, <1>6 DEF Passes

-----------------------------------------------------------------------------
(* Profiles: fields read in order, against a set of them *)

LEMMA AtMostOne ==
    ASSUME NEW S, IsFiniteSet(S)
    PROVE  /\ Cardinality(S) <= 1 <=> \A x, y \in S : x = y
           /\ Cardinality(S) = 1 <=> S # {} /\ \A x, y \in S : x = y
<1>1. Cardinality(S) \in Nat /\ (Cardinality(S) = 0 <=> S = {})
  BY FS_CardinalityType, FS_EmptySet
<1>2. Cardinality(S) = 1 <=> \E x : S = {x}
  BY FS_Singleton
<1>3. (\E x : S = {x}) <=> S # {} /\ \A x, y \in S : x = y
  <2>1. ASSUME S # {}, \A x, y \in S : x = y PROVE \E x : S = {x}
    <3>1. PICK x : x \in S
      BY <2>1
    <3>2. S = {x}
      BY <2>1, <3>1
    <3> QED
      BY <3>2
  <2> QED
    BY <2>1
<1>4. Cardinality(S) <= 1 <=> Cardinality(S) = 0 \/ Cardinality(S) = 1
  BY <1>1
<1>5. Cardinality(S) = 1 <=> S # {} /\ \A x, y \in S : x = y
  BY <1>2, <1>3, Zenon
<1>6. S = {} => \A x, y \in S : x = y
  OBVIOUS
<1> QED
  BY <1>1, <1>4, <1>5, <1>6, Zenon

LEMMA SomeOfRange ==
    ASSUME NEW n \in Nat, NEW S \in SUBSET (1 .. n)
    PROVE  /\ Cardinality(S) <= 1 <=> \A x, y \in S : x = y
           /\ Cardinality(S) = 1 <=> S # {} /\ \A x, y \in S : x = y
<1>1. IsFiniteSet(1 .. n)
  BY FS_Interval
<1>2. IsFiniteSet(S)
  BY <1>1, FS_Subset
<1> QED
  BY <1>2, AtMostOne

LEMMA NamesDiffer ==
    ASSUME NEW names, Len(names) \in Nat, DOMAIN names = 1 .. Len(names)
    PROVE  Cardinality({names[i] : i \in DOMAIN names}) = Len(names)
             <=> \A i, j \in DOMAIN names : names[i] = names[j] => i = j
<1> DEFINE n == Len(names)
           S == 1 .. n
           T == {names[i] : i \in S}
           f == [i \in S |-> names[i]]
<1>1. f \in [S -> T] /\ \A i \in S : f[i] = names[i]
  OBVIOUS
<1>2. \A t \in T : \E i \in S : f[i] = t
  OBVIOUS
<1>3. IsFiniteSet(S) /\ Cardinality(S) = n
  <2>1. IsFiniteSet(1 .. n) /\ Cardinality(1 .. n) = IF 1 > n THEN 0 ELSE n - 1 + 1
    <3>1. 1 \in Int /\ n \in Int
      OBVIOUS
    <3> HIDE DEF n
    <3> QED
      BY <3>1, FS_Interval
  <2> QED
    BY <2>1
<1> HIDE DEF S, T, f
<1>4. f \in Surjection(S, T)
  BY <1>1, <1>2 DEF Surjection
<1>5. Cardinality(T) = Cardinality(S) <=> f \in Injection(S, T)
  BY <1>3, <1>4, FS_Surjection
<1>6. f \in Injection(S, T) <=> \A i, j \in S : f[i] = f[j] => i = j
  BY <1>1 DEF Injection, IsInjective
<1>7. T = {names[i] : i \in DOMAIN names} /\ S = DOMAIN names
  BY DEF T, S
<1> QED
  BY <1>1, <1>3, <1>5, <1>6, <1>7

(* What the reference asks of the names of a base and its extensions. *)
GoodArch(names) ==
    /\ names # << >> /\ Head(names) = ArchBase
    /\ {names[i] : i \in 2 .. Len(names)} \subseteq ArchExtensions
    /\ Cardinality({names[i] : i \in DOMAIN names}) = Len(names)

LEMMA ArchPasses ==
    ASSUME NEW names, IsList(names)
    PROVE  SupportedArch(names) <=> GoodArch(names)
<1> DEFINE n == Len(names)
<1>1. /\ n \in Nat /\ DOMAIN names = 1 .. n /\ (names # << >> <=> n > 0)
      /\ names # << >> => Head(names) = names[1]
  BY DEF IsList
<1>2. Cardinality({names[i] : i \in DOMAIN names}) = n <=> \A i, j \in 1 .. n : names[i] = names[j] => i = j
  BY <1>1, NamesDiffer
<1>3. ArchBase \notin ArchExtensions
  BY LoaderAssumption DEF LoaderAssumption
<1>4. GoodArch(names) <=>
        /\ n > 0 /\ names[1] = ArchBase
        /\ \A i \in 2 .. n : names[i] \in ArchExtensions
        /\ \A i, j \in 1 .. n : names[i] = names[j] => i = j
  BY <1>1, <1>2 DEF GoodArch
<1>5. SupportedArch(names) <=>
        /\ n > 0 /\ names[1] = ArchBase
        /\ \A i \in 2 .. n : names[i] \in ArchExtensions
        /\ \A i \in 2 .. n : \A j \in 2 .. i - 1 : names[j] # names[i]
  BY <1>1 DEF SupportedArch
<1> HIDE DEF n
<1>6. ASSUME n > 0, names[1] = ArchBase, \A i \in 2 .. n : names[i] \in ArchExtensions
      PROVE  (\A i, j \in 1 .. n : names[i] = names[j] => i = j)
               <=> \A i \in 2 .. n : \A j \in 2 .. i - 1 : names[j] # names[i]
  <2>1. ASSUME \A i, j \in 1 .. n : names[i] = names[j] => i = j,
               NEW i \in 2 .. n, NEW j \in 2 .. i - 1, names[j] = names[i]
        PROVE  FALSE
    <3>1. i \in 1 .. n /\ j \in 1 .. n /\ i # j
      BY <1>1
    <3> QED
      BY <2>1, <3>1
  <2>2. ASSUME \A i \in 2 .. n : \A j \in 2 .. i - 1 : names[j] # names[i],
               NEW i \in 1 .. n, NEW j \in 1 .. n, names[i] = names[j], i < j
        PROVE  FALSE
    <3>1. j \in 2 .. n /\ (i = 1 \/ i \in 2 .. j - 1)
      BY <1>1, <2>2
    <3>2. CASE i = 1
      BY <1>3, <1>6, <2>2, <3>1, <3>2
    <3>3. CASE i \in 2 .. j - 1
      BY <2>2, <3>1, <3>3
    <3> QED
      BY <3>1, <3>2, <3>3
  <2>3. ASSUME \A i \in 2 .. n : \A j \in 2 .. i - 1 : names[j] # names[i],
               NEW i \in 1 .. n, NEW j \in 1 .. n, names[i] = names[j]
        PROVE  i = j
    <3>1. ~(i < j) /\ ~(j < i)
      BY <2>2, <2>3
    <3> QED
      BY <1>1, <3>1
  <2> QED
    BY <2>1, <2>3
<1> QED
  BY <1>4, <1>5, <1>6

(* A field the profile knows, or may leave. *)
GoodField(f) ==
    /\ f.whole
    /\ f.id = 5 => GoodArch(f.names)
    /\ f.id = 4 => f.number = StackAlignment
    /\ f.id \in {6, 14} => f.number = 0
    /\ f.id = 16 => f.number \in {0, 1}
    /\ f.id \notin {4, 5, 6, 8, 10, 12, 14, 16} => Ignorable(f.id)

LEMMA FieldPasses ==
    ASSUME NEW f, f.id \in Nat, f.whole \in BOOLEAN, f.id = 5 => IsList(f.names), f.id = 16 => f.number \in Nat
    PROVE  f.whole /\ FieldSupported(f) <=> GoodField(f)
<1>1. f.id = 5 => (SupportedArch(f.names) <=> GoodArch(f.names))
  BY ArchPasses
<1>2. f.id = 16 => (f.number <= 1 <=> f.number \in {0, 1})
  OBVIOUS
<1>3. CASE f.id = 5
  BY <1>1, <1>3 DEF FieldSupported, GoodField
<1>4. CASE f.id = 4
  BY <1>4 DEF FieldSupported, GoodField
<1>5. CASE f.id \in {6, 14}
  BY <1>5 DEF FieldSupported, GoodField
<1>6. CASE f.id = 16
  BY <1>2, <1>6 DEF FieldSupported, GoodField
<1>7. CASE f.id \in {8, 10, 12}
  BY <1>7 DEF FieldSupported, GoodField
<1>8. CASE f.id \notin {4, 5, 6, 8, 10, 12, 14, 16}
  BY <1>8 DEF FieldSupported, GoodField
<1> QED
  BY <1>3, <1>4, <1>5, <1>6, <1>7, <1>8

LEMMA ProfilePasses ==
    ASSUME NEW profile, IsProfile(profile)
    PROVE  AttributesError(profile) = "none" <=> WellFormedProfile(profile)
<1> DEFINE fields == profile.fields
           n == Len(fields)
           Having(ids) == {i \in DOMAIN fields : fields[i].id \in ids}
           Error == FirstError(LAMBDA i : FieldError(fields, i), n)
           Unique == \A i, j \in 1 .. n : fields[i].id = fields[j].id /\ fields[i].id < 17 => i = j
           Known == \E i \in 1 .. n : fields[i].id = 5
           Good == \A i \in 1 .. n : GoodField(fields[i])
<1>1. /\ n \in Nat /\ DOMAIN fields = 1 .. n
      /\ profile.form \in {"riscv", "foreign", "malformed"}
      /\ \A i \in 1 .. n : /\ fields[i].id \in Nat /\ fields[i].whole \in BOOLEAN
                           /\ fields[i].id = 5 => IsList(fields[i].names)
                           /\ fields[i].id \in {4, 6, 14, 16} => fields[i].number \in Nat
  <2>1. IsList(fields)
    BY DEF IsProfile
  <2>2. n \in Nat /\ DOMAIN fields = 1 .. n
    BY <2>1 DEF IsList
  <2> QED
    BY <2>2 DEF IsProfile
<1>2. AttributesError(profile) = "none" <=>
        profile.form = "riscv" /\ (\A i \in 1 .. n : FieldError(fields, i) = "none") /\ Known
  <2>1. AttributesError(profile) =
          CASE profile.form = "malformed" -> "attributes"
            [] profile.form = "foreign" -> "unsupported_profile"
            [] Error # "none" -> Error
            [] \A i \in DOMAIN fields : fields[i].id # 5 -> "attributes"
            [] OTHER -> "none"
    BY DEF AttributesError
  <2>2. Error = "none" <=> \A i \in 1 .. n : FieldError(fields, i) = "none"
    <3>1. Len(fields) \in Nat /\ DOMAIN fields = 1 .. Len(fields)
      BY <1>1
    <3> HIDE DEF fields
    <3>2. FirstError(LAMBDA i : FieldError(fields, i), Len(fields)) = "none"
             <=> \A i \in DOMAIN fields : FieldError(fields, i) = "none"
      BY <3>1, FieldsPass
    <3> QED
      BY <3>1, <3>2
  <2>3. Known <=> ~ \A i \in DOMAIN fields : fields[i].id # 5
    BY <1>1
  <2> HIDE DEF Error, Known, fields
  <2> QED
    BY <1>1, <2>1, <2>2, <2>3
<1>3. ASSUME NEW i \in 1 .. n
      PROVE  FieldError(fields, i) = "none" <=>
               GoodField(fields[i]) /\ (fields[i].id < 17 => \A j \in 1 .. i - 1 : fields[j].id # fields[i].id)
  <2> DEFINE f == fields[i]
             Twice == f.id < 17 /\ \E j \in 1 .. i - 1 : fields[j].id = f.id
  <2>1. f.whole /\ FieldSupported(f) <=> GoodField(f)
    <3>1. f.id \in Nat /\ f.whole \in BOOLEAN /\ (f.id = 5 => IsList(f.names)) /\ (f.id = 16 => f.number \in Nat)
      BY <1>1
    <3> HIDE DEF f
    <3> QED
      BY <3>1, FieldPasses
  <2>2. FieldError(fields, i) =
          CASE Twice -> "attributes"
            [] ~f.whole -> "attributes"
            [] ~FieldSupported(f) -> "unsupported_profile"
            [] OTHER -> "none"
    BY DEF FieldError
  <2>3. ~Twice <=> (f.id < 17 => \A j \in 1 .. i - 1 : fields[j].id # f.id)
    OBVIOUS
  <2> HIDE DEF Twice, f
  <2>4. FieldError(fields, i) = "none" <=> ~Twice /\ f.whole /\ FieldSupported(f)
    BY <2>2
  <2>5. FieldError(fields, i) = "none" <=>
          GoodField(f) /\ (f.id < 17 => \A j \in 1 .. i - 1 : fields[j].id # f.id)
    BY <2>1, <2>3, <2>4
  <2> QED
    BY <2>5 DEF f
<1>4. Unique <=> \A i \in 1 .. n : fields[i].id < 17 => \A j \in 1 .. i - 1 : fields[j].id # fields[i].id
  <2>1. ASSUME Unique, NEW i \in 1 .. n, fields[i].id < 17, NEW j \in 1 .. i - 1, fields[j].id = fields[i].id
        PROVE  FALSE
    <3>1. j \in 1 .. n /\ j # i
      BY <1>1, <2>1
    <3> QED
      BY <2>1, <3>1
  <2>2. ASSUME \A i \in 1 .. n : fields[i].id < 17 => \A j \in 1 .. i - 1 : fields[j].id # fields[i].id,
               NEW i \in 1 .. n, NEW j \in 1 .. n, fields[i].id = fields[j].id, fields[i].id < 17
        PROVE  i = j
    <3>1. (i < j => i \in 1 .. j - 1) /\ (j < i => j \in 1 .. i - 1)
      BY <1>1
    <3>2. ~(i < j) /\ ~(j < i)
      BY <2>2, <3>1
    <3> QED
      BY <1>1, <3>2
  <2> QED
    BY <2>1, <2>2
<1>5. WellFormedProfile(profile) <=>
        /\ profile.form = "riscv" /\ Good
        /\ \A id \in 0 .. 16 : Cardinality(Having({id})) <= 1
        /\ Cardinality(Having({5})) = 1
  <2>1. WellFormedProfile(profile) <=>
          /\ profile.form = "riscv"
          /\ \A i \in DOMAIN fields : fields[i].whole
          /\ \A id \in 0 .. 16 : Cardinality(Having({id})) <= 1
          /\ Cardinality(Having({5})) = 1
          /\ \A names \in {fields[i].names : i \in Having({5})} : GoodArch(names)
          /\ \A i \in Having({4}) : fields[i].number = StackAlignment
          /\ \A i \in Having({6, 14}) : fields[i].number = 0
          /\ \A i \in Having({16}) : fields[i].number \in {0, 1}
          /\ \A i \in DOMAIN fields \ Having({4, 5, 6, 8, 10, 12, 14, 16}) : Ignorable(fields[i].id)
    BY Zenon DEF WellFormedProfile, GoodArch
  <2> DEFINE Arches == \A i \in 1 .. n : fields[i].id = 5 => GoodArch(fields[i].names)
             Stacks == \A i \in 1 .. n : fields[i].id = 4 => fields[i].number = StackAlignment
             Zeros == \A i \in 1 .. n : fields[i].id \in {6, 14} => fields[i].number = 0
             Bits == \A i \in 1 .. n : fields[i].id = 16 => fields[i].number \in {0, 1}
             Rest == \A i \in 1 .. n : fields[i].id \notin {4, 5, 6, 8, 10, 12, 14, 16} => Ignorable(fields[i].id)
             Wholes == \A i \in 1 .. n : fields[i].whole
  <2>2. Arches <=> \A names \in {fields[i].names : i \in Having({5})} : GoodArch(names)
    BY <1>1
  <2>3. Stacks <=> \A i \in Having({4}) : fields[i].number = StackAlignment
    BY <1>1
  <2>4. Zeros <=> \A i \in Having({6, 14}) : fields[i].number = 0
    BY <1>1
  <2>5. Bits <=> \A i \in Having({16}) : fields[i].number \in {0, 1}
    BY <1>1
  <2>6. Rest <=> \A i \in DOMAIN fields \ Having({4, 5, 6, 8, 10, 12, 14, 16}) : Ignorable(fields[i].id)
    BY <1>1
  <2>7. Wholes <=> \A i \in DOMAIN fields : fields[i].whole
    BY <1>1
  <2>8. Good <=> Wholes /\ Arches /\ Stacks /\ Zeros /\ Bits /\ Rest
    BY DEF GoodField
  <2> HIDE DEF Arches, Stacks, Zeros, Bits, Rest, Wholes, Good, Having
  <2> QED
    BY <2>1, <2>2, <2>3, <2>4, <2>5, <2>6, <2>7, <2>8
<1>6. \A id : /\ Cardinality(Having({id})) <= 1 <=> \A i, j \in 1 .. n : fields[i].id = id /\ fields[j].id = id => i = j
              /\ Cardinality(Having({id})) = 1 <=>
                    /\ \E i \in 1 .. n : fields[i].id = id
                    /\ \A i, j \in 1 .. n : fields[i].id = id /\ fields[j].id = id => i = j
  <2> TAKE id
  <2> DEFINE S == Having({id})
  <2>1. S \in SUBSET (1 .. n) /\ \A i : i \in S <=> i \in 1 .. n /\ fields[i].id = id
    BY <1>1
  <2> HIDE DEF S, n
  <2>2. /\ Cardinality(S) <= 1 <=> \A x, y \in S : x = y
        /\ Cardinality(S) = 1 <=> S # {} /\ \A x, y \in S : x = y
    BY <1>1, <2>1, SomeOfRange
  <2>3. (\A x, y \in S : x = y) <=> \A i, j \in 1 .. n : fields[i].id = id /\ fields[j].id = id => i = j
    BY <2>1
  <2>4. S # {} <=> \E i \in 1 .. n : fields[i].id = id
    BY <2>1
  <2>5. /\ Cardinality(S) <= 1 <=> \A i, j \in 1 .. n : fields[i].id = id /\ fields[j].id = id => i = j
        /\ Cardinality(S) = 1 <=>
              /\ \E i \in 1 .. n : fields[i].id = id
              /\ \A i, j \in 1 .. n : fields[i].id = id /\ fields[j].id = id => i = j
    BY <2>2, <2>3, <2>4
  <2> QED
    BY <2>5 DEF S
<1>7. (\A id \in 0 .. 16 : Cardinality(Having({id})) <= 1) /\ Cardinality(Having({5})) = 1 <=> Unique /\ Known
  <2> DEFINE Lone(id) == \A i, j \in 1 .. n : fields[i].id = id /\ fields[j].id = id => i = j
  <2>1. (\A id \in 0 .. 16 : Lone(id)) <=> Unique
    <3>1. ASSUME Unique, NEW id \in 0 .. 16 PROVE Lone(id)
      BY <3>1
    <3>2. ASSUME \A id \in 0 .. 16 : Lone(id), NEW i \in 1 .. n, NEW j \in 1 .. n,
                 fields[i].id = fields[j].id, fields[i].id < 17
          PROVE  i = j
      <4>1. fields[i].id \in 0 .. 16
        <5>1. fields[i].id \in Nat /\ fields[i].id < 17
          BY <1>1, <3>2
        <5>2. \A k \in Nat : k < 17 => k \in 0 .. 16
          OBVIOUS
        <5> QED
          BY <5>1, <5>2, Zenon
      <4> QED
        BY <3>2, <4>1
    <3> QED
      BY <3>1, <3>2
  <2>2. Unique => Lone(5)
    OBVIOUS
  <2>3. \A id : /\ Cardinality(Having({id})) <= 1 <=> Lone(id)
                /\ Cardinality(Having({id})) = 1 <=> (\E i \in 1 .. n : fields[i].id = id) /\ Lone(id)
    BY <1>6
  <2> HIDE DEF Having, Lone, Unique
  <2> QED
    BY <2>1, <2>2, <2>3
<1>8. (\A i \in 1 .. n : FieldError(fields, i) = "none") <=> Good /\ Unique
  BY <1>3, <1>4
<1> HIDE DEF fields, n, Having, Error, Unique, Known, Good
<1> QED
  BY <1>2, <1>5, <1>7, <1>8

-----------------------------------------------------------------------------
(* Where the profile is *)

(* Ranges told apart by their positions are one when there is one position. *)
Ranges(I, f, g) == {<<f[i], g[i], i>> : i \in I}

LEMMA OneRange ==
    ASSUME NEW n \in Nat, NEW I \in SUBSET (1 .. n), NEW f, NEW g
    PROVE  Cardinality(Ranges(I, f, g)) = 1 <=> I # {} /\ \A i, j \in I : i = j
<1> DEFINE T == {<<f[i], g[i], i>> : i \in I}
           h == [i \in I |-> <<f[i], g[i], i>>]
<1>1. IsFiniteSet(I)
  <2>1. IsFiniteSet(1 .. n)
    BY FS_Interval
  <2> QED
    BY <2>1, FS_Subset
<1>2. h \in [I -> T] /\ \A t \in T : \E i \in I : h[i] = t
  OBVIOUS
<1>3. (T = {}) <=> (I = {})
  OBVIOUS
<1>4. (\A x, y \in T : x = y) <=> \A i, j \in I : i = j
  <2>1. ASSUME \A x, y \in T : x = y, NEW i \in I, NEW j \in I PROVE i = j
    <3>1. <<f[i], g[i], i>> \in T /\ <<f[j], g[j], j>> \in T
      OBVIOUS
    <3>2. <<f[i], g[i], i>> = <<f[j], g[j], j>>
      BY <2>1, <3>1
    <3> QED
      BY <3>2
  <2>2. ASSUME \A i, j \in I : i = j, NEW x \in T, NEW y \in T PROVE x = y
    BY <2>2
  <2> QED
    BY <2>1, <2>2
<1> HIDE DEF T, h
<1>5. h \in Surjection(I, T)
  BY <1>2 DEF Surjection
<1>6. IsFiniteSet(T)
  BY <1>1, <1>5, FS_Surjection
<1>7. Cardinality(T) = 1 <=> T # {} /\ \A x, y \in T : x = y
  BY <1>6, AtMostOne
<1> QED
  BY <1>3, <1>4, <1>7 DEF Ranges, T

(* A profile in one range: the range is in the file, and what it holds is   *)
(* well formed.                                                            *)
GoodRange(file, offset, size) ==
    /\ InFile(file, offset, size) /\ <<offset, size>> \in DOMAIN file.profiles
    /\ WellFormedProfile(file.profiles[<<offset, size>>])

LEMMA RangePasses ==
    ASSUME NEW file \in Files, NEW offset \in Nat, NEW size \in Nat, Located(file) = {<<offset, size>>},
           \/ \E i \in DOMAIN file.headers : file.headers[i].type = "attributes"
           \/ Cardinality({i \in DOMAIN file.sections : file.sections[i].attributes}) = 1
    PROVE  ProfileError(file) = "none" <=> GoodRange(file, offset, size)
<1> DEFINE range == <<offset, size>>
           profile == file.profiles[range]
<1>1. (CHOOSE r \in {range} : TRUE) = range
  OBVIOUS
<1>2. range[1] = offset /\ range[2] = size
  OBVIOUS
<1>3. Fits(file.length, offset, size) <=> InFile(file, offset, size)
  BY FitsInFile
<1>4. ASSUME range \in DOMAIN file.profiles
      PROVE  AttributesError(profile) = "none" <=> WellFormedProfile(profile)
  <2>1. IsProfile(profile)
    BY <1>4, FileTypes
  <2> HIDE DEF profile
  <2> QED
    BY <2>1, ProfilePasses
<1>5. ProfileError(file) =
        CASE ~Fits(file.length, offset, size) -> "attributes"
          [] range \notin DOMAIN file.profiles -> "attributes"
          [] OTHER -> AttributesError(profile)
  <2> DEFINE inHeaders == \E i \in DOMAIN file.headers : file.headers[i].type = "attributes"
             one == Cardinality({i \in DOMAIN file.sections : file.sections[i].attributes}) = 1
             located == Located(file)
  <2>1. ProfileError(file) =
          CASE ~inHeaders /\ ~one -> "attributes"
            [] \E r \in located : ~Fits(file.length, r[1], r[2]) -> "attributes"
            [] \E r \in located : r \notin DOMAIN file.profiles -> "attributes"
            [] OTHER -> AttributesError(file.profiles[CHOOSE r \in located : TRUE])
    BY Zenon DEF ProfileError
  <2>2. inHeaders \/ one
    OBVIOUS
  <2>3. located = {range}
    OBVIOUS
  <2> HIDE DEF inHeaders, one, located, range
  <2>4. (\E r \in located : ~Fits(file.length, r[1], r[2])) <=> ~Fits(file.length, offset, size)
    BY <1>2, <2>3
  <2>5. (\E r \in located : r \notin DOMAIN file.profiles) <=> range \notin DOMAIN file.profiles
    BY <2>3
  <2>6. (CHOOSE r \in located : TRUE) = range
    BY <1>1, <2>3
  <2> QED
    BY <2>1, <2>2, <2>4, <2>5, <2>6
<1> HIDE DEF range, profile
<1>6. ProfileError(file) = "none" <=>
        /\ InFile(file, offset, size) /\ range \in DOMAIN file.profiles /\ WellFormedProfile(profile)
  BY <1>3, <1>4, <1>5
<1> QED
  BY <1>6 DEF GoodRange, range, profile

LEMMA ProfileFound ==
    ASSUME NEW file \in Files, OneAttributes(file)
    PROVE  ProfileError(file) = "none" <=>
             /\ Cardinality(ProfileRanges(file)) = 1
             /\ \A r \in ProfileRanges(file) : GoodRange(file, r[1], r[2])
<1> DEFINE headers == {i \in DOMAIN file.headers : file.headers[i].type = "attributes"}
           sections == {i \in DOMAIN file.sections : file.sections[i].attributes}
           ranges == ProfileRanges(file)
<1>1. /\ headers \in SUBSET (1 .. Len(file.headers)) /\ sections \in SUBSET (1 .. Len(file.sections))
      /\ Len(file.headers) \in Nat /\ Len(file.sections) \in Nat
  BY FileTypes
<1>2. CASE headers # {}
  <2>1. PICK i : i \in headers
    BY <1>2
  <2>2. headers = {i}
    BY <2>1 DEF OneAttributes
  <2> DEFINE o == file.headers[i].offset
             s == file.headers[i].file_size
  <2>3. o \in Nat /\ s \in Nat
    <3>1. IsHeader(file.headers[i])
      BY <2>1, FileTypes
    <3> QED
      BY <3>1 DEF IsHeader
  <2>4. HeadersOf(file, "attributes") # {}
    BY <2>1 DEF HeadersOf
  <2>5. ranges = {<<file.headers[k].offset, file.headers[k].file_size, k>> : k \in headers}
    BY <2>4 DEF ProfileRanges
  <2>6. ranges = {<<o, s, i>>}
    BY <2>2, <2>5
  <2>7. Located(file) = {<<o, s>>}
    <3>1. (CHOOSE k \in headers : TRUE) = i
      BY <2>2
    <3>2. Located(file) = LET h == file.headers[CHOOSE k \in headers : TRUE]
                          IN  {<<h.offset, h.file_size>>}
      BY <1>2 DEF Located
    <3> HIDE DEF headers
    <3> QED
      BY <3>1, <3>2
  <2>8. \E k \in DOMAIN file.headers : file.headers[k].type = "attributes"
    BY <2>1
  <2> HIDE DEF o, s, ranges, headers
  <2>9. ProfileError(file) = "none" <=> GoodRange(file, o, s)
    BY <2>3, <2>7, <2>8, RangePasses
  <2>10. Cardinality(ranges) = 1
    BY <2>6, FS_Singleton
  <2>11. (\A r \in ranges : GoodRange(file, r[1], r[2])) <=> GoodRange(file, o, s)
    BY <2>6
  <2> QED
    BY <2>9, <2>10, <2>11 DEF ranges
<1>3. CASE headers = {}
  <2>1. HeadersOf(file, "attributes") = {}
    BY <1>3 DEF HeadersOf
  <2> DEFINE f == [i \in DOMAIN file.sections |-> file.sections[i].offset]
             g == [i \in DOMAIN file.sections |-> file.sections[i].size]
  <2>2. ranges = {<<f[i], g[i], i>> : i \in sections}
    <3>1. ranges = {<<file.sections[i].offset, file.sections[i].size, i>> : i \in sections}
      BY <2>1 DEF ProfileRanges
    <3>2. \A i \in sections : f[i] = file.sections[i].offset /\ g[i] = file.sections[i].size
      OBVIOUS
    <3> HIDE DEF f, g, sections, ranges
    <3> QED
      BY <3>1, <3>2
  <2>3. Located(file) = {<<f[i], g[i]>> : i \in sections}
    <3>1. Located(file) = {<<file.sections[i].offset, file.sections[i].size>> : i \in sections}
      BY <1>3 DEF Located
    <3>2. \A i \in sections : f[i] = file.sections[i].offset /\ g[i] = file.sections[i].size
      OBVIOUS
    <3> HIDE DEF f, g, sections
    <3> QED
      BY <3>1, <3>2
  <2>4. \A i \in sections : f[i] \in Nat /\ g[i] \in Nat
    <3>1. \A i \in sections : IsSection(file.sections[i])
      BY FileTypes
    <3> QED
      BY <3>1 DEF IsSection
  <2>5. \A i \in DOMAIN file.headers : file.headers[i].type # "attributes"
    BY <1>3
  <2> DEFINE one == Cardinality({i \in DOMAIN file.sections : file.sections[i].attributes}) = 1
  <2>6. one <=> Cardinality(sections) = 1
    OBVIOUS
  <2>7. ~one => ProfileError(file) = "attributes"
    BY <2>5 DEF ProfileError
  <2> HIDE DEF f, g, sections, ranges, one
  <2>8. Cardinality(ranges) = 1 <=> sections # {} /\ \A i, j \in sections : i = j
    <3>1. ranges = Ranges(sections, f, g)
      BY <2>2 DEF Ranges
    <3> QED
      BY <1>1, <3>1, OneRange
  <2>9. Cardinality(sections) = 1 <=> sections # {} /\ \A i, j \in sections : i = j
    BY <1>1, SomeOfRange
  <2>10. CASE one
    <3>1. PICK i : i \in sections
      BY <2>6, <2>9, <2>10
    <3>2. sections = {i}
      BY <2>6, <2>9, <2>10, <3>1
    <3>3. Located(file) = {<<f[i], g[i]>>} /\ ranges = {<<f[i], g[i], i>>} /\ f[i] \in Nat /\ g[i] \in Nat
      BY <2>2, <2>3, <2>4, <3>2
    <3>4. ProfileError(file) = "none" <=> GoodRange(file, f[i], g[i])
      BY <2>10, <3>3, RangePasses DEF one
    <3>5. (\A r \in ranges : GoodRange(file, r[1], r[2])) <=> GoodRange(file, f[i], g[i])
      BY <3>3
    <3> QED
      BY <2>6, <2>8, <2>9, <2>10, <3>4, <3>5 DEF ranges
  <2>11. CASE ~one
    BY <2>6, <2>7, <2>8, <2>9, <2>11 DEF ranges
  <2> QED
    BY <2>10, <2>11
<1> QED
  BY <1>2, <1>3

-----------------------------------------------------------------------------
(* The plan: sorted segments, against the headers they come from *)

Loaded(file) == {i \in DOMAIN file.headers : file.headers[i].type = "load" /\ file.headers[i].memory_size # 0}

(* Segment k comes from header at[k]. *)
Places(file, at, c) ==
    /\ c \in Nat /\ at \in [1 .. c -> Loaded(file)]
    /\ DOMAIN Segments(file) = 1 .. c
    /\ \A k \in 1 .. c : Segments(file)[k] = SegmentOf(file.headers[at[k]])
    /\ \A p \in Loaded(file) : \E k \in 1 .. c : at[k] = p
    /\ \A j, k \in 1 .. c : at[j] = at[k] => j = k
    /\ \A j, k \in 1 .. c : j < k => file.headers[at[j]].address <= file.headers[at[k]].address

LEMMA PlacesExist ==
    ASSUME NEW file \in Files, \A i \in DOMAIN file.headers : ProgramHeaderError(file, i) = "none"
    PROVE  \E at, c : Places(file, at, c)
<1> DEFINE hs == file.headers
           positions == Loaded(file)
           c == Cardinality(positions)
           loads == InOrder(positions)
           plain == [i \in DOMAIN loads |-> SegmentOf(hs[loads[i]])]
<1>1. /\ c \in Nat /\ loads \in [1 .. c -> positions]
      /\ \A p \in positions : \E i \in 1 .. c : loads[i] = p
      /\ \A i, j \in 1 .. c : i < j => loads[i] < loads[j]
  <2>1. positions \in SUBSET (1 .. Len(hs)) /\ Len(hs) \in Nat
    BY FileTypes DEF Loaded
  <2> HIDE DEF positions, hs
  <2> QED
    BY <2>1, InOrderExists
<1>2. \A p \in positions : GoodSegment(SegmentOf(hs[p]), file.length) /\ p \in Int
  <2>1. \A p \in positions : p \in DOMAIN hs /\ hs[p].type = "load" /\ hs[p].memory_size # 0
    BY DEF Loaded
  <2>2. \A p \in positions : p \in Int
    BY FileTypes DEF Loaded
  <2> QED
    BY <2>1, <2>2, CheckedLoadIsGood
<1>3. Segments(file) = SortByAddress(plain)
  BY DEF Segments, SegmentOf, Loaded
<1> HIDE DEF positions, loads, c
<1>4. DOMAIN plain = 1 .. c /\ \A i \in 1 .. c : plain[i] = SegmentOf(hs[loads[i]]) /\ loads[i] \in positions
  BY <1>1
<1>5. plain \in [1 .. c -> SegmentShapes]
  <2>1. plain = [i \in 1 .. c |-> plain[i]]
    BY <1>4
  <2> HIDE DEF plain, hs
  <2> QED
    BY <1>2, <1>4, <2>1 DEF GoodSegment
<1> HIDE DEF plain
<1>6. PICK order : /\ Permutes(order, c)
                   /\ SortByAddress(plain) = [i \in 1 .. c |-> plain[order[i]]]
                   /\ \A i, j \in 1 .. c : i < j => plain[order[i]].address <= plain[order[j]].address
  BY <1>1, <1>5, SortingPermutes
<1> DEFINE at == [k \in 1 .. c |-> loads[order[k]]]
<1>7. \A k \in 1 .. c : order[k] \in 1 .. c /\ at[k] = loads[order[k]] /\ at[k] \in positions
  BY <1>4, <1>6 DEF Permutes
<1>8. at \in [1 .. c -> positions]
  BY <1>7
<1> HIDE DEF at
<1>9. DOMAIN Segments(file) = 1 .. c /\ \A k \in 1 .. c : Segments(file)[k] = SegmentOf(hs[at[k]])
  <2> HIDE DEF hs
  <2> QED
    BY <1>3, <1>4, <1>6, <1>7
<1>10. \A p \in positions : \E k \in 1 .. c : at[k] = p
  <2> SUFFICES ASSUME NEW p \in positions PROVE \E k \in 1 .. c : at[k] = p
    OBVIOUS
  <2>1. PICK i \in 1 .. c : loads[i] = p
    BY <1>1
  <2>2. PICK k \in 1 .. c : order[k] = i
    BY <1>6 DEF Permutes
  <2> QED
    BY <1>7, <2>1, <2>2
<1>11. ASSUME NEW j \in 1 .. c, NEW k \in 1 .. c, at[j] = at[k] PROVE j = k
  <2> DEFINE x == order[j]
             y == order[k]
  <2>1. x \in 1 .. c /\ y \in 1 .. c /\ loads[x] = loads[y] /\ loads[x] \in Int
    BY <1>2, <1>7, <1>11
  <2>2. ~(x < y) /\ ~(y < x)
    <3> HIDE DEF x, y
    <3> QED
      BY <1>1, <2>1
  <2>3. x = y
    <3>1. x \in Int /\ y \in Int
      BY <1>1, <2>1
    <3> HIDE DEF x, y
    <3> QED
      BY <2>2, <3>1
  <2> QED
    BY <1>6, <2>3 DEF Permutes
<1>12. ASSUME NEW j \in 1 .. c, NEW k \in 1 .. c, j < k
       PROVE  hs[at[j]].address <= hs[at[k]].address
  <2>1. \A i \in 1 .. c : plain[order[i]].address = hs[at[i]].address
    <3>1. \A i \in 1 .. c : plain[order[i]] = SegmentOf(hs[at[i]])
      BY <1>4, <1>7
    <3>2. \A h : SegmentOf(h).address = h.address
      BY DEF SegmentOf
    <3> HIDE DEF hs
    <3> QED
      BY <3>1, <3>2
  <2> QED
    BY <1>6, <1>12, <2>1
<1>13. Places(file, at, c)
  <2>1. c \in Nat /\ at \in [1 .. c -> Loaded(file)]
    BY <1>1, <1>8 DEF positions
  <2>2. \A p \in Loaded(file) : \E k \in 1 .. c : at[k] = p
    BY <1>10 DEF positions
  <2>3. \A j, k \in 1 .. c : at[j] = at[k] => j = k
    BY <1>11
  <2>4. \A j, k \in 1 .. c : j < k => file.headers[at[j]].address <= file.headers[at[k]].address
    BY <1>12
  <2> QED
    BY <1>9, <2>1, <2>2, <2>3, <2>4 DEF Places
<1> QED
  BY <1>13

(* What the reference asks of all the segments. *)
Apart(file) ==
    \A i, j \in DOMAIN file.headers :
        i # j /\ file.headers[i].type = "load" /\ file.headers[j].type = "load"
            => Span(file.headers[i]) \cap Span(file.headers[j]) = {}

Enters(file) ==
    /\ file.entry % 4 = 0
    /\ \E h \in HeadersOf(file, "load") :
        "execute" \in h.flags /\ file.entry .. file.entry + 3 \subseteq FileSpan(h)

LEMMA PlanPasses ==
    ASSUME NEW file \in Files, \A i \in DOMAIN file.headers : ProgramHeaderError(file, i) = "none"
    PROVE  /\ PlanError(Segments(file), file.entry) = "none" <=> Apart(file) /\ Enters(file)
           /\ {Span(Segments(file)[k]) : k \in DOMAIN Segments(file)}
                = {Span(h) : h \in HeadersOf(file, "load")} \ {{}}
<1> DEFINE hs == file.headers
           positions == Loaded(file)
           entry == file.entry
           From(p) == hs[p].address
           To(p) == hs[p].address + hs[p].memory_size
           FileTo(p) == hs[p].address + hs[p].file_size
<1>1. PICK at, c : Places(file, at, c)
  BY PlacesExist
<1>2. /\ c \in Nat /\ DOMAIN Segments(file) = 1 .. c
      /\ \A k \in 1 .. c : at[k] \in positions /\ Segments(file)[k] = SegmentOf(hs[at[k]])
      /\ \A p \in positions : \E k \in 1 .. c : at[k] = p
      /\ \A j, k \in 1 .. c : at[j] = at[k] => j = k
      /\ \A j, k \in 1 .. c : j < k => From(at[j]) <= From(at[k])
  BY <1>1 DEF Places
<1>3. \A p : p \in positions <=> p \in DOMAIN hs /\ hs[p].type = "load" /\ hs[p].memory_size # 0
  BY DEF Loaded
<1>4. \A p \in DOMAIN hs : hs[p].type = "load" =>
        /\ hs[p].address \in Nat /\ hs[p].memory_size \in Nat /\ hs[p].file_size \in Nat
        /\ hs[p].file_size <= hs[p].memory_size
  <2> SUFFICES ASSUME NEW p \in DOMAIN hs, hs[p].type = "load"
               PROVE  /\ hs[p].address \in Nat /\ hs[p].memory_size \in Nat /\ hs[p].file_size \in Nat
                      /\ hs[p].file_size <= hs[p].memory_size
    OBVIOUS
  <2>1. /\ hs[p].address \in Addresses /\ hs[p].memory_size \in Nat /\ hs[p].file_size \in Nat /\ IsHeader(hs[p])
    BY FileTypes DEF IsHeader
  <2>2. hs[p].address \in Nat
    BY <2>1, AddressSpaceAssumption DEF AddressSpaceAssumption, Addresses
  <2>3. LoadError(hs[p]) = "none"
    BY DEF ProgramHeaderError
  <2>4. ~(hs[p].file_size > hs[p].memory_size)
    BY <2>3 DEF LoadError
  <2> QED
    BY <2>1, <2>2, <2>4
<1>5. \A p \in DOMAIN hs : hs[p].type = "load" =>
        /\ From(p) \in Nat /\ To(p) \in Nat /\ FileTo(p) \in Nat
        /\ From(p) <= To(p) /\ FileTo(p) <= To(p) /\ From(p) <= FileTo(p)
        /\ Span(hs[p]) = From(p) .. To(p) - 1 /\ FileSpan(hs[p]) = From(p) .. FileTo(p) - 1
        /\ p \in positions <=> From(p) < To(p)
  <2> SUFFICES ASSUME NEW p \in DOMAIN hs, hs[p].type = "load"
               PROVE  /\ From(p) \in Nat /\ To(p) \in Nat /\ FileTo(p) \in Nat
                      /\ From(p) <= To(p) /\ FileTo(p) <= To(p) /\ From(p) <= FileTo(p)
                      /\ Span(hs[p]) = From(p) .. To(p) - 1 /\ FileSpan(hs[p]) = From(p) .. FileTo(p) - 1
                      /\ p \in positions <=> From(p) < To(p)
    OBVIOUS
  <2> DEFINE a == hs[p].address
             m == hs[p].memory_size
             f == hs[p].file_size
  <2>1. a \in Nat /\ m \in Nat /\ f \in Nat /\ f <= m
    BY <1>4
  <2>2. p \in positions <=> m # 0
    BY <1>3
  <2>3. Span(hs[p]) = a .. a + m - 1 /\ FileSpan(hs[p]) = a .. a + f - 1
    BY Zenon DEF Span, FileSpan
  <2>4. From(p) = a /\ To(p) = a + m /\ FileTo(p) = a + f
    OBVIOUS
  <2> HIDE DEF a, m, f, From, To, FileTo
  <2>5. a + m \in Nat /\ a + f \in Nat /\ a <= a + m /\ a + f <= a + m /\ a <= a + f /\ (m # 0 <=> a < a + m)
    BY <2>1
  <2> QED
    BY <2>1, <2>2, <2>3, <2>4, <2>5
<1>6. \A k \in 1 .. c : LET s == Segments(file)[k]
                        IN  /\ s.address = From(at[k]) /\ s.address + s.memory_size = To(at[k])
                            /\ s.address + s.file_size = FileTo(at[k]) /\ Span(s) = Span(hs[at[k]])
                            /\ s.allowed = hs[at[k]].flags /\ s.file_size = hs[at[k]].file_size
  BY <1>2 DEF SegmentOf, Span
<1>7. entry \in Nat
  BY FileTypes
<1> DEFINE Overlaps(k) == k > 1 /\ From(at[k]) < To(at[k - 1])
           Fetches(p) == "execute" \in hs[p].flags /\ From(p) <= entry /\ entry + 4 <= FileTo(p)
<1>8. PlanError(Segments(file), entry) = "none" <=>
        /\ \A k \in 1 .. c : ~Overlaps(k)
        /\ \E k \in 1 .. c : Fetches(at[k])
        /\ entry % 4 = 0
  <2> DEFINE ss == Segments(file)
  <2>1. PlanError(ss, entry) = "none" <=>
          /\ ~ \E k \in DOMAIN ss : k > 1 /\ ss[k].address < ss[k - 1].address + ss[k - 1].memory_size
          /\ ~ \A k \in DOMAIN ss : ~HoldsEntry(ss[k], entry)
          /\ entry % 4 = 0
    BY DEF PlanError
  <2>2. \A k \in 1 .. c : (k > 1 /\ ss[k].address < ss[k - 1].address + ss[k - 1].memory_size) <=> Overlaps(k)
    <3> SUFFICES ASSUME NEW k \in 1 .. c, k > 1
                 PROVE  ss[k].address < ss[k - 1].address + ss[k - 1].memory_size <=> From(at[k]) < To(at[k - 1])
      OBVIOUS
    <3>1. k - 1 \in 1 .. c
      BY <1>2
    <3>2. ss[k].address = From(at[k]) /\ ss[k - 1].address + ss[k - 1].memory_size = To(at[k - 1])
      BY <1>6, <3>1
    <3> QED
      BY <3>2
  <2>3. \A k \in 1 .. c : HoldsEntry(ss[k], entry) <=> Fetches(at[k])
    <3> SUFFICES ASSUME NEW k \in 1 .. c PROVE HoldsEntry(ss[k], entry) <=> Fetches(at[k])
      OBVIOUS
    <3> DEFINE a == ss[k].address
               f == ss[k].file_size
    <3>1. a = From(at[k]) /\ a + f = FileTo(at[k]) /\ ss[k].allowed = hs[at[k]].flags /\ a \in Nat /\ f \in Nat
      <4>1. at[k] \in DOMAIN hs /\ hs[at[k]].type = "load"
        BY <1>2, <1>3
      <4> QED
        BY <1>4, <1>6, <4>1
    <3>2. HoldsEntry(ss[k], entry) <=>
            "execute" \in ss[k].allowed /\ entry >= a /\ entry - a <= f /\ 4 <= f - (entry - a)
      BY DEF HoldsEntry
    <3>3. Fetches(at[k]) <=> "execute" \in ss[k].allowed /\ a <= entry /\ entry + 4 <= a + f
      BY <3>1
    <3> HIDE DEF a, f, entry
    <3> QED
      BY <1>7, <3>1, <3>2, <3>3
  <2> HIDE DEF ss, Overlaps, Fetches, entry
  <2>4. DOMAIN ss = 1 .. c
    BY <1>2 DEF ss
  <2> QED
    BY <2>1, <2>2, <2>3, <2>4 DEF ss
<1>9. Enters(file) <=> entry % 4 = 0 /\ \E k \in 1 .. c : Fetches(at[k])
  <2>1. ASSUME NEW p \in DOMAIN hs, hs[p].type = "load"
        PROVE  "execute" \in hs[p].flags /\ entry .. entry + 3 \subseteq FileSpan(hs[p]) <=> Fetches(p)
    <3> DEFINE from == From(p)
               to == FileTo(p)
    <3>1. from \in Nat /\ to \in Nat /\ FileSpan(hs[p]) = from .. to - 1
      BY <1>5, <2>1
    <3>2. Fetches(p) <=> "execute" \in hs[p].flags /\ from <= entry /\ entry + 4 <= to
      OBVIOUS
    <3> HIDE DEF from, to, Fetches, entry
    <3>3. entry .. entry + 3 \subseteq from .. to - 1 <=> from <= entry /\ entry + 4 <= to
      <4>1. ASSUME entry .. entry + 3 \subseteq from .. to - 1 PROVE from <= entry /\ entry + 4 <= to
        <5>1. entry \in entry .. entry + 3 /\ entry + 3 \in entry .. entry + 3
          BY <1>7
        <5>2. entry \in from .. to - 1 /\ entry + 3 \in from .. to - 1
          BY <4>1, <5>1
        <5> QED
          BY <1>7, <3>1, <5>2
      <4>2. from <= entry /\ entry + 4 <= to => entry .. entry + 3 \subseteq from .. to - 1
        BY <1>7, <3>1
      <4> QED
        BY <4>1, <4>2
    <3> QED
      BY <3>1, <3>2, <3>3
  <2>2. (\E h \in HeadersOf(file, "load") : "execute" \in h.flags /\ entry .. entry + 3 \subseteq FileSpan(h))
          <=> \E p \in DOMAIN hs : hs[p].type = "load" /\ Fetches(p)
    <3> HIDE DEF Fetches, entry
    <3> QED
      BY <2>1 DEF HeadersOf
  <2>3. \A p \in DOMAIN hs : hs[p].type = "load" /\ Fetches(p) => p \in positions
    BY <1>5, <1>7
  <2>4. (\E p \in DOMAIN hs : hs[p].type = "load" /\ Fetches(p)) <=> \E k \in 1 .. c : Fetches(at[k])
    <3> HIDE DEF Fetches, positions
    <3> QED
      BY <1>2, <1>3, <2>3
  <2> HIDE DEF Fetches
  <2> QED
    BY <2>2, <2>4 DEF Enters
<1>10. Apart(file) <=> \A k \in 1 .. c : ~Overlaps(k)
  <2>1. ASSUME Apart(file), NEW k \in 1 .. c, Overlaps(k) PROVE FALSE
    <3>1. k - 1 \in 1 .. c /\ k - 1 # k /\ k - 1 < k
      BY <1>2, <2>1
    <3>2. at[k] \in positions /\ at[k - 1] \in positions /\ at[k - 1] # at[k] /\ From(at[k - 1]) <= From(at[k])
      BY <1>2, <3>1
    <3> DEFINE a == From(at[k])
    <3>3. a \in Span(hs[at[k]]) /\ a \in Span(hs[at[k - 1]])
      <4>1. /\ at[k] \in DOMAIN hs /\ hs[at[k]].type = "load"
            /\ at[k - 1] \in DOMAIN hs /\ hs[at[k - 1]].type = "load"
        BY <1>3, <3>2
      <4> DEFINE b == From(at[k - 1])
                 x == To(at[k])
                 y == To(at[k - 1])
      <4>2. a \in Nat /\ b \in Nat /\ x \in Nat /\ y \in Nat /\ b <= a /\ a < y /\ a < x
        BY <1>5, <2>1, <3>2, <4>1
      <4>3. Span(hs[at[k]]) = a .. x - 1 /\ Span(hs[at[k - 1]]) = b .. y - 1
        BY <1>5, <4>1
      <4> HIDE DEF a, b, x, y
      <4> QED
        BY <4>2, <4>3
    <3> HIDE DEF a
    <3> QED
      BY <1>3, <2>1, <3>2, <3>3 DEF Apart
  <2>2. ASSUME \A k \in 1 .. c : ~Overlaps(k), NEW p \in DOMAIN hs, NEW q \in DOMAIN hs, p # q,
               hs[p].type = "load", hs[q].type = "load", NEW a, a \in Span(hs[p]), a \in Span(hs[q])
        PROVE  FALSE
    <3>1. /\ a \in Int /\ From(p) <= a /\ a < To(p) /\ From(q) <= a /\ a < To(q)
          /\ p \in positions /\ q \in positions
      <4>1. ASSUME NEW x \in DOMAIN hs, hs[x].type = "load", a \in Span(hs[x])
            PROVE  a \in Int /\ From(x) <= a /\ a < To(x) /\ x \in positions
        <5> DEFINE from == From(x)
                   to == To(x)
        <5>1. from \in Nat /\ to \in Nat /\ a \in from .. to - 1 /\ (x \in positions <=> from < to)
          BY <1>5, <4>1
        <5> HIDE DEF from, to
        <5>2. a \in Int /\ from <= a /\ a < to /\ x \in positions
          BY <5>1
        <5> QED
          BY <5>2 DEF from, to
      <4> QED
        BY <2>2, <4>1
    <3>2. PICK j \in 1 .. c : at[j] = p
      BY <1>2, <3>1
    <3>3. PICK k \in 1 .. c : at[k] = q
      BY <1>2, <3>1
    <3> DEFINE from == [x \in 1 .. c |-> From(at[x])]
               to == [x \in 1 .. c |-> To(at[x])]
    <3>4. \A x \in 1 .. c : /\ from[x] = From(at[x]) /\ to[x] = To(at[x])
                            /\ from[x] \in Nat /\ to[x] \in Nat /\ from[x] <= to[x]
      BY <1>2, <1>3, <1>5
    <3>5. \A x \in 2 .. c : to[x - 1] <= from[x]
      <4> SUFFICES ASSUME NEW x \in 2 .. c PROVE to[x - 1] <= from[x]
        OBVIOUS
      <4>1. x \in 1 .. c /\ x - 1 \in 1 .. c /\ x > 1
        BY <1>2
      <4>2. ~(From(at[x]) < To(at[x - 1]))
        BY <2>2, <4>1
      <4>3. from[x] = From(at[x]) /\ to[x - 1] = To(at[x - 1]) /\ from[x] \in Nat /\ to[x - 1] \in Nat
        BY <3>4, <4>1
      <4> HIDE DEF from, to, From, To
      <4> QED
        BY <4>2, <4>3
    <3>6. from \in [1 .. c -> Nat] /\ to \in [1 .. c -> Nat]
      BY <3>4
    <3>7. j # k
      BY <2>2, <3>2, <3>3
    <3> HIDE DEF from, to
    <3>8. (j < k => to[j] <= from[k]) /\ (k < j => to[k] <= from[j])
      <4>1. \A x \in 1 .. c : from[x] <= to[x]
        BY <3>4
      <4> QED
        BY <1>2, <3>5, <3>6, <4>1, IntervalsAscend
    <3>9. from[j] <= a /\ a < to[j] /\ from[k] <= a /\ a < to[k]
      BY <3>1, <3>2, <3>3, <3>4
    <3>10. from[j] \in Nat /\ to[j] \in Nat /\ from[k] \in Nat /\ to[k] \in Nat /\ j \in Int /\ k \in Int
      BY <3>4, <1>2
    <3> QED
      BY <3>1, <3>7, <3>8, <3>9, <3>10
  <2>3. (\A k \in 1 .. c : ~Overlaps(k)) => Apart(file)
    BY <2>2 DEF Apart
  <2> QED
    BY <2>1, <2>3
<1>11. {Span(Segments(file)[k]) : k \in DOMAIN Segments(file)} = {Span(h) : h \in HeadersOf(file, "load")} \ {{}}
  <2>1. \A k \in 1 .. c : Span(Segments(file)[k]) = Span(hs[at[k]])
    BY <1>6
  <2>2. \A p \in DOMAIN hs : hs[p].type = "load" => (p \in positions <=> Span(hs[p]) # {})
    <3> SUFFICES ASSUME NEW p \in DOMAIN hs, hs[p].type = "load" PROVE p \in positions <=> Span(hs[p]) # {}
      OBVIOUS
    <3> DEFINE from == From(p)
               to == To(p)
    <3>1. from \in Nat /\ to \in Nat /\ Span(hs[p]) = from .. to - 1 /\ (p \in positions <=> from < to)
      BY <1>5
    <3> HIDE DEF from, to
    <3>2. from .. to - 1 # {} <=> from < to
      <4>1. from < to => from \in from .. to - 1
        BY <3>1
      <4>2. ASSUME NEW x \in from .. to - 1 PROVE from < to
        BY <3>1
      <4> QED
        BY <4>1, <4>2
    <3> QED
      BY <3>1, <3>2
  <2> DEFINE left == {Span(Segments(file)[k]) : k \in DOMAIN Segments(file)}
             right == {Span(h) : h \in HeadersOf(file, "load")} \ {{}}
  <2>3. \A x : x \in left <=> \E k \in 1 .. c : x = Span(hs[at[k]])
    BY <1>2, <2>1
  <2>4. \A x : x \in right <=> x # {} /\ \E p \in DOMAIN hs : hs[p].type = "load" /\ x = Span(hs[p])
    BY DEF HeadersOf
  <2> HIDE DEF left, right
  <2>5. \A x : x \in left <=> x \in right
    <3> HIDE DEF hs, positions
    <3> QED
      BY <1>2, <1>3, <2>2, <2>3, <2>4
  <2>6. left = right
    BY <2>5
  <2> QED
    BY <2>6 DEF left, right
<1> HIDE DEF Overlaps, Fetches
<1> QED
  BY <1>8, <1>9, <1>10, <1>11

-----------------------------------------------------------------------------
(* parse *)

LEMMA ParsePasses ==
    ASSUME NEW file \in Files
    PROVE  Parse(file).ok <=> WellFormed(file)
<1> DEFINE Headers == FirstError(LAMBDA i : ProgramHeaderError(file, i), Len(file.headers))
           Profile == ProfileError(file)
           Plan == PlanError(Segments(file), file.entry)
           Located1 == /\ Cardinality(ProfileRanges(file)) = 1
                       /\ \A r \in ProfileRanges(file) : GoodRange(file, r[1], r[2])
<1>1. Parse(file).ok <=> HeaderError(file) = "none" /\ Headers = "none" /\ Profile = "none" /\ Plan = "none"
  <2> DEFINE tables == HeaderError(file)
             im == [entry |-> file.entry, segments |-> Segments(file), length |-> file.length]
  <2>1. Parse(file) = CASE tables # "none"  -> Failed(tables)
                        [] Headers # "none" -> Failed(Headers)
                        [] Profile # "none" -> Failed(Profile)
                        [] Plan # "none"    -> Failed(Plan)
                        [] OTHER -> [ok |-> TRUE, image |-> im]
    BY DEF Parse
  <2>2. \A e : Failed(e).ok = FALSE
    BY DEF Failed
  <2>3. [ok |-> TRUE, image |-> im].ok = TRUE
    OBVIOUS
  <2> HIDE DEF tables, Headers, Profile, Plan, im
  <2>4. CASE tables = "none" /\ Headers = "none" /\ Profile = "none" /\ Plan = "none"
    BY <2>1, <2>3, <2>4 DEF tables
  <2>5. CASE ~(tables = "none" /\ Headers = "none" /\ Profile = "none" /\ Plan = "none")
    <3>1. \E e : Parse(file) = Failed(e)
      BY <2>1, <2>5
    <3> QED
      BY <2>2, <2>5, <3>1 DEF tables
  <2> QED
    BY <2>4, <2>5
<1>2. WellFormed(file) <=> WellFormedTables(file) /\ WellFormedHeaders(file) /\ Located1 /\ Apart(file) /\ Enters(file)
  BY Zenon DEF WellFormed, GoodRange, Apart, Enters
<1>3. HeaderError(file) = "none" <=> WellFormedTables(file)
  BY TablesPass
<1>4. Headers = "none" <=> WellFormedHeaders(file) /\ OneAttributes(file)
  <2>1. Headers = "none" <=> \A i \in DOMAIN file.headers : ProgramHeaderError(file, i) = "none"
    BY HeadersPass
  <2> QED
    BY <2>1, HeadersMatch
<1>5. OneAttributes(file) => (Profile = "none" <=> Located1)
  BY ProfileFound
<1>6. Headers = "none" => (Plan = "none" <=> Apart(file) /\ Enters(file))
  <2>1. Headers = "none" => \A i \in DOMAIN file.headers : ProgramHeaderError(file, i) = "none"
    BY HeadersPass
  <2> QED
    BY <2>1, PlanPasses
<1>7. Located1 => OneAttributes(file)
  <2> DEFINE I == {i \in DOMAIN file.headers : file.headers[i].type = "attributes"}
             f == [i \in DOMAIN file.headers |-> file.headers[i].offset]
             g == [i \in DOMAIN file.headers |-> file.headers[i].file_size]
  <2>1. CASE I = {}
    BY <2>1 DEF OneAttributes
  <2>2. CASE I # {}
    <3>1. HeadersOf(file, "attributes") # {}
      BY <2>2 DEF HeadersOf
    <3>2. ProfileRanges(file) = {<<file.headers[i].offset, file.headers[i].file_size, i>> : i \in I}
      BY <3>1 DEF ProfileRanges
    <3>3. \A i \in I : f[i] = file.headers[i].offset /\ g[i] = file.headers[i].file_size
      OBVIOUS
    <3>4. I \in SUBSET (1 .. Len(file.headers)) /\ Len(file.headers) \in Nat
      BY FileTypes
    <3> HIDE DEF f, g, I
    <3>5. ProfileRanges(file) = Ranges(I, f, g)
      BY <3>2, <3>3 DEF Ranges
    <3>6. Cardinality(ProfileRanges(file)) = 1 <=> I # {} /\ \A i, j \in I : i = j
      <4>1. Cardinality(Ranges(I, f, g)) = 1 <=> I # {} /\ \A i, j \in I : i = j
        BY <3>4, OneRange
      <4> QED
        BY <3>5, <4>1
    <3> QED
      BY <3>6 DEF I, OneAttributes
  <2> QED
    BY <2>1, <2>2
<1> HIDE DEF Headers, Profile, Plan, Located1
<1> QED
  BY <1>1, <1>2, <1>3, <1>4, <1>5, <1>6, <1>7

LEMMA ParsedSpans ==
    ASSUME NEW file \in Files, Parse(file).ok
    PROVE  LET im == Parse(file).image
           IN  {Span(im.segments[i]) : i \in DOMAIN im.segments}
                 = {Span(h) : h \in HeadersOf(file, "load")} \ {{}}
<1>1. /\ FirstError(LAMBDA i : ProgramHeaderError(file, i), Len(file.headers)) = "none"
      /\ Parse(file).image = [entry |-> file.entry, segments |-> Segments(file), length |-> file.length]
  BY DEF Parse, Failed
<1>2. \A i \in DOMAIN file.headers : ProgramHeaderError(file, i) = "none"
  BY <1>1, HeadersPass
<1>3. Parse(file).image.segments = Segments(file)
  BY <1>1
<1> QED
  BY <1>2, <1>3, PlanPasses

(* parse accepts a file exactly when, read as sets of offsets and addresses  *)
(* with nothing sorted, compared with a neighbour or checked in an order, it *)
(* is well formed; and its plan holds each non-empty load segment          *)
(* (image::parse, attributes, supported_arch).                             *)
THEOREM ParseAcceptsHolds == Spec => []ParseAcceptsExactlyWellFormedFiles
<1>1. Init => ParseAcceptsExactlyWellFormedFiles
  BY DEF Init, ParseAcceptsExactlyWellFormedFiles
<1>2. ParseAcceptsExactlyWellFormedFiles /\ [Next]_vars => ParseAcceptsExactlyWellFormedFiles'
  <2> SUFFICES ASSUME ParseAcceptsExactlyWellFormedFiles, [Next]_vars
               PROVE  ParseAcceptsExactlyWellFormedFiles'
    OBVIOUS
  <2>1. ASSUME NEW file \in Files, ParseFile(file) PROVE ParseAcceptsExactlyWellFormedFiles'
    <3>1. /\ call'.op = "parse" /\ call'.ok = Parse(file).ok /\ call'.file = file
          /\ image' = IF Parse(file).ok THEN Parse(file).image ELSE image
      BY <2>1 DEF ParseFile
    <3>2. call'.ok <=> WellFormed(call'.file)
      BY <3>1, ParsePasses
    <3>3. ASSUME call'.ok
          PROVE  {Span(image'.segments[i]) : i \in DOMAIN image'.segments}
                   = {Span(h) : h \in HeadersOf(call'.file, "load")} \ {{}}
      <4>1. Parse(file).ok /\ image' = Parse(file).image
        BY <3>1, <3>3
      <4> QED
        BY <3>1, <4>1, ParsedSpans
    <3> QED
      BY <3>2, <3>3 DEF ParseAcceptsExactlyWellFormedFiles
  <2>2. ASSUME NEW map \in Maps, NEW view \in Views, LoadImage(map, view) \/ BootImage(map, view)
        PROVE  ParseAcceptsExactlyWellFormedFiles'
    <3>1. call'.op \in {"load", "boot"}
      BY <2>2 DEF LoadImage, BootImage
    <3> QED
      BY <3>1 DEF ParseAcceptsExactlyWellFormedFiles
  <2>3. CASE UNCHANGED vars
    BY <2>3 DEF vars, ParseAcceptsExactlyWellFormedFiles
  <2> QED
    BY <2>1, <2>2, <2>3 DEF Next
<1> QED
  BY <1>1, <1>2, PTL DEF Spec
=============================================================================
