----------------------------- MODULE MapProofs -----------------------------
(***************************************************************************)
(* What an accepted region table guarantees, and what a granted route is,  *)
(* for every table, address space and access.                              *)
(***************************************************************************)
EXTENDS PhysicalMap, TLAPS, WellFoundedInduction, FiniteSetTheorems

LEMMA LeastExists ==
    ASSUME NEW T \in SUBSET Nat, T # {}
    PROVE  \E x \in T : \A y \in T : x <= y
<1> DEFINE R == {ss \in Nat \X Nat : ss[1] < ss[2]}
<1>1. IsWellFoundedOn(R, Nat)
  BY NatLessThanWellFounded DEF OpToRel
<1>2. \E x \in T : \A y \in T : ~(<<y, x>> \in R)
  <2> HIDE DEF R
  <2> QED
    BY <1>1, WFMin
<1>3. ASSUME NEW x \in T, NEW y \in T, ~(<<y, x>> \in R) PROVE x <= y
  BY <1>3
<1> QED
  BY <1>2, <1>3

-----------------------------------------------------------------------------
(* Induction along a range of numbers, and the sequences it defines         *)

LEMMA LargestExists ==
    ASSUME NEW S \in SUBSET Nat, S # {}, NEW n \in Nat, \A s \in S : s <= n
    PROVE  \E k \in S : \A j \in S : j <= k
<1> DEFINE T == {n - s : s \in S}
<1>1. T \in SUBSET Nat /\ T # {}
  <2>1. \A s \in S : n - s \in Nat
    OBVIOUS
  <2> QED
    BY <2>1
<1>2. PICK t \in T : \A x \in T : t <= x
  <2> HIDE DEF T
  <2> QED
    BY <1>1, LeastExists
<1>3. PICK k \in S : t = n - k
  OBVIOUS
<1>4. ASSUME NEW j \in S PROVE j <= k
  <2>1. n - k <= n - j
    BY <1>2, <1>3
  <2> QED
    BY <2>1
<1> QED
  BY <1>4

LEMMA RangeInduction ==
    ASSUME NEW n \in Nat, NEW T, 0 \in T, \A k \in 1 .. n : k - 1 \in T => k \in T
    PROVE  \A k \in 0 .. n : k \in T
<1> DEFINE missed == {k \in 0 .. n : k \notin T}
<1> SUFFICES ASSUME missed # {} PROVE FALSE
  OBVIOUS
<1>1. PICK k \in missed : \A y \in missed : k <= y
  <2>1. missed \in SUBSET Nat
    OBVIOUS
  <2> HIDE DEF missed
  <2> QED
    BY <2>1, LeastExists
<1>2. k \in 1 .. n /\ k \notin T
  BY <1>1
<1>3. k - 1 \notin missed
  <2> HIDE DEF missed
  <2> QED
    BY <1>1, <1>2
<1> QED
  BY <1>2, <1>3

(* A first element and a step from each to the next make a sequence.        *)
IsStep(step, S, n) == step \in [S \X (1 .. n) -> S]

Follows(f, S, n, first, step) ==
    f \in [0 .. n -> S] /\ f[0] = first /\ \A k \in 1 .. n : f[k] = step[<<f[k - 1], k>>]

LEMMA RecursionExists ==
    ASSUME NEW S, NEW n \in Nat, NEW first \in S, NEW step, IsStep(step, S, n)
    PROVE  \E f : Follows(f, S, n, first, step)
<1> USE DEF IsStep, Follows
<1> DEFINE Reaches(m, f) == f[0] = first /\ \A k \in 1 .. m : f[k] = step[<<f[k - 1], k>>]
           T == {m \in 0 .. n : \E f \in [0 .. m -> S] : Reaches(m, f)}
<1>1. 0 \in T
  <2> DEFINE f == [k \in 0 .. 0 |-> first]
  <2>1. f \in [0 .. 0 -> S] /\ f[0] = first /\ 1 .. 0 = {} /\ 0 \in 0 .. n
    OBVIOUS
  <2>2. Reaches(0, f)
    BY <2>1
  <2> HIDE DEF f, Reaches
  <2> QED
    BY <2>1, <2>2
<1>2. ASSUME NEW m \in 1 .. n, m - 1 \in T
      PROVE  m \in T
  <2>1. PICK f \in [0 .. m - 1 -> S] : Reaches(m - 1, f)
    BY <1>2
  <2> DEFINE next == step[<<f[m - 1], m>>]
             g == [k \in 0 .. m |-> IF k = m THEN next ELSE f[k]]
  <2>2. f[m - 1] \in S /\ \A k \in 0 .. m : k # m => f[k] \in S
    OBVIOUS
  <2>3. next \in S
    BY <2>2
  <2> HIDE DEF next
  <2>4. g \in [0 .. m -> S]
    BY <2>2, <2>3
  <2>5. g[0] = first
    BY <2>1
  <2>6. ASSUME NEW k \in 1 .. m
        PROVE  g[k] = step[<<g[k - 1], k>>]
    <3>1. g[k - 1] = f[k - 1]
      OBVIOUS
    <3>2. CASE k = m
      <4>1. g[m] = next
        OBVIOUS
      <4> QED
        BY <3>1, <3>2, <4>1 DEF next
    <3>3. CASE k # m
      <4>1. k \in 1 .. m - 1 /\ g[k] = f[k]
        BY <3>3
      <4> QED
        BY <2>1, <3>1, <4>1
    <3> QED
      BY <3>2, <3>3
  <2> HIDE DEF g
  <2> QED
    BY <2>4, <2>5, <2>6
<1> HIDE DEF T
<1>3. n \in T
  BY <1>1, <1>2, RangeInduction
<1> QED
  BY <1>3 DEF T

(* Bytes each within one of some elements of a size.                       *)
LEMMA BytesOfElements ==
    ASSUME NEW elements, IsFiniteSet(elements), NEW size \in Nat, NEW at, \A k \in elements : at[k] \in Int, NEW C, C \subseteq Int,
           \A b \in C : \E k \in elements : b \in at[k] .. at[k] + size - 1
    PROVE  Cardinality(C) <= Cardinality(elements) * size
<1> DEFINE D == 0 .. size - 1
           element == [b \in C |-> CHOOSE k \in elements : b \in at[k] .. at[k] + size - 1]
           f == [b \in C |-> <<element[b], b - at[element[b]]>>]
<1>1. IsFiniteSet(D) /\ Cardinality(D) = size
  <2>1. 0 \in Int /\ size - 1 \in Int
    OBVIOUS
  <2>2. IsFiniteSet(0 .. size - 1) /\ Cardinality(0 .. size - 1) = IF 0 > size - 1 THEN 0 ELSE (size - 1) - 0 + 1
    BY <2>1, FS_Interval
  <2> QED
    BY <2>2
<1>2. IsFiniteSet(elements \X D) /\ Cardinality(elements \X D) = Cardinality(elements) * size
  <2> HIDE DEF D
  <2> QED
    BY <1>1, FS_Product
<1>3. \A b \in C : element[b] \in elements /\ b \in at[element[b]] .. at[element[b]] + size - 1
  OBVIOUS
<1> HIDE DEF element
<1>4. \A b \in C : b - at[element[b]] \in D /\ b = (b - at[element[b]]) + at[element[b]]
  <2> TAKE b \in C
  <2>1. element[b] \in elements /\ b \in at[element[b]] .. at[element[b]] + size - 1 /\ at[element[b]] \in Int /\ b \in Int
    BY <1>3
  <2> QED
    BY <2>1
<1>5. f \in [C -> elements \X D]
  <2> HIDE DEF D
  <2> QED
    BY <1>3, <1>4
<1>6. \A a, b \in C : f[a] = f[b] => a = b
  <2> TAKE a, b \in C
  <2> SUFFICES ASSUME f[a] = f[b] PROVE a = b
    OBVIOUS
  <2>1. element[a] = element[b] /\ a - at[element[a]] = b - at[element[b]]
    OBVIOUS
  <2> QED
    BY <1>4, <2>1
<1>7. f \in Injection(C, elements \X D)
  <2>1. DOMAIN f = C
    OBVIOUS
  <2> HIDE DEF f, D
  <2> QED
    BY <1>5, <1>6, <2>1 DEF Injection, IsInjective
<1>8. Cardinality(C) <= Cardinality(elements \X D)
  <2> HIDE DEF f, D
  <2> QED
    BY <1>2, <1>7, FS_Injection
<1> QED
  BY <1>2, <1>8

(* Quotient and remainder are the numbers that compose the dividend.        *)
LEMMA QuotientIsUnique ==
    ASSUME NEW d \in Nat \ {0}, NEW x \in Int, NEW q \in Int, NEW r \in 0 .. d - 1, x = q * d + r
    PROVE  x \div d = q /\ x % d = r
<1>1. x \in Int /\ x = d * (x \div d) + (x % d) /\ x % d \in 0 .. d - 1 /\ x \div d \in Int
  OBVIOUS
<1>2. x \div d = q
  <2> DEFINE p == x \div d
  <2>1. p \in Int /\ d * p <= x /\ x < d * p + d
    BY <1>1
  <2>2. q * d <= x /\ x < q * d + d
    OBVIOUS
  <2> HIDE DEF p
  <2>3. ~(p < q)
    <3> SUFFICES ASSUME p + 1 <= q PROVE FALSE
      BY <2>1
    <3>1. d * (p + 1) <= d * q
      BY <2>1
    <3> QED
      BY <2>1, <2>2, <3>1, <1>1
  <2>4. ~(q < p)
    <3> SUFFICES ASSUME q + 1 <= p PROVE FALSE
      BY <2>1
    <3>1. d * (q + 1) <= d * p
      BY <2>1
    <3> QED
      BY <2>1, <2>2, <3>1, <1>1
  <2> QED
    BY <2>1, <2>3, <2>4 DEF p
<1> QED
  BY <1>1, <1>2

-----------------------------------------------------------------------------
(* Sorting *)

(* An order of all but one position, moved up over that position, is an    *)
(* order of all of them that starts there.                                 *)
Above(m, x) == IF x < m THEN x ELSE x + 1

LEMMA AboveSkips ==
    ASSUME NEW n \in Nat, NEW m \in 1 .. n
    PROVE  /\ \A x \in 1 .. n - 1 : Above(m, x) \in 1 .. n /\ Above(m, x) # m
           /\ \A x, y \in 1 .. n - 1 : Above(m, x) = Above(m, y) => x = y
           /\ \A k \in 1 .. n : k # m => \E x \in 1 .. n - 1 : Above(m, x) = k
<1>1. ASSUME NEW k \in 1 .. n, k # m
      PROVE  \E x \in 1 .. n - 1 : Above(m, x) = k
  <2>1. CASE k < m
    BY <2>1 DEF Above
  <2>2. CASE k > m
    <3>1. k - 1 \in 1 .. n - 1 /\ Above(m, k - 1) = k
      BY <2>2 DEF Above
    <3> QED
      BY <3>1
  <2> QED
    BY <1>1, <2>1, <2>2
<1> QED
  BY <1>1 DEF Above

LEMMA OrderExtends ==
    ASSUME NEW n \in Nat, NEW keys \in [1 .. n -> Nat], NEW m \in 1 .. n,
           \A k \in 1 .. n : keys[m] <= keys[k],
           NEW inner \in [1 .. n - 1 -> 1 .. n - 1],
           Ascends(inner, [x \in 1 .. n - 1 |-> keys[Above(m, x)]])
    PROVE  \E order \in [1 .. n -> 1 .. n] : Ascends(order, keys)
<1> DEFINE rest == [x \in 1 .. n - 1 |-> keys[Above(m, x)]]
<1>1. /\ \A i, j \in 1 .. n - 1 : inner[i] = inner[j] => i = j
      /\ \A k \in 1 .. n - 1 : \E i \in 1 .. n - 1 : inner[i] = k
      /\ \A i, j \in 1 .. n - 1 : i < j => keys[Above(m, inner[i])] <= keys[Above(m, inner[j])]
  <2>1. DOMAIN rest = 1 .. n - 1 /\ \A x \in 1 .. n - 1 : rest[x] = keys[Above(m, x)]
    OBVIOUS
  <2>2. Ascends(inner, rest)
    OBVIOUS
  <2> HIDE DEF rest
  <2>3. \A i \in 1 .. n - 1 : inner[i] \in 1 .. n - 1
    OBVIOUS
  <2> QED
    BY <2>1, <2>2, <2>3 DEF Ascends
<1>2. PICK order \in [1 .. n -> 1 .. n] :
          order[1] = m /\ \A i \in 1 .. n - 1 : order[i + 1] = Above(m, inner[i])
  <2> DEFINE order == [i \in 1 .. n |-> IF i = 1 THEN m ELSE Above(m, inner[i - 1])]
  <2>1. \A i \in 1 .. n : i # 1 => i - 1 \in 1 .. n - 1
    OBVIOUS
  <2>2. order \in [1 .. n -> 1 .. n]
    BY <2>1, AboveSkips
  <2>3. 1 \in 1 .. n /\ \A i \in 1 .. n - 1 : i + 1 \in 1 .. n /\ i + 1 # 1 /\ (i + 1) - 1 = i
    OBVIOUS
  <2>4. order[1] = m /\ \A i \in 1 .. n - 1 : order[i + 1] = Above(m, inner[i])
    BY <2>3
  <2> QED
    BY <2>2, <2>4
<1>3. \A i \in 1 .. n : i = 1 \/ \E k \in 1 .. n - 1 : i = k + 1
  <2>1. \A i \in 1 .. n : i # 1 => i - 1 \in 1 .. n - 1 /\ i = (i - 1) + 1
    OBVIOUS
  <2> QED
    BY <2>1
<1>4. ASSUME NEW a \in 1 .. n - 1
      PROVE  order[a + 1] # m
  <2>1. Above(m, inner[a]) # m
    BY AboveSkips
  <2> QED
    BY <1>2, <2>1
<1>5. ASSUME NEW i \in 1 .. n, NEW j \in 1 .. n, order[i] = order[j]
      PROVE  i = j
  <2>1. CASE i = 1 \/ j = 1
    BY <1>2, <1>3, <1>4, <1>5, <2>1
  <2>2. CASE i # 1 /\ j # 1
    <3>1. PICK a \in 1 .. n - 1 : i = a + 1
      BY <1>3, <2>2
    <3>2. PICK b \in 1 .. n - 1 : j = b + 1
      BY <1>3, <2>2
    <3>3. inner[a] \in 1 .. n - 1 /\ inner[b] \in 1 .. n - 1
      OBVIOUS
    <3>4. Above(m, inner[a]) = Above(m, inner[b])
      BY <1>2, <1>5, <3>1, <3>2
    <3>5. inner[a] = inner[b]
      BY <3>3, <3>4, AboveSkips
    <3>6. a = b
      BY <1>1, <3>5
    <3> QED
      BY <3>1, <3>2, <3>6
  <2> QED
    BY <2>1, <2>2
<1>6. ASSUME NEW k \in 1 .. n
      PROVE  \E i \in 1 .. n : order[i] = k
  <2>1. CASE k = m
    BY <1>2, <2>1
  <2>2. CASE k # m
    <3>1. PICK x \in 1 .. n - 1 : Above(m, x) = k
      BY <2>2, AboveSkips
    <3>2. PICK i \in 1 .. n - 1 : inner[i] = x
      BY <1>1
    <3>3. i + 1 \in 1 .. n /\ order[i + 1] = k
      BY <1>2, <3>1, <3>2
    <3> QED
      BY <3>3
  <2> QED
    BY <2>1, <2>2
<1>7. ASSUME NEW i \in 1 .. n, NEW j \in 1 .. n, i < j
      PROVE  keys[order[i]] <= keys[order[j]]
  <2>1. order[j] \in 1 .. n
    OBVIOUS
  <2>2. CASE i = 1
    BY <1>2, <2>1, <2>2
  <2>3. CASE i # 1
    <3>1. PICK a \in 1 .. n - 1 : i = a + 1
      BY <1>3, <2>3
    <3>2. PICK b \in 1 .. n - 1 : j = b + 1
      BY <1>3, <1>7, <2>3
    <3>3. a < b
      BY <1>7, <3>1, <3>2
    <3>4. keys[Above(m, inner[a])] <= keys[Above(m, inner[b])]
      BY <1>1, <3>3
    <3> QED
      BY <1>2, <3>1, <3>2, <3>4
  <2> QED
    BY <2>2, <2>3
<1>8. DOMAIN keys = 1 .. n
  OBVIOUS
<1>9. Ascends(order, keys)
  BY <1>5, <1>6, <1>7, <1>8 DEF Ascends
<1> QED
  BY <1>9

(* Every sequence of numbers can be sorted: the shortest one that could not *)
(* would leave, without a least element of it, a shorter one that cannot.  *)
LEMMA SortingOrderExists ==
    ASSUME NEW length \in Nat, NEW numbers \in [1 .. length -> Nat]
    PROVE  \E order \in [1 .. length -> 1 .. length] : Ascends(order, numbers)
<1> DEFINE Sorts(n) == \A keys \in [1 .. n -> Nat] : \E order \in [1 .. n -> 1 .. n] : Ascends(order, keys)
           unsorted == {n \in Nat : ~Sorts(n)}
<1> SUFFICES unsorted = {}
  OBVIOUS
<1> SUFFICES ASSUME unsorted # {}
             PROVE  FALSE
  OBVIOUS
<1>1. PICK n \in unsorted : \A y \in unsorted : n <= y
  <2>1. unsorted \in SUBSET Nat
    OBVIOUS
  <2> HIDE DEF unsorted
  <2> QED
    BY <2>1, LeastExists
<1>2. PICK keys \in [1 .. n -> Nat] : ~\E order \in [1 .. n -> 1 .. n] : Ascends(order, keys)
  BY <1>1
<1>3. n # 0
  <2> SUFFICES ASSUME n = 0 PROVE FALSE
    OBVIOUS
  <2>1. DOMAIN keys = {} /\ 1 .. n = {}
    OBVIOUS
  <2>2. [i \in 1 .. n |-> i] \in [1 .. n -> 1 .. n]
    OBVIOUS
  <2>3. Ascends([i \in 1 .. n |-> i], keys)
    BY <2>1 DEF Ascends
  <2> QED
    BY <1>2, <2>2, <2>3
<1>4. n \in Nat /\ n - 1 \in Nat /\ n - 1 < n
  BY <1>3
<1>5. Sorts(n - 1)
  <2>1. n - 1 \notin unsorted
    <3> HIDE DEF unsorted
    <3> QED
      BY <1>1, <1>4
  <2> QED
    BY <1>4, <2>1
<1>6. PICK m \in 1 .. n : \A k \in 1 .. n : keys[m] <= keys[k]
  <2> DEFINE values == {keys[k] : k \in 1 .. n}
  <2>1. values \in SUBSET Nat
    OBVIOUS
  <2>2. keys[1] \in values
    BY <1>4
  <2>3. PICK least \in values : \A y \in values : least <= y
    <3> HIDE DEF values
    <3> QED
      BY <2>1, <2>2, LeastExists
  <2> QED
    BY <2>3
<1>7. PICK inner \in [1 .. n - 1 -> 1 .. n - 1] : Ascends(inner, [x \in 1 .. n - 1 |-> keys[Above(m, x)]])
  <2>1. \A x \in 1 .. n - 1 : Above(m, x) \in 1 .. n
    BY <1>4 DEF Above
  <2>2. [x \in 1 .. n - 1 |-> keys[Above(m, x)]] \in [1 .. n - 1 -> Nat]
    BY <2>1
  <2> QED
    BY <1>5, <2>2
<1>8. \E order \in [1 .. n -> 1 .. n] : Ascends(order, keys)
  <2> HIDE DEF unsorted
  <2>1. n \in Nat /\ \A k \in 1 .. n : keys[m] <= keys[k]
    BY <1>4, <1>6
  <2> QED
    BY <1>7, <2>1, OrderExtends, ZenonT(60)
<1> QED
  BY <1>2, <1>8

(* SortByBase gives the entries of a table, each once, in ascending order. *)
Rearranges(order, table) ==
    /\ order \in [DOMAIN table -> DOMAIN table]
    /\ Ascends(order, [i \in DOMAIN table |-> table[i].base])
    /\ SortByBase(table) = [i \in DOMAIN table |-> table[order[i]]]

LEMMA SortedTable ==
    ASSUME NEW table \in Seq(Regions)
    PROVE  /\ SortByBase(table) \in Seq(Regions)
           /\ \E order : Rearranges(order, table)
<1> DEFINE n == Len(table)
           keys == [i \in DOMAIN table |-> table[i].base]
<1>1. n \in Nat /\ DOMAIN table = 1 .. n /\ DOMAIN keys = 1 .. n
  OBVIOUS
<1>2. keys \in [1 .. n -> Nat]
  <2>1. \A i \in 1 .. n : table[i] \in Regions
    OBVIOUS
  <2> QED
    BY <1>1, <2>1, AddressSpaceAssumption DEF AddressSpaceAssumption, Regions, Addresses
<1> HIDE DEF n, keys
<1>3. \E order \in [DOMAIN keys -> DOMAIN keys] : Ascends(order, keys)
  BY <1>1, <1>2, SortingOrderExists
<1>4. PICK order : order = SortingOrder(keys)
  OBVIOUS
<1>5. order \in [DOMAIN keys -> DOMAIN keys] /\ Ascends(order, keys)
  BY <1>3, <1>4 DEF SortingOrder
<1>6. SortByBase(table) = [i \in DOMAIN table |-> table[order[i]]]
  BY <1>4 DEF SortByBase, keys
<1>7. Rearranges(order, table)
  BY <1>1, <1>5, <1>6 DEF Rearranges, keys
<1>8. SortByBase(table) \in Seq(Regions)
  <2>1. \A i \in 1 .. n : order[i] \in 1 .. n /\ table[order[i]] \in Regions
    BY <1>1, <1>5 DEF n
  <2>2. SortByBase(table) = [i \in 1 .. n |-> table[order[i]]]
    BY <1>1, <1>6
  <2>3. [i \in 1 .. n |-> table[order[i]]] \in Seq(Regions)
    BY <1>1, <2>1
  <2> QED
    BY <2>2, <2>3
<1> QED
  BY <1>7, <1>8

-----------------------------------------------------------------------------
(* The regions of an accepted table *)

MapIsValid(map) == map \in Seq(Regions) /\ \A i \in DOMAIN map : RegionError(map, i) = "none"

LEMMA CreatedMapIsValid ==
    ASSUME NEW table \in Seq(Regions), Create(table).ok
    PROVE  MapIsValid(Create(table).map)
<1> DEFINE sorted == SortByBase(table)
           bad == {i \in DOMAIN sorted : RegionError(sorted, i) # "none"}
<1>1. bad = {} /\ Create(table).map = sorted
  BY DEF Create, Failed
<1>2. sorted \in Seq(Regions)
  BY SortedTable
<1> HIDE DEF sorted
<1> QED
  BY <1>1, <1>2 DEF MapIsValid

(* What the checks of the loop leave of one region. *)
GoodRegion(r) ==
    /\ r \in Regions
    /\ r.size > 0 /\ r.base + r.size <= AddressSpace
    /\ r.allowed # {}
    /\ r.target = "program" => "write" \notin r.allowed
    /\ r.target = "scratchpad" => "execute" \notin r.allowed

LEMMA RegionIsGood ==
    ASSUME NEW map, MapIsValid(map), NEW i \in DOMAIN map
    PROVE  GoodRegion(map[i])
<1>1. map[i] \in Regions
  BY DEF MapIsValid
<1>2. RegionError(map, i) = "none"
  BY DEF MapIsValid
<1>3. map[i].size \in Nat /\ map[i].base \in Nat /\ AddressSpace \in Nat
  BY <1>1, AddressSpaceAssumption DEF AddressSpaceAssumption, Regions, Addresses
<1>4. /\ map[i].size # 0 /\ ~(map[i].size > AddressSpace - map[i].base)
      /\ map[i].allowed # {}
      /\ ~(map[i].target = "program" /\ "write" \in map[i].allowed)
      /\ ~(map[i].target = "scratchpad" /\ "execute" \in map[i].allowed)
  BY <1>2 DEF RegionError
<1> QED
  BY <1>1, <1>3, <1>4 DEF GoodRegion

LEMMA RegionTypes ==
    ASSUME NEW r \in Regions
    PROVE  /\ r.base \in Nat /\ r.size \in Nat /\ r.base < AddressSpace
           /\ r.target \in Storages /\ r.allowed \subseteq AccessKinds
BY AddressSpaceAssumption DEF AddressSpaceAssumption, Regions, Addresses

(* Intervals that each begin no earlier than the one before ends. *)
LEMMA IntervalsAscend ==
    ASSUME NEW n \in Nat, NEW from \in [1 .. n -> Nat], NEW to \in [1 .. n -> Nat],
           \A k \in 1 .. n : from[k] <= to[k],
           \A k \in 2 .. n : to[k - 1] <= from[k],
           NEW i \in 1 .. n, NEW j \in 1 .. n, i < j
    PROVE  to[i] <= from[j]
<1> DEFINE late == {k \in 1 .. n : i < k /\ ~(to[i] <= from[k])}
<1> SUFFICES ASSUME late # {}
             PROVE  FALSE
  OBVIOUS
<1>1. PICK k \in late : \A y \in late : k <= y
  <2>1. late \in SUBSET Nat
    OBVIOUS
  <2> HIDE DEF late
  <2> QED
    BY <2>1, LeastExists
<1>2. k \in 2 .. n /\ k - 1 \in 1 .. n /\ i < k /\ ~(to[i] <= from[k]) /\ to[k - 1] <= from[k]
  BY <1>1
<1>3. CASE k - 1 = i
  BY <1>2, <1>3
<1>4. CASE k - 1 # i
  <2>1. k - 1 \notin late
    <3> HIDE DEF late
    <3> QED
      BY <1>1, <1>2
  <2>2. to[i] <= from[k - 1]
    BY <1>2, <1>4, <2>1
  <2>3. /\ to[i] \in Nat /\ from[k - 1] \in Nat /\ to[k - 1] \in Nat /\ from[k] \in Nat
        /\ from[k - 1] <= to[k - 1]
    BY <1>2
  <2> QED
    BY <1>2, <2>2, <2>3
<1> QED
  BY <1>3, <1>4

(* The regions of an accepted map follow one another. *)
LEMMA RegionsAscend ==
    ASSUME NEW m, MapIsValid(m), NEW i \in DOMAIN m, NEW j \in DOMAIN m, i < j
    PROVE  m[i].base + m[i].size <= m[j].base
<1> DEFINE n == Len(m)
           from == [k \in 1 .. n |-> m[k].base]
           to == [k \in 1 .. n |-> m[k].base + m[k].size]
<1>1. m \in Seq(Regions) /\ DOMAIN m = 1 .. n /\ n \in Nat
  BY DEF MapIsValid
<1>2. \A k \in 1 .. n : m[k].base \in Nat /\ m[k].size \in Nat
  BY <1>1, RegionTypes
<1>3. ASSUME NEW k \in 2 .. n
      PROVE  m[k - 1].base + m[k - 1].size <= m[k].base
  <2>1. k - 1 \in 1 .. n /\ k \in DOMAIN m /\ k # 1
    BY <1>1
  <2>2. RegionError(m, k) = "none"
    BY <2>1 DEF MapIsValid
  <2>3. ~(m[k].base < m[k - 1].base + m[k - 1].size)
    BY <2>1, <2>2 DEF RegionError
  <2>4. m[k - 1].base \in Nat /\ m[k - 1].size \in Nat /\ m[k].base \in Nat
    BY <1>1, <1>2, <2>1
  <2> QED
    BY <2>3, <2>4
<1> HIDE DEF n
<1>4. /\ from \in [1 .. n -> Nat] /\ to \in [1 .. n -> Nat]
      /\ \A k \in 1 .. n : from[k] <= to[k]
      /\ \A k \in 2 .. n : to[k - 1] <= from[k]
  <2>1. \A k \in 2 .. n : k - 1 \in 1 .. n /\ k \in 1 .. n
    BY <1>1
  <2> QED
    BY <1>2, <1>3, <2>1
<1>5. to[i] <= from[j]
  <2> HIDE DEF from, to
  <2> QED
    BY <1>1, <1>4, IntervalsAscend
<1> QED
  BY <1>1, <1>5

LEMMA RegionsDisjoint ==
    ASSUME NEW m, MapIsValid(m), NEW i \in DOMAIN m, NEW j \in DOMAIN m, NEW a \in Int,
           Contains(m[i], a), Contains(m[j], a)
    PROVE  i = j
<1>1. /\ m[i].base \in Nat /\ m[i].size \in Nat /\ m[j].base \in Nat /\ m[j].size \in Nat
      /\ i \in Int /\ j \in Int
  BY RegionTypes DEF MapIsValid
<1>2. i < j => m[i].base + m[i].size <= m[j].base
  BY RegionsAscend
<1>3. j < i => m[j].base + m[j].size <= m[i].base
  BY RegionsAscend
<1> QED
  BY <1>1, <1>2, <1>3 DEF Contains

LEMMA LocalsAreUnique ==
    ASSUME NEW m, MapIsValid(m), NEW i \in DOMAIN m, NEW j \in DOMAIN m, i # j, m[i].target = m[j].target
    PROVE  m[i].target = "system"
<1>1. ASSUME NEW a \in DOMAIN m, NEW b \in DOMAIN m, a < b, m[a].target = m[b].target
      PROVE  m[b].target = "system"
  <2>1. RegionError(m, b) = "none" /\ m[b] \in Regions
    BY DEF MapIsValid
  <2>2. a \in 1 .. b - 1
    BY <1>1 DEF MapIsValid
  <2>3. ~(m[b].target \in {"program", "scratchpad"} /\ \E k \in 1 .. b - 1 : m[k].target = m[b].target)
    BY <2>1 DEF RegionError
  <2>4. m[b].target \in {"program", "scratchpad", "system"}
    BY <2>1 DEF Regions, Storages
  <2> QED
    BY <1>1, <2>2, <2>3, <2>4
<1>2. i \in Int /\ j \in Int
  BY DEF MapIsValid
<1> QED
  BY <1>1, <1>2

-----------------------------------------------------------------------------
(* Routes *)

(* The one region a granted access lies in, and what the route says of it. *)
RoutedBy(r, address, size, kind, route) ==
    /\ r.base <= address /\ address + size <= r.base + r.size
    /\ kind \in r.allowed
    /\ size > 0
    /\ route.storage = r.target
    /\ route.size = size
    /\ route.at = IF r.target = "system" THEN address ELSE address - r.base

LEMMA RouteShape ==
    ASSUME NEW map, MapIsValid(map), NEW address \in Int, NEW size \in Nat, NEW kind,
           Resolve(map, address, size, kind).ok
    PROVE  \E i \in DOMAIN map : RoutedBy(map[i], address, size, kind, Resolve(map, address, size, kind))
<1> DEFINE hits == {i \in DOMAIN map : Contains(map[i], address)}
           first == CHOOSE i \in hits : \A j \in hits : i <= j
           route == Resolve(map, address, size, kind)
<1>1. size # 0 /\ hits # {} /\ ~(size > map[first].size - (address - map[first].base))
      /\ kind \in map[first].allowed
      /\ route = [ok |-> TRUE, storage |-> map[first].target, size |-> size,
                  at |-> IF map[first].target = "system" THEN address ELSE address - map[first].base]
  BY DEF Resolve, Failed
<1>2. first \in hits
  <2>1. hits \in SUBSET Nat
    BY DEF MapIsValid
  <2> HIDE DEF hits
  <2> QED
    BY <1>1, <2>1, LeastExists
<1>3. GoodRegion(map[first]) /\ Contains(map[first], address)
  BY <1>2, RegionIsGood
<1>4. map[first].base \in Nat /\ map[first].size \in Nat
  BY <1>3, AddressSpaceAssumption DEF AddressSpaceAssumption, GoodRegion, Regions, Addresses
<1> HIDE DEF first, route
<1>5. RoutedBy(map[first], address, size, kind, route)
  BY <1>1, <1>3, <1>4 DEF RoutedBy, Contains
<1> QED
  BY <1>2, <1>5 DEF route

(* What a user of a route relies on. *)
LEMMA RouteGuarantees ==
    ASSUME NEW map, MapIsValid(map), NEW address \in Int, NEW size \in Nat, NEW kind,
           Resolve(map, address, size, kind).ok
    PROVE  LET route == Resolve(map, address, size, kind)
           IN  /\ route.storage \in Storages /\ route.size = size /\ size > 0
               /\ route.at \in Nat
               /\ address \in Addresses /\ address + size <= AddressSpace
               /\ route.storage = "system" => route.at = address
               /\ route.storage = "program" => kind # "write"
               /\ route.storage = "scratchpad" => kind # "execute"
<1> DEFINE route == Resolve(map, address, size, kind)
<1>1. PICK i \in DOMAIN map : RoutedBy(map[i], address, size, kind, route)
  BY RouteShape
<1>2. GoodRegion(map[i])
  BY RegionIsGood
<1>3. map[i].base \in Nat /\ map[i].size \in Nat /\ map[i].target \in Storages
  BY <1>2, AddressSpaceAssumption DEF AddressSpaceAssumption, GoodRegion, Regions, Addresses
<1> HIDE DEF route
<1>4. address \in Addresses /\ address + size <= AddressSpace /\ route.at \in Nat
  BY <1>1, <1>2, <1>3, AddressSpaceAssumption DEF AddressSpaceAssumption, RoutedBy, GoodRegion, Addresses
<1> QED
  BY <1>1, <1>2, <1>3, <1>4 DEF RoutedBy, GoodRegion, route

(* Only one region holds an address, so the first that does is that one.   *)
LEMMA FirstHit ==
    ASSUME NEW m, MapIsValid(m), NEW address \in Int, NEW i \in DOMAIN m, Contains(m[i], address)
    PROVE  LET hits == {j \in DOMAIN m : Contains(m[j], address)}
           IN  hits # {} /\ (CHOOSE j \in hits : \A k \in hits : j <= k) = i
<1> DEFINE hits == {j \in DOMAIN m : Contains(m[j], address)}
<1>1. \A j \in DOMAIN m : j \in Int
  BY DEF MapIsValid
<1>2. hits = {i}
  BY RegionsDisjoint
<1> HIDE DEF hits
<1>3. (CHOOSE j \in hits : \A k \in hits : j <= k) = i
  BY <1>1, <1>2
<1> QED
  BY <1>2, <1>3 DEF hits

(* What resolve answers at an address of region i. *)
LEMMA ResolvedIn ==
    ASSUME NEW m, MapIsValid(m), NEW address \in Int, NEW size \in Nat, NEW kind,
           NEW i \in DOMAIN m, Contains(m[i], address)
    PROVE  LET route == Resolve(m, address, size, kind)
               r == m[i]
           IN  /\ route.ok <=> size > 0 /\ address + size <= r.base + r.size /\ kind \in r.allowed
               /\ route.ok =>
                    route = [ok |-> TRUE, storage |-> r.target, size |-> size,
                             at |-> IF r.target = "system" THEN address ELSE address - r.base]
<1> DEFINE hits == {j \in DOMAIN m : Contains(m[j], address)}
           first == CHOOSE j \in hits : \A k \in hits : j <= k
           r == m[i]
<1>1. hits # {} /\ first = i
  BY FirstHit
<1>2. r \in Regions /\ r.base + r.size <= AddressSpace
  BY RegionIsGood DEF GoodRegion
<1>3. r.base \in Nat /\ r.size \in Nat /\ AddressSpace \in Nat /\ r.base <= address
  BY <1>2, RegionTypes, AddressSpaceAssumption DEF AddressSpaceAssumption, Contains
<1>4. Resolve(m, address, size, kind) =
        IF size = 0 THEN Failed("invalid_request")
        ELSE IF size > AddressSpace - address THEN Failed("address_overflow")
        ELSE IF size > r.size - (address - r.base) THEN Failed("unmapped")
        ELSE IF kind \notin r.allowed THEN Failed("permission")
        ELSE [ok |-> TRUE, storage |-> r.target, size |-> size,
              at |-> IF r.target = "system" THEN address ELSE address - r.base]
  <2> HIDE DEF hits
  <2>1. Resolve(m, address, size, kind) =
          IF size = 0 THEN Failed("invalid_request")
          ELSE IF size > AddressSpace - address THEN Failed("address_overflow")
          ELSE IF hits = {} THEN Failed("unmapped")
          ELSE IF size > m[first].size - (address - m[first].base) THEN Failed("unmapped")
          ELSE IF kind \notin m[first].allowed THEN Failed("permission")
          ELSE [ok |-> TRUE, storage |-> m[first].target, size |-> size,
                at |-> IF m[first].target = "system" THEN address ELSE address - m[first].base]
    BY DEF Resolve, hits
  <2> HIDE DEF first
  <2> QED
    BY <1>1, <2>1
<1> HIDE DEF r
<1> QED
  BY <1>2, <1>3, <1>4 DEF Failed, r
=============================================================================
