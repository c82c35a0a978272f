---------------------------- MODULE VectorProofs ----------------------------
(***************************************************************************)
(* Proofs about VectorUnit, for every configuration, repertoire and program *)
(* of vector and predicate instructions.                                    *)
(***************************************************************************)
EXTENDS VectorUnit, MapProofs, FiniteSetTheorems

-----------------------------------------------------------------------------
(* Powers of two, and the numbers of a byte, an element and a word          *)

LEMMA PowersOfTwo == \A n \in 0 .. 4 * ByteBits : 2 ^ n \in Nat \ {0}
<1> DEFINE T == {n \in 0 .. 4 * ByteBits : 2 ^ n \in Nat \ {0}}
<1>1. 4 * ByteBits \in Nat
  BY NpuDataAssumption DEF NpuDataAssumption
<1>2. 0 \in T
  BY <1>1, PowersAssumption DEF PowersAssumption
<1>3. ASSUME NEW n \in 1 .. 4 * ByteBits, n - 1 \in T PROVE n \in T
  <2>1. n - 1 \in 0 .. 4 * ByteBits - 1 /\ (n - 1) + 1 = n
    BY <1>1
  <2>2. 2 ^ n = 2 * 2 ^ (n - 1)
    BY <2>1, PowersAssumption DEF PowersAssumption
  <2> QED
    BY <1>3, <2>2
<1> HIDE DEF T
<1>4. \A n \in 0 .. 4 * ByteBits : n \in T
  BY <1>1, <1>2, <1>3, RangeInduction
<1> QED
  BY <1>4 DEF T

(* A byte is one bit at least, and a word is four bytes.                    *)
LEMMA BytePowers ==
    /\ ByteValues \in Nat /\ ByteValues >= 2
    /\ ByteValues ^ 0 = 1 /\ ByteValues ^ 1 = ByteValues /\ ByteValues ^ 2 = ByteValues * ByteValues
    /\ ByteValues ^ 3 = ByteValues * (ByteValues * ByteValues)
    /\ ByteValues ^ 4 = ByteValues * (ByteValues * (ByteValues * ByteValues))
    /\ AddressSpace = ByteValues ^ 4
<1>1. ByteBits \in Nat \ {0} /\ AddressSpace = ByteValues ^ 4
  BY NpuDataAssumption DEF NpuDataAssumption
<1>2. ByteValues \in Nat /\ ByteValues >= 2
  <2>1. ByteBits - 1 \in 0 .. 4 * ByteBits - 1 /\ ByteBits - 1 \in 0 .. 4 * ByteBits /\ (ByteBits - 1) + 1 = ByteBits
    BY <1>1
  <2>2. 2 ^ ByteBits = 2 * 2 ^ (ByteBits - 1)
    BY <2>1, PowersAssumption DEF PowersAssumption
  <2>3. 2 ^ (ByteBits - 1) \in Nat \ {0}
    BY <2>1, PowersOfTwo
  <2> QED
    BY <2>2, <2>3 DEF ByteValues
<1>3. \A n \in 0 .. 3 : ByteValues ^ (n + 1) = ByteValues * ByteValues ^ n
  BY PowersAssumption DEF PowersAssumption
<1>4. ByteValues ^ 0 = 1
  BY PowersAssumption DEF PowersAssumption
<1>5. ByteValues ^ 1 = ByteValues
  <2>1. ByteValues ^ (0 + 1) = ByteValues * ByteValues ^ 0
    BY <1>3
  <2> QED
    BY <1>2, <1>4, <2>1
<1>6. ByteValues ^ 2 = ByteValues * ByteValues
  <2>1. ByteValues ^ (1 + 1) = ByteValues * ByteValues ^ 1
    BY <1>3
  <2> QED
    BY <1>5, <2>1
<1>7. ByteValues ^ 3 = ByteValues * (ByteValues * ByteValues)
  <2>1. ByteValues ^ (2 + 1) = ByteValues * ByteValues ^ 2
    BY <1>3
  <2> QED
    BY <1>6, <2>1
<1>8. ByteValues ^ 4 = ByteValues * (ByteValues * (ByteValues * ByteValues))
  <2>1. ByteValues ^ (3 + 1) = ByteValues * ByteValues ^ 3
    BY <1>3
  <2> QED
    BY <1>7, <2>1
<1> QED
  BY <1>1, <1>2, <1>4, <1>5, <1>6, <1>7, <1>8

LEMMA WidthRange == ASSUME NEW type PROVE Width(type) \in {1, 2, 4}
BY DEF Width

(* An element has a power of two of values, so half of them are negative.   *)
LEMMA ModulusFacts ==
    ASSUME NEW type
    PROVE  /\ Modulus(type) = ByteValues ^ Width(type)
           /\ Modulus(type) \in Nat /\ Modulus(type) \div 2 \in Nat \ {0}
           /\ Modulus(type) = 2 * (Modulus(type) \div 2)
           /\ Modulus(type) <= AddressSpace
<1>1. Width(type) \in {1, 2, 4} /\ ByteBits \in Nat \ {0}
  BY WidthRange, NpuDataAssumption DEF NpuDataAssumption
<1>2. Modulus(type) = ByteValues ^ Width(type)
  BY <1>1, PowersAssumption DEF PowersAssumption, Modulus, Bits
<1> DEFINE n == ByteBits * Width(type) - 1
<1>3. n \in 0 .. 4 * ByteBits - 1 /\ n \in 0 .. 4 * ByteBits /\ n + 1 = ByteBits * Width(type)
  BY <1>1
<1>4. 2 ^ n \in Nat \ {0} /\ Modulus(type) = 2 * 2 ^ n
  BY <1>3, PowersOfTwo, PowersAssumption DEF PowersAssumption, Modulus, Bits
<1>5. Modulus(type) \div 2 = 2 ^ n
  <2> HIDE DEF n
  <2> QED
    BY <1>4
<1>6. Modulus(type) <= AddressSpace
  <2>1. ByteValues >= 1 /\ ByteValues * ByteValues >= ByteValues
    BY BytePowers
  <2>2. ByteValues * (ByteValues * ByteValues) >= ByteValues * ByteValues
    BY <2>1, BytePowers
  <2>3. ByteValues * (ByteValues * (ByteValues * ByteValues)) >= ByteValues * (ByteValues * ByteValues)
    BY <2>1, <2>2, BytePowers
  <2> QED
    BY <1>1, <1>2, <2>1, <2>2, <2>3, BytePowers
<1> QED
  BY <1>2, <1>4, <1>5, <1>6

LEMMA WordRange == ASSUME NEW value \in Int PROVE WordOf(value) \in Addresses
BY AddressSpaceAssumption DEF AddressSpaceAssumption, WordOf, Addresses

LEMMA IntegerRange ==
    ASSUME NEW value \in Int, NEW type
    PROVE  Integer(value, type) \in Int
<1>1. Modulus(type) \in Nat \ {0}
  BY ModulusFacts
<1>2. value % Modulus(type) \in Int
  BY <1>1
<1> QED
  BY <1>1, <1>2 DEF Integer

-----------------------------------------------------------------------------
(* Little-endian reads and writes                                           *)

LEMMA ByteRange == ASSUME NEW b \in Bytes PROVE b \in Nat /\ b < ByteValues
BY BytePowers DEF Bytes

(* What read() gives for the sizes there are.                               *)
LEMMA ReadBytesValue ==
    ASSUME NEW bytes, NEW at \in Int, NEW size \in {1, 2, 4}, \A b \in at .. at + size - 1 : bytes[b] \in Bytes
    PROVE  /\ size = 1 => ReadBytes(bytes, at, size) = bytes[at]
           /\ size = 2 => ReadBytes(bytes, at, size) = bytes[at] + bytes[at + 1] * ByteValues
           /\ size = 4 => ReadBytes(bytes, at, size) =
                bytes[at] + bytes[at + 1] * ByteValues + bytes[at + 2] * ByteValues ^ 2 + bytes[at + 3] * ByteValues ^ 3
<1> DEFINE Sums(g) == g = [k \in 0 .. size |-> IF k = 0 THEN 0 ELSE g[k - 1] + bytes[at + k - 1] * ByteValues ^ (k - 1)]
           sum == CHOOSE g : Sums(g)
           step == [p \in Nat \X (1 .. size) |-> p[1] + bytes[at + p[2] - 1] * ByteValues ^ (p[2] - 1)]
<1>1. \A k \in 1 .. size : bytes[at + k - 1] \in Nat /\ ByteValues ^ (k - 1) \in Nat
  <2>1. \A k \in 1 .. size : at + k - 1 \in at .. at + size - 1
    OBVIOUS
  <2>2. \A k \in 1 .. size : k - 1 \in {0, 1, 2, 3}
    OBVIOUS
  <2> QED
    BY <2>1, <2>2, ByteRange, BytePowers
<1>2. IsStep(step, Nat, size)
  <2>1. \A p \in Nat \X (1 .. size) : p[1] + bytes[at + p[2] - 1] * ByteValues ^ (p[2] - 1) \in Nat
    <3> TAKE p \in Nat \X (1 .. size)
    <3> DEFINE x == bytes[at + p[2] - 1]
               y == ByteValues ^ (p[2] - 1)
    <3>1. p[1] \in Nat /\ x \in Nat /\ y \in Nat
      BY <1>1
    <3> HIDE DEF x, y
    <3>2. p[1] + x * y \in Nat
      BY <3>1
    <3> QED
      BY <3>2 DEF x, y
  <2> QED
    BY <2>1 DEF IsStep
<1>3. PICK f : Follows(f, Nat, size, 0, step)
  <2>1. size \in Nat /\ 0 \in Nat
    OBVIOUS
  <2> HIDE DEF step
  <2> QED
    BY <1>2, <2>1, RecursionExists
<1>4. Sums(f)
  <2>1. \A k \in 0 .. size : k # 0 => k \in 1 .. size /\ f[k - 1] \in Nat
    BY <1>3 DEF Follows
  <2>2. \A k \in 0 .. size : f[k] = IF k = 0 THEN 0 ELSE f[k - 1] + bytes[at + k - 1] * ByteValues ^ (k - 1)
    BY <1>3, <2>1 DEF Follows
  <2> QED
    BY <1>3, <2>2 DEF Follows
<1>5. Sums(sum)
  <2> HIDE DEF Sums
  <2> QED
    BY <1>4
<1>6. ReadBytes(bytes, at, size) = sum[size]
  BY DEF ReadBytes
<1> HIDE DEF sum
<1>7. \A k \in 0 .. size : sum[k] = IF k = 0 THEN 0 ELSE sum[k - 1] + bytes[at + k - 1] * ByteValues ^ (k - 1)
  BY <1>5
<1> HIDE DEF Sums
<1>8. sum[0] = 0
  BY <1>7
<1>9. sum[1] = bytes[at]
  <2>1. sum[1] = sum[0] + bytes[at + 1 - 1] * ByteValues ^ 0 /\ bytes[at + 1 - 1] \in Nat
    BY <1>1, <1>7
  <2>2. at + 1 - 1 = at
    OBVIOUS
  <2> QED
    BY <1>8, <2>1, <2>2, BytePowers
<1>10. size # 1 => sum[2] = bytes[at] + bytes[at + 1] * ByteValues
  <2> SUFFICES ASSUME size # 1 PROVE sum[2] = bytes[at] + bytes[at + 1] * ByteValues
    OBVIOUS
  <2>1. sum[2] = sum[1] + bytes[at + 2 - 1] * ByteValues ^ (2 - 1) /\ at + 2 - 1 = at + 1
    BY <1>7
  <2> QED
    BY <1>9, <2>1, BytePowers
<1>11. size = 4 => sum[4] = bytes[at] + bytes[at + 1] * ByteValues + bytes[at + 2] * ByteValues ^ 2 + bytes[at + 3] * ByteValues ^ 3
  <2> SUFFICES ASSUME size = 4
               PROVE  sum[4] = bytes[at] + bytes[at + 1] * ByteValues + bytes[at + 2] * ByteValues ^ 2 + bytes[at + 3] * ByteValues ^ 3
    OBVIOUS
  <2>1. sum[3] = sum[2] + bytes[at + 3 - 1] * ByteValues ^ (3 - 1) /\ at + 3 - 1 = at + 2
    BY <1>7
  <2>2. sum[4] = sum[3] + bytes[at + 4 - 1] * ByteValues ^ (4 - 1) /\ at + 4 - 1 = at + 3
    BY <1>7
  <2> QED
    BY <1>10, <2>1, <2>2
<1> QED
  BY <1>6, <1>9, <1>10, <1>11

(* Four bytes as a word, and the word's bytes again.                        *)
Little(b0, b1, b2, b3) == b0 + b1 * ByteValues + b2 * ByteValues ^ 2 + b3 * ByteValues ^ 3

ByteOf(value, j) == (value \div ByteValues ^ j) % ByteValues

LEMMA LittleDigits ==
    ASSUME NEW b0 \in Bytes, NEW b1 \in Bytes, NEW b2 \in Bytes, NEW b3 \in Bytes
    PROVE  LET value == Little(b0, b1, b2, b3)
           IN  /\ value \in Nat /\ value < ByteValues ^ 4
               /\ b2 = 0 /\ b3 = 0 => value < ByteValues ^ 2
               /\ ByteOf(value, 0) = b0 /\ ByteOf(value, 1) = b1 /\ ByteOf(value, 2) = b2 /\ ByteOf(value, 3) = b3
<1> DEFINE B == ByteValues
           value == Little(b0, b1, b2, b3)
           B2 == B * B
           B3 == B * B2
<1>1. b0 \in 0 .. B - 1 /\ b1 \in 0 .. B - 1 /\ b2 \in 0 .. B - 1 /\ b3 \in 0 .. B - 1 /\ B \in Nat \ {0}
  BY ByteRange, BytePowers
<1>2. value = b0 + b1 * B + b2 * B2 + b3 * B3 /\ ByteValues ^ 2 = B2 /\ ByteValues ^ 3 = B3 /\ ByteValues ^ 4 = B * B3
      /\ ByteValues ^ 0 = 1 /\ ByteValues ^ 1 = B
  BY BytePowers DEF Little
<1> HIDE DEF B, value
<1> DEFINE q1 == b1 + b2 * B + b3 * B2
           q2 == b2 + b3 * B
<1>3. B2 \in Nat \ {0} /\ B3 \in Nat \ {0}
  BY <1>1
<1>4. q1 \in Nat /\ q2 \in Nat /\ value \in Nat
  BY <1>1, <1>2
<1>5. value = q1 * B + b0 /\ q1 = q2 * B + b1 /\ q2 = b3 * B + b2
  BY <1>1, <1>2
<1>6. value \div B = q1 /\ value % B = b0
  <2>1. value = q1 * B + b0 /\ q1 \in Int /\ value \in Int /\ b0 \in 0 .. B - 1 /\ B \in Nat \ {0}
    BY <1>1, <1>4, <1>5
  <2> HIDE DEF q1
  <2> QED
    BY <2>1, QuotientIsUnique
<1>7. q1 % B = b1
  <2>1. q1 = q2 * B + b1 /\ q1 \in Int /\ q2 \in Int /\ b1 \in 0 .. B - 1 /\ B \in Nat \ {0}
    BY <1>1, <1>4, <1>5
  <2> HIDE DEF q1, q2
  <2> QED
    BY <2>1, QuotientIsUnique
<1>8. q2 % B = b2
  <2>1. q2 = b3 * B + b2 /\ q2 \in Int /\ b3 \in Int /\ b2 \in 0 .. B - 1 /\ B \in Nat \ {0}
    BY <1>1, <1>5
  <2> HIDE DEF q2
  <2> QED
    BY <2>1, QuotientIsUnique
<1>9. b0 + b1 * B \in 0 .. B2 - 1
  <2>1. b1 * B <= (B - 1) * B
    BY <1>1
  <2> QED
    BY <1>1, <2>1
<1>10. value \div B2 = q2
  <2> DEFINE rest == b0 + b1 * B
  <2>1. value = q2 * B2 + rest
    BY <1>1, <1>2
  <2>2. q2 \in Int /\ value \in Int /\ rest \in 0 .. B2 - 1 /\ B2 \in Nat \ {0}
    BY <1>1, <1>3, <1>4, <1>9
  <2> HIDE DEF q2, B2, rest
  <2> QED
    BY <2>1, <2>2, QuotientIsUnique
<1>11. b0 + b1 * B + b2 * B2 \in 0 .. B3 - 1
  <2>1. b2 * B2 <= (B - 1) * B2
    BY <1>1, <1>3
  <2>2. (B - 1) * B2 = B3 - B2 /\ b2 * B2 >= 0
    BY <1>1
  <2> HIDE DEF B2, B3
  <2> QED
    BY <1>1, <1>3, <1>9, <2>1, <2>2
<1>12. value \div B3 = b3
  <2> DEFINE rest == b0 + b1 * B + b2 * B2
  <2>1. value = b3 * B3 + rest /\ b3 \in Int
    BY <1>1, <1>2
  <2>2. value \in Int /\ rest \in 0 .. B3 - 1 /\ B3 \in Nat \ {0}
    BY <1>3, <1>4, <1>11
  <2> HIDE DEF B3, B2, q1, q2, rest
  <2> QED
    BY <2>1, <2>2, QuotientIsUnique
<1>13. b3 % B = b3 /\ value \div 1 = value
  BY <1>1, <1>4
<1>14. value < B * B3
  <2>1. b3 * B3 <= (B - 1) * B3
    BY <1>1, <1>3
  <2>2. (B - 1) * B3 = B * B3 - B3
    BY <1>1
  <2> HIDE DEF B2, B3
  <2> QED
    BY <1>1, <1>2, <1>3, <1>11, <2>1, <2>2
<1>15. b2 = 0 /\ b3 = 0 => value < B2
  BY <1>1, <1>2, <1>3, <1>9
<1>16. \A j : ByteOf(value, j) = (value \div ByteValues ^ j) % B
  BY DEF ByteOf, B
<1> QED
  BY <1>2, <1>4, <1>6, <1>7, <1>8, <1>10, <1>12, <1>13, <1>14, <1>15, <1>16 DEF value

(* The bytes "size" of them make, the missing ones being zero.              *)
ByteAt(bytes, at, size, j) == IF j < size THEN bytes[at + j] ELSE 0

LEMMA ReadBytesIsLittle ==
    ASSUME NEW bytes, NEW at \in Int, NEW size \in {1, 2, 4}, \A b \in at .. at + size - 1 : bytes[b] \in Bytes
    PROVE  /\ \A j \in 0 .. 3 : ByteAt(bytes, at, size, j) \in Bytes
           /\ ReadBytes(bytes, at, size) =
                Little(ByteAt(bytes, at, size, 0), ByteAt(bytes, at, size, 1), ByteAt(bytes, at, size, 2), ByteAt(bytes, at, size, 3))
<1>1. \A j \in 0 .. size - 1 : bytes[at + j] \in Bytes
  OBVIOUS
<1>2. 0 \in Bytes
  BY BytePowers DEF Bytes
<1>3. \A j \in 0 .. 3 : ByteAt(bytes, at, size, j) \in Bytes
  BY <1>1, <1>2 DEF ByteAt
<1>4. bytes[at] \in Nat /\ at + 0 = at /\ ByteValues \in Nat /\ ByteValues ^ 2 \in Nat /\ ByteValues ^ 3 \in Nat
  <2>1. at + 0 = at
    OBVIOUS
  <2>2. bytes[at + 0] \in Bytes
    BY <1>1
  <2> QED
    BY <2>1, <2>2, ByteRange, BytePowers
<1> DEFINE Goal == ReadBytes(bytes, at, size) =
                     Little(ByteAt(bytes, at, size, 0), ByteAt(bytes, at, size, 1), ByteAt(bytes, at, size, 2), ByteAt(bytes, at, size, 3))
<1>5. ASSUME size = 1 PROVE Goal
  <2>1. ReadBytes(bytes, at, size) = bytes[at]
    BY <1>5, ReadBytesValue
  <2>2. ByteAt(bytes, at, size, 0) = bytes[at] /\ \A j \in 1 .. 3 : ByteAt(bytes, at, size, j) = 0
    BY <1>4, <1>5 DEF ByteAt
  <2> QED
    BY <1>4, <2>1, <2>2 DEF Little
<1>6. ASSUME size = 2 PROVE Goal
  <2>1. bytes[at + 1] \in Nat
    BY <1>1, <1>6, ByteRange
  <2>2. ReadBytes(bytes, at, size) = bytes[at] + bytes[at + 1] * ByteValues
    BY <1>6, ReadBytesValue
  <2>3. ByteAt(bytes, at, size, 0) = bytes[at] /\ ByteAt(bytes, at, size, 1) = bytes[at + 1] /\ \A j \in 2 .. 3 : ByteAt(bytes, at, size, j) = 0
    BY <1>4, <1>6 DEF ByteAt
  <2> QED
    BY <1>4, <2>1, <2>2, <2>3 DEF Little
<1>7. ASSUME size = 4 PROVE Goal
  <2>1. ReadBytes(bytes, at, size) =
          bytes[at] + bytes[at + 1] * ByteValues + bytes[at + 2] * ByteValues ^ 2 + bytes[at + 3] * ByteValues ^ 3
    BY <1>7, ReadBytesValue
  <2>2. ByteAt(bytes, at, size, 0) = bytes[at] /\ \A j \in 1 .. 3 : ByteAt(bytes, at, size, j) = bytes[at + j]
    BY <1>4, <1>7 DEF ByteAt
  <2> QED
    BY <2>1, <2>2 DEF Little
<1> QED
  BY <1>3, <1>5, <1>6, <1>7

(* A read gives an element of its size, made of the bytes read and of them  *)
(* only.                                                                    *)
LEMMA ReadBytesFacts ==
    ASSUME NEW bytes, NEW at \in Int, NEW size \in {1, 2, 4}, \A b \in at .. at + size - 1 : bytes[b] \in Bytes
    PROVE  /\ ReadBytes(bytes, at, size) \in Nat /\ ReadBytes(bytes, at, size) < ByteValues ^ size
           /\ \A j \in 0 .. size - 1 : ByteOf(ReadBytes(bytes, at, size), j) = bytes[at + j]
<1> DEFINE b(j) == ByteAt(bytes, at, size, j)
           value == ReadBytes(bytes, at, size)
<1>1. /\ b(0) \in Bytes /\ b(1) \in Bytes /\ b(2) \in Bytes /\ b(3) \in Bytes
      /\ value = Little(b(0), b(1), b(2), b(3))
  BY ReadBytesIsLittle
<1>2. \A j \in 0 .. size - 1 : b(j) = bytes[at + j]
  BY DEF ByteAt
<1>3. (size = 1 => b(1) = 0 /\ b(2) = 0 /\ b(3) = 0) /\ (size = 2 => b(2) = 0 /\ b(3) = 0)
  BY DEF ByteAt
<1> HIDE DEF b, value
<1>4. /\ value \in Nat /\ value < ByteValues ^ 4
      /\ b(2) = 0 /\ b(3) = 0 => value < ByteValues ^ 2
      /\ ByteOf(value, 0) = b(0) /\ ByteOf(value, 1) = b(1) /\ ByteOf(value, 2) = b(2) /\ ByteOf(value, 3) = b(3)
  BY <1>1, LittleDigits
<1>5. \A j \in 0 .. 3 : ByteOf(value, j) = b(j)
  <2>1. \A j \in 0 .. 3 : j = 0 \/ j = 1 \/ j = 2 \/ j = 3
    OBVIOUS
  <2> QED
    BY <1>4, <2>1
<1>6. value < ByteValues ^ size
  <2>1. CASE size = 1
    <3>1. value = b(0)
      BY <1>1, <1>3, <2>1, ByteRange, BytePowers DEF Little
    <3> QED
      BY <1>1, <2>1, <3>1, ByteRange, BytePowers
  <2>2. CASE size # 1
    BY <1>3, <1>4, <2>2
  <2> QED
    BY <2>1, <2>2
<1> QED
  BY <1>2, <1>4, <1>5, <1>6 DEF value

LEMMA ReadsAgree ==
    ASSUME NEW x, NEW y, NEW at \in Int, NEW size \in {1, 2, 4},
           \A b \in at .. at + size - 1 : x[b] \in Bytes /\ y[b] = x[b]
    PROVE  ReadBytes(y, at, size) = ReadBytes(x, at, size)
<1>1. \A j \in 0 .. 3 : j < size => at + j \in at .. at + size - 1
  OBVIOUS
<1>2. \A j \in 0 .. 3 : ByteAt(y, at, size, j) = ByteAt(x, at, size, j)
  BY <1>1 DEF ByteAt
<1> QED
  BY <1>2, ReadBytesIsLittle

LEMMA ByteOfRange ==
    ASSUME NEW value \in Int, NEW j \in 0 .. 3
    PROVE  ByteOf(value, j) \in Bytes
<1>1. ByteValues ^ j \in Nat \ {0}
  <2>1. j = 0 \/ j = 1 \/ j = 2 \/ j = 3
    OBVIOUS
  <2>2. ByteValues \in Nat \ {0} /\ ByteValues * ByteValues \in Nat \ {0}
    BY BytePowers
  <2>3. ByteValues * (ByteValues * ByteValues) \in Nat \ {0}
    BY <2>2
  <2> QED
    BY <2>1, <2>2, <2>3, BytePowers
<1>2. value \div ByteValues ^ j \in Int
  BY <1>1
<1> QED
  BY <1>2, BytePowers DEF ByteOf, Bytes

(* Bytes at the places of a set, and what writing some of them leaves.      *)
IsMemory(bytes, D) == D \subseteq Int /\ bytes \in [D -> Bytes]

LEMMA WriteBytesRange ==
    ASSUME NEW D, NEW bytes, IsMemory(bytes, D), NEW at \in Int, NEW size \in {1, 2, 4}, NEW value \in Int
    PROVE  /\ IsMemory(WriteBytes(bytes, at, size, value), D)
           /\ \A b \in D : WriteBytes(bytes, at, size, value)[b] =
                               IF b \in at .. at + size - 1 THEN ByteOf(value, b - at) ELSE bytes[b]
<1>1. \A b \in D : b \in at .. at + size - 1 => b - at \in 0 .. 3
  BY DEF IsMemory
<1>2. \A b \in D : WriteBytes(bytes, at, size, value)[b] =
                       IF b \in at .. at + size - 1 THEN ByteOf(value, b - at) ELSE bytes[b]
  BY DEF WriteBytes, ByteOf, IsMemory
<1>3. \A b \in D : WriteBytes(bytes, at, size, value)[b] \in Bytes
  BY <1>1, <1>2, ByteOfRange DEF IsMemory
<1>4. WriteBytes(bytes, at, size, value) = [b \in D |-> WriteBytes(bytes, at, size, value)[b]]
  BY DEF WriteBytes, IsMemory
<1> QED
  BY <1>2, <1>3, <1>4 DEF IsMemory

-----------------------------------------------------------------------------
(* Instructions: which operands there are, and what they hold               *)

LEMMA OperandValue ==
    ASSUME NEW i, IsInstruction(i), NEW r, Has(i, r), r # "op"
    PROVE  r \in Operands(i.op) /\ i[r] \in Values(i.op, r)
BY DEF IsInstruction, Has

LEMMA OperandNamed ==
    ASSUME NEW i, IsInstruction(i), NEW r \in Operands(i.op)
    PROVE  Has(i, r) /\ i[r] \in Values(i.op, r)
BY DEF IsInstruction, Has

LEMMA TypesOfTypes == \A op : TypesOf(op) \subseteq Types
BY DEF TypesOf, Types, Signed

LEMMA RoleValues ==
    ASSUME NEW op
    PROVE  /\ \A r \in {"vd", "va", "vb", "vc", "indices"} : Values(op, r) = VectorRegisters
           /\ \A r \in {"pd", "pa", "pb", "pg", "select"} : Values(op, r) = PredicateRegisters
           /\ \A r \in {"vl", "avl", "base", "end", "stride", "value", "seed", "index"} : Values(op, r) = Addresses
           /\ \A r \in {"peer_type", "result_type"} : Values(op, r) = Types
           /\ Values(op, "type") = TypesOf(op)
           /\ Values(op, "policy") = {"merge", "zero"} /\ Values(op, "rounding") = Roundings
           /\ Values(op, "offset") = Int /\ Values(op, "scale") = 0 .. 3
BY DEF Values

(* Every instruction but VSETL has a length.                                *)
LEMMA LengthOperand ==
    ASSUME NEW i, IsInstruction(i), i.op # "VSETL"
    PROVE  Has(i, "vl") /\ i.vl \in Addresses /\ i.vl \in Nat
<1>1. i.op \in Opcodes
  BY DEF IsInstruction
<1>2. "vl" \in Operands(i.op)
  BY <1>1 DEF Opcodes, Operands, BinaryOps, BitOps, CompareOps, ReduceOps, MaskOps, LoadOps, StoreOps, Result, Masked, Memory
<1>3. Has(i, "vl") /\ i["vl"] \in Values(i.op, "vl")
  BY <1>2, OperandNamed
<1> QED
  BY <1>3, RoleValues, AddressSpaceAssumption DEF AddressSpaceAssumption, Addresses

(* What has an element type, and what is masked.                            *)
LaneOps == Opcodes \ (MaskOps \cup {"PST", "PCOUNT", "PFIRST", "VEXTRACT", "VSETL"})

LEMMA LaneOperands ==
    ASSUME NEW i, IsInstruction(i), i.op \in LaneOps
    PROVE  /\ Has(i, "type") /\ i.type \in TypesOf(i.op) /\ i.type \in Types
           /\ Has(i, "pg") /\ i.pg \in PredicateRegisters
<1>1. "type" \in Operands(i.op) /\ "pg" \in Operands(i.op)
  BY ZenonT(60) DEF LaneOps, Opcodes, Operands, BinaryOps, BitOps, CompareOps, ReduceOps, MaskOps, LoadOps, StoreOps, Result, Masked, Memory
<1> QED
  BY <1>1, OperandNamed, RoleValues, TypesOfTypes

(* The other way round: only those are masked.                              *)
LEMMA MaskedOps ==
    ASSUME NEW i, IsInstruction(i), Has(i, "pg")
    PROVE  i.op \in LaneOps
<1>1. i.op \in Opcodes /\ "pg" \in Operands(i.op)
  BY OperandValue DEF IsInstruction
<1> QED
  BY <1>1 DEF LaneOps, Opcodes, Operands, BinaryOps, BitOps, CompareOps, ReduceOps, MaskOps, LoadOps, StoreOps, Result, Masked, Memory

(* What writes a vector register.                                           *)
VectorOps == LaneOps \ (CompareOps \cup ReduceOps \cup StoreOps)

LEMMA VectorOperands ==
    ASSUME NEW i, IsInstruction(i), i.op \in VectorOps
    PROVE  Has(i, "vd") /\ i.vd \in VectorRegisters /\ Has(i, "policy")
<1>1. "vd" \in Operands(i.op) /\ "policy" \in Operands(i.op)
  BY ZenonT(60) DEF VectorOps, LaneOps, Opcodes, Operands, BinaryOps, BitOps, CompareOps, ReduceOps, MaskOps, LoadOps, StoreOps, Result, Masked, Memory
<1> QED
  BY <1>1, OperandNamed, RoleValues

LEMMA MemoryOperands ==
    ASSUME NEW i, IsInstruction(i), i.op \in LoadOps \cup StoreOps
    PROVE  /\ i.op \in LaneOps
           /\ i.base \in Addresses /\ i.offset \in Int
           /\ Has(i, "stride") => i.stride \in Addresses
           /\ Has(i, "indices") => i.indices \in VectorRegisters /\ Has(i, "scale") /\ i.scale \in 0 .. 3
           /\ i.op \in StoreOps => i.va \in VectorRegisters
<1>1. i.op \in LaneOps
  BY DEF LaneOps, Opcodes, MaskOps, LoadOps, StoreOps
<1>2. /\ "base" \in Operands(i.op) /\ "offset" \in Operands(i.op)
      /\ i.op \in StoreOps => "va" \in Operands(i.op)
      /\ "indices" \in Operands(i.op) => "scale" \in Operands(i.op)
  BY DEF Operands, BinaryOps, BitOps, CompareOps, ReduceOps, LoadOps, StoreOps, Result, Masked, Memory
<1> QED
  BY <1>1, <1>2, OperandNamed, OperandValue, RoleValues

LEMMA MaskOperands ==
    ASSUME NEW i, IsInstruction(i), i.op \in MaskOps \cup {"PST", "PCOUNT", "PFIRST"}
    PROVE  /\ i.op \in MaskOps => i.pd \in PredicateRegisters
           /\ i.op \in {"PAND", "POR", "PXOR", "PNOT", "PST", "PCOUNT", "PFIRST"} => i.pa \in PredicateRegisters
           /\ i.op \in {"PAND", "POR", "PXOR"} => i.pb \in PredicateRegisters
           /\ i.op \in {"PWHILELT", "PLD", "PST"} => i.base \in Addresses
           /\ i.op = "PWHILELT" => i.end \in Addresses
           /\ i.op \in {"PLD", "PST"} => i.offset \in Int
           /\ i.op \notin LaneOps /\ ~Has(i, "type") /\ ~Has(i, "result_type") /\ ~Has(i, "indices") /\ ~Has(i, "pg") /\ ~Has(i, "vd")
<1>1. /\ i.op \in MaskOps => "pd" \in Operands(i.op)
      /\ i.op \in {"PAND", "POR", "PXOR", "PNOT", "PST", "PCOUNT", "PFIRST"} => "pa" \in Operands(i.op)
      /\ i.op \in {"PAND", "POR", "PXOR"} => "pb" \in Operands(i.op)
      /\ i.op \in {"PWHILELT", "PLD", "PST"} => "base" \in Operands(i.op)
      /\ i.op = "PWHILELT" => "end" \in Operands(i.op)
      /\ i.op \in {"PLD", "PST"} => "offset" \in Operands(i.op)
      /\ {"type", "result_type", "indices", "pg", "vd"} \cap Operands(i.op) = {}
  <2>1. Operands("PTRUE") = {"vl", "pd"} /\ Operands("PWHILELT") = {"vl", "pd", "base", "end"} /\ Operands("PNOT") = {"vl", "pd", "pa"}
    BY DEF Operands, BinaryOps, BitOps, CompareOps, ReduceOps
  <2>2. Operands("PLD") = {"vl", "pd", "base", "offset"} /\ Operands("PST") = {"vl", "pa", "base", "offset"}
    BY DEF Operands, BinaryOps, BitOps, CompareOps, ReduceOps, Memory
  <2>3. \A op \in {"PCOUNT", "PFIRST"} : Operands(op) = {"vl", "pa"}
    BY DEF Operands, BinaryOps, BitOps, CompareOps, ReduceOps
  <2>4. \A op \in {"PAND", "POR", "PXOR"} : Operands(op) = {"vl", "pd", "pa", "pb"}
    BY DEF Operands, BinaryOps, BitOps, CompareOps, ReduceOps
  <2>5. i.op \in {"PTRUE", "PWHILELT", "PNOT", "PLD", "PST", "PCOUNT", "PFIRST", "PAND", "POR", "PXOR"}
    BY DEF MaskOps
  <2> QED
    BY <2>1, <2>2, <2>3, <2>4, <2>5 DEF MaskOps
<1>2. i.op \notin LaneOps
  BY DEF LaneOps, MaskOps
<1> QED
  BY <1>1, <1>2, OperandNamed, OperandValue, RoleValues

LEMMA OtherOperands ==
    ASSUME NEW i, IsInstruction(i)
    PROVE  /\ i.op = "VSETL" => i.avl \in Addresses /\ i.type \in Types /\ i.peer_type \in Types
           /\ i.op = "VEXTRACT" => i.type \in Types /\ Has(i, "type") /\ i.va \in VectorRegisters /\ i.index \in Addresses
           /\ i.op \in ReduceOps => i.va \in VectorRegisters /\ i.seed \in Addresses
           /\ i.op \in CompareOps => i.va \in VectorRegisters /\ i.vb \in VectorRegisters /\ i.pd \in PredicateRegisters
           /\ i.op = "VCONVERT" => Has(i, "result_type") /\ i.result_type \in Types /\ i.rounding \in Roundings /\ i.va \in VectorRegisters
           /\ i.op = "VSELECT" => i.select \in PredicateRegisters
           /\ i.op = "VBROADCAST" => i.value \in Addresses
           /\ i.op = "VPERMUTE" => i.va \in VectorRegisters /\ i.indices \in VectorRegisters /\ Has(i, "indices")
<1>1. /\ i.op = "VSETL" => {"avl", "type", "peer_type"} \subseteq Operands(i.op)
      /\ i.op = "VEXTRACT" => {"type", "va", "index"} \subseteq Operands(i.op)
      /\ i.op \in ReduceOps => {"va", "seed"} \subseteq Operands(i.op)
      /\ i.op \in CompareOps => {"va", "vb", "pd"} \subseteq Operands(i.op)
      /\ i.op = "VCONVERT" => {"result_type", "rounding", "va"} \subseteq Operands(i.op)
      /\ i.op = "VSELECT" => {"select"} \subseteq Operands(i.op)
      /\ i.op = "VBROADCAST" => {"value"} \subseteq Operands(i.op)
      /\ i.op = "VPERMUTE" => {"va", "indices"} \subseteq Operands(i.op)
  BY ZenonT(60) DEF Operands, BinaryOps, BitOps, CompareOps, ReduceOps, MaskOps, LoadOps, StoreOps, Result, Masked, Memory
<1> QED
  BY <1>1, OperandNamed, OperandValue, RoleValues, TypesOfTypes

-----------------------------------------------------------------------------
(* Lengths within the capacity, and the lanes of registers                  *)

LEMMA LeastOf ==
    ASSUME NEW set \in SUBSET Nat, set # {}
    PROVE  Least(set) \in set /\ \A y \in set : Least(set) <= y
BY LeastExists DEF Least

(* The widths an instruction's lanes have.                                  *)
Widths(i) == {Size(i)} \cup {Width(i[r]) : r \in {"result_type"} \cap DOMAIN i} \cup {4 : r \in {"indices"} \cap DOMAIN i}

LEMMA SizeRange == ASSUME NEW i PROVE Size(i) \in {1, 2, 4}
BY WidthRange DEF Size

LEMMA CapacityIsLeast ==
    ASSUME NEW i
    PROVE  /\ Widths(i) \subseteq {1, 2, 4}
           /\ Capacity(i) \in Nat
           /\ \E w \in Widths(i) : Capacity(i) = VectorBytes \div w
           /\ \A w \in Widths(i) : Capacity(i) <= VectorBytes \div w
<1> DEFINE counts == {VectorBytes \div w : w \in Widths(i)}
<1>1. Widths(i) \subseteq {1, 2, 4}
  BY SizeRange, WidthRange DEF Widths
<1>2. Size(i) \in Widths(i)
  BY DEF Widths
<1>3. counts \in SUBSET Nat
  BY <1>1, VectorAssumption, AddressSpaceAssumption DEF VectorAssumption, Addresses
<1>4. counts # {}
  BY <1>2
<1>5. Capacity(i) = Least(counts)
  BY DEF Capacity, Widths
<1>6. Capacity(i) \in counts /\ \A y \in counts : Capacity(i) <= y
  <2> HIDE DEF counts
  <2> QED
    BY <1>3, <1>4, <1>5, LeastOf
<1> QED
  BY <1>1, <1>3, <1>6

LEMMA VectorBytesRange == VectorBytes \in Nat /\ VectorBytes >= 4 /\ VectorBytes % 4 = 0 /\ VectorBytes < AddressSpace
BY VectorAssumption, AddressSpaceAssumption DEF VectorAssumption, AddressSpaceAssumption, Addresses

LEMMA LengthFits ==
    ASSUME NEW i, IsInstruction(i), i.op # "VSETL", ~(i.vl > Capacity(i))
    PROVE  /\ \A w \in Widths(i) : i.vl * w <= VectorBytes
           /\ i.vl * Size(i) <= VectorBytes /\ i.vl <= VectorBytes
           /\ Has(i, "result_type") => i.vl * Width(i.result_type) <= VectorBytes
           /\ Has(i, "indices") => i.vl * 4 <= VectorBytes
<1>1. i.vl \in Nat
  BY LengthOperand
<1>2. Capacity(i) \in Nat /\ Widths(i) \subseteq {1, 2, 4} /\ \A w \in Widths(i) : Capacity(i) <= VectorBytes \div w
  BY CapacityIsLeast
<1>3. VectorBytes \in Nat
  BY VectorBytesRange
<1>4. \A w \in {1, 2, 4} : i.vl <= VectorBytes \div w => i.vl * w <= VectorBytes
  BY <1>1, <1>3
<1>5. \A w \in Widths(i) : i.vl * w <= VectorBytes
  <2> TAKE w \in Widths(i)
  <2>1. Capacity(i) <= VectorBytes \div w /\ w \in {1, 2, 4}
    BY <1>2
  <2>2. VectorBytes \div w \in Nat
    BY <1>3, <2>1
  <2>3. i.vl <= VectorBytes \div w
    BY <1>1, <1>2, <2>1, <2>2
  <2> QED
    BY <1>4, <2>1, <2>3
<1>6. Size(i) \in Widths(i) /\ (Has(i, "result_type") => Width(i.result_type) \in Widths(i)) /\ (Has(i, "indices") => 4 \in Widths(i))
  BY DEF Widths, Has
<1>7. i.vl <= i.vl * Size(i)
  BY <1>1, SizeRange
<1>8. i.vl * Size(i) \in Nat
  BY <1>1, SizeRange
<1> QED
  BY <1>1, <1>3, <1>5, <1>6, <1>7, <1>8

LEMMA UnitFacts ==
    ASSUME NEW u \in Units
    PROVE  /\ \A v \in VectorRegisters : u.vectors[v] \in Vectors
           /\ \A p \in PredicateRegisters : u.predicates[p] \subseteq AllLanes
           /\ u.scratchpad \in Scratchpads
BY DEF Units

(* The bytes of a lane lie in the register when all lanes do.               *)
LEMMA LaneBytes ==
    ASSUME NEW length \in Nat, NEW size \in {1, 2, 4}, length * size <= VectorBytes, NEW k \in 0 .. length - 1
    PROVE  /\ k * size \in Nat /\ k * size + size <= VectorBytes
           /\ \A b \in k * size .. k * size + size - 1 : b \in AllLanes
<1>1. k * size + size <= length * size /\ k * size \in Nat /\ length * size \in Nat
  BY SMTT(30)
<1>2. VectorBytes \in Nat
  BY VectorBytesRange
<1>3. k * size + size <= VectorBytes
  BY <1>1, <1>2
<1> QED
  BY <1>1, <1>2, <1>3 DEF AllLanes

LEMMA PowerInSpace == ASSUME NEW w \in {1, 2, 4} PROVE ByteValues ^ w \in Nat /\ ByteValues ^ w <= AddressSpace
<1>1. PICK type \in {"u8", "u16", "u32"} : Width(type) = w
  <2>1. Width("u8") = 1 /\ Width("u16") = 2 /\ Width("u32") = 4
    BY DEF Width
  <2> QED
    BY <2>1
<1> QED
  BY <1>1, ModulusFacts

LEMMA ElementRange ==
    ASSUME NEW u \in Units, NEW v \in VectorRegisters,
           NEW length \in Nat, NEW size \in {1, 2, 4}, length * size <= VectorBytes, NEW k \in 0 .. length - 1
    PROVE  /\ Element(u, v, k, size) \in Nat /\ Element(u, v, k, size) < ByteValues ^ size
           /\ Element(u, v, k, size) \in Addresses
           /\ \A j \in 0 .. size - 1 : ByteOf(Element(u, v, k, size), j) = u.vectors[v][k * size + j]
<1>1. u.vectors[v] \in [AllLanes -> Bytes]
  BY UnitFacts DEF Vectors
<1>2. k * size \in Int /\ \A b \in k * size .. k * size + size - 1 : u.vectors[v][b] \in Bytes
  BY <1>1, LaneBytes
<1>3. Element(u, v, k, size) = ReadBytes(u.vectors[v], k * size, size)
  BY DEF Element
<1>4. /\ Element(u, v, k, size) \in Nat /\ Element(u, v, k, size) < ByteValues ^ size
      /\ \A j \in 0 .. size - 1 : ByteOf(Element(u, v, k, size), j) = u.vectors[v][k * size + j]
  BY <1>2, <1>3, ReadBytesFacts
<1>5. AddressSpace \in Nat /\ ByteValues ^ size \in Nat /\ ByteValues ^ size <= AddressSpace
  BY PowerInSpace, AddressSpaceAssumption DEF AddressSpaceAssumption
<1> QED
  BY <1>4, <1>5 DEF Addresses

-----------------------------------------------------------------------------
(* Local addresses                                                          *)

Faults == [kind : {"fault"}, cause : {4, 5, 6, 7, 24}, value : Addresses]

LEMMA MapValid == MapIsValid(Map)
BY NpuDataAssumption, CreatedMapIsValid DEF NpuDataAssumption, Map

Kind(write) == IF write THEN "write" ELSE "read"

LEMMA WordOfWord == ASSUME NEW a \in Addresses PROVE WordOf(a) = a
BY AddressSpaceAssumption DEF AddressSpaceAssumption, WordOf, Addresses

(* What a check that passed found: aligned bytes of the scratchpad.         *)
Found(local, address, size, write, alignment) ==
    /\ local.kind = "local" /\ local.at \in Nat /\ local.at + size <= ScratchpadBytes
    /\ address % alignment = 0 /\ address \in Addresses
    /\ \E r \in DOMAIN Map : /\ Map[r].target = "scratchpad" /\ Kind(write) \in Map[r].allowed
                             /\ Map[r].base <= address /\ address + size <= Map[r].base + Map[r].size
                             /\ local.at = address - Map[r].base

(* A check passes, or it names a fault of the ISA at a word.                *)
LEMMA LocalAddressOutcome ==
    ASSUME NEW address \in Int, NEW size \in Nat, NEW write \in BOOLEAN, NEW alignment \in Nat \ {0}
    PROVE  LET local == LocalAddress(address, size, write, alignment)
           IN  \/ local.kind = "fault" /\ local \in Faults /\ local # Invalid
               \/ Found(local, address, size, write, alignment)
<1> DEFINE local == LocalAddress(address, size, write, alignment)
           low == WordOf(address)
           route == Resolve(Map, low, size, Kind(write))
           bad == \/ address \notin Addresses \/ ~route.ok \/ route.storage # "scratchpad"
                  \/ ~LocalRange(ScratchpadBytes, route.at, size)
<1>1. low \in Addresses /\ low \in Int
  BY WordRange DEF Addresses
<1>2. \A cause \in {4, 5, 6, 7} : Fault(cause, low) \in Faults /\ Fault(cause, low).kind = "fault" /\ Fault(cause, low) # Invalid
  BY <1>1 DEF Fault, Faults, Invalid
<1>3. local = IF address % alignment # 0 THEN Fault(IF write THEN 6 ELSE 4, low)
              ELSE IF bad THEN Fault(IF write THEN 7 ELSE 5, low)
              ELSE [kind |-> "local", at |-> route.at]
  BY DEF LocalAddress, Kind
<1>4. CASE address % alignment # 0 \/ bad
  <2>1. local = Fault(IF write THEN 6 ELSE 4, low) \/ local = Fault(IF write THEN 7 ELSE 5, low)
    BY <1>3, <1>4
  <2> HIDE DEF local
  <2>2. local.kind = "fault" /\ local \in Faults /\ local # Invalid
    BY <1>2, <2>1
  <2> QED
    BY <2>2 DEF local
<1>5. CASE address % alignment = 0 /\ ~bad
  <2>1. local = [kind |-> "local", at |-> route.at]
    BY <1>3, <1>5
  <2>2. low = address
    BY <1>5, WordOfWord
  <2>3. PICK r \in DOMAIN Map : RoutedBy(Map[r], low, size, Kind(write), route)
    BY <1>1, <1>5, MapValid, RouteShape
  <2>4. Map[r] \in Regions
    BY MapValid DEF MapIsValid
  <2>5. Map[r].base \in Nat /\ Map[r].size \in Nat
    BY <2>4, RegionTypes
  <2> HIDE DEF local, low, route
  <2>6. Map[r].target = "scratchpad" /\ route.at = address - Map[r].base /\ Map[r].base <= address
        /\ address + size <= Map[r].base + Map[r].size /\ Kind(write) \in Map[r].allowed
    BY <1>5, <2>2, <2>3 DEF RoutedBy
  <2>7. route.at \in Nat
    BY <2>5, <2>6
  <2>8. ScratchpadBytes \in Nat
    BY NpuDataAssumption DEF NpuDataAssumption
  <2>9. route.at + size <= ScratchpadBytes
    BY <1>5, <2>7, <2>8 DEF LocalRange
  <2>10. local.kind = "local" /\ local.at = route.at
    BY <2>1
  <2> QED
    BY <1>5, <2>6, <2>7, <2>9, <2>10 DEF local, Found
<1> QED
  BY <1>4, <1>5

(* It passes exactly for the elements that are held.                        *)
LEMMA LocalAddressExact ==
    ASSUME NEW address \in Int, NEW size \in {1, 2, 4}, NEW write \in BOOLEAN
    PROVE  (LocalAddress(address, size, write, size).kind = "fault") <=> ~Held(address, size, write)
<1> DEFINE local == LocalAddress(address, size, write, size)
           limit(r) == IF ScratchpadBytes < Map[r].size THEN ScratchpadBytes ELSE Map[r].size
<1>1. size \in Nat /\ size \in Nat \ {0} /\ ScratchpadBytes \in Nat
  BY NpuDataAssumption DEF NpuDataAssumption
<1>2. Held(address, size, write) <=>
        \E r \in DOMAIN Map : /\ Map[r].target = "scratchpad" /\ Kind(write) \in Map[r].allowed
                              /\ address % size = 0 /\ Map[r].base <= address
                              /\ address + size <= Map[r].base + limit(r)
  BY DEF Held, Kind
<1>3. \A r \in DOMAIN Map : GoodRegion(Map[r]) /\ Map[r].base \in Nat /\ Map[r].size \in Nat
  <2> TAKE r \in DOMAIN Map
  <2>1. GoodRegion(Map[r])
    BY MapValid, RegionIsGood
  <2> QED
    BY <2>1, RegionTypes DEF GoodRegion
<1>4. ASSUME local.kind # "fault" PROVE Held(address, size, write)
  <2>1. Found(local, address, size, write, size)
    BY <1>1, <1>4, LocalAddressOutcome
  <2>2. PICK r \in DOMAIN Map : /\ Map[r].target = "scratchpad" /\ Kind(write) \in Map[r].allowed
                                /\ Map[r].base <= address /\ address + size <= Map[r].base + Map[r].size
                                /\ local.at = address - Map[r].base
    BY <2>1 DEF Found
  <2> HIDE DEF local
  <2>3. address + size <= Map[r].base + limit(r) /\ address % size = 0
    BY <1>1, <1>3, <2>1, <2>2 DEF Found
  <2> QED
    BY <1>2, <2>2, <2>3
<1>5. ASSUME Held(address, size, write) PROVE local.kind # "fault"
  <2>1. PICK r \in DOMAIN Map : /\ Map[r].target = "scratchpad" /\ Kind(write) \in Map[r].allowed
                                /\ address % size = 0 /\ Map[r].base <= address
                                /\ address + size <= Map[r].base + limit(r)
    BY <1>2, <1>5
  <2>2. /\ Map[r].base \in Nat /\ Map[r].size \in Nat /\ Map[r].base + Map[r].size <= AddressSpace /\ AddressSpace \in Nat
    BY <1>3, AddressSpaceAssumption DEF AddressSpaceAssumption, GoodRegion
  <2>3. address + size <= Map[r].base + Map[r].size /\ address - Map[r].base + size <= ScratchpadBytes
    BY <1>1, <2>1, <2>2
  <2>4. address \in Addresses /\ Contains(Map[r], address)
    BY <1>1, <2>1, <2>2, <2>3 DEF Addresses, Contains
  <2>5. WordOf(address) = address
    BY <2>4, WordOfWord
  <2> DEFINE route == Resolve(Map, WordOf(address), size, Kind(write))
  <2>6. route.ok /\ route.storage = "scratchpad" /\ route.at = address - Map[r].base
    <3>1. /\ route.ok <=> size > 0 /\ address + size <= Map[r].base + Map[r].size /\ Kind(write) \in Map[r].allowed
          /\ route.ok => route = [ok |-> TRUE, storage |-> Map[r].target, size |-> size,
                                  at |-> IF Map[r].target = "system" THEN address ELSE address - Map[r].base]
      BY <1>1, <2>4, <2>5, MapValid, ResolvedIn
    <3> HIDE DEF route
    <3> QED
      BY <1>1, <2>1, <2>3, <3>1
  <2>7. LocalRange(ScratchpadBytes, route.at, size)
    <3> HIDE DEF route
    <3> QED
      BY <1>1, <2>1, <2>2, <2>3, <2>6 DEF LocalRange
  <2>8. local = [kind |-> "local", at |-> route.at]
    BY <2>1, <2>4, <2>6, <2>7 DEF LocalAddress, Kind
  <2> HIDE DEF local, route
  <2> QED
    BY <2>8
<1> QED
  BY <1>4, <1>5

(* What FirstFault reports is the first of the checks that failed.          *)
LEMMA FirstFaultIsFirst ==
    ASSUME NEW checks, DOMAIN checks \subseteq Nat, FirstFault(checks) # << >>
    PROVE  \E k \in DOMAIN checks : /\ checks[k].kind = "fault" /\ FirstFault(checks) = <<checks[k]>>
                                    /\ FirstFault(checks)[1] = checks[k]
                                    /\ \A j \in DOMAIN checks : checks[j].kind = "fault" => k <= j
<1> DEFINE bad == {k \in DOMAIN checks : checks[k].kind = "fault"}
           least == CHOOSE k \in bad : \A j \in bad : k <= j
<1>1. bad # {}
  BY DEF FirstFault
<1>2. \E k \in bad : \A j \in bad : k <= j
  <2>1. bad \in SUBSET Nat
    OBVIOUS
  <2> HIDE DEF bad
  <2> QED
    BY <1>1, <2>1, LeastExists
<1>3. least \in bad /\ \A j \in bad : least <= j
  BY <1>2
<1>4. FirstFault(checks) = <<checks[least]>>
  BY <1>1 DEF FirstFault
<1>5. \A x : <<x>>[1] = x
  OBVIOUS
<1>6. least \in DOMAIN checks /\ checks[least].kind = "fault"
  BY <1>3
<1> HIDE DEF least
<1> QED
  BY <1>3, <1>4, <1>5, <1>6

LEMMA NoFirstFault ==
    ASSUME NEW checks
    PROVE  FirstFault(checks) = << >> <=> \A k \in DOMAIN checks : checks[k].kind # "fault"
BY DEF FirstFault

-----------------------------------------------------------------------------
(* Passes over the lanes                                                    *)

(* The scratchpad along a store, from lane to lane.                         *)
StoredLane(memory, u, i, checks, k) ==
    IF Visit(i, k) \notin Active(u, i) \/ checks[Visit(i, k) + 1].kind # "local" THEN memory
    ELSE WriteBytes(memory, checks[Visit(i, k) + 1].at, Size(i), Element(u, i.va, Visit(i, k), Size(i)))

Storing(f, u, i, checks) ==
    /\ f \in [0 .. i.vl -> Scratchpads] /\ f[0] = u.scratchpad
    /\ \A k \in 1 .. i.vl : f[k] = StoredLane(f[k - 1], u, i, checks, k)

(* What the accesses of a checked instruction look like.                    *)
Placed(u, i, checks) ==
    /\ i.vl \in Nat /\ i.vl * Size(i) <= VectorBytes
    /\ \A k \in 1 .. i.vl : checks[k].kind = "local" => checks[k].at \in Nat /\ checks[k].at + Size(i) <= ScratchpadBytes

LEMMA ScratchpadFacts == ScratchpadBytes \in Nat /\ Scratchpads = [0 .. ScratchpadBytes - 1 -> Bytes] /\ 0 .. ScratchpadBytes - 1 \subseteq Int
BY NpuDataAssumption DEF NpuDataAssumption, Scratchpads

LEMMA StoredLaneRange ==
    ASSUME NEW u \in Units, NEW i, i.va \in VectorRegisters, NEW checks, Placed(u, i, checks),
           NEW memory \in Scratchpads, NEW k \in 1 .. i.vl
    PROVE  /\ StoredLane(memory, u, i, checks, k) \in Scratchpads
           /\ \A b \in 0 .. ScratchpadBytes - 1 :
                StoredLane(memory, u, i, checks, k)[b] =
                    IF k - 1 \in Active(u, i) /\ checks[k].kind = "local" /\ b \in checks[k].at .. checks[k].at + Size(i) - 1
                    THEN u.vectors[i.va][(k - 1) * Size(i) + b - checks[k].at] ELSE memory[b]
<1> DEFINE x == Element(u, i.va, k - 1, Size(i))
           at == checks[k].at
<1>1. i.vl \in Nat /\ k - 1 \in 0 .. i.vl - 1 /\ (k - 1) + 1 = k
  BY DEF Placed
<1>2. StoredLane(memory, u, i, checks, k) =
        IF k - 1 \notin Active(u, i) \/ checks[k].kind # "local" THEN memory ELSE WriteBytes(memory, at, Size(i), x)
  BY <1>1 DEF StoredLane, Visit
<1>3. CASE k - 1 \notin Active(u, i) \/ checks[k].kind # "local"
  BY <1>2, <1>3
<1>4. CASE k - 1 \in Active(u, i) /\ checks[k].kind = "local"
  <2>1. at \in Nat /\ Size(i) \in {1, 2, 4}
    BY <1>4, SizeRange DEF Placed
  <2>2. x \in Nat /\ \A j \in 0 .. Size(i) - 1 : ByteOf(x, j) = u.vectors[i.va][(k - 1) * Size(i) + j]
    BY <1>1, <2>1, ElementRange DEF Placed
  <2> HIDE DEF x, at
  <2>3. /\ WriteBytes(memory, at, Size(i), x) \in Scratchpads
        /\ \A b \in 0 .. ScratchpadBytes - 1 : WriteBytes(memory, at, Size(i), x)[b] =
                                                 IF b \in at .. at + Size(i) - 1 THEN ByteOf(x, b - at) ELSE memory[b]
    <3> DEFINE D == 0 .. ScratchpadBytes - 1
    <3>1. IsMemory(memory, D) /\ x \in Int /\ at \in Int /\ \A m : m \in Scratchpads <=> IsMemory(m, D)
      BY <2>1, <2>2, ScratchpadFacts DEF IsMemory
    <3> HIDE DEF D
    <3>2. IsMemory(WriteBytes(memory, at, Size(i), x), D)
      BY <2>1, <3>1, WriteBytesRange, Zenon
    <3>3. \A b \in D : WriteBytes(memory, at, Size(i), x)[b] = IF b \in at .. at + Size(i) - 1 THEN ByteOf(x, b - at) ELSE memory[b]
      BY <3>1 DEF WriteBytes, ByteOf, IsMemory
    <3> QED
      BY <3>1, <3>2, <3>3 DEF D
  <2>4. \A b \in at .. at + Size(i) - 1 : ByteOf(x, b - at) = u.vectors[i.va][(k - 1) * Size(i) + b - at]
    <3> TAKE b \in at .. at + Size(i) - 1
    <3>1. b - at \in 0 .. Size(i) - 1 /\ (k - 1) * Size(i) + (b - at) = (k - 1) * Size(i) + b - at
      BY <1>1, <2>1
    <3> QED
      BY <2>2, <3>1
  <2> QED
    BY <1>2, <1>4, <2>3, <2>4 DEF at
<1> QED
  BY <1>3, <1>4

LEMMA StoredFollows ==
    ASSUME NEW u \in Units, NEW i, i.va \in VectorRegisters, NEW checks, Placed(u, i, checks)
    PROVE  \E f : Storing(f, u, i, checks) /\ Stored(u, i, checks) = f[i.vl]
<1> DEFINE Passes(g) ==
             g = [k \in 0 .. i.vl |->
                    IF k = 0 THEN u.scratchpad
                    ELSE IF Visit(i, k) \in Active(u, i)
                         THEN IF checks[Visit(i, k) + 1].kind # "local" THEN g[k - 1]
                              ELSE WriteBytes(g[k - 1], checks[Visit(i, k) + 1].at, Size(i), Element(u, i.va, Visit(i, k), Size(i)))
                         ELSE g[k - 1]]
           after == CHOOSE g : Passes(g)
           step == [p \in Scratchpads \X (1 .. i.vl) |-> StoredLane(p[1], u, i, checks, p[2])]
<1>1. i.vl \in Nat /\ u.scratchpad \in Scratchpads
  BY UnitFacts DEF Placed
<1>2. IsStep(step, Scratchpads, i.vl)
  BY StoredLaneRange DEF IsStep
<1>3. PICK f : Follows(f, Scratchpads, i.vl, u.scratchpad, step)
  <2> HIDE DEF step
  <2> QED
    BY <1>1, <1>2, RecursionExists
<1>4. Storing(f, u, i, checks)
  <2>1. \A k \in 1 .. i.vl : f[k - 1] \in Scratchpads
    BY <1>1, <1>3 DEF Follows
  <2> QED
    BY <1>3, <2>1 DEF Follows, Storing
<1>5. Passes(f)
  <2>1. \A k \in 0 .. i.vl : k # 0 => k \in 1 .. i.vl
    BY <1>1
  <2>2. f = [k \in 0 .. i.vl |-> f[k]]
    BY <1>4 DEF Storing
  <2>3. \A k \in 0 .. i.vl : f[k] = IF k = 0 THEN u.scratchpad ELSE StoredLane(f[k - 1], u, i, checks, k)
    BY <1>4, <2>1 DEF Storing
  <2> QED
    BY <2>2, <2>3 DEF StoredLane
<1>6. Passes(after)
  <2> HIDE DEF Passes
  <2> QED
    BY <1>5
<1>7. Stored(u, i, checks) = after[i.vl]
  BY DEF Stored, Pass
<1> HIDE DEF after
<1>8. Storing(after, u, i, checks)
  <2> DEFINE T == {k \in 0 .. i.vl : after[k] \in Scratchpads}
  <2>1. \A k \in 1 .. i.vl : after[k] = StoredLane(after[k - 1], u, i, checks, k)
    BY <1>1, <1>6 DEF StoredLane
  <2>2. after[0] = u.scratchpad
    BY <1>1, <1>6
  <2>3. \A k \in 1 .. i.vl : k - 1 \in T => k \in T
    BY <1>1, <2>1, StoredLaneRange
  <2>4. 0 \in T
    BY <1>1, <2>2
  <2>5. \A k \in 0 .. i.vl : k \in T
    <3> HIDE DEF T
    <3> QED
      BY <1>1, <2>3, <2>4, RangeInduction
  <2>6. DOMAIN after = 0 .. i.vl /\ after = [k \in 0 .. i.vl |-> after[k]]
    BY <1>6
  <2> QED
    BY <2>1, <2>2, <2>5, <2>6 DEF Storing
<1> QED
  BY <1>7, <1>8

-----------------------------------------------------------------------------
(* Bits: a number made of bits has those bits, and no others                *)

LEMMA NumberFollows ==
    ASSUME NEW bits, NEW n \in 0 .. 4 * ByteBits
    PROVE  \E f : /\ f[0] = 0 /\ \A k \in 1 .. n : f[k] = f[k - 1] + IF k - 1 \in bits THEN 2 ^ (k - 1) ELSE 0
                  /\ \A k \in 0 .. n : f[k] \in 0 .. 2 ^ k - 1
                  /\ Number(bits, n) = f[n]
<1> DEFINE term(k) == IF k - 1 \in bits THEN 2 ^ (k - 1) ELSE 0
           Sums(g) == g = [k \in 0 .. n |-> IF k = 0 THEN 0 ELSE g[k - 1] + term(k)]
           sum == CHOOSE g : Sums(g)
           step == [p \in Nat \X (1 .. n) |-> p[1] + term(p[2])]
<1>1. n \in Nat /\ 4 * ByteBits \in Nat
  BY NpuDataAssumption DEF NpuDataAssumption
<1>2. \A k \in 1 .. n : 2 ^ (k - 1) \in Nat \ {0} /\ 2 ^ k = 2 * 2 ^ (k - 1) /\ term(k) \in Nat /\ term(k) <= 2 ^ (k - 1)
  <2> TAKE k \in 1 .. n
  <2>1. k - 1 \in 0 .. 4 * ByteBits - 1 /\ k - 1 \in 0 .. 4 * ByteBits /\ (k - 1) + 1 = k
    BY <1>1
  <2> QED
    BY <2>1, PowersOfTwo, PowersAssumption DEF PowersAssumption
<1> HIDE DEF term
<1>3. IsStep(step, Nat, n)
  BY <1>2 DEF IsStep
<1>4. PICK f : Follows(f, Nat, n, 0, step)
  <2> HIDE DEF step
  <2> QED
    BY <1>1, <1>3, RecursionExists
<1>5. Sums(f)
  <2>1. \A k \in 0 .. n : k # 0 => k \in 1 .. n /\ f[k - 1] \in Nat
    BY <1>1, <1>4 DEF Follows
  <2>2. \A k \in 0 .. n : f[k] = IF k = 0 THEN 0 ELSE f[k - 1] + term(k)
    BY <1>4, <2>1 DEF Follows
  <2> QED
    BY <1>4, <2>2 DEF Follows
<1>6. Sums(sum)
  <2> HIDE DEF Sums
  <2> QED
    BY <1>5
<1>7. Number(bits, n) = sum[n]
  BY DEF Number, term
<1> HIDE DEF sum
<1>8. sum[0] = 0 /\ \A k \in 1 .. n : sum[k] = sum[k - 1] + term(k)
  BY <1>1, <1>6
<1> DEFINE T == {k \in 0 .. n : sum[k] \in 0 .. 2 ^ k - 1}
<1>9. 0 \in T
  BY <1>1, <1>8, PowersAssumption DEF PowersAssumption
<1>10. \A k \in 1 .. n : k - 1 \in T => k \in T
  BY <1>2, <1>8
<1>11. \A k \in 0 .. n : k \in T
  <2> HIDE DEF T
  <2> QED
    BY <1>1, <1>9, <1>10, RangeInduction
<1> QED
  BY <1>7, <1>8, <1>11 DEF term

LEMMA NumberRange ==
    ASSUME NEW bits, NEW n \in 0 .. 4 * ByteBits
    PROVE  Number(bits, n) \in 0 .. 2 ^ n - 1
<1>1. n \in 0 .. n
  OBVIOUS
<1> QED
  BY <1>1, NumberFollows

LEMMA BitsRange == ASSUME NEW type PROVE Bits(type) \in 0 .. 4 * ByteBits /\ Bits(type) \in Nat \ {0} /\ Modulus(type) = 2 ^ Bits(type)
BY WidthRange, NpuDataAssumption DEF NpuDataAssumption, Bits, Modulus

LEMMA ByteNumberRange == ASSUME NEW bits PROVE Number(bits, ByteBits) \in Bytes
<1>1. ByteBits \in 0 .. 4 * ByteBits
  BY NpuDataAssumption DEF NpuDataAssumption
<1> QED
  BY <1>1, NumberRange DEF Bytes, ByteValues

-----------------------------------------------------------------------------
(* Arithmetic gives words                                                   *)

LEMMA AddressFacts == AddressSpace \in Nat \ {0} /\ Addresses = 0 .. AddressSpace - 1 /\ Addresses \subseteq Nat /\ 0 \in Addresses
BY AddressSpaceAssumption DEF AddressSpaceAssumption, Addresses

LEMMA NumberInSpace == ASSUME NEW bits, NEW type PROVE Number(bits, Bits(type)) \in Addresses
<1>1. Number(bits, Bits(type)) \in 0 .. Modulus(type) - 1
  BY BitsRange, NumberRange
<1> QED
  BY <1>1, ModulusFacts, AddressFacts

FloatOps == {"VADD", "VSUB", "VMUL", "VMIN", "VMAX", "VDIV", "VSQRT"}

LEMMA ShiftRange == ASSUME NEW b \in Addresses, NEW type PROVE 2 ^ (b % Bits(type)) \in Nat \ {0}
<1>1. b % Bits(type) \in 0 .. Bits(type) - 1
  BY BitsRange, AddressFacts
<1>2. b % Bits(type) \in 0 .. 4 * ByteBits
  BY <1>1, BitsRange, NpuDataAssumption DEF NpuDataAssumption
<1> QED
  BY <1>2, PowersOfTwo

LEMMA ArithmeticRange ==
    ASSUME NEW op \in BinaryOps \cup {"VSQRT", "VFMA"}, NEW type \in TypesOf(op),
           NEW a \in Addresses, NEW b \in Addresses, NEW c \in Addresses, op # "VFMA" => c = 0
    PROVE  Arithmetic(op, a, b, c, type) \in Addresses
<1>1. a \in Nat /\ b \in Nat /\ a < AddressSpace /\ AddressSpace \in Nat \ {0}
  BY AddressFacts
<1>2. CASE type = "f32"
  <2>1. op \in FloatOps \cup {"VFMA"}
    BY <1>2 DEF TypesOf, BinaryOps, BitOps, FloatOps, Types, Signed
  <2>2. Arithmetic(op, a, b, c, type) = Float(op, <<a, b, c>>)
    BY <1>2 DEF Arithmetic
  <2>3. CASE op = "VFMA"
    BY <2>2, <2>3, FusedAssumption DEF FusedAssumption
  <2>4. CASE op \in FloatOps
    <3>1. c = 0
      BY <2>4 DEF FloatOps
    <3> QED
      BY <2>2, <2>4, <3>1, FloatAssumption DEF FloatAssumption, FloatOps
  <2> QED
    BY <2>1, <2>3, <2>4
<1>3. CASE type # "f32"
  <2>1. op \in BinaryOps /\ op # "VDIV"
    BY <1>3 DEF TypesOf, BinaryOps, BitOps, Signed
  <2>2. /\ op = "VMIN" => Arithmetic(op, a, b, c, type) \in {a, b}
        /\ op = "VMAX" => Arithmetic(op, a, b, c, type) \in {a, b}
        /\ op = "VADD" => Arithmetic(op, a, b, c, type) = WordOf(a + b)
        /\ op = "VSUB" => Arithmetic(op, a, b, c, type) = WordOf(a - b)
        /\ op = "VMUL" => Arithmetic(op, a, b, c, type) = WordOf(a * b)
        /\ op = "VMULH" => Arithmetic(op, a, b, c, type) = WordOf(High(a, b, type))
        /\ op = "VSHL" => Arithmetic(op, a, b, c, type) = WordOf(a * 2 ^ (b % Bits(type)))
        /\ op = "VSHR" => Arithmetic(op, a, b, c, type) = a \div 2 ^ (b % Bits(type))
        /\ op = "VASHR" => Arithmetic(op, a, b, c, type) = WordOf(Integer(a, type) \div 2 ^ (b % Bits(type)))
        /\ op \in {"VAND", "VOR", "VXOR"} => \E bits : Arithmetic(op, a, b, c, type) = Number(bits, Bits(type))
    BY <1>3 DEF Arithmetic
  <2> DEFINE shift == 2 ^ (b % Bits(type))
             x == Integer(a, type)
             y == Integer(b, type)
             m == Modulus(type)
  <2>3. shift \in Nat \ {0} /\ x \in Int /\ y \in Int /\ m \in Nat \ {0}
    BY <1>1, ShiftRange, IntegerRange, ModulusFacts
  <2>4. High(a, b, type) \in Int
    <3>1. High(a, b, type) = (x * y) \div m
      BY DEF High
    <3> HIDE DEF x, y, m
    <3>2. x * y \in Int
      BY <2>3
    <3> QED
      BY <2>3, <3>1, <3>2
  <2>5. x \div shift \in Int /\ a * shift \in Int /\ a + b \in Int /\ a - b \in Int /\ a * b \in Int
    <3> HIDE DEF shift, x
    <3> QED
      BY <1>1, <2>3
  <2>6. a \div shift \in Addresses
    <3> HIDE DEF shift
    <3>1. a \div shift \in Nat /\ a \div shift <= a
      <4>1. a \in Int /\ shift \in Nat \ {0} /\ a = shift * (a \div shift) + (a % shift) /\ a % shift \in 0 .. shift - 1 /\ a \div shift \in Int
        BY <1>1, <2>3
      <4> DEFINE q == a \div shift
                 r == a % shift
      <4> HIDE DEF q, r
      <4>2. q \in Int /\ r \in Nat /\ r < shift /\ a = shift * q + r
        BY <2>3, <4>1 DEF q, r
      <4>3. q >= 0
        <5> SUFFICES ASSUME q + 1 <= 0 PROVE FALSE
          BY <4>2
        <5>1. shift * (q + 1) <= 0
          BY <2>3, <4>2
        <5> QED
          BY <1>1, <2>3, <4>2, <5>1
      <4>4. q <= shift * q
        BY <2>3, <4>2, <4>3
      <4> QED
        BY <1>1, <2>3, <4>2, <4>3, <4>4 DEF q
    <3> QED
      BY <1>1, <3>1, AddressFacts
  <2>7. \A v \in Int : WordOf(v) \in Addresses
    BY WordRange
  <2>8. \A bits : Number(bits, Bits(type)) \in Addresses
    BY NumberInSpace
  <2> QED
    BY <2>1, <2>2, <2>4, <2>5, <2>6, <2>7, <2>8 DEF BinaryOps, BitOps
<1> QED
  BY <1>2, <1>3

LEMMA RangeBounds == ASSUME NEW type PROVE Lowest(type) \in Int /\ Greatest(type) \in Int /\ Lowest(type) <= Greatest(type)
<1>1. Modulus(type) \in Nat /\ Modulus(type) \div 2 \in Nat \ {0} /\ Modulus(type) = 2 * (Modulus(type) \div 2)
  BY ModulusFacts
<1> QED
  BY <1>1 DEF Lowest, Greatest

LEMMA ConvertRange ==
    ASSUME NEW value \in Addresses, NEW source \in Types, NEW type \in Types, NEW mode \in Roundings
    PROVE  Convert(value, source, type, mode) \in Addresses
<1>1. CASE "f32" \in {source, type}
  BY <1>1, FloatAssumption DEF FloatAssumption, Convert
<1>2. CASE ~("f32" \in {source, type})
  <2>1. Integer(value, source) \in Int
    BY AddressFacts, IntegerRange
  <2>2. Clamped(Integer(value, source), type) \in Int
    BY <2>1, RangeBounds DEF Clamped
  <2> QED
    BY <1>2, <2>2, WordRange DEF Convert
<1> QED
  BY <1>1, <1>2

-----------------------------------------------------------------------------
(* Accesses and lanes of an instruction within its capacity                 *)

(* An instruction that gets past the check of its length.                   *)
Fits(u, i) == u \in Units /\ IsInstruction(i) /\ i.op # "VSETL" /\ ~(i.vl > Capacity(i))

LEMMA ActiveRange == ASSUME NEW u, NEW i PROVE Active(u, i) \subseteq Lanes(i)
BY DEF Active

LEMMA EffectiveAddressRange ==
    ASSUME NEW u, NEW i, Fits(u, i), i.op \in LoadOps \cup StoreOps, NEW k \in Lanes(i)
    PROVE  EffectiveAddress(u, i, k) \in Int
<1>1. i.base \in Int /\ i.offset \in Int /\ k \in Int /\ i.vl \in Nat
  BY MemoryOperands, LengthOperand, AddressFacts DEF Fits, Lanes
<1>2. CASE Has(i, "indices")
  <2> DEFINE x == Element(u, i.indices, k, 4)
             p == 2 ^ i.scale
  <2>1. x \in Int
    <3>1. i.vl * 4 <= VectorBytes /\ i.indices \in VectorRegisters /\ 4 \in {1, 2, 4}
      BY <1>2, MemoryOperands, LengthFits DEF Fits
    <3> QED
      BY <1>1, <3>1, ElementRange DEF Fits, Lanes
  <2>2. p \in Int
    <3>1. i.scale \in 0 .. 3
      BY <1>2, MemoryOperands DEF Fits
    <3>2. i.scale \in 0 .. 4 * ByteBits
      BY <3>1, NpuDataAssumption DEF NpuDataAssumption
    <3> QED
      BY <3>2, PowersOfTwo
  <2>3. EffectiveAddress(u, i, k) = i.base + i.offset + x * p
    BY <1>2 DEF EffectiveAddress
  <2> HIDE DEF x, p
  <2> QED
    BY <1>1, <2>1, <2>2, <2>3
<1>3. CASE ~Has(i, "indices") /\ Has(i, "stride")
  <2> DEFINE x == Integer(i.stride, "i32")
  <2>1. x \in Int
    BY <1>3, MemoryOperands, AddressFacts, IntegerRange DEF Fits
  <2>2. EffectiveAddress(u, i, k) = i.base + i.offset + k * x
    BY <1>3 DEF EffectiveAddress
  <2> HIDE DEF x
  <2> QED
    BY <1>1, <2>1, <2>2
<1>4. CASE ~Has(i, "indices") /\ ~Has(i, "stride")
  <2>1. EffectiveAddress(u, i, k) = i.base + i.offset + k * Size(i)
    BY <1>4 DEF EffectiveAddress
  <2> QED
    BY <1>1, <2>1, SizeRange
<1> QED
  BY <1>2, <1>3, <1>4

(* An active lane's check is that of its address; the others have none.     *)
IsStore(i) == i.op \in StoreOps

LEMMA CheckOf ==
    ASSUME NEW u, NEW i, Fits(u, i), i.op \in LoadOps \cup StoreOps, NEW k \in 1 .. i.vl
    PROVE  LET check == Checks(u, i)[k]
               address == EffectiveAddress(u, i, k - 1)
           IN  /\ k - 1 \in Active(u, i) =>
                    /\ check = LocalAddress(address, Size(i), IsStore(i), Size(i))
                    /\ \/ check.kind = "fault" /\ check \in Faults /\ check # Invalid
                       \/ Found(check, address, Size(i), IsStore(i), Size(i))
               /\ k - 1 \notin Active(u, i) => check.kind = "none"
<1> DEFINE address == EffectiveAddress(u, i, k - 1)
           local == LocalAddress(address, Size(i), IsStore(i), Size(i))
<1>1. Checks(u, i)[k] = IF k - 1 \in Active(u, i) THEN local ELSE [kind |-> "none"]
  BY DEF Checks, IsStore
<1>2. i.vl \in Nat
  BY LengthOperand DEF Fits
<1>3. address \in Int
  <2>1. k - 1 \in Lanes(i)
    BY <1>2 DEF Lanes
  <2> QED
    BY <2>1, EffectiveAddressRange
<1>4. Size(i) \in Nat /\ Size(i) \in Nat \ {0} /\ IsStore(i) \in BOOLEAN
  BY SizeRange DEF IsStore
<1> HIDE DEF address
<1>5. \/ local.kind = "fault" /\ local \in Faults /\ local # Invalid
      \/ Found(local, address, Size(i), IsStore(i), Size(i))
  BY <1>3, <1>4, LocalAddressOutcome
<1> HIDE DEF local
<1> QED
  BY <1>1, <1>5 DEF local, address

LEMMA ChecksDomain == ASSUME NEW u, NEW i, i.vl \in Nat PROVE DOMAIN Checks(u, i) = 1 .. i.vl /\ DOMAIN Checks(u, i) \subseteq Nat
BY DEF Checks

(* Either the first fault is one of the ISA's, or every active lane has its *)
(* place in the scratchpad.                                                 *)
LEMMA ChecksOutcome ==
    ASSUME NEW u, NEW i, Fits(u, i), i.op \in LoadOps \cup StoreOps
    PROVE  /\ FirstFault(Checks(u, i)) # << >> =>
                /\ FirstFault(Checks(u, i))[1] \in Faults /\ FirstFault(Checks(u, i))[1] # Invalid
           /\ FirstFault(Checks(u, i)) = << >> =>
                /\ Placed(u, i, Checks(u, i))
                /\ \A k \in 1 .. i.vl : (k - 1 \in Active(u, i)) <=> (Checks(u, i)[k].kind = "local")
                /\ \A k \in 1 .. i.vl : k - 1 \in Active(u, i) =>
                       Found(Checks(u, i)[k], EffectiveAddress(u, i, k - 1), Size(i), IsStore(i), Size(i))
<1> DEFINE checks == Checks(u, i)
<1>1. i.vl \in Nat /\ i.vl * Size(i) <= VectorBytes
  BY LengthOperand, LengthFits DEF Fits
<1>2. DOMAIN checks = 1 .. i.vl /\ DOMAIN checks \subseteq Nat
  BY <1>1, ChecksDomain
<1>3. \A k \in 1 .. i.vl :
        /\ k - 1 \in Active(u, i) =>
             \/ checks[k].kind = "fault" /\ checks[k] \in Faults /\ checks[k] # Invalid
             \/ Found(checks[k], EffectiveAddress(u, i, k - 1), Size(i), IsStore(i), Size(i))
        /\ k - 1 \notin Active(u, i) => checks[k].kind = "none"
  BY CheckOf
<1> HIDE DEF checks
<1>4. ASSUME FirstFault(checks) # << >>
      PROVE  FirstFault(checks)[1] \in Faults /\ FirstFault(checks)[1] # Invalid
  <2>1. PICK k \in DOMAIN checks : checks[k].kind = "fault" /\ FirstFault(checks)[1] = checks[k]
    BY <1>2, <1>4, FirstFaultIsFirst
  <2> QED
    BY <1>2, <1>3, <2>1 DEF Found
<1>5. ASSUME FirstFault(checks) = << >>
      PROVE  \A k \in 1 .. i.vl :
               /\ k - 1 \in Active(u, i) => Found(checks[k], EffectiveAddress(u, i, k - 1), Size(i), IsStore(i), Size(i))
               /\ (k - 1 \in Active(u, i)) <=> (checks[k].kind = "local")
  <2>1. \A k \in 1 .. i.vl : checks[k].kind # "fault"
    BY <1>2, <1>5, NoFirstFault
  <2> QED
    BY <1>3, <2>1 DEF Found
<1>6. ASSUME FirstFault(checks) = << >> PROVE Placed(u, i, checks)
  BY <1>1, <1>5, <1>6 DEF Placed, Found
<1> QED
  BY <1>4, <1>5, <1>6 DEF checks

(* The value of a lane of a source register.                                *)
LEMMA LaneElement ==
    ASSUME NEW u, NEW i, Fits(u, i), NEW v \in VectorRegisters, NEW k \in Lanes(i)
    PROVE  /\ Element(u, v, k, Size(i)) \in Addresses
           /\ Has(i, "indices") => Element(u, v, k, 4) \in Addresses /\ Element(u, v, k, 4) \in Nat
<1>1. i.vl \in Nat /\ k \in 0 .. i.vl - 1 /\ i.vl * Size(i) <= VectorBytes /\ (Has(i, "indices") => i.vl * 4 <= VectorBytes)
  BY LengthOperand, LengthFits DEF Fits, Lanes
<1>2. Size(i) \in {1, 2, 4} /\ 4 \in {1, 2, 4} /\ u \in Units
  BY SizeRange DEF Fits
<1> QED
  BY <1>1, <1>2, ElementRange

(* What a lane of the result holds: a word, to be truncated.                *)
LEMMA LaneValueRange ==
    ASSUME NEW u, NEW i, Fits(u, i), i.op \in VectorOps, NEW k \in Active(u, i), NEW checks,
           i.op \in LoadOps => checks = Checks(u, i) /\ FirstFault(checks) = << >>
    PROVE  LaneValue(u, i, k, checks) \in Addresses
<1> DEFINE lane(role) == IF Has(i, role) THEN Element(u, i[role], k, Size(i)) ELSE 0
<1>1. k \in Lanes(i) /\ i.vl \in Nat /\ IsInstruction(i) /\ u \in Units /\ Size(i) \in {1, 2, 4}
  BY ActiveRange, LengthOperand, SizeRange DEF Fits
<1>2. \A role \in {"va", "vb", "vc"} : lane(role) \in Addresses
  <2> TAKE role \in {"va", "vb", "vc"}
  <2>1. CASE Has(i, role)
    <3>1. i[role] \in Values(i.op, role)
      BY <1>1, <2>1, OperandValue
    <3>2. i[role] \in VectorRegisters
      BY <3>1, RoleValues
    <3> QED
      BY <1>1, <2>1, <3>2, LaneElement
  <2> QED
    BY <2>1, AddressFacts
<1>3. CASE i.op \in LoadOps
  <2>1. k + 1 \in 1 .. i.vl /\ (k + 1) - 1 = k
    BY <1>1 DEF Lanes
  <2>2. Found(checks[k + 1], EffectiveAddress(u, i, k), Size(i), IsStore(i), Size(i))
    BY <1>3, <2>1, ChecksOutcome
  <2> DEFINE at == checks[k + 1].at
  <2>3. at \in Nat /\ at + Size(i) <= ScratchpadBytes
    BY <2>2 DEF Found
  <2> HIDE DEF at
  <2>4. \A b \in at .. at + Size(i) - 1 : u.scratchpad[b] \in Bytes
    BY <1>1, <2>3, ScratchpadFacts, UnitFacts, SMTT(60)
  <2>5. ReadBytes(u.scratchpad, at, Size(i)) \in Nat /\ ReadBytes(u.scratchpad, at, Size(i)) < ByteValues ^ Size(i)
    BY <1>1, <2>3, <2>4, ReadBytesFacts, SMTT(60)
  <2>6. ReadBytes(u.scratchpad, at, Size(i)) \in Addresses
    BY <1>1, <2>5, PowerInSpace, AddressFacts
  <2>7. LaneValue(u, i, k, checks) = ReadBytes(u.scratchpad, at, Size(i))
    BY <1>3 DEF LaneValue, LoadOps, at
  <2> QED
    BY <2>6, <2>7
<1>4. CASE i.op = "VCONVERT"
  <2>1. i.type \in Types /\ i.result_type \in Types /\ i.rounding \in Roundings
    BY <1>1, <1>4, LaneOperands, OtherOperands DEF VectorOps
  <2>2. LaneValue(u, i, k, checks) = Convert(lane("va"), i.type, i.result_type, i.rounding)
    BY <1>4 DEF LaneValue, LoadOps
  <2> QED
    BY <1>2, <2>1, <2>2, ConvertRange
<1>5. CASE i.op = "VSELECT"
  <2>1. LaneValue(u, i, k, checks) \in {lane("va"), lane("vb")}
    BY <1>5 DEF LaneValue, LoadOps
  <2> QED
    BY <1>2, <2>1
<1>6. CASE i.op = "VBROADCAST"
  <2>1. LaneValue(u, i, k, checks) = i.value
    BY <1>6 DEF LaneValue, LoadOps
  <2> QED
    BY <1>1, <1>6, <2>1, OtherOperands
<1>7. CASE i.op = "VPERMUTE"
  <2> DEFINE index == Element(u, i.indices, k, 4)
  <2>1. LaneValue(u, i, k, checks) = IF index < i.vl THEN Element(u, i.va, index, Size(i)) ELSE 0
    BY <1>7 DEF LaneValue, LoadOps
  <2>2. index \in Nat /\ i.va \in VectorRegisters
    BY <1>1, <1>7, OtherOperands, LaneElement
  <2> HIDE DEF index
  <2>3. index < i.vl => index \in Lanes(i)
    BY <1>1, <2>2 DEF Lanes
  <2> QED
    BY <1>1, <2>1, <2>2, <2>3, LaneElement, AddressFacts
<1>8. CASE i.op \notin LoadOps \cup {"VCONVERT", "VSELECT", "VBROADCAST", "VPERMUTE"}
  <2>1. LaneValue(u, i, k, checks) = Arithmetic(i.op, lane("va"), lane("vb"), lane("vc"), i.type)
    BY <1>8 DEF LaneValue
  <2>2. i.op \in BinaryOps \cup {"VSQRT", "VFMA"}
    BY <1>8 DEF VectorOps, LaneOps, Opcodes
  <2>3. i.type \in TypesOf(i.op)
    BY <1>1, LaneOperands DEF VectorOps
  <2>4. i.op # "VFMA" => lane("vc") = 0
    <3>1. i.op # "VFMA" => "vc" \notin Operands(i.op)
      BY <2>2 DEF Operands, BinaryOps, BitOps, Result, Masked
    <3> QED
      BY <1>1, <3>1, OperandValue
  <2> HIDE DEF lane
  <2> QED
    BY <1>2, <2>1, <2>2, <2>3, <2>4, ArithmeticRange
<1> QED
  BY <1>3, <1>4, <1>5, <1>6, <1>7, <1>8

-----------------------------------------------------------------------------
(* The destination register, lane by lane                                   *)

OutputWidth(i) == Width(IF i.op = "VCONVERT" THEN i.result_type ELSE i.type)

Kept(u, i) == [b \in AllLanes |-> IF i.policy = "merge" /\ b < i.vl * OutputWidth(i) THEN u.vectors[i.vd][b] ELSE 0]

WrittenLane(written, u, i, checks, k) ==
    IF Visit(i, k) \notin Active(u, i) THEN written
    ELSE WriteBytes(written, Visit(i, k) * OutputWidth(i), OutputWidth(i), LaneValue(u, i, Visit(i, k), checks))

(* A byte of the result: its lane's, where that lane is active.             *)
OutputByte(u, i, checks, b) ==
    LET lane == b \div OutputWidth(i)
    IN  IF lane \in Active(u, i) THEN ByteOf(LaneValue(u, i, lane, checks), b - lane * OutputWidth(i)) ELSE Kept(u, i)[b]

(* What is known of an instruction whose accesses were checked.             *)
Checked(u, i, checks) ==
    /\ Fits(u, i) /\ i.op \in VectorOps
    /\ i.op \in LoadOps => checks = Checks(u, i) /\ FirstFault(checks) = << >>

(* What makes it well defined, whatever the unit and the instruction.       *)
Writable(u, i, checks) ==
    /\ OutputWidth(i) \in {1, 2, 4} /\ i.vl \in Nat /\ i.vl * OutputWidth(i) <= VectorBytes
    /\ IsMemory(Kept(u, i), AllLanes)
    /\ \A k \in Active(u, i) : LaneValue(u, i, k, checks) \in Addresses /\ k \in 0 .. i.vl - 1

LEMMA OutputFits ==
    ASSUME NEW u, NEW i, NEW checks, Checked(u, i, checks)
    PROVE  Writable(u, i, checks)
<1>1. IsInstruction(i) /\ u \in Units /\ i.vd \in VectorRegisters /\ i.op \in LaneOps
  BY VectorOperands DEF Checked, Fits, VectorOps
<1>2. i.vl \in Nat /\ i.vl * OutputWidth(i) <= VectorBytes
  <2>1. i.vl \in Nat /\ i.vl * Size(i) <= VectorBytes /\ (Has(i, "result_type") => i.vl * Width(i.result_type) <= VectorBytes)
    BY LengthOperand, LengthFits DEF Checked, Fits
  <2>2. Has(i, "type") /\ (i.op = "VCONVERT" => Has(i, "result_type"))
    BY <1>1, LaneOperands, OtherOperands
  <2> QED
    BY <2>1, <2>2 DEF OutputWidth, Size
<1>3. OutputWidth(i) \in {1, 2, 4}
  BY WidthRange DEF OutputWidth
<1>4. AllLanes \subseteq Int /\ 0 \in Bytes
  BY VectorBytesRange, BytePowers DEF AllLanes, Bytes
<1>5. \A b \in AllLanes : u.vectors[i.vd][b] \in Bytes
  BY <1>1, UnitFacts DEF Vectors
<1>6. Kept(u, i) \in [AllLanes -> Bytes]
  BY <1>4, <1>5 DEF Kept
<1>7. \A k \in Active(u, i) : LaneValue(u, i, k, checks) \in Addresses /\ k \in 0 .. i.vl - 1
  BY LaneValueRange, ActiveRange DEF Checked, Lanes
<1> QED
  BY <1>2, <1>3, <1>4, <1>6, <1>7 DEF IsMemory, Writable

(* The bytes of the register before a lane number.                          *)
Below(u, i, checks, k, b) == IF b \div OutputWidth(i) < k THEN OutputByte(u, i, checks, b) ELSE Kept(u, i)[b]

LEMMA WrittenLaneRange ==
    ASSUME NEW u, NEW i, NEW checks, Writable(u, i, checks), NEW k \in 1 .. i.vl,
           NEW written, IsMemory(written, AllLanes), \A b \in AllLanes : written[b] = Below(u, i, checks, k - 1, b)
    PROVE  /\ IsMemory(WrittenLane(written, u, i, checks, k), AllLanes)
           /\ \A b \in AllLanes : WrittenLane(written, u, i, checks, k)[b] = Below(u, i, checks, k, b)
<1> DEFINE size == OutputWidth(i)
           x == LaneValue(u, i, k - 1, checks)
           at == (k - 1) * size
<1>1. size \in {1, 2, 4} /\ i.vl \in Nat /\ k - 1 \in Nat /\ AllLanes \subseteq Nat
  BY VectorBytesRange DEF AllLanes, Writable
<1>2. WrittenLane(written, u, i, checks, k) = IF k - 1 \notin Active(u, i) THEN written ELSE WriteBytes(written, at, size, x)
  BY DEF WrittenLane, Visit
<1>3. \A b \in AllLanes : /\ (b \in at .. at + size - 1) <=> (b \div size = k - 1)
                          /\ (b \div size < k) <=> (b \div size < k - 1 \/ b \div size = k - 1)
  <2> TAKE b \in AllLanes
  <2>1. b \in Nat
    BY <1>1
  <2> HIDE DEF size
  <2>2. CASE size = 1
    BY <1>1, <2>1, <2>2
  <2>3. CASE size = 2
    BY <1>1, <2>1, <2>3
  <2>4. CASE size = 4
    BY <1>1, <2>1, <2>4
  <2> QED
    BY <1>1, <2>2, <2>3, <2>4
<1>4. CASE k - 1 \notin Active(u, i)
  <2>1. \A b \in AllLanes : b \div size = k - 1 => OutputByte(u, i, checks, b) = Kept(u, i)[b]
    BY <1>4 DEF OutputByte
  <2>2. \A b \in AllLanes : Below(u, i, checks, k, b) = Below(u, i, checks, k - 1, b)
    <3> TAKE b \in AllLanes
    <3>1. ~(k - 1 < k - 1)
      BY <1>1
    <3> QED
      BY <1>3, <2>1, <3>1 DEF Below
  <2> QED
    BY <1>2, <1>4, <2>2
<1>5. CASE k - 1 \in Active(u, i)
  <2>1. x \in Int /\ at \in Int
    <3>1. x \in Addresses
      BY <1>5 DEF Writable
    <3> QED
      BY <1>1, <3>1, AddressFacts
  <2>2. IsMemory(WriteBytes(written, at, size, x), AllLanes)
    <3> HIDE DEF at, size, x
    <3> QED
      BY <1>1, <2>1, WriteBytesRange, Zenon
  <2>3. \A b \in AllLanes : WriteBytes(written, at, size, x)[b] = IF b \in at .. at + size - 1 THEN ByteOf(x, b - at) ELSE written[b]
    BY DEF WriteBytes, ByteOf, IsMemory
  <2>4. \A b \in AllLanes : b \div size = k - 1 => OutputByte(u, i, checks, b) = ByteOf(x, b - at)
    BY <1>5 DEF OutputByte
  <2>5. ~(k - 1 < k - 1)
    BY <1>1
  <2> HIDE DEF at, size, x
  <2>6. \A b \in AllLanes : WriteBytes(written, at, size, x)[b] = Below(u, i, checks, k, b)
    BY <1>3, <2>3, <2>4, <2>5 DEF Below, size
  <2> QED
    BY <1>2, <1>5, <2>2, <2>6
<1> QED
  BY <1>4, <1>5

LEMMA OutputIs ==
    ASSUME NEW u, NEW i, NEW checks, Writable(u, i, checks)
    PROVE  /\ Output(u, i, checks) \in Vectors
           /\ \A b \in AllLanes : Output(u, i, checks)[b] = OutputByte(u, i, checks, b)
<1> DEFINE Passes(g) ==
             g = [k \in 0 .. i.vl |->
                    IF k = 0 THEN Kept(u, i)
                    ELSE IF Visit(i, k) \in Active(u, i)
                         THEN WriteBytes(g[k - 1], Visit(i, k) * OutputWidth(i), OutputWidth(i), LaneValue(u, i, Visit(i, k), checks))
                         ELSE g[k - 1]]
           after == CHOOSE g : Passes(g)
           upto(k) == [b \in AllLanes |-> Below(u, i, checks, k, b)]
           first == [k \in 0 .. i.vl |-> upto(k)]
<1>1. i.vl \in Nat /\ OutputWidth(i) \in {1, 2, 4} /\ IsMemory(Kept(u, i), AllLanes)
      /\ i.vl * OutputWidth(i) <= VectorBytes
  BY DEF Writable
<1>2. \A b \in AllLanes : b \div OutputWidth(i) \in Nat
  BY <1>1, VectorBytesRange DEF AllLanes
<1>3. Kept(u, i) = upto(0)
  <2>1. \A b \in AllLanes : Below(u, i, checks, 0, b) = Kept(u, i)[b]
    BY <1>2 DEF Below
  <2>2. Kept(u, i) = [b \in AllLanes |-> Kept(u, i)[b]]
    BY DEF Kept
  <2> QED
    BY <2>1, <2>2
<1>4. ASSUME NEW k \in 1 .. i.vl, IsMemory(upto(k - 1), AllLanes)
      PROVE  IsMemory(upto(k), AllLanes) /\ upto(k) = WrittenLane(upto(k - 1), u, i, checks, k)
  <2>1. \A b \in AllLanes : upto(k - 1)[b] = Below(u, i, checks, k - 1, b)
    OBVIOUS
  <2> DEFINE written == upto(k - 1)
  <2> HIDE DEF written
  <2>2. IsMemory(written, AllLanes) /\ \A b \in AllLanes : written[b] = Below(u, i, checks, k - 1, b)
    BY <1>4, <2>1 DEF written
  <2>3. /\ IsMemory(WrittenLane(written, u, i, checks, k), AllLanes)
        /\ \A b \in AllLanes : WrittenLane(written, u, i, checks, k)[b] = Below(u, i, checks, k, b)
    BY <2>2, WrittenLaneRange
  <2>4. upto(k) = WrittenLane(written, u, i, checks, k)
    <3>1. WrittenLane(written, u, i, checks, k) = [b \in AllLanes |-> WrittenLane(written, u, i, checks, k)[b]]
      BY <2>3 DEF IsMemory
    <3> QED
      BY <2>3, <3>1
  <2> QED
    BY <2>3, <2>4 DEF written
<1>5. \A k \in 0 .. i.vl : IsMemory(upto(k), AllLanes)
  <2> HIDE DEF upto
  <2> DEFINE T == {k \in 0 .. i.vl : IsMemory(upto(k), AllLanes)}
  <2>1. 0 \in T
    BY <1>1, <1>3
  <2>2. \A k \in 1 .. i.vl : k - 1 \in T => k \in T
    <3> SUFFICES ASSUME NEW k \in 1 .. i.vl, k - 1 \in T PROVE k \in T
      OBVIOUS
    <3>1. IsMemory(upto(k), AllLanes)
      BY <1>4
    <3> QED
      BY <1>1, <3>1
  <2>3. \A k \in 0 .. i.vl : k \in T
    <3> HIDE DEF T
    <3> QED
      BY <1>1, <2>1, <2>2, RangeInduction
  <2> QED
    BY <2>3
<1>6. \A k \in 1 .. i.vl : upto(k) = WrittenLane(upto(k - 1), u, i, checks, k)
  <2>1. \A k \in 1 .. i.vl : k - 1 \in 0 .. i.vl
    BY <1>1
  <2> QED
    BY <1>4, <1>5, <2>1
<1> HIDE DEF upto
<1>7. Passes(first)
  <2>1. \A k \in 0 .. i.vl : k # 0 => k \in 1 .. i.vl /\ k - 1 \in 0 .. i.vl
    BY <1>1
  <2>2. \A k \in 0 .. i.vl : upto(k) = IF k = 0 THEN Kept(u, i) ELSE WrittenLane(first[k - 1], u, i, checks, k)
    BY <1>3, <1>6, <2>1
  <2> QED
    BY <2>2 DEF WrittenLane
<1>8. Passes(after)
  <2> HIDE DEF Passes
  <2> QED
    BY <1>7
<1>9. Output(u, i, checks) = after[i.vl]
  BY DEF Output, Pass, Sources, OutputWidth, Kept
<1> HIDE DEF after
<1>10. \A k \in 0 .. i.vl : after[k] = upto(k)
  <2> DEFINE T == {k \in 0 .. i.vl : after[k] = upto(k)}
  <2>1. \A k \in 1 .. i.vl : after[k] = WrittenLane(after[k - 1], u, i, checks, k)
    BY <1>1, <1>8 DEF WrittenLane
  <2>2. after[0] = Kept(u, i)
    BY <1>1, <1>8
  <2>3. \A k \in 1 .. i.vl : k - 1 \in T => k \in T
    BY <1>1, <1>6, <2>1
  <2>4. 0 \in T
    BY <1>1, <1>3, <2>2
  <2>5. \A k \in 0 .. i.vl : k \in T
    <3> HIDE DEF T
    <3> QED
      BY <1>1, <2>3, <2>4, RangeInduction
  <2> QED
    BY <2>5
<1>11. Output(u, i, checks) = upto(i.vl) /\ IsMemory(upto(i.vl), AllLanes)
  BY <1>1, <1>5, <1>9, <1>10
<1>12. \A b \in AllLanes : upto(i.vl)[b] = OutputByte(u, i, checks, b)
  <2> TAKE b \in AllLanes
  <2>1. b \div OutputWidth(i) >= i.vl => b \div OutputWidth(i) \notin Active(u, i)
    BY <1>1, <1>2 DEF Writable
  <2>2. upto(i.vl)[b] = Below(u, i, checks, i.vl, b)
    BY DEF upto
  <2> QED
    BY <1>1, <1>2, <2>1, <2>2 DEF Below, OutputByte
<1> QED
  BY <1>11, <1>12 DEF IsMemory, Vectors

-----------------------------------------------------------------------------
(* Reductions, lane by lane                                                 *)

ReduceType(i) == IF i.type = "f32" THEN i.type ELSE IF i.type \in Signed THEN "i32" ELSE "u32"

ReduceOp(i) == CASE i.op = "VREDSUM" -> "VADD" [] i.op = "VREDMIN" -> "VMIN" [] i.op = "VREDMAX" -> "VMAX"

ReducedLane(value, u, i, k) ==
    IF Visit(i, k) \notin Active(u, i) THEN value
    ELSE Arithmetic(ReduceOp(i), value, Extended(u, i, Visit(i, k)), 0, ReduceType(i))

Reducing(f, u, i) ==
    /\ f \in [0 .. i.vl -> Addresses] /\ f[0] = i.seed
    /\ \A k \in 1 .. i.vl : f[k] = ReducedLane(f[k - 1], u, i, k)

LEMMA ExtendedRange ==
    ASSUME NEW u, NEW i, Fits(u, i), i.va \in VectorRegisters, NEW k \in Lanes(i)
    PROVE  Extended(u, i, k) \in Addresses
<1>1. Element(u, i.va, k, Size(i)) \in Int
  BY LaneElement, AddressFacts
<1> QED
  BY <1>1, IntegerRange, WordRange DEF Extended

LEMMA ReducedLaneRange ==
    ASSUME NEW u, NEW i, Fits(u, i), i.op \in ReduceOps, NEW k \in 1 .. i.vl, NEW value \in Addresses
    PROVE  ReducedLane(value, u, i, k) \in Addresses
<1>1. i.vl \in Nat /\ k - 1 \in Lanes(i) /\ IsInstruction(i)
  BY LengthOperand DEF Fits, Lanes
<1>2. Extended(u, i, k - 1) \in Addresses
  BY <1>1, OtherOperands, ExtendedRange
<1>3. ReduceOp(i) \in BinaryOps /\ ReduceOp(i) # "VFMA" /\ ReduceType(i) \in TypesOf(ReduceOp(i))
  <2>1. ReduceOp(i) \in {"VADD", "VMIN", "VMAX"}
    BY DEF ReduceOp, ReduceOps
  <2>2. ReduceType(i) \in Types
    BY DEF ReduceType, Types, Signed
  <2> QED
    BY <2>1, <2>2 DEF BinaryOps, TypesOf, BitOps
<1>4. ReducedLane(value, u, i, k) = IF k - 1 \notin Active(u, i) THEN value
                                    ELSE Arithmetic(ReduceOp(i), value, Extended(u, i, k - 1), 0, ReduceType(i))
  BY DEF ReducedLane, Visit
<1> DEFINE x == Extended(u, i, k - 1)
           op == ReduceOp(i)
           type == ReduceType(i)
<1>5. 0 \in Addresses /\ op \in BinaryOps \cup {"VSQRT", "VFMA"} /\ (op # "VFMA" => 0 = 0)
  BY <1>3, AddressFacts
<1> HIDE DEF x, op, type
<1>6. Arithmetic(op, value, x, 0, type) \in Addresses
  BY <1>2, <1>3, <1>5, ArithmeticRange, Zenon DEF x, op, type
<1> QED
  BY <1>4, <1>6 DEF x, op, type

LEMMA ReducingIsUnique ==
    ASSUME NEW u, NEW i, i.vl \in Nat, NEW f, NEW g, Reducing(f, u, i), Reducing(g, u, i)
    PROVE  \A k \in 0 .. i.vl : f[k] = g[k]
<1> DEFINE T == {k \in 0 .. i.vl : f[k] = g[k]}
<1>1. 0 \in T
  BY DEF Reducing
<1>2. \A k \in 1 .. i.vl : k - 1 \in T => k \in T
  BY DEF Reducing
<1>3. \A k \in 0 .. i.vl : k \in T
  <2> HIDE DEF T
  <2> QED
    BY <1>1, <1>2, RangeInduction
<1> QED
  BY <1>3

LEMMA ReduceFollows ==
    ASSUME NEW u, NEW i, Fits(u, i), i.op \in ReduceOps
    PROVE  \E f : Reducing(f, u, i) /\ Reduce(u, i) = Return(u, f[i.vl]) /\ f[i.vl] \in Addresses
<1> DEFINE Passes(g) ==
             g = [k \in 0 .. i.vl |->
                    IF k = 0 THEN i.seed
                    ELSE IF Visit(i, k) \in Active(u, i)
                         THEN Arithmetic(ReduceOp(i), g[k - 1], Extended(u, i, Visit(i, k)), 0, ReduceType(i))
                         ELSE g[k - 1]]
           after == CHOOSE g : Passes(g)
           step == [p \in Addresses \X (1 .. i.vl) |-> ReducedLane(p[1], u, i, p[2])]
<1>1. i.vl \in Nat /\ i.seed \in Addresses
  BY LengthOperand, OtherOperands DEF Fits
<1>2. IsStep(step, Addresses, i.vl)
  BY ReducedLaneRange DEF IsStep
<1>3. PICK f : Follows(f, Addresses, i.vl, i.seed, step)
  <2> HIDE DEF step
  <2> QED
    BY <1>1, <1>2, RecursionExists
<1>4. Reducing(f, u, i)
  <2>1. \A k \in 1 .. i.vl : f[k - 1] \in Addresses
    BY <1>1, <1>3 DEF Follows
  <2> QED
    BY <1>3, <2>1 DEF Follows, Reducing
<1>5. Passes(f)
  <2>1. \A k \in 0 .. i.vl : k # 0 => k \in 1 .. i.vl
    BY <1>1
  <2>2. f = [k \in 0 .. i.vl |-> f[k]]
    BY <1>4 DEF Reducing
  <2>3. \A k \in 0 .. i.vl : f[k] = IF k = 0 THEN i.seed ELSE ReducedLane(f[k - 1], u, i, k)
    BY <1>4, <2>1 DEF Reducing
  <2> QED
    BY <2>2, <2>3 DEF ReducedLane
<1>6. Passes(after)
  <2> HIDE DEF Passes
  <2> QED
    BY <1>5
<1>7. Reduce(u, i) = Return(u, after[i.vl])
  BY DEF Reduce, Pass, ReduceType, ReduceOp
<1> HIDE DEF after
<1>8. Reducing(after, u, i)
  <2> DEFINE T == {k \in 0 .. i.vl : after[k] \in Addresses}
  <2>1. \A k \in 1 .. i.vl : after[k] = ReducedLane(after[k - 1], u, i, k)
    BY <1>1, <1>6 DEF ReducedLane
  <2>2. after[0] = i.seed
    BY <1>1, <1>6
  <2>3. \A k \in 1 .. i.vl : k - 1 \in T => k \in T
    BY <1>1, <2>1, ReducedLaneRange
  <2>4. 0 \in T
    BY <1>1, <2>2
  <2>5. \A k \in 0 .. i.vl : k \in T
    <3> HIDE DEF T
    <3> QED
      BY <1>1, <2>3, <2>4, RangeInduction
  <2>6. DOMAIN after = 0 .. i.vl /\ after = [k \in 0 .. i.vl |-> after[k]]
    BY <1>6
  <2> QED
    BY <2>1, <2>2, <2>5, <2>6 DEF Reducing
<1> QED
  BY <1>1, <1>7, <1>8 DEF Reducing

-----------------------------------------------------------------------------
(* What an instruction may do to the unit                                   *)

IsResult(u, r) ==
    /\ r.unit \in Units
    /\ \/ r.outcome \in Faults /\ r.unit = u
       \/ r.outcome \in [kind : {"write"}, value : Addresses] /\ r.unit = u
       \/ r.outcome = Done /\ r.unit.scratchpad = u.scratchpad
       \/ r.outcome = Done /\ r.unit.vectors = u.vectors /\ r.unit.predicates = u.predicates

LEMMA RefuseIsResult == ASSUME NEW u \in Units, NEW fault \in Faults PROVE IsResult(u, Refuse(u, fault))
BY DEF IsResult, Refuse

LEMMA ReturnIsResult == ASSUME NEW u \in Units, NEW value \in Addresses PROVE IsResult(u, Return(u, value))
BY DEF IsResult, Return, Write

LEMMA InvalidIsFault == Invalid \in Faults /\ Invalid.kind = "fault"
BY AddressFacts DEF Invalid, Fault, Faults

LEMMA UnitShape ==
    ASSUME NEW u \in Units
    PROVE  /\ u.vectors \in [VectorRegisters -> Vectors] /\ u.predicates \in [PredicateRegisters -> SUBSET AllLanes]
           /\ u.scratchpad \in Scratchpads
           /\ u = [vectors |-> u.vectors, predicates |-> u.predicates, scratchpad |-> u.scratchpad]
BY DEF Units

LEMMA VectorIsResult ==
    ASSUME NEW u \in Units, NEW v \in VectorRegisters, NEW value \in Vectors
    PROVE  LET next == [u EXCEPT !.vectors[v] = value]
           IN  /\ IsResult(u, Finish(next)) /\ next.vectors[v] = value
               /\ next.predicates = u.predicates /\ next.scratchpad = u.scratchpad
               /\ \A w \in VectorRegisters : w # v => next.vectors[w] = u.vectors[w]
BY DEF Units, IsResult, Finish, Done

LEMMA MaskIsResult ==
    ASSUME NEW u \in Units, NEW p \in PredicateRegisters, NEW mask \in SUBSET AllLanes
    PROVE  LET next == [u EXCEPT !.predicates[p] = mask]
           IN  /\ IsResult(u, Finish(next)) /\ next.predicates[p] = mask
               /\ next.vectors = u.vectors /\ next.scratchpad = u.scratchpad
BY DEF Units, IsResult, Finish, Done

LEMMA ScratchpadIsResult ==
    ASSUME NEW u \in Units, NEW memory \in Scratchpads
    PROVE  LET next == [u EXCEPT !.scratchpad = memory]
           IN  /\ IsResult(u, Finish(next)) /\ next.scratchpad = memory
               /\ next.vectors = u.vectors /\ next.predicates = u.predicates
BY DEF Units, IsResult, Finish, Done

-----------------------------------------------------------------------------
(* Every instruction keeps to that                                          *)

LEMMA LanesAreFinite ==
    ASSUME NEW i, i.vl \in Nat
    PROVE  IsFiniteSet(Lanes(i)) /\ Cardinality(Lanes(i)) = i.vl
<1>1. 0 - 1 \in Int /\ 0 \in Int /\ i.vl - 1 \in Int
  OBVIOUS
<1>2. IsFiniteSet(0 .. i.vl - 1) /\ Cardinality(0 .. i.vl - 1) = IF 0 > i.vl - 1 THEN 0 ELSE (i.vl - 1) - 0 + 1
  BY <1>1, FS_Interval
<1> QED
  BY <1>2 DEF Lanes

LEMMA LanesInRegister ==
    ASSUME NEW u, NEW i, Fits(u, i)
    PROVE  Lanes(i) \in SUBSET AllLanes /\ Lanes(i) \subseteq Nat /\ i.vl \in Nat /\ i.vl <= VectorBytes
<1>1. i.vl \in Nat /\ i.vl <= VectorBytes
  BY LengthOperand, LengthFits DEF Fits
<1> QED
  BY <1>1, VectorBytesRange DEF Lanes, AllLanes

LEMMA PackedRange ==
    ASSUME NEW length \in Nat
    PROVE  Packed(length) \in Nat /\ (length # 0 => Packed(length) > 0)
<1>1. ByteBits \in Nat \ {0}
  BY NpuDataAssumption DEF NpuDataAssumption
<1> DEFINE x == length + ByteBits - 1
<1>2. x \in Nat /\ (length # 0 => x >= ByteBits)
  BY <1>1
<1>3. Packed(length) = x \div ByteBits
  BY DEF Packed
<1> HIDE DEF x
<1>4. x \div ByteBits \in Nat
  BY <1>1, <1>2
<1>5. x >= ByteBits => x \div ByteBits > 0
  BY <1>1, <1>2
<1> QED
  BY <1>2, <1>3, <1>4, <1>5

LEMMA SetLengthIsResult ==
    ASSUME NEW u \in Units, NEW i, IsInstruction(i), i.op = "VSETL"
    PROVE  IsResult(u, SetLength(u, i))
<1> DEFINE w == IF Width(i.type) > Width(i.peer_type) THEN Width(i.type) ELSE Width(i.peer_type)
           set == {i.avl, Granted(i.type, i.peer_type)}
<1>1. i.avl \in Nat /\ i.avl < AddressSpace
  BY OtherOperands, AddressFacts
<1>2. w \in {1, 2, 4}
  BY WidthRange
<1>3. Granted(i.type, i.peer_type) = VectorBytes \div w
  BY DEF Granted
<1> HIDE DEF w
<1>4. Granted(i.type, i.peer_type) \in Nat
  BY <1>2, <1>3, VectorBytesRange
<1>5. set \in SUBSET Nat /\ set # {}
  BY <1>1, <1>4
<1> HIDE DEF set
<1>6. Least(set) \in set /\ \A y \in set : Least(set) <= y
  BY <1>5, LeastOf
<1>7. Least(set) \in Addresses
  BY <1>1, <1>4, <1>6, AddressFacts DEF set
<1> QED
  BY <1>7, ReturnIsResult DEF SetLength, set

LEMMA QueryMaskIsResult ==
    ASSUME NEW u, NEW i, Fits(u, i), i.op \in {"PCOUNT", "PFIRST"}
    PROVE  IsResult(u, QueryMask(u, i))
<1> DEFINE set == Lanes(i) \cap u.predicates[i.pa]
           value == IF i.op = "PCOUNT" THEN Cardinality(set) ELSE IF set = {} THEN AddressSpace - 1 ELSE Least(set)
<1>1. Lanes(i) \subseteq Nat /\ i.vl \in Nat /\ i.vl < AddressSpace /\ set \subseteq Lanes(i)
  BY LanesInRegister, VectorBytesRange, AddressFacts
<1> HIDE DEF set
<1>2. Cardinality(set) \in Nat /\ Cardinality(set) <= i.vl
  BY <1>1, LanesAreFinite, FS_Subset, FS_CardinalityType
<1>3. set # {} => Least(set) \in Nat /\ Least(set) < i.vl
  <2> SUFFICES ASSUME set # {} PROVE Least(set) \in Nat /\ Least(set) < i.vl
    OBVIOUS
  <2>1. Least(set) \in set
    BY <1>1, LeastOf
  <2> DEFINE least == Least(set)
  <2> HIDE DEF least
  <2>2. least \in Lanes(i)
    BY <1>1, <2>1 DEF least
  <2>3. least \in Nat /\ least < i.vl
    BY <1>1, <2>2 DEF Lanes
  <2> QED
    BY <2>3 DEF least
<1>4. value \in Addresses
  BY <1>1, <1>2, <1>3, AddressFacts
<1>5. QueryMask(u, i) = Return(u, value)
  BY DEF QueryMask, set
<1> HIDE DEF value
<1> QED
  BY <1>4, <1>5, ReturnIsResult DEF Fits

LEMMA MaskAddressRange ==
    ASSUME NEW u, NEW i, Fits(u, i), i.op \in {"PLD", "PST"}
    PROVE  i.base + i.offset \in Int /\ Packed(i.vl) \in Nat
<1>1. i.base \in Addresses /\ i.offset \in Int
  BY MaskOperands DEF Fits, MaskOps
<1>2. i.base \in Int
  BY <1>1, AddressFacts
<1>3. Packed(i.vl) \in Nat
  BY LanesInRegister, PackedRange
<1> QED
  BY <1>1, <1>2, <1>3

LEMMA MakeMaskIsResult ==
    ASSUME NEW u, NEW i, Fits(u, i), i.op \in MaskOps
    PROVE  IsResult(u, MakeMask(u, i))
<1> DEFINE address == LocalAddress(i.base + i.offset, Packed(i.vl), FALSE, 1)
           mask == MaskValue(u, i, address.at)
<1>1. Lanes(i) \in SUBSET AllLanes /\ i.vl \in Nat /\ u \in Units /\ i.pd \in PredicateRegisters
  BY LanesInRegister, MaskOperands DEF Fits
<1>2. ASSUME i.op = "PLD" /\ i.vl # 0 /\ address.kind = "fault"
      PROVE  IsResult(u, MakeMask(u, i))
  <2>1. i.base + i.offset \in Int /\ Packed(i.vl) \in Nat /\ 1 \in Nat \ {0}
    BY <1>2, MaskAddressRange
  <2>2. address \in Faults
    BY <1>2, <2>1, LocalAddressOutcome DEF Found
  <2>3. MakeMask(u, i) = Refuse(u, address)
    BY <1>2 DEF MakeMask
  <2> HIDE DEF address
  <2> QED
    BY <1>1, <2>2, <2>3, RefuseIsResult
<1>3. ASSUME ~(i.op = "PLD" /\ i.vl # 0 /\ address.kind = "fault")
      PROVE  IsResult(u, MakeMask(u, i))
  <2>1. mask \in SUBSET AllLanes
    <3>1. mask \subseteq Lanes(i)
      BY DEF MaskValue, MaskOps, While
    <3> QED
      BY <1>1, <3>1
  <2>2. MakeMask(u, i) = Finish([u EXCEPT !.predicates[i.pd] = mask])
    BY <1>3 DEF MakeMask
  <2> HIDE DEF mask
  <2> QED
    BY <1>1, <2>1, <2>2, MaskIsResult
<1> QED
  BY <1>2, <1>3

LEMMA StoreMaskIsResult ==
    ASSUME NEW u, NEW i, Fits(u, i), i.op = "PST"
    PROVE  IsResult(u, StoreMask(u, i))
<1> DEFINE address == LocalAddress(i.base + i.offset, Packed(i.vl), TRUE, 1)
           byte(b) == IF b \in address.at .. address.at + Packed(i.vl) - 1
                      THEN PackedByte(u.predicates[i.pa], b - address.at, i.vl) ELSE u.scratchpad[b]
           memory == [b \in DOMAIN u.scratchpad |-> byte(b)]
<1>1. u \in Units /\ i.vl \in Nat
  BY LanesInRegister DEF Fits
<1>2. i.base + i.offset \in Int /\ Packed(i.vl) \in Nat /\ 1 \in Nat \ {0}
  BY MaskAddressRange
<1>3. ASSUME i.vl = 0 PROVE IsResult(u, StoreMask(u, i))
  BY <1>1, <1>3 DEF StoreMask, IsResult, Finish
<1>4. ASSUME i.vl # 0, address.kind = "fault" PROVE IsResult(u, StoreMask(u, i))
  <2>1. address \in Faults
    BY <1>2, <1>4, LocalAddressOutcome DEF Found
  <2>2. StoreMask(u, i) = Refuse(u, address)
    BY <1>4 DEF StoreMask
  <2> HIDE DEF address
  <2> QED
    BY <1>1, <2>1, <2>2, RefuseIsResult
<1>5. ASSUME i.vl # 0, address.kind # "fault" PROVE IsResult(u, StoreMask(u, i))
  <2>1. \A n : PackedByte(u.predicates[i.pa], n, i.vl) \in Bytes
    BY ByteNumberRange DEF PackedByte
  <2>2. u.scratchpad \in [0 .. ScratchpadBytes - 1 -> Bytes] /\ Scratchpads = [0 .. ScratchpadBytes - 1 -> Bytes]
    BY <1>1, UnitFacts, ScratchpadFacts
  <2>3. memory \in Scratchpads
    BY <2>1, <2>2
  <2>4. StoreMask(u, i) = Finish([u EXCEPT !.scratchpad = memory])
    BY <1>5 DEF StoreMask
  <2> HIDE DEF memory
  <2> QED
    BY <1>1, <2>3, <2>4, ScratchpadIsResult
<1> QED
  BY <1>3, <1>4, <1>5

LEMMA ExtractIsResult ==
    ASSUME NEW u, NEW i, Fits(u, i), i.op = "VEXTRACT"
    PROVE  IsResult(u, Extract(u, i))
<1>1. u \in Units /\ i.vl \in Nat /\ i.index \in Nat /\ i.va \in VectorRegisters
  BY LanesInRegister, OtherOperands, AddressFacts DEF Fits
<1>2. ASSUME i.index >= i.vl PROVE IsResult(u, Extract(u, i))
  BY <1>1, <1>2, InvalidIsFault, RefuseIsResult DEF Extract
<1>3. ASSUME ~(i.index >= i.vl) PROVE IsResult(u, Extract(u, i))
  <2>1. i.index \in Lanes(i)
    BY <1>1, <1>3 DEF Lanes
  <2>2. Extended(u, i, i.index) \in Addresses
    BY <1>1, <2>1, ExtendedRange
  <2> QED
    BY <1>1, <1>3, <2>2, ReturnIsResult DEF Extract
<1> QED
  BY <1>2, <1>3

LEMMA CompareIsResult ==
    ASSUME NEW u, NEW i, Fits(u, i), i.op \in CompareOps
    PROVE  IsResult(u, Compare(u, i))
<1> DEFINE lane(v, k) == Element(u, v, k, Size(i))
           mask == {k \in Active(u, i) : Holds(i.op, lane(i.va, k), lane(i.vb, k), i.type)}
<1>1. mask \in SUBSET AllLanes
  BY ActiveRange, LanesInRegister
<1>2. Compare(u, i) = Finish([u EXCEPT !.predicates[i.pd] = mask])
  BY DEF Compare
<1>3. u \in Units /\ i.pd \in PredicateRegisters
  BY OtherOperands DEF Fits
<1> HIDE DEF mask
<1> QED
  BY <1>1, <1>2, <1>3, MaskIsResult, ZenonT(60)

LEMMA StoreLanesIsResult ==
    ASSUME NEW u, NEW i, Fits(u, i), i.op \in StoreOps
    PROVE  IsResult(u, StoreLanes(u, i))
<1> DEFINE checks == Checks(u, i)
<1>1. u \in Units /\ i.va \in VectorRegisters /\ i.vl \in Nat
  BY MemoryOperands, LanesInRegister DEF Fits
<1>2. ASSUME FirstFault(checks) # << >> PROVE IsResult(u, StoreLanes(u, i))
  <2>1. FirstFault(checks)[1] \in Faults /\ StoreLanes(u, i) = Refuse(u, FirstFault(checks)[1])
    BY <1>2, ChecksOutcome DEF StoreLanes
  <2> QED
    BY <1>1, <2>1, RefuseIsResult
<1>3. ASSUME FirstFault(checks) = << >> PROVE IsResult(u, StoreLanes(u, i))
  <2>1. Placed(u, i, checks)
    BY <1>3, ChecksOutcome
  <2>2. StoreLanes(u, i) = Finish([u EXCEPT !.scratchpad = Stored(u, i, checks)])
    BY <1>3 DEF StoreLanes
  <2> HIDE DEF checks
  <2>3. PICK f : Storing(f, u, i, checks) /\ Stored(u, i, checks) = f[i.vl]
    BY <1>1, <2>1, StoredFollows
  <2>4. Stored(u, i, checks) \in Scratchpads
    BY <1>1, <2>3 DEF Storing
  <2> QED
    BY <1>1, <2>2, <2>4, ScratchpadIsResult
<1> QED
  BY <1>2, <1>3

LEMMA MakeVectorIsResult ==
    ASSUME NEW u, NEW i, Fits(u, i), i.op \in VectorOps
    PROVE  IsResult(u, MakeVector(u, i))
<1> DEFINE checks == IF i.op \in LoadOps THEN Checks(u, i) ELSE << >>
<1>1. u \in Units /\ i.vd \in VectorRegisters
  BY VectorOperands DEF Fits
<1>2. ASSUME FirstFault(checks) # << >> PROVE IsResult(u, MakeVector(u, i))
  <2>1. i.op \in LoadOps
    BY <1>2 DEF FirstFault
  <2>2. FirstFault(checks)[1] \in Faults /\ MakeVector(u, i) = Refuse(u, FirstFault(checks)[1])
    BY <1>2, <2>1, ChecksOutcome DEF MakeVector
  <2> QED
    BY <1>1, <2>2, RefuseIsResult
<1>3. ASSUME FirstFault(checks) = << >> PROVE IsResult(u, MakeVector(u, i))
  <2>1. Checked(u, i, checks)
    BY <1>3 DEF Checked
  <2>2. MakeVector(u, i) = Finish([u EXCEPT !.vectors[i.vd] = Output(u, i, checks)])
    BY <1>3 DEF MakeVector
  <2> HIDE DEF checks
  <2>3. Output(u, i, checks) \in Vectors
    BY <2>1, OutputFits, OutputIs
  <2> QED
    BY <1>1, <2>2, <2>3, VectorIsResult
<1> QED
  BY <1>2, <1>3

LEMMA ReduceIsResult ==
    ASSUME NEW u, NEW i, Fits(u, i), i.op \in ReduceOps
    PROVE  IsResult(u, Reduce(u, i))
<1>1. PICK f : Reduce(u, i) = Return(u, f[i.vl]) /\ f[i.vl] \in Addresses
  BY ReduceFollows
<1> QED
  BY <1>1, ReturnIsResult DEF Fits

(* Which of them an opcode names.                                           *)
LEMMA ExecuteIs ==
    ASSUME NEW u, NEW i, i.op \in Opcodes
    PROVE  /\ i.op = "VSETL" => Execute(u, i) = SetLength(u, i)
           /\ i.op # "VSETL" /\ i.vl > Capacity(i) => Execute(u, i) = Refuse(u, Invalid)
           /\ i.op # "VSETL" /\ ~(i.vl > Capacity(i)) =>
                /\ i.op \in MaskOps => Execute(u, i) = MakeMask(u, i)
                /\ i.op \in {"PCOUNT", "PFIRST"} => Execute(u, i) = QueryMask(u, i)
                /\ i.op = "PST" => Execute(u, i) = StoreMask(u, i)
                /\ i.op = "VEXTRACT" => Execute(u, i) = Extract(u, i)
                /\ i.op \in ReduceOps => Execute(u, i) = Reduce(u, i)
                /\ i.op \in StoreOps => Execute(u, i) = StoreLanes(u, i)
                /\ i.op \in CompareOps => Execute(u, i) = Compare(u, i)
                /\ i.op \in VectorOps => Execute(u, i) = MakeVector(u, i)
                /\ i.op \in MaskOps \cup {"PCOUNT", "PFIRST", "PST", "VEXTRACT"} \cup ReduceOps \cup StoreOps \cup CompareOps \cup VectorOps
BY DEF Execute, Opcodes, MaskOps, ReduceOps, StoreOps, CompareOps, VectorOps, LaneOps, LoadOps, BinaryOps, BitOps

LEMMA ExecuteIsResult ==
    ASSUME NEW u \in Units, NEW i, IsInstruction(i)
    PROVE  IsResult(u, Execute(u, i))
<1>0. i.op \in Opcodes
  BY DEF IsInstruction
<1>1. CASE i.op = "VSETL"
  BY <1>0, <1>1, ExecuteIs, SetLengthIsResult
<1>2. CASE i.op # "VSETL" /\ i.vl > Capacity(i)
  BY <1>0, <1>2, ExecuteIs, InvalidIsFault, RefuseIsResult
<1>3. CASE i.op # "VSETL" /\ ~(i.vl > Capacity(i))
  <2>1. Fits(u, i)
    BY <1>3 DEF Fits
  <2> QED
    BY <1>0, <1>3, <2>1, ExecuteIs, MakeMaskIsResult, QueryMaskIsResult, StoreMaskIsResult, ExtractIsResult, ReduceIsResult,
       StoreLanesIsResult, CompareIsResult, MakeVectorIsResult
<1> QED
  BY <1>1, <1>2, <1>3

-----------------------------------------------------------------------------
(* Programs *)

LEMMA StepIs ==
    ASSUME TypeOK, Next
    PROVE  \E i \in Repertoire : /\ IsInstruction(i) /\ executed' = i
                                 /\ unit' = Execute(unit, i).unit /\ outcome' = Execute(unit, i).outcome
                                 /\ IsResult(unit, Execute(unit, i)) /\ unit \in Units
<1>1. PICK i \in Repertoire : ExecuteNpu(i)
  BY DEF Next
<1>2. IsInstruction(i)
  BY VectorAssumption DEF VectorAssumption
<1>3. executed' = i /\ unit' = Execute(unit, i).unit /\ outcome' = Execute(unit, i).outcome
  BY <1>1 DEF ExecuteNpu
<1>4. unit \in Units
  BY DEF TypeOK
<1> QED
  BY <1>2, <1>3, <1>4, ExecuteIsResult

(* A step's instruction and the results that TypeOK and the contract name.  *)
LEMMA ResultTypes ==
    ASSUME NEW u, NEW r, IsResult(u, r)
    PROVE  /\ r.unit \in Units
           /\ \/ r.outcome.kind \in {"none", "done"}
              \/ r.outcome.kind = "write" /\ r.outcome.value \in Addresses
              \/ r.outcome.kind = "fault" /\ r.outcome.cause \in {4, 5, 6, 7, 24} /\ r.outcome.value \in Addresses
BY DEF IsResult, Faults, Done

LEMMA InitTypes == Init => TypeOK
<1>1. Init => unit \in Units
  BY VectorAssumption DEF VectorAssumption, Init
<1>2. Init => outcome.kind \in {"none", "done"}
  BY DEF Init
<1> QED
  BY <1>1, <1>2 DEF TypeOK

(* Registers and the scratchpad keep their shapes, every byte a byte, and a *)
(* result or a reported value is a word, in every program: the truncation   *)
(* of write() and of the uint32_t results of execute_npu.                   *)
THEOREM TypesHold == Spec => []TypeOK
<1>1. Init => TypeOK
  BY InitTypes
<1>2. TypeOK /\ [Next]_vars => TypeOK'
  <2> SUFFICES ASSUME TypeOK, [Next]_vars PROVE TypeOK'
    OBVIOUS
  <2>1. CASE Next
    <3>1. PICK i \in Repertoire : /\ unit' = Execute(unit, i).unit /\ outcome' = Execute(unit, i).outcome
                                  /\ IsResult(unit, Execute(unit, i))
      BY <2>1, StepIs
    <3> DEFINE r == Execute(unit, i)
    <3>2. unit' = r.unit /\ outcome' = r.outcome /\ IsResult(unit, r)
      BY <3>1
    <3> HIDE DEF r
    <3> QED
      BY <3>2, ResultTypes DEF TypeOK
  <2>2. CASE UNCHANGED vars
    BY <2>2 DEF vars, TypeOK
  <2> QED
    BY <2>1, <2>2
<1> QED
  BY <1>1, <1>2, PTL DEF Spec

(* Every vector or predicate instruction faults with everything as it was,  *)
(* returns a scalar and changes nothing, changes registers only or changes  *)
(* the scratchpad only, in every program (execute_npu, as                   *)
(* program_machine::complete uses it).                                      *)
THEOREM VectorImplementsContract == Spec => ImplementsContract
<1>1. Init => outcome = [kind |-> "none"]
  BY DEF Init
<1>2. TypeOK /\ [Next]_vars => [Contract!Next]_<<unit.scratchpad, <<unit.vectors, unit.predicates>>, outcome>>
  <2> SUFFICES ASSUME TypeOK, [Next]_vars
               PROVE  [Contract!Next]_<<unit.scratchpad, <<unit.vectors, unit.predicates>>, outcome>>
    OBVIOUS
  <2>1. CASE Next
    <3>1. PICK i \in Repertoire : /\ unit' = Execute(unit, i).unit /\ outcome' = Execute(unit, i).outcome
                                  /\ IsResult(unit, Execute(unit, i))
      BY <2>1, StepIs
    <3> DEFINE r == Execute(unit, i)
    <3>2. unit' = r.unit /\ outcome' = r.outcome /\ IsResult(unit, r)
      BY <3>1
    <3> HIDE DEF r
    <3>3. CASE r.outcome \in Faults /\ r.unit = unit
      BY <3>2, <3>3 DEF Faults, Contract!Next, Contract!Trap
    <3>4. CASE r.outcome \in [kind : {"write"}, value : Addresses] /\ r.unit = unit
      BY <3>2, <3>4 DEF Contract!Next, Contract!Result
    <3>5. CASE r.outcome = Done /\ r.unit.scratchpad = unit.scratchpad
      BY <3>2, <3>5 DEF Done, Contract!Next, Contract!Compute
    <3>6. CASE r.outcome = Done /\ r.unit.vectors = unit.vectors /\ r.unit.predicates = unit.predicates
      BY <3>2, <3>6 DEF Done, Contract!Next, Contract!Store
    <3> QED
      BY <3>2, <3>3, <3>4, <3>5, <3>6 DEF IsResult
  <2>2. CASE UNCHANGED vars
    BY <2>2 DEF vars
  <2> QED
    BY <2>1, <2>2
<1> QED
  BY <1>1, <1>2, TypesHold, PTL DEF Spec, ImplementsContract, Contract!Spec

-----------------------------------------------------------------------------
(* Units and instructions that only differ in where results go              *)

(* The same registers to read, and the same scratchpad; the other unit may  *)
(* have more registers.                                                     *)
SameRegisters(u, w) ==
    /\ \A v \in VectorRegisters : w.vectors[v] = u.vectors[v]
    /\ \A p \in PredicateRegisters : w.predicates[p] = u.predicates[p]

(* The same operands but for the destination.                               *)
SameSources(i, j) ==
    DOMAIN j = DOMAIN i /\ \A r \in DOMAIN i : r \notin {"vd", "pd"} => j[r] = i[r]

LEMMA SameShapes ==
    ASSUME NEW i, NEW j, IsInstruction(i), SameSources(i, j)
    PROVE  /\ \A r : Has(j, r) <=> Has(i, r)
           /\ j.op = i.op
           /\ Size(j) = Size(i) /\ Capacity(j) = Capacity(i)
           /\ i.op # "VSETL" => j.vl = i.vl /\ Lanes(j) = Lanes(i)
           /\ i.op \in VectorOps => OutputWidth(j) = OutputWidth(i)
<1>1. \A r : Has(j, r) <=> Has(i, r)
  BY DEF SameSources, Has
<1>2. "op" \in DOMAIN i
  BY DEF IsInstruction
<1>3. j.op = i.op
  BY <1>2 DEF SameSources
<1>4. \A r \in {"type", "result_type", "indices", "vl"} : Has(i, r) => j[r] = i[r]
  BY DEF SameSources, Has
<1>5. Size(j) = Size(i)
  BY <1>1, <1>4 DEF Size
<1>6. {Width(j[r]) : r \in {"result_type"} \cap DOMAIN j} = {Width(i[r]) : r \in {"result_type"} \cap DOMAIN i}
  BY <1>4 DEF SameSources, Has
<1>7. {4 : r \in {"indices"} \cap DOMAIN j} = {4 : r \in {"indices"} \cap DOMAIN i}
  BY DEF SameSources
<1>8. Capacity(j) = Capacity(i)
  BY <1>5, <1>6, <1>7 DEF Capacity
<1>9. i.op # "VSETL" => j.vl = i.vl /\ Lanes(j) = Lanes(i)
  BY <1>4, LengthOperand DEF Lanes
<1>10. i.op \in VectorOps => OutputWidth(j) = OutputWidth(i)
  <2> SUFFICES ASSUME i.op \in VectorOps PROVE OutputWidth(j) = OutputWidth(i)
    OBVIOUS
  <2>1. Has(i, "type")
    BY LaneOperands DEF VectorOps
  <2>2. i.op = "VCONVERT" => Has(i, "result_type")
    BY OtherOperands
  <2> QED
    BY <1>3, <1>4, <2>1, <2>2 DEF OutputWidth
<1> QED
  BY <1>1, <1>3, <1>5, <1>8, <1>9, <1>10

LEMMA SameActive ==
    ASSUME NEW u, NEW w, SameRegisters(u, w), NEW i, NEW j, IsInstruction(i), SameSources(i, j), i.op # "VSETL"
    PROVE  Active(w, j) = Active(u, i)
<1>1. Lanes(j) = Lanes(i) /\ (Has(j, "pg") <=> Has(i, "pg"))
  BY SameShapes
<1>2. Has(i, "pg") => j.pg = i.pg /\ i.pg \in PredicateRegisters
  BY MaskedOps, LaneOperands DEF SameSources, Has
<1> QED
  BY <1>1, <1>2 DEF Active, SameRegisters

LEMMA SameElement ==
    ASSUME NEW u, NEW w, SameRegisters(u, w), NEW v \in VectorRegisters, NEW k, NEW size
    PROVE  Element(w, v, k, size) = Element(u, v, k, size)
BY DEF Element, SameRegisters

LEMMA SameChecks ==
    ASSUME NEW u, NEW w, SameRegisters(u, w), NEW i, NEW j, IsInstruction(i), SameSources(i, j), i.op \in LoadOps \cup StoreOps
    PROVE  Checks(w, j) = Checks(u, i)
<1>1. i.op # "VSETL"
  BY DEF LoadOps, StoreOps
<1>2. Active(w, j) = Active(u, i) /\ j.vl = i.vl /\ Size(j) = Size(i) /\ j.op = i.op
  BY <1>1, SameActive, SameShapes
<1>3. \A r \in {"base", "offset", "stride", "indices", "scale"} : Has(i, r) => j[r] = i[r]
  BY DEF SameSources, Has
<1>4. Has(i, "base") /\ Has(i, "offset") /\ (Has(i, "indices") => Has(i, "scale") /\ i.indices \in VectorRegisters)
  <2>1. "base" \in Operands(i.op) /\ "offset" \in Operands(i.op)
    BY DEF Operands, BinaryOps, BitOps, CompareOps, ReduceOps, LoadOps, StoreOps, Result, Masked, Memory
  <2> QED
    BY <2>1, OperandNamed, MemoryOperands
<1>5. (Has(j, "indices") <=> Has(i, "indices")) /\ (Has(j, "stride") <=> Has(i, "stride"))
  BY SameShapes
<1>6. \A k : EffectiveAddress(w, j, k) = EffectiveAddress(u, i, k)
  <2> TAKE k
  <2>1. Has(i, "indices") => Element(w, j.indices, k, 4) = Element(u, i.indices, k, 4)
    BY <1>3, <1>4, SameElement
  <2> QED
    BY <1>2, <1>3, <1>4, <1>5, <2>1 DEF EffectiveAddress
<1> QED
  BY <1>2, <1>6 DEF Checks

LEMMA SourceRoles ==
    ASSUME NEW op
    PROVE  /\ op = "VCONVERT" => {"result_type", "rounding"} \subseteq Operands(op)
           /\ op = "VSELECT" => "select" \in Operands(op)
           /\ op = "VBROADCAST" => "value" \in Operands(op)
           /\ op = "VPERMUTE" => {"indices", "va"} \subseteq Operands(op)
           /\ op \in CompareOps => {"va", "vb", "pd"} \subseteq Operands(op)
           /\ op \in ReduceOps => {"va", "seed"} \subseteq Operands(op)
           /\ op \in StoreOps => "va" \in Operands(op)
BY ZenonT(60) DEF Operands, BinaryOps, BitOps, CompareOps, ReduceOps, MaskOps, LoadOps, StoreOps, Result, Masked, Memory

LEMMA SameLaneValue ==
    ASSUME NEW u, NEW w, SameRegisters(u, w), NEW i, NEW j, IsInstruction(i), SameSources(i, j), i.op \in VectorOps,
           NEW k, NEW checks, i.op \in LoadOps => w.scratchpad = u.scratchpad
    PROVE  LaneValue(w, j, k, checks) = LaneValue(u, i, k, checks)
<1> DEFINE from(role) == IF Has(i, role) THEN Element(u, i[role], k, Size(i)) ELSE 0
           to(role) == IF Has(j, role) THEN Element(w, j[role], k, Size(j)) ELSE 0
<1>1. j.op = i.op /\ Size(j) = Size(i) /\ j.vl = i.vl /\ \A r : Has(j, r) <=> Has(i, r)
  BY SameShapes DEF VectorOps, LaneOps
<1>2. \A r : Has(i, r) /\ r \notin {"vd", "pd"} => j[r] = i[r]
  BY DEF SameSources, Has
<1>3. \A role \in {"va", "vb", "vc"} : to(role) = from(role)
  <2> TAKE role \in {"va", "vb", "vc"}
  <2>1. ASSUME Has(i, role) PROVE Element(w, j[role], k, Size(j)) = Element(u, i[role], k, Size(i))
    <3>1. i[role] \in Values(i.op, role)
      BY <2>1, OperandValue
    <3>2. i[role] \in VectorRegisters
      BY <3>1, RoleValues
    <3> QED
      BY <1>1, <1>2, <2>1, <3>2, SameElement
  <2> QED
    BY <1>1, <2>1
<1>4. Has(i, "type") /\ j.type = i.type
  BY <1>2, LaneOperands DEF VectorOps
<1>5. i.op = "VCONVERT" => j.result_type = i.result_type /\ j.rounding = i.rounding
  <2>1. i.op = "VCONVERT" => {"result_type", "rounding"} \subseteq Operands(i.op)
    BY SourceRoles
  <2> QED
    BY <1>2, <2>1, OperandNamed
<1>6. i.op = "VSELECT" => (k \in w.predicates[j.select] <=> k \in u.predicates[i.select])
  <2>1. i.op = "VSELECT" => "select" \in Operands(i.op)
    BY SourceRoles
  <2>2. i.op = "VSELECT" => j.select = i.select /\ i.select \in PredicateRegisters
    BY <1>2, <2>1, OperandNamed, OtherOperands
  <2> QED
    BY <2>2 DEF SameRegisters
<1>7. i.op = "VBROADCAST" => j.value = i.value
  <2>1. i.op = "VBROADCAST" => "value" \in Operands(i.op)
    BY SourceRoles
  <2> QED
    BY <1>2, <2>1, OperandNamed
<1>8. i.op = "VPERMUTE" => /\ Element(w, j.indices, k, 4) = Element(u, i.indices, k, 4)
                           /\ \A x : Element(w, j.va, x, Size(j)) = Element(u, i.va, x, Size(i))
  <2>1. i.op = "VPERMUTE" => {"indices", "va"} \subseteq Operands(i.op)
    BY SourceRoles
  <2>2. i.op = "VPERMUTE" => j.indices = i.indices /\ j.va = i.va /\ i.indices \in VectorRegisters /\ i.va \in VectorRegisters
    BY <1>2, <2>1, OperandNamed, OtherOperands
  <2> QED
    BY <1>1, <2>2, SameElement
<1> HIDE DEF from, to
<1> DEFINE op == i.op
<1>9. CASE op \in LoadOps
  BY <1>1, <1>9 DEF LaneValue, LoadOps
<1>10. CASE op = "VCONVERT"
  BY <1>1, <1>3, <1>4, <1>5, <1>10 DEF LaneValue, LoadOps, from, to
<1>11. CASE op = "VSELECT"
  BY <1>1, <1>3, <1>6, <1>11 DEF LaneValue, LoadOps, from, to
<1>12. CASE op = "VBROADCAST"
  BY <1>1, <1>7, <1>12 DEF LaneValue, LoadOps
<1>13. CASE op = "VPERMUTE"
  BY <1>1, <1>8, <1>13 DEF LaneValue, LoadOps
<1>14. CASE op \notin LoadOps \cup {"VCONVERT", "VSELECT", "VBROADCAST", "VPERMUTE"}
  <2>1. LaneValue(u, i, k, checks) = Arithmetic(i.op, from("va"), from("vb"), from("vc"), i.type)
    BY <1>14 DEF LaneValue, from
  <2>2. LaneValue(w, j, k, checks) = Arithmetic(j.op, to("va"), to("vb"), to("vc"), j.type)
    BY <1>1, <1>14 DEF LaneValue, to
  <2> QED
    BY <1>1, <1>3, <1>4, <2>1, <2>2
<1> QED
  BY <1>9, <1>10, <1>11, <1>12, <1>13, <1>14

-----------------------------------------------------------------------------
(* A destination of its own changes nothing but where the result goes       *)

LEMMA DestinationOps ==
    ASSUME NEW i, IsInstruction(i)
    PROVE  /\ Has(i, "vd") => i.op \in VectorOps
           /\ Has(i, "pd") => i.op \in MaskOps \cup CompareOps
<1>1. i.op \in Opcodes /\ (Has(i, "vd") => "vd" \in Operands(i.op)) /\ (Has(i, "pd") => "pd" \in Operands(i.op))
  BY OperandValue DEF IsInstruction
<1>2. i.op \in Opcodes /\ "vd" \in Operands(i.op) => i.op \in VectorOps
  BY SMTT(60), ZenonT(60) DEF VectorOps, LaneOps, Opcodes, Operands, BinaryOps, BitOps, CompareOps, ReduceOps, MaskOps, LoadOps, StoreOps, Result, Masked, Memory
<1>3. i.op \in Opcodes /\ "pd" \in Operands(i.op) => i.op \in MaskOps \cup CompareOps
  BY SMTT(60), ZenonT(60) DEF VectorOps, LaneOps, Opcodes, Operands, BinaryOps, BitOps, CompareOps, ReduceOps, MaskOps, LoadOps, StoreOps, Result, Masked, Memory
<1> QED
  BY <1>1, <1>2, <1>3

(* Two instructions fault alike or make the same vector.                    *)
MadeAlike(u, i, w, j) ==
     \/ /\ Execute(u, i).unit = u /\ Execute(w, j).unit = w
        /\ Execute(u, i).outcome = Execute(w, j).outcome /\ Execute(u, i).outcome.kind = "fault"
     \/ \E value \in Vectors : /\ Execute(u, i) = Finish([u EXCEPT !.vectors[i.vd] = value])
                               /\ Execute(w, j) = Finish([w EXCEPT !.vectors[j.vd] = value])

(* What an instruction that makes a vector leaves, when another unit and    *)
(* instruction offer the same sources and the same bytes to be kept.        *)
LEMMA SameVector ==
    ASSUME NEW u, NEW w, NEW i, NEW j, u \in Units, IsInstruction(i), i.op \in VectorOps,
           SameRegisters(u, w), SameSources(i, j), i.op \in LoadOps => w.scratchpad = u.scratchpad \/ Active(u, i) = {},
           w.vectors[j.vd] = u.vectors[i.vd]
    PROVE  MadeAlike(u, i, w, j)
<1> SUFFICES \/ /\ Execute(u, i).unit = u /\ Execute(w, j).unit = w
                /\ Execute(u, i).outcome = Execute(w, j).outcome /\ Execute(u, i).outcome.kind = "fault"
             \/ \E value \in Vectors : /\ Execute(u, i) = Finish([u EXCEPT !.vectors[i.vd] = value])
                                       /\ Execute(w, j) = Finish([w EXCEPT !.vectors[j.vd] = value])
  BY DEF MadeAlike
<1>1. i.op # "VSETL" /\ i.op \in Opcodes
  BY DEF VectorOps, LaneOps
<1>2. j.op = i.op /\ j.vl = i.vl /\ Capacity(j) = Capacity(i) /\ OutputWidth(j) = OutputWidth(i) /\ Active(w, j) = Active(u, i)
  BY <1>1, SameShapes, SameActive
<1>3. CASE i.vl > Capacity(i)
  BY <1>1, <1>2, <1>3, ExecuteIs, InvalidIsFault DEF Refuse
<1>4. CASE ~(i.vl > Capacity(i))
  <2> DEFINE checks == IF i.op \in LoadOps THEN Checks(u, i) ELSE << >>
  <2>1. Execute(u, i) = MakeVector(u, i) /\ Execute(w, j) = MakeVector(w, j)
    BY <1>1, <1>2, <1>4, ExecuteIs
  <2>2. i.op \in LoadOps => Checks(w, j) = Checks(u, i)
    BY SameChecks
  <2>3. MakeVector(w, j) = IF FirstFault(checks) # << >> THEN Refuse(w, FirstFault(checks)[1])
                           ELSE Finish([w EXCEPT !.vectors[j.vd] = Output(w, j, checks)])
    BY <1>2, <2>2 DEF MakeVector
  <2>4. MakeVector(u, i) = IF FirstFault(checks) # << >> THEN Refuse(u, FirstFault(checks)[1])
                           ELSE Finish([u EXCEPT !.vectors[i.vd] = Output(u, i, checks)])
    BY DEF MakeVector
  <2>5. Fits(u, i)
    BY <1>1, <1>4 DEF Fits
  <2>6. CASE FirstFault(checks) # << >>
    <3>1. i.op \in LoadOps
      BY <2>6 DEF FirstFault
    <3>2. FirstFault(checks)[1] \in Faults
      BY <2>5, <2>6, <3>1, ChecksOutcome
    <3> HIDE DEF checks
    <3> QED
      BY <2>1, <2>3, <2>4, <2>6, <3>2 DEF Refuse, Faults
  <2>7. CASE FirstFault(checks) = << >>
    <3>1. Checked(u, i, checks)
      BY <2>5, <2>7 DEF Checked
    <3> HIDE DEF checks
    <3>2. Writable(u, i, checks)
      BY <3>1, OutputFits
    <3>3. Kept(w, j) = Kept(u, i)
      <4>1. Has(i, "policy") /\ j.policy = i.policy
        BY VectorOperands DEF SameSources, Has
      <4> QED
        BY <1>2, <4>1 DEF Kept
    <3>4. \A k \in Active(u, i) : LaneValue(w, j, k, checks) = LaneValue(u, i, k, checks)
      BY SameLaneValue
    <3>5. Writable(w, j, checks)
      BY <1>2, <3>2, <3>3, <3>4 DEF Writable
    <3>6. \A b : OutputByte(w, j, checks, b) = OutputByte(u, i, checks, b)
      BY <1>2, <3>3, <3>4 DEF OutputByte
    <3>7. Output(u, i, checks) \in Vectors /\ \A b \in AllLanes : Output(u, i, checks)[b] = OutputByte(u, i, checks, b)
      BY <3>2, OutputIs
    <3>8. Output(w, j, checks) \in Vectors /\ \A b \in AllLanes : Output(w, j, checks)[b] = OutputByte(w, j, checks, b)
      BY <3>5, OutputIs
    <3>9. Output(w, j, checks) = Output(u, i, checks)
      <4> DEFINE x == Output(u, i, checks)
                 y == Output(w, j, checks)
      <4>1. \A b \in AllLanes : x[b] = y[b]
        BY <3>6, <3>7, <3>8
      <4>2. x \in [AllLanes -> Bytes] /\ y \in [AllLanes -> Bytes]
        BY <3>7, <3>8 DEF Vectors
      <4> HIDE DEF x, y
      <4>3. x = y
        BY <4>1, <4>2
      <4> QED
        BY <4>3 DEF x, y
    <3> QED
      BY <2>1, <2>3, <2>4, <2>7, <3>7, <3>9
  <2> QED
    BY <2>6, <2>7
<1> QED
  BY <1>3, <1>4

LEMMA MaskRoles ==
    ASSUME NEW op
    PROVE  /\ op \in {"PLD", "PST"} => {"base", "offset"} \subseteq Operands(op)
           /\ op = "PWHILELT" => {"base", "end"} \subseteq Operands(op)
           /\ op \in {"PAND", "POR", "PXOR", "PNOT", "PST"} => "pa" \in Operands(op)
           /\ op \in {"PAND", "POR", "PXOR"} => "pb" \in Operands(op)
BY DEF Operands, BinaryOps, BitOps, CompareOps, ReduceOps, MaskOps, LoadOps, StoreOps, Result, Masked, Memory

(* Two instructions fault alike or make the same mask.                      *)
SelectAlike(u, i, w, j) ==
     \/ /\ Execute(u, i).unit = u /\ Execute(w, j).unit = w
        /\ Execute(u, i).outcome = Execute(w, j).outcome /\ Execute(u, i).outcome.kind = "fault"
     \/ \E mask \in SUBSET AllLanes : /\ Execute(u, i) = Finish([u EXCEPT !.predicates[i.pd] = mask])
                                      /\ Execute(w, j) = Finish([w EXCEPT !.predicates[j.pd] = mask])

LEMMA SameMask ==
    ASSUME NEW u, NEW w, NEW i, NEW j, u \in Units, IsInstruction(i), i.op \in MaskOps \cup CompareOps,
           SameRegisters(u, w), SameSources(i, j), i.op = "PLD" => w.scratchpad = u.scratchpad \/ i.vl = 0
    PROVE  SelectAlike(u, i, w, j)
<1> SUFFICES \/ /\ Execute(u, i).unit = u /\ Execute(w, j).unit = w
                /\ Execute(u, i).outcome = Execute(w, j).outcome /\ Execute(u, i).outcome.kind = "fault"
             \/ \E mask \in SUBSET AllLanes : /\ Execute(u, i) = Finish([u EXCEPT !.predicates[i.pd] = mask])
                                              /\ Execute(w, j) = Finish([w EXCEPT !.predicates[j.pd] = mask])
  BY DEF SelectAlike
<1>1. i.op # "VSETL" /\ i.op \in Opcodes
  BY DEF MaskOps, CompareOps, Opcodes
<1>2. j.op = i.op /\ j.vl = i.vl /\ Capacity(j) = Capacity(i) /\ Active(w, j) = Active(u, i) /\ Lanes(j) = Lanes(i) /\ Size(j) = Size(i)
  BY <1>1, SameShapes, SameActive
<1>3. CASE i.vl > Capacity(i)
  BY <1>1, <1>2, <1>3, ExecuteIs, InvalidIsFault DEF Refuse
<1>4. CASE ~(i.vl > Capacity(i)) /\ i.op \in CompareOps
  <2> DEFINE mask == {k \in Active(u, i) : Holds(i.op, Element(u, i.va, k, Size(i)), Element(u, i.vb, k, Size(i)), i.type)}
  <2>1. Execute(u, i) = Compare(u, i) /\ Execute(w, j) = Compare(w, j)
    BY <1>1, <1>2, <1>4, ExecuteIs
  <2>2. Has(i, "va") /\ Has(i, "vb") /\ Has(i, "type") /\ i.va \in VectorRegisters /\ i.vb \in VectorRegisters
    <3>1. i.op \in LaneOps
      BY <1>1, <1>4 DEF LaneOps, CompareOps, MaskOps
    <3> QED
      BY <1>4, <3>1, SourceRoles, OperandNamed, OtherOperands, LaneOperands
  <2>3. j.va = i.va /\ j.vb = i.vb /\ j.type = i.type
    BY <2>2 DEF SameSources, Has
  <2>4. \A k, size : Element(w, i.va, k, size) = Element(u, i.va, k, size) /\ Element(w, i.vb, k, size) = Element(u, i.vb, k, size)
    BY <2>2, SameElement
  <2>5. Compare(w, j) = Finish([w EXCEPT !.predicates[j.pd] = mask])
    <3> DEFINE same == {k \in Active(w, j) : Holds(j.op, Element(w, j.va, k, Size(j)), Element(w, j.vb, k, Size(j)), j.type)}
    <3>1. Compare(w, j) = Finish([w EXCEPT !.predicates[j.pd] = same])
      BY DEF Compare
    <3>2. \A k : /\ Element(w, j.va, k, Size(j)) = Element(u, i.va, k, Size(i))
                /\ Element(w, j.vb, k, Size(j)) = Element(u, i.vb, k, Size(i))
      BY <1>2, <2>3, <2>4
    <3>3. same = mask
      BY <1>2, <2>3, <3>2
    <3> HIDE DEF same, mask
    <3> QED
      BY <3>1, <3>3
  <2>6. Compare(u, i) = Finish([u EXCEPT !.predicates[i.pd] = mask])
    BY DEF Compare
  <2>7. mask \in SUBSET AllLanes
    <3>1. Fits(u, i)
      BY <1>1, <1>4 DEF Fits
    <3> QED
      BY <3>1, ActiveRange, LanesInRegister
  <2> HIDE DEF mask
  <2> QED
    BY <2>1, <2>5, <2>6, <2>7
<1>5. CASE ~(i.vl > Capacity(i)) /\ i.op \in MaskOps
  <2>1. Execute(u, i) = MakeMask(u, i) /\ Execute(w, j) = MakeMask(w, j)
    BY <1>1, <1>2, <1>5, ExecuteIs
  <2>2. \A r \in {"base", "offset", "end", "pa", "pb"} : Has(i, r) => j[r] = i[r]
    BY DEF SameSources, Has
  <2>3. /\ i.op = "PLD" => Has(i, "base") /\ Has(i, "offset")
        /\ i.op = "PWHILELT" => Has(i, "base") /\ Has(i, "end")
        /\ i.op \in {"PAND", "POR", "PXOR", "PNOT"} => Has(i, "pa")
        /\ i.op \in {"PAND", "POR", "PXOR"} => Has(i, "pb")
    BY MaskRoles, OperandNamed
  <2> DEFINE address == LocalAddress(i.base + i.offset, Packed(i.vl), FALSE, 1)
             other == LocalAddress(j.base + j.offset, Packed(j.vl), FALSE, 1)
             mask == MaskValue(u, i, address.at)
  <2>4. i.op = "PLD" => other = address
    BY <1>2, <2>2, <2>3
  <2>5. /\ i.op \in {"PAND", "POR", "PXOR", "PNOT"} => w.predicates[j.pa] = u.predicates[i.pa]
        /\ i.op \in {"PAND", "POR", "PXOR"} => w.predicates[j.pb] = u.predicates[i.pb]
    BY <1>5, <2>2, <2>3, MaskOperands DEF SameRegisters
  <2>6. MaskValue(w, j, other.at) = mask
    <3> HIDE DEF address, other
    <3>1. CASE i.op = "PTRUE"
      BY <1>2, <3>1 DEF MaskValue, mask
    <3>2. CASE i.op = "PWHILELT"
      BY <1>2, <2>2, <2>3, <3>2 DEF MaskValue, mask, While
    <3>3. CASE i.op \in {"PAND", "POR", "PXOR"}
      BY <1>2, <2>5, <3>3 DEF MaskValue, mask
    <3>4. CASE i.op = "PNOT"
      BY <1>2, <2>5, <3>4 DEF MaskValue, mask
    <3>5. CASE i.op = "PLD"
      <4>1. i.vl = 0 => Lanes(i) = {}
        BY DEF Lanes
      <4> QED
        BY <1>2, <1>5, <2>4, <3>5, <4>1 DEF MaskValue, mask
    <3> QED
      BY <1>5, <3>1, <3>2, <3>3, <3>4, <3>5 DEF MaskOps
  <2>7. Fits(u, i)
    BY <1>1, <1>5 DEF Fits
  <2>8. mask \in SUBSET AllLanes
    <3>1. mask \subseteq Lanes(i)
      BY <1>5 DEF MaskValue, MaskOps, While
    <3> QED
      BY <2>7, <3>1, LanesInRegister
  <2>9. CASE i.op = "PLD" /\ i.vl # 0 /\ address.kind = "fault"
    <3>1. MakeMask(u, i) = Refuse(u, address)
      BY <2>9 DEF MakeMask
    <3>2. MakeMask(w, j) = Refuse(w, other)
      BY <1>2, <2>4, <2>9 DEF MakeMask
    <3> HIDE DEF address, other
    <3> QED
      BY <2>1, <2>4, <2>9, <3>1, <3>2 DEF Refuse
  <2>10. CASE ~(i.op = "PLD" /\ i.vl # 0 /\ address.kind = "fault")
    <3>1. MakeMask(u, i) = Finish([u EXCEPT !.predicates[i.pd] = mask])
      BY <2>10 DEF MakeMask
    <3>2. MakeMask(w, j) = Finish([w EXCEPT !.predicates[j.pd] = MaskValue(w, j, other.at)])
      BY <1>2, <2>4, <2>10 DEF MakeMask
    <3> HIDE DEF address, other, mask
    <3> QED
      BY <2>1, <2>6, <2>8, <3>1, <3>2
  <2> QED
    BY <2>9, <2>10
<1> QED
  BY <1>3, <1>4, <1>5

LEMMA CapturedVector ==
    ASSUME NEW u \in Units, NEW i, IsInstruction(i), Has(i, "vd")
    PROVE  Execute([u EXCEPT !.vectors = WithCopy(@, i.vd, -1)], [i EXCEPT !["vd"] = -1]).unit.vectors[-1]
             = Execute(u, i).unit.vectors[i.vd]
<1> DEFINE w == [u EXCEPT !.vectors = WithCopy(@, i.vd, -1)]
           j == [i EXCEPT !["vd"] = -1]
<1>1. i.op \in VectorOps /\ i.vd \in VectorRegisters /\ VectorRegisters \subseteq Nat
  BY DestinationOps, VectorOperands, VectorAssumption DEF VectorAssumption
<1>2. u.vectors \in [VectorRegisters -> Vectors] /\ DOMAIN u = {"vectors", "predicates", "scratchpad"}
  BY DEF Units
<1>3. /\ w.vectors = WithCopy(u.vectors, i.vd, -1)
      /\ w.predicates = u.predicates /\ w.scratchpad = u.scratchpad /\ DOMAIN w = {"vectors", "predicates", "scratchpad"}
  BY <1>2
<1>4. DOMAIN w.vectors = VectorRegisters \cup {-1} /\ w.vectors[-1] = u.vectors[i.vd]
      /\ \A v \in VectorRegisters : w.vectors[v] = u.vectors[v]
  <2> HIDE DEF w, j
  <2>1. DOMAIN WithCopy(u.vectors, i.vd, -1) = VectorRegisters \cup {-1}
        /\ WithCopy(u.vectors, i.vd, -1)[-1] = u.vectors[i.vd]
        /\ \A v \in VectorRegisters : WithCopy(u.vectors, i.vd, -1)[v] = u.vectors[v]
    BY <1>1, <1>2 DEF WithCopy
  <2> QED
    BY <1>3, <2>1
<1>5. DOMAIN j = DOMAIN i /\ j.vd = -1 /\ \A r \in DOMAIN i : r # "vd" => j[r] = i[r]
  BY DEF Has
<1> HIDE DEF w, j
<1>6. SameRegisters(u, w) /\ SameSources(i, j) /\ w.vectors[j.vd] = u.vectors[i.vd]
  BY <1>3, <1>4, <1>5 DEF SameRegisters, SameSources
<1>7. \/ /\ Execute(u, i).unit = u /\ Execute(w, j).unit = w
         /\ Execute(u, i).outcome = Execute(w, j).outcome /\ Execute(u, i).outcome.kind = "fault"
      \/ \E value \in Vectors : /\ Execute(u, i) = Finish([u EXCEPT !.vectors[i.vd] = value])
                                /\ Execute(w, j) = Finish([w EXCEPT !.vectors[j.vd] = value])
  <2>1. u \in Units /\ IsInstruction(i) /\ i.op \in VectorOps /\ (i.op \in LoadOps => w.scratchpad = u.scratchpad \/ Active(u, i) = {})
    BY <1>1, <1>3
  <2>2. MadeAlike(u, i, w, j)
    BY <2>1, <1>6, SameVector, Zenon
  <2> QED
    BY <2>2 DEF MadeAlike
<1>8. CASE Execute(u, i).unit = u /\ Execute(w, j).unit = w
  BY <1>4, <1>8 DEF w, j
<1>9. ASSUME NEW value \in Vectors, Execute(u, i) = Finish([u EXCEPT !.vectors[i.vd] = value]),
             Execute(w, j) = Finish([w EXCEPT !.vectors[j.vd] = value])
      PROVE  Execute(w, j).unit.vectors[-1] = Execute(u, i).unit.vectors[i.vd]
  <2>1. Execute(u, i).unit.vectors[i.vd] = value
    BY <1>1, <1>2, <1>9 DEF Finish
  <2>2. Execute(w, j).unit.vectors[-1] = value
    BY <1>3, <1>4, <1>5, <1>9 DEF Finish
  <2> QED
    BY <2>1, <2>2
<1> QED
  BY <1>7, <1>8, <1>9 DEF w, j

LEMMA CapturedMask ==
    ASSUME NEW u \in Units, NEW i, IsInstruction(i), Has(i, "pd")
    PROVE  Execute([u EXCEPT !.predicates = WithCopy(@, i.pd, -1)], [i EXCEPT !["pd"] = -1]).unit.predicates[-1]
             = Execute(u, i).unit.predicates[i.pd]
<1> DEFINE w == [u EXCEPT !.predicates = WithCopy(@, i.pd, -1)]
           j == [i EXCEPT !["pd"] = -1]
<1>1. i.op \in MaskOps \cup CompareOps /\ i.pd \in PredicateRegisters /\ PredicateRegisters \subseteq Nat
  BY DestinationOps, MaskOperands, OtherOperands, VectorAssumption DEF VectorAssumption
<1>2. u.predicates \in [PredicateRegisters -> SUBSET AllLanes] /\ DOMAIN u = {"vectors", "predicates", "scratchpad"}
  BY DEF Units
<1>3. /\ w.predicates = WithCopy(u.predicates, i.pd, -1)
      /\ w.vectors = u.vectors /\ w.scratchpad = u.scratchpad /\ DOMAIN w = {"vectors", "predicates", "scratchpad"}
  BY <1>2
<1>4. DOMAIN w.predicates = PredicateRegisters \cup {-1} /\ w.predicates[-1] = u.predicates[i.pd]
      /\ \A p \in PredicateRegisters : w.predicates[p] = u.predicates[p]
  <2> HIDE DEF w, j
  <2>1. DOMAIN WithCopy(u.predicates, i.pd, -1) = PredicateRegisters \cup {-1}
        /\ WithCopy(u.predicates, i.pd, -1)[-1] = u.predicates[i.pd]
        /\ \A p \in PredicateRegisters : WithCopy(u.predicates, i.pd, -1)[p] = u.predicates[p]
    BY <1>1, <1>2 DEF WithCopy
  <2> QED
    BY <1>3, <2>1
<1>5. DOMAIN j = DOMAIN i /\ j.pd = -1 /\ \A r \in DOMAIN i : r # "pd" => j[r] = i[r]
  BY DEF Has
<1> HIDE DEF w, j
<1>6. SameRegisters(u, w) /\ SameSources(i, j)
  BY <1>3, <1>4, <1>5 DEF SameRegisters, SameSources
<1>7. \/ /\ Execute(u, i).unit = u /\ Execute(w, j).unit = w
         /\ Execute(u, i).outcome = Execute(w, j).outcome /\ Execute(u, i).outcome.kind = "fault"
      \/ \E mask \in SUBSET AllLanes : /\ Execute(u, i) = Finish([u EXCEPT !.predicates[i.pd] = mask])
                                       /\ Execute(w, j) = Finish([w EXCEPT !.predicates[j.pd] = mask])
  <2>1. u \in Units /\ IsInstruction(i) /\ i.op \in MaskOps \cup CompareOps /\ (i.op = "PLD" => w.scratchpad = u.scratchpad \/ i.vl = 0)
    BY <1>1, <1>3
  <2>2. SelectAlike(u, i, w, j)
    BY <2>1, <1>6, SameMask, Zenon
  <2> QED
    BY <2>2 DEF SelectAlike
<1>8. CASE Execute(u, i).unit = u /\ Execute(w, j).unit = w
  BY <1>4, <1>8 DEF w, j
<1>9. ASSUME NEW mask \in SUBSET AllLanes, Execute(u, i) = Finish([u EXCEPT !.predicates[i.pd] = mask]),
             Execute(w, j) = Finish([w EXCEPT !.predicates[j.pd] = mask])
      PROVE  Execute(w, j).unit.predicates[-1] = Execute(u, i).unit.predicates[i.pd]
  <2>1. Execute(u, i).unit.predicates[i.pd] = mask
    BY <1>1, <1>2, <1>9 DEF Finish
  <2>2. Execute(w, j).unit.predicates[-1] = mask
    BY <1>3, <1>4, <1>5, <1>9 DEF Finish
  <2> QED
    BY <2>1, <2>2
<1> QED
  BY <1>7, <1>8, <1>9 DEF w, j

(* What a step is, of the instruction it names itself.                      *)
LEMMA StepExecutes ==
    ASSUME TypeOK, Next
    PROVE  /\ executed' \in Repertoire /\ IsInstruction(executed') /\ unit \in Units
           /\ unit' = Execute(unit, executed').unit /\ outcome' = Execute(unit, executed').outcome
<1>1. PICK i \in Repertoire : /\ IsInstruction(i) /\ executed' = i /\ unit \in Units
                              /\ unit' = Execute(unit, i).unit /\ outcome' = Execute(unit, i).outcome
  BY StepIs
<1> QED
  BY <1>1

(* Whatever registers an instruction names twice, every register, mask and  *)
(* address it uses is the one before any of its writes (execute_npu).       *)
THEOREM SourcesBeforeWrites == Spec => SourcesAreCaptured
<1>1. TypeOK /\ [Next]_vars => [ResultsComeApart]_vars
  <2> SUFFICES ASSUME TypeOK, Next PROVE ResultsComeApart
    OBVIOUS
  <2> DEFINE i == executed'
  <2>1. IsInstruction(i) /\ unit \in Units /\ unit' = Execute(unit, i).unit
    BY StepExecutes
  <2> HIDE DEF i
  <2>2. Has(i, "vd") => Execute([unit EXCEPT !.vectors = WithCopy(@, i.vd, -1)], [i EXCEPT !["vd"] = -1]).unit.vectors[-1]
                          = unit'.vectors[i.vd]
    BY <2>1, CapturedVector
  <2>3. Has(i, "pd") => Execute([unit EXCEPT !.predicates = WithCopy(@, i.pd, -1)], [i EXCEPT !["pd"] = -1]).unit.predicates[-1]
                          = unit'.predicates[i.pd]
    BY <2>1, CapturedMask
  <2> QED
    BY <2>2, <2>3 DEF ResultsComeApart, i
<1> QED
  BY <1>1, TypesHold, PTL DEF Spec, SourcesAreCaptured

-----------------------------------------------------------------------------
(* Accesses are judged exactly                                              *)

LEMMA AccessOutcome ==
    ASSUME NEW u \in Units, NEW i, IsInstruction(i), i.op \in LoadOps \cup StoreOps
    PROVE  /\ i.op # "VSETL" /\ i.vl \in Nat /\ Selected(u, i) = Active(u, i)
           /\ i.vl > Capacity(i) => Execute(u, i).outcome = Invalid
           /\ ~(i.vl > Capacity(i)) => /\ Fits(u, i)
                                       /\ FirstFault(Checks(u, i)) = << >> => Execute(u, i).outcome = Done
                                       /\ FirstFault(Checks(u, i)) # << >> => Execute(u, i).outcome = FirstFault(Checks(u, i))[1]
<1>1. i.op # "VSETL" /\ i.op \in Opcodes /\ i.vl \in Nat
  BY LengthOperand DEF LoadOps, StoreOps, Opcodes
<1>2. Selected(u, i) = Active(u, i)
  BY MemoryOperands, LaneOperands DEF Selected, Active
<1>3. i.vl > Capacity(i) => Execute(u, i).outcome = Invalid
  BY <1>1, ExecuteIs DEF Refuse
<1>4. ASSUME ~(i.vl > Capacity(i))
      PROVE  /\ Fits(u, i)
             /\ FirstFault(Checks(u, i)) = << >> => Execute(u, i).outcome = Done
             /\ FirstFault(Checks(u, i)) # << >> => Execute(u, i).outcome = FirstFault(Checks(u, i))[1]
  <2>1. Fits(u, i)
    BY <1>1, <1>4 DEF Fits
  <2>2. i.op \in StoreOps => Execute(u, i) = StoreLanes(u, i)
    BY <1>1, <1>4, ExecuteIs
  <2>3. i.op \in LoadOps => Execute(u, i) = MakeVector(u, i)
    <3>1. i.op \in LoadOps => i.op \in VectorOps
      BY DEF VectorOps, LaneOps, Opcodes, LoadOps, StoreOps, CompareOps, ReduceOps, MaskOps
    <3> QED
      BY <1>1, <1>4, <3>1, ExecuteIs
  <2>4. i.op \in StoreOps => /\ FirstFault(Checks(u, i)) = << >> => StoreLanes(u, i).outcome = Done
                             /\ FirstFault(Checks(u, i)) # << >> => StoreLanes(u, i).outcome = FirstFault(Checks(u, i))[1]
    BY DEF StoreLanes, Finish, Refuse
  <2>5. i.op \in LoadOps => /\ FirstFault(Checks(u, i)) = << >> => MakeVector(u, i).outcome = Done
                            /\ FirstFault(Checks(u, i)) # << >> => MakeVector(u, i).outcome = FirstFault(Checks(u, i))[1]
    BY DEF MakeVector, Finish, Refuse
  <2> QED
    BY <2>1, <2>2, <2>3, <2>4, <2>5
<1> QED
  BY <1>1, <1>2, <1>3, <1>4

LEMMA AccessesFit ==
    ASSUME NEW u \in Units, NEW i, IsInstruction(i), i.op \in LoadOps \cup StoreOps, Execute(u, i).outcome # Invalid
    PROVE  (Execute(u, i).outcome = Done)
             = (\A k \in Selected(u, i) : Held(EffectiveAddress(u, i, k), Size(i), i.op \in StoreOps))
<1> DEFINE checks == Checks(u, i)
<1>1. /\ Fits(u, i) /\ i.vl \in Nat /\ Selected(u, i) = Active(u, i)
      /\ FirstFault(checks) = << >> => Execute(u, i).outcome = Done
      /\ FirstFault(checks) # << >> => Execute(u, i).outcome = FirstFault(checks)[1]
  BY AccessOutcome
<1>2. FirstFault(checks) # << >> => FirstFault(checks)[1] \in Faults
  BY <1>1, ChecksOutcome
<1>3. (Execute(u, i).outcome = Done) <=> (FirstFault(checks) = << >>)
  BY <1>1, <1>2 DEF Faults, Done
<1>4. (FirstFault(checks) = << >>) <=> \A k \in 1 .. i.vl : checks[k].kind # "fault"
  BY <1>1, ChecksDomain, NoFirstFault
<1>5. \A k \in 1 .. i.vl : (checks[k].kind # "fault")
        <=> (k - 1 \in Active(u, i) => Held(EffectiveAddress(u, i, k - 1), Size(i), IsStore(i)))
  <2> TAKE k \in 1 .. i.vl
  <2> DEFINE address == EffectiveAddress(u, i, k - 1)
  <2>1. /\ k - 1 \in Active(u, i) => checks[k] = LocalAddress(address, Size(i), IsStore(i), Size(i))
        /\ k - 1 \notin Active(u, i) => checks[k].kind = "none"
    BY <1>1, CheckOf
  <2>2. k - 1 \in Lanes(i)
    BY <1>1 DEF Lanes
  <2>3. address \in Int /\ Size(i) \in {1, 2, 4} /\ IsStore(i) \in BOOLEAN
    BY <1>1, <2>2, EffectiveAddressRange, SizeRange DEF IsStore
  <2> HIDE DEF address, checks
  <2>4. (LocalAddress(address, Size(i), IsStore(i), Size(i)).kind = "fault") <=> ~Held(address, Size(i), IsStore(i))
    BY <2>3, LocalAddressExact
  <2> QED
    BY <2>1, <2>4 DEF address
<1> HIDE DEF checks
<1>6. \A k \in Active(u, i) : k + 1 \in 1 .. i.vl /\ (k + 1) - 1 = k
  BY <1>1, ActiveRange DEF Lanes
<1>7. (\A k \in 1 .. i.vl : checks[k].kind # "fault")
        <=> (\A k \in Active(u, i) : Held(EffectiveAddress(u, i, k), Size(i), IsStore(i)))
  <2>1. ASSUME \A k \in 1 .. i.vl : checks[k].kind # "fault", NEW k \in Active(u, i)
        PROVE  Held(EffectiveAddress(u, i, k), Size(i), IsStore(i))
    <3>1. k + 1 \in 1 .. i.vl /\ (k + 1) - 1 = k
      BY <1>6
    <3>2. (k + 1) - 1 \in Active(u, i) => Held(EffectiveAddress(u, i, (k + 1) - 1), Size(i), IsStore(i))
      BY <1>5, <2>1, <3>1
    <3> QED
      BY <3>1, <3>2
  <2>2. ASSUME \A k \in Active(u, i) : Held(EffectiveAddress(u, i, k), Size(i), IsStore(i)), NEW k \in 1 .. i.vl
        PROVE  checks[k].kind # "fault"
    BY <1>5, <2>2
  <2> QED
    BY <2>1, <2>2
<1> QED
  BY <1>1, <1>3, <1>4, <1>7 DEF IsStore

(* An instruction with another value for one operand of no bearing on its   *)
(* shape.                                                                   *)
Differ(i, j, r) == DOMAIN j = DOMAIN i /\ \A q \in DOMAIN i : q # r => j[q] = i[q]

LEMMA DifferShapes ==
    ASSUME NEW i, IsInstruction(i), NEW r \in Operands(i.op), NEW j, Differ(i, j, r), j[r] \in Values(i.op, r),
           r \notin {"op", "type", "result_type", "indices"}
    PROVE  /\ IsInstruction(j) /\ j.op = i.op /\ Size(j) = Size(i) /\ Capacity(j) = Capacity(i)
           /\ \A q : (Has(j, q) <=> Has(i, q)) /\ (Has(i, q) /\ q # r => j[q] = i[q])
<1>1. DOMAIN j = DOMAIN i /\ \A q \in DOMAIN i : q # r => j[q] = i[q]
  BY DEF Differ
<1>2. j.op = i.op
  BY <1>1 DEF IsInstruction
<1>3. IsInstruction(j)
  BY <1>1, <1>2 DEF IsInstruction
<1>4. \A q : (Has(j, q) <=> Has(i, q)) /\ (Has(i, q) /\ q # r => j[q] = i[q])
  BY <1>1 DEF Has
<1>5. Size(j) = Size(i)
  BY <1>4 DEF Size
<1>6. {Width(j[q]) : q \in {"result_type"} \cap DOMAIN j} = {Width(i[q]) : q \in {"result_type"} \cap DOMAIN i}
      /\ {4 : q \in {"indices"} \cap DOMAIN j} = {4 : q \in {"indices"} \cap DOMAIN i}
  BY <1>1
<1>7. Capacity(j) = Capacity(i)
  BY <1>5, <1>6 DEF Capacity
<1> QED
  BY <1>2, <1>3, <1>4, <1>5, <1>7

(* The same instruction cut off at some lane.                               *)
LEMMA CutOff ==
    ASSUME NEW u, NEW i, Fits(u, i), NEW n \in 0 .. i.vl
    PROVE  LET j == [i EXCEPT !.vl = n]
           IN  /\ IsInstruction(j) /\ j.op = i.op /\ j.vl = n /\ Capacity(j) = Capacity(i) /\ Size(j) = Size(i)
               /\ \A q : (Has(j, q) <=> Has(i, q)) /\ (Has(i, q) /\ q # "vl" => j[q] = i[q])
               /\ \A k \in 1 .. n : (k - 1 \in Active(u, j)) <=> (k - 1 \in Active(u, i))
               /\ n \in Nat /\ ~(n > Capacity(i)) /\ Fits(u, j)
<1> DEFINE j == [i EXCEPT !.vl = n]
<1>1. Has(i, "vl") /\ i.vl \in Addresses /\ i.vl \in Nat /\ IsInstruction(i) /\ "vl" \in Operands(i.op)
  <2>1. Has(i, "vl") /\ i.vl \in Addresses /\ i.vl \in Nat /\ IsInstruction(i)
    BY LengthOperand DEF Fits
  <2> QED
    BY <2>1, OperandValue
<1>2. n \in Addresses /\ n \in Nat
  BY <1>1, AddressFacts
<1>3. j.vl = n /\ Differ(i, j, "vl")
  BY <1>1 DEF Has, Differ
<1> HIDE DEF j
<1>4. j["vl"] \in Values(i.op, "vl")
  BY <1>2, <1>3, RoleValues
<1>5. /\ IsInstruction(j) /\ j.op = i.op /\ Size(j) = Size(i) /\ Capacity(j) = Capacity(i)
      /\ \A q : (Has(j, q) <=> Has(i, q)) /\ (Has(i, q) /\ q # "vl" => j[q] = i[q])
  BY <1>1, <1>3, <1>4, DifferShapes
<1>6. \A k \in 1 .. n : (k - 1 \in Active(u, j)) <=> (k - 1 \in Active(u, i))
  <2>1. \A k \in 1 .. n : k - 1 \in Lanes(i) /\ k - 1 \in Lanes(j)
    BY <1>1, <1>2, <1>3 DEF Lanes
  <2> QED
    BY <1>5, <2>1 DEF Active
<1>7. ~(n > Capacity(i))
  BY <1>1, <1>2, CapacityIsLeast DEF Fits
<1>8. Fits(u, j)
  BY <1>3, <1>5, <1>7 DEF Fits
<1> QED
  BY <1>2, <1>3, <1>5, <1>6, <1>7, <1>8 DEF j

LEMMA Shortened ==
    ASSUME NEW u, NEW i, Fits(u, i), i.op \in LoadOps \cup StoreOps, NEW n \in 0 .. i.vl
    PROVE  LET j == [i EXCEPT !.vl = n]
           IN  /\ IsInstruction(j) /\ j.op = i.op /\ j.vl = n /\ Capacity(j) = Capacity(i) /\ Size(j) = Size(i)
               /\ \A k \in 1 .. n : Checks(u, j)[k] = Checks(u, i)[k]
<1> DEFINE j == [i EXCEPT !.vl = n]
<1>1. /\ IsInstruction(j) /\ j.op = i.op /\ j.vl = n /\ Capacity(j) = Capacity(i) /\ Size(j) = Size(i)
      /\ \A q : (Has(j, q) <=> Has(i, q)) /\ (Has(i, q) /\ q # "vl" => j[q] = i[q])
      /\ \A k \in 1 .. n : (k - 1 \in Active(u, j)) <=> (k - 1 \in Active(u, i))
      /\ n \in Nat
  BY CutOff
<1> HIDE DEF j
<1>2. \A k : EffectiveAddress(u, j, k) = EffectiveAddress(u, i, k)
  <2>1. Has(i, "base") /\ Has(i, "offset") /\ (Has(i, "indices") => Has(i, "scale"))
    <3>1. "base" \in Operands(i.op) /\ "offset" \in Operands(i.op)
      BY DEF Operands, BinaryOps, BitOps, CompareOps, ReduceOps, LoadOps, StoreOps, Result, Masked, Memory
    <3> QED
      BY <3>1, OperandNamed, MemoryOperands DEF Fits
  <2> QED
    BY <1>1, <2>1 DEF EffectiveAddress
<1>3. \A k \in 1 .. n : k \in 1 .. i.vl
  BY <1>1, LengthOperand DEF Fits
<1>4. \A k \in 1 .. n : Checks(u, j)[k] = Checks(u, i)[k]
  BY <1>1, <1>2, <1>3 DEF Checks
<1> QED
  BY <1>1, <1>4 DEF j

LEMMA FaultsAreOfAccesses ==
    ASSUME NEW u \in Units, NEW i, IsInstruction(i), Has(i, "pg"), Execute(u, i).outcome.kind = "fault", Execute(u, i).outcome # Invalid
    PROVE  i.op \in LoadOps \cup StoreOps
<1>1. i.op \in LaneOps /\ i.op \in Opcodes /\ i.op # "VSETL"
  BY MaskedOps DEF LaneOps
<1>2. ~(i.vl > Capacity(i))
  BY <1>1, ExecuteIs DEF Refuse
<1>3. CASE i.op \in ReduceOps
  <2>1. Fits(u, i)
    BY <1>1, <1>2 DEF Fits
  <2> QED
    BY <1>1, <1>2, <1>3, <2>1, ExecuteIs, ReduceFollows DEF Return, Write
<1>4. CASE i.op \in CompareOps
  BY <1>1, <1>2, <1>4, ExecuteIs DEF Compare, Finish, Done
<1>5. CASE i.op \in VectorOps \ LoadOps
  <2>1. FirstFault(<< >>) = << >>
    BY DEF FirstFault
  <2> QED
    BY <1>1, <1>2, <1>5, <2>1, ExecuteIs DEF MakeVector, Finish, Done
<1> QED
  BY <1>1, <1>3, <1>4, <1>5 DEF VectorOps

LEMMA FaultsNameTheFirst ==
    ASSUME NEW u \in Units, NEW i, IsInstruction(i), Has(i, "pg"), Execute(u, i).outcome.kind = "fault", Execute(u, i).outcome # Invalid
    PROVE  \E n \in Lanes(i) : /\ Execute(u, [i EXCEPT !.vl = n + 1]).outcome = Execute(u, i).outcome
                               /\ Execute(u, [i EXCEPT !.vl = n]).outcome.kind # "fault"
<1> DEFINE checks == Checks(u, i)
           upto(n) == [i EXCEPT !.vl = n]
<1>1. i.op \in LoadOps \cup StoreOps
  BY FaultsAreOfAccesses
<1>2. /\ Fits(u, i) /\ i.vl \in Nat
      /\ FirstFault(checks) = << >> => Execute(u, i).outcome = Done
      /\ FirstFault(checks) # << >> => Execute(u, i).outcome = FirstFault(checks)[1]
  BY <1>1, AccessOutcome
<1>3. DOMAIN checks = 1 .. i.vl /\ DOMAIN checks \subseteq Nat
  BY <1>2, ChecksDomain
<1>4. FirstFault(checks) # << >>
  BY <1>2 DEF Done
<1>5. PICK k \in DOMAIN checks : /\ checks[k].kind = "fault" /\ FirstFault(checks)[1] = checks[k]
                                 /\ \A j \in DOMAIN checks : checks[j].kind = "fault" => k <= j
  BY <1>3, <1>4, FirstFaultIsFirst
<1>6. k \in 1 .. i.vl /\ k \in Nat /\ k \in 0 .. i.vl /\ k - 1 \in 0 .. i.vl /\ k - 1 \in Lanes(i) /\ (k - 1) + 1 = k
  BY <1>2, <1>3, <1>5 DEF Lanes
<1>7. \A n \in 0 .. i.vl :
        /\ IsInstruction(upto(n)) /\ upto(n).op \in LoadOps \cup StoreOps /\ upto(n).vl = n /\ ~(n > Capacity(upto(n)))
        /\ \A m \in 1 .. n : Checks(u, upto(n))[m] = checks[m]
  <2> TAKE n \in 0 .. i.vl
  <2>1. /\ IsInstruction(upto(n)) /\ upto(n).op = i.op /\ upto(n).vl = n /\ Capacity(upto(n)) = Capacity(i)
        /\ \A m \in 1 .. n : Checks(u, upto(n))[m] = checks[m]
    BY <1>1, <1>2, Shortened
  <2>2. ~(n > Capacity(i))
    BY <1>2, CapacityIsLeast DEF Fits
  <2> QED
    BY <1>1, <2>1, <2>2
<1> HIDE DEF checks, upto
<1>8. \A n \in 0 .. i.vl : /\ FirstFault(Checks(u, upto(n))) = << >> => Execute(u, upto(n)).outcome = Done
                           /\ FirstFault(Checks(u, upto(n))) # << >> => Execute(u, upto(n)).outcome = FirstFault(Checks(u, upto(n)))[1]
                           /\ DOMAIN Checks(u, upto(n)) = 1 .. n /\ DOMAIN Checks(u, upto(n)) \subseteq Nat
  <2> TAKE n \in 0 .. i.vl
  <2>1. IsInstruction(upto(n)) /\ upto(n).op \in LoadOps \cup StoreOps /\ ~(upto(n).vl > Capacity(upto(n))) /\ upto(n).vl = n /\ n \in Nat
    BY <1>2, <1>7
  <2> QED
    BY <2>1, AccessOutcome, ChecksDomain
<1>9. Execute(u, upto(k)).outcome = Execute(u, i).outcome
  <2> DEFINE cut == Checks(u, upto(k))
  <2>1. DOMAIN cut = 1 .. k /\ DOMAIN cut \subseteq Nat /\ \A m \in 1 .. k : cut[m] = checks[m]
    BY <1>6, <1>7, <1>8
  <2> HIDE DEF cut
  <2>2. cut[k].kind = "fault" /\ k \in DOMAIN cut
    BY <1>5, <1>6, <2>1
  <2>3. FirstFault(cut) # << >>
    BY <2>2, NoFirstFault
  <2>4. PICK m \in DOMAIN cut : cut[m].kind = "fault" /\ FirstFault(cut)[1] = cut[m]
    BY <2>1, <2>3, FirstFaultIsFirst
  <2>5. m = k
    <3>1. m \in 1 .. k
      BY <2>1, <2>4
    <3>2. m \in 1 .. i.vl
      BY <1>2, <1>6, <3>1
    <3>3. m \in DOMAIN checks
      BY <1>3, <3>2
    <3> QED
      BY <1>5, <1>6, <2>1, <2>4, <3>1, <3>3
  <2>6. FirstFault(cut)[1] = checks[k]
    BY <2>1, <2>4, <2>5
  <2> QED
    BY <1>2, <1>4, <1>5, <1>6, <1>8, <2>3, <2>6 DEF cut
<1>10. Execute(u, upto(k - 1)).outcome.kind # "fault"
  <2> DEFINE cut == Checks(u, upto(k - 1))
  <2>1. DOMAIN cut = 1 .. k - 1 /\ \A m \in 1 .. k - 1 : cut[m] = checks[m]
    BY <1>6, <1>7, <1>8
  <2>2. \A m \in 1 .. k - 1 : m \in DOMAIN checks /\ ~(k <= m)
    BY <1>2, <1>3, <1>6
  <2>3. \A m \in DOMAIN cut : cut[m].kind # "fault"
    BY <1>5, <2>1, <2>2
  <2>4. FirstFault(cut) = << >>
    BY <2>3, NoFirstFault
  <2> QED
    BY <1>6, <1>8, <2>4 DEF Done
<1> QED
  BY <1>6, <1>9, <1>10 DEF upto

(* Accesses are preflighted exactly: they succeed where every active lane's *)
(* element is held, and otherwise the first lane's fault is the one named   *)
(* (the checks of execute_npu before its effects).                          *)
THEOREM AccessesJudgedExactly == Spec => AccessesAreExact
<1>1. TypeOK /\ [Next]_vars => [AccessesFitTheScratchpad /\ FaultsNameTheFirstBadLane]_vars
  <2> SUFFICES ASSUME TypeOK, Next PROVE AccessesFitTheScratchpad /\ FaultsNameTheFirstBadLane
    OBVIOUS
  <2> DEFINE i == executed'
  <2>1. IsInstruction(i) /\ unit \in Units /\ outcome' = Execute(unit, i).outcome
    BY StepExecutes
  <2> HIDE DEF i
  <2>2. i.op \in LoadOps \cup StoreOps /\ outcome' # Invalid =>
          (outcome' = Done) = (\A k \in Selected(unit, i) : Held(EffectiveAddress(unit, i, k), Size(i), i.op \in StoreOps))
    BY <2>1, AccessesFit
  <2>3. outcome'.kind = "fault" /\ outcome' # Invalid /\ Has(i, "pg") =>
          \E n \in Lanes(i) : /\ Execute(unit, [i EXCEPT !.vl = n + 1]).outcome = outcome'
                              /\ Execute(unit, [i EXCEPT !.vl = n]).outcome.kind # "fault"
    BY <2>1, FaultsNameTheFirst
  <2> QED
    BY <2>2, <2>3 DEF AccessesFitTheScratchpad, FaultsNameTheFirstBadLane, i
<1> QED
  BY <1>1, TypesHold, PTL DEF Spec, AccessesAreExact

-----------------------------------------------------------------------------
(* Lanes take effect in increasing order                                    *)

(* A byte along a store: the last of the writers so far, or as it was.      *)
LEMMA StoringResolves ==
    ASSUME NEW u \in Units, NEW i, i.va \in VectorRegisters, NEW checks, Placed(u, i, checks),
           \A k \in 1 .. i.vl : (k - 1 \in Active(u, i)) <=> (checks[k].kind = "local"),
           NEW f, Storing(f, u, i, checks), NEW b \in 0 .. ScratchpadBytes - 1,
           NEW writers, writers = {k \in Active(u, i) : b \in checks[k + 1].at .. checks[k + 1].at + Size(i) - 1}
    PROVE  /\ writers = {} => f[i.vl][b] = u.scratchpad[b]
           /\ \A k \in writers : (\A j \in writers : j <= k) =>
                f[i.vl][b] = u.vectors[i.va][k * Size(i) + b - checks[k + 1].at]
<1> DEFINE value(k) == u.vectors[i.va][k * Size(i) + b - checks[k + 1].at]
           T == {m \in 0 .. i.vl :
                   /\ (\A k \in writers : k >= m) => f[m][b] = u.scratchpad[b]
                   /\ \A k \in writers : k < m /\ (\A j \in writers : j < m => j <= k) => f[m][b] = value(k)}
<1>1. i.vl \in Nat /\ Active(u, i) \subseteq 0 .. i.vl - 1 /\ writers \subseteq Active(u, i)
  BY ActiveRange DEF Placed, Lanes
<1>2. \A k \in writers : k \in Nat /\ k < i.vl
  BY <1>1
<1>3. 0 \in T
  BY <1>1, <1>2 DEF Storing
<1>4. ASSUME NEW m \in 1 .. i.vl, m - 1 \in T PROVE m \in T
  <2>1. f[m] = StoredLane(f[m - 1], u, i, checks, m) /\ f[m - 1] \in Scratchpads
    BY <1>1 DEF Storing
  <2>2. f[m][b] = IF m - 1 \in Active(u, i) /\ checks[m].kind = "local" /\ b \in checks[m].at .. checks[m].at + Size(i) - 1
                  THEN u.vectors[i.va][(m - 1) * Size(i) + b - checks[m].at] ELSE f[m - 1][b]
    BY <2>1, StoredLaneRange
  <2>3. m - 1 \in writers <=> m - 1 \in Active(u, i) /\ checks[m].kind = "local" /\ b \in checks[m].at .. checks[m].at + Size(i) - 1
    <3>1. (m - 1) + 1 = m
      BY <1>1
    <3> QED
      BY <3>1
  <2>4. f[m][b] = IF m - 1 \in writers THEN value(m - 1) ELSE f[m - 1][b]
    <3>1. (m - 1) + 1 = m
      BY <1>1
    <3> QED
      BY <2>2, <2>3, <3>1
  <2> HIDE DEF value
  <2>5. m \in Nat /\ m \in 0 .. i.vl
    BY <1>1
  <2>6. /\ (\A k \in writers : k >= m - 1) => f[m - 1][b] = u.scratchpad[b]
        /\ \A k \in writers : k < m - 1 /\ (\A j \in writers : j < m - 1 => j <= k) => f[m - 1][b] = value(k)
    BY <1>4
  <2>7. ASSUME \A k \in writers : k >= m PROVE f[m][b] = u.scratchpad[b]
    <3>1. m - 1 \notin writers /\ \A k \in writers : k >= m - 1
      BY <1>2, <2>5, <2>7
    <3> QED
      BY <2>4, <2>6, <3>1
  <2>8. ASSUME NEW k \in writers, k < m, \A j \in writers : j < m => j <= k PROVE f[m][b] = value(k)
    <3>1. CASE m - 1 \in writers
      <4>1. k = m - 1
        BY <1>2, <2>5, <2>8, <3>1
      <4> QED
        BY <2>4, <3>1, <4>1
    <3>2. CASE m - 1 \notin writers
      <4>1. k < m - 1 /\ \A j \in writers : j < m - 1 => j <= k
        <5>1. k # m - 1
          BY <3>2
        <5> QED
          BY <1>2, <2>5, <2>8, <5>1
      <4> QED
        BY <2>4, <2>6, <3>2, <4>1
    <3> QED
      BY <3>1, <3>2
  <2> QED
    BY <2>5, <2>7, <2>8
<1>5. \A m \in 0 .. i.vl : m \in T
  <2> HIDE DEF T
  <2> QED
    BY <1>1, <1>3, <1>4, RangeInduction
<1>6. i.vl \in T
  BY <1>1, <1>5
<1> QED
  BY <1>2, <1>6

LEMMA StoresResolve ==
    ASSUME NEW u \in Units, NEW i, IsInstruction(i), i.op \in StoreOps, Execute(u, i).outcome = Done
    PROVE  LET at(k) == LocalAddress(EffectiveAddress(u, i, k), Size(i), TRUE, Size(i)).at
               writers(b) == {k \in Selected(u, i) : b \in at(k) .. at(k) + Size(i) - 1}
               last(b) == CHOOSE k \in writers(b) : \A j \in writers(b) : j <= k
           IN  \A b \in DOMAIN u.scratchpad :
                 Execute(u, i).unit.scratchpad[b] =
                    IF writers(b) = {} THEN u.scratchpad[b] ELSE u.vectors[i.va][last(b) * Size(i) + b - at(last(b))]
<1> DEFINE at(k) == LocalAddress(EffectiveAddress(u, i, k), Size(i), TRUE, Size(i)).at
           writers(b) == {k \in Selected(u, i) : b \in at(k) .. at(k) + Size(i) - 1}
           last(b) == CHOOSE k \in writers(b) : \A j \in writers(b) : j <= k
           checks == Checks(u, i)
           covering(b) == {k \in Active(u, i) : b \in checks[k + 1].at .. checks[k + 1].at + Size(i) - 1}
<1>1. /\ i.op # "VSETL" /\ i.vl \in Nat /\ Selected(u, i) = Active(u, i)
      /\ i.vl > Capacity(i) => Execute(u, i).outcome = Invalid
      /\ ~(i.vl > Capacity(i)) => /\ Fits(u, i)
                                  /\ FirstFault(checks) # << >> => Execute(u, i).outcome = FirstFault(checks)[1]
  BY AccessOutcome
<1>2. Fits(u, i) /\ FirstFault(checks) = << >>
  <2>1. Fits(u, i)
    BY <1>1 DEF Done, Invalid, Fault
  <2>2. FirstFault(checks) # << >> => FirstFault(checks)[1] \in Faults
    BY <2>1, ChecksOutcome
  <2> QED
    BY <1>1, <2>1, <2>2 DEF Done, Faults, Fits
<1>3. Placed(u, i, checks) /\ \A k \in 1 .. i.vl : (k - 1 \in Active(u, i)) <=> (checks[k].kind = "local")
  BY <1>2, ChecksOutcome
<1>4. i.va \in VectorRegisters
  BY MemoryOperands
<1>5. Execute(u, i).unit.scratchpad = Stored(u, i, checks)
  <2>1. i.op \in Opcodes /\ ~(i.vl > Capacity(i))
    BY <1>2 DEF Fits, IsInstruction
  <2>2. Execute(u, i) = Finish([u EXCEPT !.scratchpad = Stored(u, i, checks)])
    BY <1>1, <1>2, <2>1, ExecuteIs DEF StoreLanes
  <2> QED
    BY <2>2 DEF Finish, Units
<1>6. \A k \in Active(u, i) : at(k) = checks[k + 1].at
  <2> TAKE k \in Active(u, i)
  <2>1. k + 1 \in 1 .. i.vl /\ (k + 1) - 1 = k
    BY <1>1, ActiveRange DEF Lanes
  <2>2. (k + 1) - 1 \in Active(u, i) => checks[k + 1] = LocalAddress(EffectiveAddress(u, i, (k + 1) - 1), Size(i), IsStore(i), Size(i))
    BY <1>2, <2>1, CheckOf
  <2>3. IsStore(i) = TRUE
    BY DEF IsStore
  <2> QED
    BY <2>1, <2>2, <2>3
<1>7. PICK f : Storing(f, u, i, checks) /\ Stored(u, i, checks) = f[i.vl]
  BY <1>3, <1>4, StoredFollows
<1>8. DOMAIN u.scratchpad = 0 .. ScratchpadBytes - 1
  BY UnitFacts, ScratchpadFacts
<1>9. \A b : writers(b) = covering(b)
  BY <1>1, <1>6
<1> HIDE DEF checks
<1>10. ASSUME NEW b \in 0 .. ScratchpadBytes - 1
       PROVE  f[i.vl][b] = IF writers(b) = {} THEN u.scratchpad[b] ELSE u.vectors[i.va][last(b) * Size(i) + b - at(last(b))]
  <2>1. /\ covering(b) = {} => f[i.vl][b] = u.scratchpad[b]
        /\ \A k \in covering(b) : (\A j \in covering(b) : j <= k) =>
             f[i.vl][b] = u.vectors[i.va][k * Size(i) + b - checks[k + 1].at]
    <3> DEFINE w == covering(b)
    <3>1. w = {k \in Active(u, i) : b \in checks[k + 1].at .. checks[k + 1].at + Size(i) - 1}
      OBVIOUS
    <3> HIDE DEF w
    <3>2. /\ w = {} => f[i.vl][b] = u.scratchpad[b]
          /\ \A k \in w : (\A j \in w : j <= k) => f[i.vl][b] = u.vectors[i.va][k * Size(i) + b - checks[k + 1].at]
      BY <1>3, <1>4, <1>7, <3>1, StoringResolves
    <3> QED
      BY <3>2 DEF w
  <2>2. writers(b) = covering(b)
    BY <1>9
  <2>3. writers(b) # {} => \E k \in writers(b) : \A j \in writers(b) : j <= k
    <3>1. \A k \in Active(u, i) : k \in Nat /\ k <= i.vl
      BY <1>1, ActiveRange DEF Lanes
    <3>2. writers(b) \in SUBSET Nat /\ \A k \in writers(b) : k <= i.vl
      BY <1>1, <3>1
    <3> HIDE DEF writers
    <3> QED
      BY <1>1, <3>2, LargestExists
  <2>4. \A k \in writers(b) : k \in Active(u, i)
    BY <1>1
  <2> HIDE DEF writers, covering, at
  <2>5. writers(b) # {} => last(b) \in writers(b) /\ \A j \in writers(b) : j <= last(b)
    BY <2>3
  <2> HIDE DEF last
  <2>6. writers(b) # {} => at(last(b)) = checks[last(b) + 1].at
    BY <1>6, <2>4, <2>5
  <2> QED
    BY <2>1, <2>2, <2>5, <2>6
<1> QED
  BY <1>5, <1>7, <1>8, <1>10

LEMMA ReduceOutcome ==
    ASSUME NEW u \in Units, NEW i, IsInstruction(i), i.op \in ReduceOps
    PROVE  /\ i.op # "VSETL" /\ i.vl \in Nat /\ Has(i, "pg") /\ i.pg \in PredicateRegisters
           /\ i.vl > Capacity(i) => Execute(u, i).outcome = Invalid
           /\ ~(i.vl > Capacity(i)) => /\ Fits(u, i)
                                       /\ \E f : Reducing(f, u, i) /\ Execute(u, i) = Return(u, f[i.vl]) /\ f[i.vl] \in Addresses
<1>1. i.op # "VSETL" /\ i.op \in Opcodes /\ i.vl \in Nat /\ i.op \in LaneOps
  BY LengthOperand DEF ReduceOps, Opcodes, LaneOps, MaskOps
<1>2. i.vl > Capacity(i) => Execute(u, i).outcome = Invalid
  BY <1>1, ExecuteIs DEF Refuse
<1>3. ~(i.vl > Capacity(i)) => Fits(u, i) /\ Execute(u, i) = Reduce(u, i)
  BY <1>1, ExecuteIs DEF Fits
<1> QED
  BY <1>1, <1>2, <1>3, LaneOperands, ReduceFollows

(* A reduction of the first lanes is where the whole one has come by then.  *)
LEMMA ReducedFirst ==
    ASSUME NEW u, NEW i, Fits(u, i), i.op \in ReduceOps, NEW f, Reducing(f, u, i), NEW k \in 0 .. i.vl
    PROVE  Execute(u, [i EXCEPT !.vl = k]).outcome = Write(f[k])
<1> DEFINE j == [i EXCEPT !.vl = k]
           g == [m \in 0 .. k |-> f[m]]
<1>1. /\ IsInstruction(j) /\ j.op = i.op /\ j.vl = k /\ Capacity(j) = Capacity(i) /\ Size(j) = Size(i)
      /\ \A q : (Has(j, q) <=> Has(i, q)) /\ (Has(i, q) /\ q # "vl" => j[q] = i[q])
      /\ \A m \in 1 .. k : (m - 1 \in Active(u, j)) <=> (m - 1 \in Active(u, i))
      /\ k \in Nat /\ ~(k > Capacity(i)) /\ Fits(u, j)
  BY CutOff
<1> HIDE DEF j
<1>2. i.vl \in Nat /\ u \in Units /\ IsInstruction(i)
  BY LengthOperand DEF Fits
<1>3. PICK h : Reducing(h, u, j) /\ Execute(u, j) = Return(u, h[j.vl])
  BY <1>1, <1>2, ReduceOutcome
<1>4. j.type = i.type /\ j.va = i.va /\ j.seed = i.seed
  <2>1. "va" \in Operands(i.op) /\ "seed" \in Operands(i.op)
    BY SourceRoles
  <2>2. i.op \in LaneOps
    BY DEF ReduceOps, Opcodes, LaneOps, MaskOps
  <2> QED
    BY <1>1, <1>2, <2>1, <2>2, OperandNamed, LaneOperands
<1>5. ReduceType(j) = ReduceType(i) /\ ReduceOp(j) = ReduceOp(i)
  BY <1>1, <1>4 DEF ReduceType, ReduceOp
<1>6. \A m : Extended(u, j, m) = Extended(u, i, m)
  BY <1>1, <1>4 DEF Extended
<1>7. \A m \in 1 .. k : \A value : ReducedLane(value, u, j, m) = ReducedLane(value, u, i, m)
  BY <1>1, <1>5, <1>6 DEF ReducedLane, Visit
<1>8. Reducing(g, u, j)
  <2>1. \A m \in 0 .. k : m \in 0 .. i.vl
    BY <1>1, <1>2
  <2>2. \A m \in 1 .. k : m \in 1 .. i.vl /\ m \in 0 .. k /\ m - 1 \in 0 .. k
    BY <1>1, <1>2
  <2>3. f \in [0 .. i.vl -> Addresses] /\ f[0] = i.seed /\ \A m \in 1 .. i.vl : f[m] = ReducedLane(f[m - 1], u, i, m)
    BY DEF Reducing
  <2>4. g \in [0 .. k -> Addresses] /\ g[0] = j.seed
    BY <1>1, <1>4, <2>1, <2>3
  <2>5. \A m \in 1 .. k : g[m] = f[m] /\ g[m - 1] = f[m - 1]
    BY <2>2
  <2> HIDE DEF g
  <2>6. \A m \in 1 .. k : g[m] = ReducedLane(g[m - 1], u, j, m)
    BY <1>7, <2>2, <2>3, <2>5
  <2> QED
    BY <1>1, <2>4, <2>6 DEF Reducing
<1>9. g[k] = f[k]
  BY <1>1
<1> HIDE DEF g
<1>10. h[k] = g[k]
  <2>1. \A m \in 0 .. j.vl : h[m] = g[m]
    <3>1. j.vl \in Nat
      BY <1>1
    <3> QED
      BY <1>3, <1>8, <3>1, ReducingIsUnique
  <2> QED
    BY <1>1, <2>1
<1> QED
  BY <1>1, <1>3, <1>9, <1>10 DEF Return, j

(* Continued from there over the other lanes, it comes to the same.         *)
LEMMA ReducedRest ==
    ASSUME NEW u, NEW i, Fits(u, i), i.op \in ReduceOps, NEW f, Reducing(f, u, i), NEW k \in 0 .. i.vl
    PROVE  Execute([u EXCEPT !.predicates[i.pg] = @ \ (0 .. k - 1)], [i EXCEPT !.seed = f[k]]).outcome = Write(f[i.vl])
<1> DEFINE w == [u EXCEPT !.predicates[i.pg] = @ \ (0 .. k - 1)]
           j == [i EXCEPT !.seed = f[k]]
           g == [m \in 0 .. i.vl |-> IF m <= k THEN f[k] ELSE f[m]]
<1>1. u \in Units /\ IsInstruction(i) /\ i.vl \in Nat /\ k \in Nat /\ Has(i, "pg") /\ i.pg \in PredicateRegisters
  <2>1. u \in Units /\ IsInstruction(i) /\ i.vl \in Nat
    BY LengthOperand DEF Fits
  <2> QED
    BY <2>1, ReduceOutcome
<1>2. /\ w \in Units /\ w.vectors = u.vectors /\ w.predicates[i.pg] = u.predicates[i.pg] \ (0 .. k - 1)
  BY <1>1 DEF Units
<1>3. "seed" \in Operands(i.op) /\ "va" \in Operands(i.op) /\ i.op \in LaneOps
  BY SourceRoles DEF ReduceOps, Opcodes, LaneOps, MaskOps
<1>4. f \in [0 .. i.vl -> Addresses] /\ f[0] = i.seed /\ \A m \in 1 .. i.vl : f[m] = ReducedLane(f[m - 1], u, i, m)
  BY DEF Reducing
<1>5. j.seed = f[k] /\ Differ(i, j, "seed")
  BY <1>1, <1>3, OperandNamed DEF Has, Differ
<1> HIDE DEF j, w
<1>6. j["seed"] \in Values(i.op, "seed")
  BY <1>4, <1>5, RoleValues
<1>7. /\ IsInstruction(j) /\ j.op = i.op /\ Size(j) = Size(i) /\ Capacity(j) = Capacity(i)
      /\ \A q : (Has(j, q) <=> Has(i, q)) /\ (Has(i, q) /\ q # "seed" => j[q] = i[q])
  BY <1>1, <1>3, <1>5, <1>6, DifferShapes
<1>8. j.type = i.type /\ j.va = i.va /\ j.vl = i.vl /\ j.pg = i.pg
  <2>1. Has(i, "va") /\ Has(i, "type") /\ Has(i, "vl")
    BY <1>1, <1>3, OperandNamed, LaneOperands, LengthOperand DEF Fits
  <2> QED
    BY <1>1, <1>7, <2>1
<1>9. Fits(w, j)
  BY <1>2, <1>7, <1>8 DEF Fits
<1>10. PICK h : Reducing(h, w, j) /\ Execute(w, j) = Return(w, h[j.vl])
  BY <1>2, <1>7, <1>9, ReduceOutcome DEF Fits
<1>11. ReduceType(j) = ReduceType(i) /\ ReduceOp(j) = ReduceOp(i)
  BY <1>7, <1>8 DEF ReduceType, ReduceOp
<1>12. \A m : Extended(w, j, m) = Extended(u, i, m)
  BY <1>2, <1>7, <1>8 DEF Extended, Element
<1>13. \A m \in 1 .. i.vl : (m - 1 \in Active(w, j)) <=> (m - 1 \in Active(u, i) /\ m > k)
  <2>1. Lanes(j) = Lanes(i)
    BY <1>8 DEF Lanes
  <2>2. \A m \in 1 .. i.vl : (m - 1 \in w.predicates[j.pg]) <=> (m - 1 \in u.predicates[i.pg] /\ m > k)
    BY <1>1, <1>2, <1>8
  <2> QED
    BY <1>1, <1>7, <2>1, <2>2 DEF Active
<1>14. \A m \in 1 .. i.vl : \A value : ReducedLane(value, w, j, m) = IF m > k THEN ReducedLane(value, u, i, m) ELSE value
  BY <1>7, <1>11, <1>12, <1>13 DEF ReducedLane, Visit
<1>15. g \in [0 .. i.vl -> Addresses] /\ g[0] = f[k] /\ g[i.vl] = f[i.vl]
  BY <1>1, <1>4
<1>16. \A m \in 1 .. i.vl : g[m] = IF m > k THEN f[m] ELSE g[m - 1]
  BY <1>1
<1>17. \A m \in 1 .. i.vl : m > k => g[m - 1] = f[m - 1]
  BY <1>1
<1> HIDE DEF g
<1>18. Reducing(g, w, j)
  <2>1. \A m \in 1 .. i.vl : g[m] = ReducedLane(g[m - 1], w, j, m)
    <3> TAKE m \in 1 .. i.vl
    <3>1. f[m] = ReducedLane(f[m - 1], u, i, m)
      BY <1>4
    <3>2. ReducedLane(g[m - 1], w, j, m) = IF m > k THEN ReducedLane(g[m - 1], u, i, m) ELSE g[m - 1]
      BY <1>14
    <3> QED
      BY <1>16, <1>17, <3>1, <3>2
  <2> QED
    BY <1>5, <1>8, <1>15, <2>1 DEF Reducing
<1>19. h[i.vl] = g[i.vl]
  <2>1. \A m \in 0 .. j.vl : h[m] = g[m]
    BY <1>1, <1>8, <1>10, <1>18, ReducingIsUnique
  <2> QED
    BY <1>1, <1>8, <2>1
<1> QED
  BY <1>8, <1>10, <1>15, <1>19 DEF Return, w, j

LEMMA ReductionsCarry ==
    ASSUME NEW u \in Units, NEW i, IsInstruction(i), i.op \in ReduceOps, Execute(u, i).outcome.kind = "write", NEW k \in 0 .. i.vl
    PROVE  Execute([u EXCEPT !.predicates[i.pg] = @ \ (0 .. k - 1)],
                   [i EXCEPT !.seed = Execute(u, [i EXCEPT !.vl = k]).outcome.value]).outcome = Execute(u, i).outcome
<1>1. Invalid.kind # "write"
  BY DEF Invalid, Fault
<1>2. ~(i.vl > Capacity(i))
  BY <1>1, ReduceOutcome
<1>3. Fits(u, i) /\ \E f : Reducing(f, u, i) /\ Execute(u, i) = Return(u, f[i.vl])
  BY <1>2, ReduceOutcome
<1>4. PICK f : Reducing(f, u, i) /\ Execute(u, i) = Return(u, f[i.vl])
  BY <1>3
<1>5. Execute(u, [i EXCEPT !.vl = k]).outcome = Write(f[k])
  BY <1>3, <1>4, ReducedFirst
<1>6. Execute(u, [i EXCEPT !.vl = k]).outcome.value = f[k]
  BY <1>5 DEF Write
<1>7. Execute([u EXCEPT !.predicates[i.pg] = @ \ (0 .. k - 1)], [i EXCEPT !.seed = f[k]]).outcome = Write(f[i.vl])
  BY <1>3, <1>4, ReducedRest
<1> QED
  BY <1>4, <1>6, <1>7 DEF Return

(* Where the order of the lanes shows it is the increasing one: a byte of   *)
(* overlapping stores is the last lane's, and a reduction may be carried on *)
(* from any of its lanes (the loops of execute_npu).                        *)
THEOREM LanesTakeTurns == Spec => LanesGoInOrder
<1>1. TypeOK /\ [Next]_vars => [StoresResolveInLaneOrder /\ ReductionsChain]_vars
  <2> SUFFICES ASSUME TypeOK, Next PROVE StoresResolveInLaneOrder /\ ReductionsChain
    OBVIOUS
  <2> DEFINE i == executed'
  <2>1. IsInstruction(i) /\ unit \in Units /\ outcome' = Execute(unit, i).outcome /\ unit' = Execute(unit, i).unit
    BY StepExecutes
  <2> HIDE DEF i
  <2>2. ASSUME i.op \in StoreOps, outcome' = Done
        PROVE  LET at(k) == LocalAddress(EffectiveAddress(unit, i, k), Size(i), TRUE, Size(i)).at
                   writers(b) == {k \in Selected(unit, i) : b \in at(k) .. at(k) + Size(i) - 1}
                   last(b) == CHOOSE k \in writers(b) : \A j \in writers(b) : j <= k
               IN  \A b \in DOMAIN unit.scratchpad :
                     unit'.scratchpad[b] = IF writers(b) = {} THEN unit.scratchpad[b]
                                           ELSE unit.vectors[i.va][last(b) * Size(i) + b - at(last(b))]
    BY <2>1, <2>2, StoresResolve
  <2>3. StoresResolveInLaneOrder
    BY <2>2 DEF StoresResolveInLaneOrder, i
  <2>4. ASSUME i.op \in ReduceOps, outcome'.kind = "write", NEW k \in 0 .. i.vl
        PROVE  Execute([unit EXCEPT !.predicates[i.pg] = @ \ (0 .. k - 1)],
                       [i EXCEPT !.seed = Execute(unit, [i EXCEPT !.vl = k]).outcome.value]).outcome = outcome'
    BY <2>1, <2>4, ReductionsCarry
  <2>5. ReductionsChain
    BY <2>4 DEF ReductionsChain, i
  <2> QED
    BY <2>3, <2>5
<1> QED
  BY <1>1, TypesHold, PTL DEF Spec, LanesGoInOrder

-----------------------------------------------------------------------------
(* Inactive lanes are silent                                                *)

(* Two units of which the active lanes read the same.                       *)
LanesAgree(u, w, i) ==
    /\ u \in Units /\ w \in Units /\ w.scratchpad = u.scratchpad /\ Active(w, i) = Active(u, i)
    /\ \A k \in Active(u, i), v \in VectorRegisters :
          /\ Element(w, v, k, Size(i)) = Element(u, v, k, Size(i))
          /\ Has(i, "indices") => Element(w, v, k, 4) = Element(u, v, k, 4)

LEMMA QuietBytes ==
    ASSUME NEW u \in Units, NEW i
    PROVE  /\ Quiet(u, i) \in Units
           /\ Quiet(u, i).predicates = u.predicates /\ Quiet(u, i).scratchpad = u.scratchpad
           /\ \A v \in VectorRegisters, b \in AllLanes :
                (b \div Size(i) \in Selected(u, i) \/ (Has(i, "indices") /\ b \div 4 \in Selected(u, i)))
                  => Quiet(u, i).vectors[v][b] = u.vectors[v][b]
<1> DEFINE read(b) == b \div Size(i) \in Selected(u, i) \/ (Has(i, "indices") /\ b \div 4 \in Selected(u, i))
           file == [v \in VectorRegisters |-> [b \in AllLanes |-> IF read(b) THEN u.vectors[v][b] ELSE 0]]
<1>1. 0 \in Bytes
  BY BytePowers DEF Bytes
<1>2. u.vectors \in [VectorRegisters -> [AllLanes -> Bytes]]
  BY DEF Units, Vectors
<1>3. file \in [VectorRegisters -> [AllLanes -> Bytes]]
  <2> HIDE DEF read
  <2> QED
    BY <1>1, <1>2
<1>4. \A v \in VectorRegisters, b \in AllLanes : read(b) => file[v][b] = u.vectors[v][b]
  <2> HIDE DEF read
  <2> QED
    OBVIOUS
<1>5. Quiet(u, i) = [u EXCEPT !.vectors = file]
  BY DEF Quiet
<1> HIDE DEF file
<1> QED
  BY <1>3, <1>4, <1>5 DEF Units, Vectors

LEMMA QuietAgrees ==
    ASSUME NEW u, NEW i, Fits(u, i), Has(i, "pg")
    PROVE  LanesAgree(u, Quiet(u, i), i)
<1> DEFINE w == Quiet(u, i)
<1>1. u \in Units /\ IsInstruction(i) /\ i.pg \in PredicateRegisters
  BY MaskedOps, LaneOperands DEF Fits
<1>2. /\ w \in Units /\ w.predicates = u.predicates /\ w.scratchpad = u.scratchpad
      /\ \A v \in VectorRegisters, b \in AllLanes :
            (b \div Size(i) \in Selected(u, i) \/ (Has(i, "indices") /\ b \div 4 \in Selected(u, i)))
              => w.vectors[v][b] = u.vectors[v][b]
  BY <1>1, QuietBytes
<1> HIDE DEF w
<1>3. Active(w, i) = Active(u, i) /\ Selected(u, i) = Active(u, i)
  BY <1>2 DEF Active, Selected
<1>4. i.vl \in Nat /\ i.vl * Size(i) <= VectorBytes /\ (Has(i, "indices") => i.vl * 4 <= VectorBytes)
  BY LengthOperand, LengthFits DEF Fits
<1>5. ASSUME NEW k \in Active(u, i), NEW v \in VectorRegisters, NEW s \in {1, 2, 4}, i.vl * s <= VectorBytes,
             s = Size(i) \/ (Has(i, "indices") /\ s = 4)
      PROVE  Element(w, v, k, s) = Element(u, v, k, s)
  <2>1. k \in 0 .. i.vl - 1
    BY <1>4, ActiveRange DEF Lanes
  <2>2. k * s \in Int /\ k \in Nat
    BY <1>4, <2>1
  <2>3. \A b \in k * s .. k * s + s - 1 : b \in AllLanes /\ b \div s = k
    <3>1. VectorBytes \in Nat
      BY VectorBytesRange
    <3>2. k * s + s <= i.vl * s
      BY <1>4, <2>1
    <3>3. \A b \in k * s .. k * s + s - 1 : b \in Nat /\ b < VectorBytes
      BY <1>4, <1>5, <2>1, <2>2, <3>1, <3>2
    <3>4. \A b \in k * s .. k * s + s - 1 : b \div s = k
      BY <2>2
    <3> QED
      BY <3>1, <3>3, <3>4 DEF AllLanes
  <2>4. u.vectors[v] \in [AllLanes -> Bytes]
    BY <1>1, UnitFacts DEF Vectors
  <2>5. \A b \in k * s .. k * s + s - 1 : u.vectors[v][b] \in Bytes /\ w.vectors[v][b] = u.vectors[v][b]
    BY <1>2, <1>3, <1>5, <2>3, <2>4
  <2> QED
    BY <2>2, <2>5, ReadsAgree DEF Element
<1>6. Size(i) \in {1, 2, 4} /\ 4 \in {1, 2, 4}
  BY SizeRange
<1>7. \A k \in Active(u, i), v \in VectorRegisters :
          /\ Element(w, v, k, Size(i)) = Element(u, v, k, Size(i))
          /\ Has(i, "indices") => Element(w, v, k, 4) = Element(u, v, k, 4)
  BY <1>4, <1>5, <1>6
<1> QED
  BY <1>1, <1>2, <1>3, <1>7 DEF LanesAgree, w

LEMMA AgreeingChecks ==
    ASSUME NEW u, NEW w, NEW i, LanesAgree(u, w, i), IsInstruction(i), i.op \in LoadOps \cup StoreOps
    PROVE  Checks(w, i) = Checks(u, i)
<1>1. Has(i, "indices") => i.indices \in VectorRegisters
  BY MemoryOperands
<1>2. \A k \in Active(u, i) : EffectiveAddress(w, i, k) = EffectiveAddress(u, i, k)
  BY <1>1 DEF EffectiveAddress, LanesAgree
<1> QED
  BY <1>2 DEF Checks, LanesAgree

LEMMA StoringIsUnique ==
    ASSUME NEW u, NEW i, i.vl \in Nat, NEW checks, NEW f, NEW g, Storing(f, u, i, checks), Storing(g, u, i, checks)
    PROVE  \A k \in 0 .. i.vl : f[k] = g[k]
<1> DEFINE T == {k \in 0 .. i.vl : f[k] = g[k]}
<1>1. 0 \in T
  BY DEF Storing
<1>2. \A k \in 1 .. i.vl : k - 1 \in T => k \in T
  BY DEF Storing
<1>3. \A k \in 0 .. i.vl : k \in T
  <2> HIDE DEF T
  <2> QED
    BY <1>1, <1>2, RangeInduction
<1> QED
  BY <1>3

LEMMA AgreeingStores ==
    ASSUME NEW u, NEW w, NEW i, LanesAgree(u, w, i), IsInstruction(i), i.va \in VectorRegisters, NEW checks,
           Placed(u, i, checks)
    PROVE  Stored(w, i, checks) = Stored(u, i, checks)
<1>1. u \in Units /\ w \in Units /\ i.vl \in Nat
  BY DEF LanesAgree, Placed
<1>2. Placed(w, i, checks)
  BY DEF Placed
<1>3. PICK f : Storing(f, u, i, checks) /\ Stored(u, i, checks) = f[i.vl]
  BY <1>1, StoredFollows
<1>4. PICK g : Storing(g, w, i, checks) /\ Stored(w, i, checks) = g[i.vl]
  BY <1>1, <1>2, StoredFollows
<1>5. \A k, memory : StoredLane(memory, w, i, checks, k) = StoredLane(memory, u, i, checks, k)
  BY DEF StoredLane, LanesAgree
<1>6. Storing(g, u, i, checks)
  BY <1>4, <1>5 DEF Storing, LanesAgree
<1>7. f[i.vl] = g[i.vl]
  <2>1. \A k \in 0 .. i.vl : f[k] = g[k]
    BY <1>1, <1>3, <1>6, StoringIsUnique
  <2> QED
    BY <1>1, <2>1
<1> QED
  BY <1>3, <1>4, <1>7

LEMMA AgreeingUnits ==
    ASSUME NEW u, NEW w, NEW i, LanesAgree(u, w, i), Fits(u, i), Has(i, "pg"), i.op # "VPERMUTE"
    PROVE  /\ Execute(w, i).outcome = Execute(u, i).outcome
           /\ Execute(w, i).unit.scratchpad = Execute(u, i).unit.scratchpad
<1>1. /\ IsInstruction(i) /\ i.op \in LaneOps /\ i.op \in Opcodes /\ i.op # "VSETL" /\ ~(i.vl > Capacity(i))
      /\ u \in Units /\ w \in Units /\ w.scratchpad = u.scratchpad /\ i.vl \in Nat
  BY MaskedOps, LengthOperand DEF Fits, IsInstruction, LanesAgree
<1>2. CASE i.op \in LoadOps \cup StoreOps
  <2> DEFINE checks == Checks(u, i)
  <2>1. Checks(w, i) = checks
    BY <1>1, <1>2, AgreeingChecks
  <2>2. Execute(w, i).outcome = Execute(u, i).outcome
    BY <1>1, <1>2, <2>1, AccessOutcome
  <2>3. CASE i.op \in LoadOps
    <3>1. i.op \in VectorOps
      BY <1>1, <2>3 DEF VectorOps, LoadOps, StoreOps, CompareOps, ReduceOps
    <3>2. Execute(w, i) = MakeVector(w, i) /\ Execute(u, i) = MakeVector(u, i)
      BY <1>1, <3>1, ExecuteIs
    <3>3. MakeVector(w, i).unit.scratchpad = w.scratchpad /\ MakeVector(u, i).unit.scratchpad = u.scratchpad
      BY <1>1 DEF MakeVector, Refuse, Finish, Units
    <3> QED
      BY <1>1, <2>2, <3>2, <3>3
  <2>4. CASE i.op \in StoreOps
    <3>1. Execute(w, i) = StoreLanes(w, i) /\ Execute(u, i) = StoreLanes(u, i)
      BY <1>1, <2>4, ExecuteIs
    <3>2. CASE FirstFault(checks) # << >>
      BY <1>1, <2>1, <2>2, <3>1, <3>2 DEF StoreLanes, Refuse
    <3>3. CASE FirstFault(checks) = << >>
      <4>1. Placed(u, i, checks) /\ i.va \in VectorRegisters
        BY <1>1, <1>2, <2>4, <3>3, ChecksOutcome, MemoryOperands
      <4>2. Stored(w, i, checks) = Stored(u, i, checks)
        BY <1>1, <4>1, AgreeingStores
      <4>3. /\ StoreLanes(w, i) = Finish([w EXCEPT !.scratchpad = Stored(w, i, checks)])
            /\ StoreLanes(u, i) = Finish([u EXCEPT !.scratchpad = Stored(u, i, checks)])
        BY <2>1, <3>3 DEF StoreLanes
      <4> HIDE DEF checks
      <4> QED
        BY <1>1, <2>2, <3>1, <4>2, <4>3 DEF Finish, Units
    <3> QED
      BY <3>2, <3>3
  <2> QED
    BY <1>2, <2>3, <2>4
<1>3. CASE i.op \in CompareOps
  <2>1. Execute(w, i) = Compare(w, i) /\ Execute(u, i) = Compare(u, i)
    BY <1>1, <1>3, ExecuteIs
  <2> QED
    BY <1>1, <2>1 DEF Compare, Finish, Units
<1>4. CASE i.op \in ReduceOps
  <2>1. Fits(w, i)
    BY <1>1 DEF Fits
  <2>2. Execute(w, i) = Reduce(w, i) /\ Execute(u, i) = Reduce(u, i)
    BY <1>1, <1>4, ExecuteIs
  <2>3. PICK f : Reducing(f, u, i) /\ Reduce(u, i) = Return(u, f[i.vl])
    BY <1>4, ReduceFollows
  <2>4. PICK g : Reducing(g, w, i) /\ Reduce(w, i) = Return(w, g[i.vl])
    BY <1>4, <2>1, ReduceFollows
  <2>5. i.va \in VectorRegisters
    BY <1>1, <1>4, OtherOperands
  <2>6. \A k \in Active(u, i) : Extended(w, i, k) = Extended(u, i, k)
    BY <2>5 DEF Extended, LanesAgree
  <2>7. \A k, value : ReducedLane(value, w, i, k) = ReducedLane(value, u, i, k)
    BY <2>6 DEF ReducedLane, LanesAgree
  <2>8. Reducing(g, u, i)
    BY <2>4, <2>7 DEF Reducing
  <2>9. f[i.vl] = g[i.vl]
    <3>1. \A k \in 0 .. i.vl : f[k] = g[k]
      BY <1>1, <2>3, <2>8, ReducingIsUnique
    <3> QED
      BY <1>1, <3>1
  <2> QED
    BY <1>1, <2>2, <2>3, <2>4, <2>9 DEF Return
<1>5. CASE i.op \in VectorOps \ LoadOps
  <2>1. Execute(w, i) = MakeVector(w, i) /\ Execute(u, i) = MakeVector(u, i)
    BY <1>1, <1>5, ExecuteIs
  <2>2. FirstFault(<< >>) = << >>
    BY DEF FirstFault
  <2> QED
    BY <1>1, <1>5, <2>1, <2>2 DEF MakeVector, Finish, Units
<1> QED
  BY <1>1, <1>2, <1>3, <1>4, <1>5 DEF VectorOps

LEMMA QuietUnits ==
    ASSUME NEW u \in Units, NEW i, IsInstruction(i), Has(i, "pg"), i.op # "VPERMUTE"
    PROVE  /\ Execute(Quiet(u, i), i).outcome = Execute(u, i).outcome
           /\ Execute(Quiet(u, i), i).unit.scratchpad = Execute(u, i).unit.scratchpad
<1>1. i.op # "VSETL" /\ i.op \in Opcodes
  BY MaskedOps DEF LaneOps
<1>2. CASE i.vl > Capacity(i)
  BY <1>1, <1>2, ExecuteIs, QuietBytes DEF Refuse
<1>3. CASE ~(i.vl > Capacity(i))
  <2>1. Fits(u, i)
    BY <1>1, <1>3 DEF Fits
  <2>2. LanesAgree(u, Quiet(u, i), i)
    BY <2>1, QuietAgrees
  <2> QED
    BY <2>1, <2>2, AgreeingUnits
<1> QED
  BY <1>2, <1>3

(* No inactive lane accesses memory, faults or contributes to a reduction:  *)
(* with everything only such lanes hold cleared, an instruction ends alike  *)
(* and leaves the same scratchpad (the loops over active lanes).            *)
THEOREM MaskedLanesAreSilent == Spec => InactiveLanesAreSilent
<1>1. TypeOK /\ [Next]_vars => [QuietLanesAgree]_vars
  <2> SUFFICES ASSUME TypeOK, Next PROVE QuietLanesAgree
    OBVIOUS
  <2> DEFINE i == executed'
  <2>1. IsInstruction(i) /\ unit \in Units /\ outcome' = Execute(unit, i).outcome /\ unit' = Execute(unit, i).unit
    BY StepExecutes
  <2> HIDE DEF i
  <2>2. Has(i, "pg") /\ i.op # "VPERMUTE" =>
          /\ outcome' = Execute(Quiet(unit, i), i).outcome
          /\ unit'.scratchpad = Execute(Quiet(unit, i), i).unit.scratchpad
    BY <2>1, QuietUnits
  <2> QED
    BY <2>2 DEF QuietLanesAgree, i
<1> QED
  BY <1>1, TypesHold, PTL DEF Spec, InactiveLanesAreSilent

-----------------------------------------------------------------------------
(* Lengths computed apart agree                                             *)

LEMMA GrantIs ==
    ASSUME NEW type, NEW peer
    PROVE  \E w \in {1, 2, 4} : /\ Granted(type, peer) = VectorBytes \div w
                                /\ Width(type) <= w /\ Width(peer) <= w
                                /\ Granted(type, peer) \in Nat /\ Granted(type, peer) > 0
<1> DEFINE w == IF Width(type) > Width(peer) THEN Width(type) ELSE Width(peer)
<1>1. w \in {1, 2, 4} /\ Width(type) <= w /\ Width(peer) <= w
  BY WidthRange
<1>2. Granted(type, peer) = VectorBytes \div w
  BY DEF Granted
<1> HIDE DEF w
<1>3. \A x \in {1, 2, 4} : VectorBytes \div x \in Nat /\ VectorBytes \div x > 0
  BY VectorBytesRange
<1> QED
  BY <1>1, <1>2, <1>3

(* A granted length is not past the capacity of an instruction whose types  *)
(* were asked for.                                                          *)
LEMMA GrantFits ==
    ASSUME NEW types, NEW type, NEW peer, types = {type, peer}, NEW x,
           {x[r] : r \in {"type", "result_type"} \cap DOMAIN x} \cup {"u32" : r \in {"indices"} \cap DOMAIN x} \subseteq types
    PROVE  Granted(type, peer) <= Capacity(x)
<1>1. PICK w \in {1, 2, 4} : Granted(type, peer) = VectorBytes \div w /\ Width(type) <= w /\ Width(peer) <= w
  BY GrantIs
<1>2. Width("u32") = 4
  BY DEF Width
<1>3. \A t \in types : Width(t) <= w
  BY <1>1
<1>4. \A y \in Widths(x) : y <= w
  <2>1. Size(x) <= w
    <3>1. "type" \in DOMAIN x => x["type"] \in types
      OBVIOUS
    <3> QED
      BY <1>1, <1>3, <3>1 DEF Size, Has
  <2>2. \A r \in {"result_type"} \cap DOMAIN x : Width(x[r]) <= w
    <3>1. \A r \in {"result_type"} \cap DOMAIN x : x[r] \in types
      OBVIOUS
    <3> QED
      BY <1>3, <3>1
  <2>3. \A r \in {"indices"} \cap DOMAIN x : 4 <= w
    <3>1. \A r \in {"indices"} \cap DOMAIN x : "u32" \in types
      OBVIOUS
    <3> QED
      BY <1>2, <1>3, <3>1
  <2> QED
    BY <2>1, <2>2, <2>3 DEF Widths
<1>5. PICK y \in Widths(x) : Capacity(x) = VectorBytes \div y
  BY CapacityIsLeast
<1>6. y \in {1, 2, 4} /\ y <= w
  BY <1>4, <1>5, CapacityIsLeast
<1>7. \A a, b \in {1, 2, 4} : a <= b => VectorBytes \div b <= VectorBytes \div a
  BY VectorBytesRange
<1> QED
  BY <1>1, <1>5, <1>6, <1>7

LEMMA LengthsGranted ==
    ASSUME NEW u \in Units, NEW i, IsInstruction(i), i.op = "VSETL"
    PROVE  \E n \in Nat : /\ Execute(u, i).outcome.value = n
                          /\ n > 0 \/ i.avl = 0
                          /\ n <= Granted(i.type, i.peer_type)
<1> DEFINE set == {i.avl, Granted(i.type, i.peer_type)}
<1>1. i.op \in Opcodes /\ i.avl \in Nat
  BY OtherOperands, AddressFacts DEF IsInstruction
<1>2. Execute(u, i).outcome.value = Least(set)
  BY <1>1, ExecuteIs DEF SetLength, Return, Write
<1>3. Granted(i.type, i.peer_type) \in Nat /\ Granted(i.type, i.peer_type) > 0
  BY GrantIs
<1>4. set \in SUBSET Nat /\ set # {}
  BY <1>1, <1>3
<1>5. Least(set) \in set /\ \A y \in set : Least(set) <= y
  <2> HIDE DEF set
  <2> QED
    BY <1>4, LeastOf
<1> DEFINE least == Least(set)
<1> HIDE DEF least
<1>6. least \in Nat /\ (least = i.avl \/ least = Granted(i.type, i.peer_type)) /\ least <= Granted(i.type, i.peer_type)
  BY <1>4, <1>5 DEF least
<1>7. least > 0 \/ i.avl = 0
  BY <1>1, <1>3, <1>6
<1> QED
  BY <1>2, <1>6, <1>7 DEF least

(* The lanes and active lanes a footprint announces.                        *)
LEMMA FootprintLanes ==
    ASSUME NEW u \in Units, NEW i, IsInstruction(i), i.op # "VSETL"
    PROVE  /\ IsFiniteSet(Active(u, i)) /\ Cardinality(Active(u, i)) \in Nat /\ Cardinality(Active(u, i)) <= i.vl /\ i.vl \in Nat
           /\ Footprint(u, i).active <= Footprint(u, i).lanes /\ Footprint(u, i).lanes <= VectorBytes
           /\ Footprint(u, i).writes \in Nat
           /\ ~(i.vl > Capacity(i)) =>
                /\ i.op \in StoreOps => Footprint(u, i).writes = Cardinality(Active(u, i)) * Size(i)
                /\ i.op \in LoadOps => Footprint(u, i).reads = Cardinality(Active(u, i)) * Size(i)
                /\ i.op = "PST" => Footprint(u, i).writes = Packed(i.vl)
                /\ i.op = "PLD" => Footprint(u, i).reads = Packed(i.vl)
<1> DEFINE active == Cardinality(Active(u, i))
           lanes == IF i.vl > Capacity(i) THEN 0 ELSE i.vl
           counted == IF lanes = 0 THEN 0 ELSE active
<1>1. i.vl \in Nat
  BY LengthOperand
<1>2. IsFiniteSet(Active(u, i)) /\ active \in Nat /\ active <= i.vl
  BY <1>1, ActiveRange, LanesAreFinite, FS_Subset, FS_CardinalityType
<1>3. i.vl = 0 => active = 0
  BY <1>1, <1>2
<1>4. /\ Footprint(u, i).lanes = lanes /\ Footprint(u, i).active = counted
      /\ Footprint(u, i).reads = IF i.op \in LoadOps \cup {"PLD"} THEN Traffic(i, lanes, counted) ELSE 0
      /\ Footprint(u, i).writes = IF i.op \in StoreOps \cup {"PST"} THEN Traffic(i, lanes, counted) ELSE 0
  BY DEF Footprint
<1>5. i.op \in LoadOps \cup StoreOps => Has(i, "pg")
  BY MemoryOperands, LaneOperands
<1>6. i.op \in {"PLD", "PST"} => ~Has(i, "pg")
  BY MaskOperands DEF MaskOps
<1> HIDE DEF active
<1>7. lanes \in Nat /\ counted \in Nat /\ counted <= lanes
  BY <1>1, <1>2
<1>8. lanes <= VectorBytes
  BY <1>1, LengthFits, VectorBytesRange
<1>9. Traffic(i, lanes, counted) \in Nat
  <2>1. counted * Size(i) \in Nat
    BY <1>7, SizeRange
  <2>2. Packed(lanes) \in Nat
    BY <1>7, PackedRange
  <2> QED
    BY <2>1, <2>2 DEF Traffic
<1>10. ~(i.vl > Capacity(i)) => lanes = i.vl /\ counted = active
  BY <1>3
<1> HIDE DEF lanes, counted
<1>11. ~(i.vl > Capacity(i)) /\ i.op \in LoadOps \cup StoreOps => Traffic(i, lanes, counted) = active * Size(i)
  BY <1>5, <1>10 DEF Traffic
<1>12. ~(i.vl > Capacity(i)) /\ i.op \in {"PLD", "PST"} => Traffic(i, lanes, counted) = Packed(i.vl)
  BY <1>6, <1>10 DEF Traffic
<1> QED
  BY <1>1, <1>2, <1>4, <1>7, <1>8, <1>9, <1>11, <1>12 DEF active

(* No more bytes change than a footprint announces.                         *)
LEMMA WritesCovered ==
    ASSUME NEW u \in Units, NEW i, IsInstruction(i), i.op # "VSETL"
    PROVE  Cardinality({b \in DOMAIN u.scratchpad : Execute(u, i).unit.scratchpad[b] # u.scratchpad[b]}) <= Footprint(u, i).writes
<1> DEFINE C == {b \in DOMAIN u.scratchpad : Execute(u, i).unit.scratchpad[b] # u.scratchpad[b]}
           writes == Footprint(u, i).writes
           active == Cardinality(Active(u, i))
<1>1. writes \in Nat
  BY FootprintLanes
<1>2. DOMAIN u.scratchpad \subseteq Int
  BY UnitFacts, ScratchpadFacts
<1>3. ASSUME Execute(u, i).unit.scratchpad = u.scratchpad PROVE Cardinality(C) <= writes
  <2>1. C = {}
    BY <1>3
  <2>2. Cardinality(C) = 0
    BY <2>1, FS_EmptySet
  <2> HIDE DEF C, writes
  <2> QED
    BY <1>1, <2>2
<1>4. ASSUME i.op \in StoreOps, Execute(u, i).outcome = Done PROVE Cardinality(C) <= writes
  <2> DEFINE at == [k \in Active(u, i) |-> LocalAddress(EffectiveAddress(u, i, k), Size(i), TRUE, Size(i)).at]
  <2>1. Fits(u, i) /\ FirstFault(Checks(u, i)) = << >> /\ Selected(u, i) = Active(u, i)
    <3>1. Invalid # Done /\ \A fault \in Faults : fault # Done
      BY DEF Invalid, Fault, Done, Faults
    <3>2. Fits(u, i) /\ Selected(u, i) = Active(u, i)
      BY <1>4, <3>1, AccessOutcome
    <3>3. FirstFault(Checks(u, i)) # << >> => FirstFault(Checks(u, i))[1] \in Faults /\ Execute(u, i).outcome = FirstFault(Checks(u, i))[1]
      BY <1>4, <3>2, AccessOutcome, ChecksOutcome DEF Fits
    <3> QED
      BY <1>4, <3>1, <3>2, <3>3
  <2>2. \A k \in Active(u, i) : at[k] \in Int
    <3> TAKE k \in Active(u, i)
    <3>1. k \in Lanes(i)
      BY ActiveRange
    <3>2. k + 1 \in 1 .. i.vl /\ (k + 1) - 1 = k
      BY <2>1, <3>1, LanesInRegister DEF Lanes
    <3>3. (k + 1) - 1 \in Active(u, i) =>
            /\ Checks(u, i)[k + 1] = LocalAddress(EffectiveAddress(u, i, (k + 1) - 1), Size(i), IsStore(i), Size(i))
            /\ Checks(u, i)[k + 1].kind = "fault" \/ Checks(u, i)[k + 1].at \in Nat
      BY <1>4, <2>1, <3>2, CheckOf DEF Found
    <3>4. \A m \in DOMAIN Checks(u, i) : Checks(u, i)[m].kind # "fault"
      BY <2>1, NoFirstFault
    <3>5. k + 1 \in DOMAIN Checks(u, i)
      BY <2>1, <3>2, LanesInRegister, ChecksDomain
    <3>6. IsStore(i) = TRUE
      BY <1>4 DEF IsStore
    <3>7. Checks(u, i)[k + 1].at \in Nat
      BY <3>2, <3>3, <3>4, <3>5
    <3> DEFINE local == LocalAddress(EffectiveAddress(u, i, k), Size(i), TRUE, Size(i))
    <3>8. Checks(u, i)[k + 1] = local
      BY <3>2, <3>3, <3>6
    <3>9. at[k] = local.at
      OBVIOUS
    <3> HIDE DEF local, at
    <3> QED
      BY <3>7, <3>8, <3>9
  <2>3. \A b \in C : \E k \in Active(u, i) : b \in at[k] .. at[k] + Size(i) - 1
    <3> TAKE b \in C
    <3> DEFINE writers == {k \in Selected(u, i) :
                             b \in LocalAddress(EffectiveAddress(u, i, k), Size(i), TRUE, Size(i)).at ..
                                   LocalAddress(EffectiveAddress(u, i, k), Size(i), TRUE, Size(i)).at + Size(i) - 1}
    <3>1. writers # {}
      BY <1>4, StoresResolve
    <3>2. PICK k \in writers : TRUE
      BY <3>1
    <3> QED
      BY <2>1, <3>2
  <2>4. C \subseteq Int /\ IsFiniteSet(Active(u, i)) /\ Size(i) \in Nat
    BY <1>2, FootprintLanes, SizeRange
  <2> HIDE DEF C, at
  <2>5. Cardinality(C) <= Cardinality(Active(u, i)) * Size(i)
    BY <2>2, <2>3, <2>4, BytesOfElements
  <2>6. writes = Cardinality(Active(u, i)) * Size(i)
    BY <1>4, <2>1, FootprintLanes DEF Fits
  <2> QED
    BY <2>5, <2>6
<1>5. ASSUME i.op = "PST", ~(i.vl > Capacity(i)), i.vl # 0 PROVE Cardinality(C) <= writes
  <2> DEFINE address == LocalAddress(i.base + i.offset, Packed(i.vl), TRUE, 1)
             byte(b) == IF b \in address.at .. address.at + Packed(i.vl) - 1
                        THEN PackedByte(u.predicates[i.pa], b - address.at, i.vl) ELSE u.scratchpad[b]
             memory == [b \in DOMAIN u.scratchpad |-> byte(b)]
  <2>1. Fits(u, i) /\ i.op \in Opcodes
    BY <1>5 DEF Fits, IsInstruction
  <2>2. Execute(u, i) = StoreMask(u, i)
    BY <1>5, <2>1, ExecuteIs
  <2>3. CASE address.kind = "fault"
    <3>1. StoreMask(u, i) = Refuse(u, address)
      BY <1>5, <2>3 DEF StoreMask
    <3> QED
      BY <1>3, <2>2, <3>1 DEF Refuse
  <2>4. CASE address.kind # "fault"
    <3>1. StoreMask(u, i) = Finish([u EXCEPT !.scratchpad = memory])
      BY <1>5, <2>4 DEF StoreMask
    <3>2. Execute(u, i).unit.scratchpad = memory
      <4> HIDE DEF memory
      <4> QED
        BY <2>2, <3>1 DEF Finish, Units
    <3>3. i.base + i.offset \in Int /\ Packed(i.vl) \in Nat /\ 1 \in Nat \ {0}
      BY <1>5, <2>1, MaskAddressRange
    <3>4. address.at \in Nat
      BY <2>4, <3>3, LocalAddressOutcome DEF Found
    <3> DEFINE D == address.at .. address.at + Packed(i.vl) - 1
    <3>5. C \subseteq D
      BY <3>2
    <3> DEFINE a == address.at
               n == Packed(i.vl)
    <3>6. IsFiniteSet(D) /\ Cardinality(D) = Packed(i.vl)
      <4>1. a \in Int /\ n \in Nat /\ D = a .. a + n - 1
        <5> HIDE DEF address
        <5> QED
          BY <3>3, <3>4
      <4> HIDE DEF a, n, D
      <4>2. IsFiniteSet(D) /\ Cardinality(D) = IF a > a + n - 1 THEN 0 ELSE (a + n - 1) - a + 1
        <5>1. a + n - 1 \in Int
          BY <4>1
        <5> QED
          BY <4>1, <5>1, FS_Interval
      <4>3. Cardinality(D) = n
        BY <4>1, <4>2
      <4> QED
        BY <4>2, <4>3 DEF n
    <3> HIDE DEF C, D
    <3>7. Cardinality(C) <= Cardinality(D)
      BY <3>5, <3>6, FS_Subset
    <3>8. writes = Packed(i.vl)
      BY <1>5, FootprintLanes
    <3> QED
      BY <3>6, <3>7, <3>8
  <2> QED
    BY <2>3, <2>4
<1>6. ASSUME ~(i.op \in StoreOps /\ Execute(u, i).outcome = Done), ~(i.op = "PST" /\ ~(i.vl > Capacity(i)) /\ i.vl # 0)
      PROVE  Execute(u, i).unit.scratchpad = u.scratchpad
  <2>1. i.op \in Opcodes /\ i.vl \in Nat
    BY LengthOperand DEF IsInstruction
  <2>2. CASE i.vl > Capacity(i)
    BY <2>1, <2>2, ExecuteIs DEF Refuse
  <2>3. CASE ~(i.vl > Capacity(i)) /\ i.op \in StoreOps
    <3>1. Execute(u, i) = StoreLanes(u, i)
      BY <2>1, <2>3, ExecuteIs
    <3> QED
      BY <1>6, <2>3, <3>1 DEF StoreLanes, Refuse, Finish
  <2>4. CASE ~(i.vl > Capacity(i)) /\ i.op = "PST"
    <3>1. Execute(u, i) = StoreMask(u, i)
      BY <2>1, <2>4, ExecuteIs
    <3>2. i.vl = 0
      BY <1>6, <2>4
    <3>3. StoreMask(u, i) = Finish(u)
      BY <3>2 DEF StoreMask
    <3> QED
      BY <3>1, <3>3 DEF Finish
  <2>5. CASE ~(i.vl > Capacity(i)) /\ i.op \in MaskOps
    <3>1. Execute(u, i) = MakeMask(u, i)
      BY <2>1, <2>5, ExecuteIs
    <3>2. \E mask, fault : MakeMask(u, i) = Refuse(u, fault) \/ MakeMask(u, i) = Finish([u EXCEPT !.predicates[i.pd] = mask])
      BY DEF MakeMask
    <3>3. PICK mask, fault : MakeMask(u, i) = Refuse(u, fault) \/ MakeMask(u, i) = Finish([u EXCEPT !.predicates[i.pd] = mask])
      BY <3>2
    <3> QED
      BY <3>1, <3>3 DEF Refuse, Finish, Units
  <2>6. CASE ~(i.vl > Capacity(i)) /\ i.op \in CompareOps
    BY <2>1, <2>6, ExecuteIs DEF Compare, Finish, Units
  <2>7. CASE ~(i.vl > Capacity(i)) /\ i.op \in VectorOps
    BY <2>1, <2>7, ExecuteIs DEF MakeVector, Refuse, Finish, Units
  <2>8. CASE ~(i.vl > Capacity(i)) /\ i.op \in {"PCOUNT", "PFIRST", "VEXTRACT"} \cup ReduceOps
    <3>1. Execute(u, i) \in {QueryMask(u, i), Extract(u, i), Reduce(u, i)}
      BY <2>1, <2>8, ExecuteIs
    <3>2. QueryMask(u, i).unit = u
      BY DEF QueryMask, Return
    <3>3. Extract(u, i).unit = u
      BY DEF Extract, Return, Refuse
    <3>4. Reduce(u, i).unit = u
      BY DEF Reduce, Return
    <3> QED
      BY <3>1, <3>2, <3>3, <3>4
  <2> QED
    BY <2>1, <2>2, <2>3, <2>4, <2>5, <2>6, <2>7, <2>8, ExecuteIs
<1> QED
  BY <1>3, <1>4, <1>5, <1>6

(* What announces no read reads nothing: it does the same over a scratchpad *)
(* of zeros.                                                                *)
Blank(u) == [u EXCEPT !.scratchpad = [b \in DOMAIN @ |-> 0]]

LEMMA ReadsCovered ==
    ASSUME NEW u \in Units, NEW i, IsInstruction(i), i.op # "VSETL", Footprint(u, i).reads = 0
    PROVE  /\ Execute(Blank(u), i).outcome = Execute(u, i).outcome
           /\ Execute(Blank(u), i).unit.vectors = Execute(u, i).unit.vectors
           /\ Execute(Blank(u), i).unit.predicates = Execute(u, i).unit.predicates
<1> DEFINE w == Blank(u)
<1>1. i.op \in Opcodes /\ i.vl \in Nat
  BY LengthOperand DEF IsInstruction
<1>2. w.vectors = u.vectors /\ w.predicates = u.predicates /\ w \in Units
  <2>1. 0 \in Bytes
    BY BytePowers DEF Bytes
  <2> QED
    BY <2>1, ScratchpadFacts DEF Blank, Units
<1> HIDE DEF w
<1>3. SameRegisters(u, w) /\ SameSources(i, i)
  BY <1>2 DEF SameRegisters, SameSources
<1>4. CASE i.vl > Capacity(i)
  BY <1>1, <1>2, <1>4, ExecuteIs DEF Refuse, w
<1>5. CASE ~(i.vl > Capacity(i)) /\ i.op \in VectorOps
  <2>1. i.op \in LoadOps => Active(u, i) = {}
    <3> SUFFICES ASSUME i.op \in LoadOps PROVE Active(u, i) = {}
      OBVIOUS
    <3>1. IsFiniteSet(Active(u, i)) /\ Cardinality(Active(u, i)) \in Nat /\ Cardinality(Active(u, i)) * Size(i) = 0
      BY <1>5, FootprintLanes
    <3>2. Cardinality(Active(u, i)) = 0
      BY <3>1, SizeRange
    <3> QED
      BY <3>1, <3>2, FS_EmptySet
  <2>2. i.op \in VectorOps /\ w.vectors[i.vd] = u.vectors[i.vd] /\ (i.op \in LoadOps => w.scratchpad = u.scratchpad \/ Active(u, i) = {})
    BY <1>2, <1>5, <2>1
  <2>3. MadeAlike(u, i, w, i)
    BY <1>3, <2>2, SameVector, Zenon
  <2> QED
    BY <1>2, <2>3 DEF MadeAlike, Finish, Units, w
<1>6. CASE ~(i.vl > Capacity(i)) /\ i.op \in MaskOps \cup CompareOps
  <2>1. i.op = "PLD" => i.vl = 0
    <3>1. i.op = "PLD" => Packed(i.vl) = 0
      BY <1>6, FootprintLanes
    <3> QED
      BY <1>1, <3>1, PackedRange
  <2>2. i.op \in MaskOps \cup CompareOps /\ (i.op = "PLD" => w.scratchpad = u.scratchpad \/ i.vl = 0)
    BY <1>6, <2>1
  <2>3. SelectAlike(u, i, w, i)
    BY <1>3, <2>2, SameMask, Zenon
  <2> QED
    BY <1>2, <2>3 DEF SelectAlike, Finish, Units, w
<1>7. CASE ~(i.vl > Capacity(i)) /\ i.op \in StoreOps
  <2>1. Checks(w, i) = Checks(u, i)
    BY <1>3, <1>7, SameChecks
  <2>2. Execute(w, i) = StoreLanes(w, i) /\ Execute(u, i) = StoreLanes(u, i)
    BY <1>1, <1>7, ExecuteIs
  <2>3. \A x \in {u, w} : /\ FirstFault(Checks(x, i)) # << >> => StoreLanes(x, i) = Refuse(x, FirstFault(Checks(x, i))[1])
                          /\ FirstFault(Checks(x, i)) = << >> =>
                               StoreLanes(x, i) = Finish([x EXCEPT !.scratchpad = Stored(x, i, Checks(x, i))])
    BY DEF StoreLanes
  <2>4. \A x \in {u, w} : StoreLanes(x, i).unit.vectors = x.vectors /\ StoreLanes(x, i).unit.predicates = x.predicates
    BY <1>2, <2>3 DEF Refuse, Finish, Units
  <2>5. StoreLanes(w, i).outcome = StoreLanes(u, i).outcome
    BY <2>1, <2>3 DEF Refuse, Finish
  <2> QED
    BY <1>2, <2>2, <2>4, <2>5 DEF w
<1>8. CASE ~(i.vl > Capacity(i)) /\ i.op \in ReduceOps
  <2>1. Fits(w, i) /\ Fits(u, i) /\ i.va \in VectorRegisters
    BY <1>2, <1>8, OtherOperands DEF Fits
  <2>2. Execute(w, i) = Reduce(w, i) /\ Execute(u, i) = Reduce(u, i)
    BY <1>1, <1>8, ExecuteIs
  <2>3. PICK f : Reducing(f, u, i) /\ Reduce(u, i) = Return(u, f[i.vl])
    BY <1>8, <2>1, ReduceFollows
  <2>4. PICK g : Reducing(g, w, i) /\ Reduce(w, i) = Return(w, g[i.vl])
    BY <1>8, <2>1, ReduceFollows
  <2>5. \A k : Extended(w, i, k) = Extended(u, i, k)
    BY <1>2 DEF Extended, Element
  <2>6. Active(w, i) = Active(u, i)
    BY <1>2 DEF Active
  <2>7. \A k, value : ReducedLane(value, w, i, k) = ReducedLane(value, u, i, k)
    BY <2>5, <2>6 DEF ReducedLane
  <2>8. Reducing(g, u, i)
    BY <2>4, <2>7 DEF Reducing
  <2>9. \A k \in 0 .. i.vl : f[k] = g[k]
    BY <1>1, <2>3, <2>8, ReducingIsUnique
  <2>10. f[i.vl] = g[i.vl]
    BY <1>1, <2>9
  <2> QED
    BY <1>2, <2>2, <2>3, <2>4, <2>10 DEF Return, w
<1>9. CASE ~(i.vl > Capacity(i)) /\ i.op \in {"PCOUNT", "PFIRST"}
  <2>1. Execute(w, i) = QueryMask(w, i) /\ Execute(u, i) = QueryMask(u, i)
    BY <1>1, <1>9, ExecuteIs
  <2> QED
    BY <1>2, <2>1 DEF QueryMask, Return, w
<1>10. CASE ~(i.vl > Capacity(i)) /\ i.op = "VEXTRACT"
  <2>1. Execute(w, i) = Extract(w, i) /\ Execute(u, i) = Extract(u, i)
    BY <1>1, <1>10, ExecuteIs
  <2>2. \A k : Extended(w, i, k) = Extended(u, i, k)
    BY <1>2 DEF Extended, Element
  <2> QED
    BY <1>2, <2>1, <2>2 DEF Extract, Return, Refuse, w
<1>11. CASE ~(i.vl > Capacity(i)) /\ i.op = "PST"
  <2>1. Execute(w, i) = StoreMask(w, i) /\ Execute(u, i) = StoreMask(u, i)
    BY <1>1, <1>11, ExecuteIs
  <2> DEFINE address == LocalAddress(i.base + i.offset, Packed(i.vl), TRUE, 1)
  <2>2. \A x \in {u, w} : \E memory :
          StoreMask(x, i) = IF i.vl = 0 THEN Finish(x) ELSE IF address.kind = "fault" THEN Refuse(x, address)
                            ELSE Finish([x EXCEPT !.scratchpad = memory])
    BY DEF StoreMask
  <2> HIDE DEF address
  <2>3. PICK m : StoreMask(u, i) = IF i.vl = 0 THEN Finish(u) ELSE IF address.kind = "fault" THEN Refuse(u, address)
                                   ELSE Finish([u EXCEPT !.scratchpad = m])
    BY <2>2
  <2>4. PICK n : StoreMask(w, i) = IF i.vl = 0 THEN Finish(w) ELSE IF address.kind = "fault" THEN Refuse(w, address)
                                   ELSE Finish([w EXCEPT !.scratchpad = n])
    BY <2>2
  <2> QED
    BY <1>2, <2>1, <2>3, <2>4 DEF Finish, Refuse, Units, w
<1> QED
  BY <1>1, <1>4, <1>5, <1>6, <1>7, <1>8, <1>9, <1>10, <1>11, ExecuteIs

(* Lengths computed apart agree: a length VSETL grants fits every           *)
(* instruction on the types it was asked for and is zero only when nothing  *)
(* is left, and the work describe_npu announces covers the work done.       *)
THEOREM AnnouncedAndGranted == Spec => LengthsAgree
<1>1. TypeOK /\ [Next]_vars => [GrantedLengthsFit /\ FootprintCoversTraffic]_vars
  <2> SUFFICES ASSUME TypeOK, Next PROVE GrantedLengthsFit /\ FootprintCoversTraffic
    OBVIOUS
  <2> DEFINE i == executed'
  <2>1. IsInstruction(i) /\ unit \in Units /\ outcome' = Execute(unit, i).outcome /\ unit' = Execute(unit, i).unit
    BY StepExecutes
  <2> HIDE DEF i
  <2>2. ASSUME i.op = "VSETL"
        PROVE  /\ outcome'.value > 0 \/ i.avl = 0
               /\ \A x \in Repertoire :
                    {x[r] : r \in {"type", "result_type"} \cap DOMAIN x} \cup {"u32" : r \in {"indices"} \cap DOMAIN x}
                        \subseteq {i.type, i.peer_type} => outcome'.value <= Capacity(x)
    <3>1. PICK n \in Nat : outcome'.value = n /\ (n > 0 \/ i.avl = 0) /\ n <= Granted(i.type, i.peer_type)
      BY <2>1, <2>2, LengthsGranted
    <3>2. ASSUME NEW x \in Repertoire,
                 {x[r] : r \in {"type", "result_type"} \cap DOMAIN x} \cup {"u32" : r \in {"indices"} \cap DOMAIN x}
                    \subseteq {i.type, i.peer_type}
          PROVE  n <= Capacity(x)
      <4>1. Granted(i.type, i.peer_type) <= Capacity(x) /\ Granted(i.type, i.peer_type) \in Nat /\ Capacity(x) \in Nat
        BY <3>2, GrantFits, GrantIs, CapacityIsLeast
      <4> QED
        BY <3>1, <4>1
    <3> QED
      BY <3>1, <3>2
  <2>3. GrantedLengthsFit
    BY <2>2 DEF GrantedLengthsFit, i
  <2>4. ASSUME Has(i, "vl")
        PROVE  /\ Cardinality({b \in DOMAIN unit.scratchpad : unit'.scratchpad[b] # unit.scratchpad[b]}) <= Footprint(unit, i).writes
               /\ Footprint(unit, i).reads = 0 =>
                    /\ Execute([unit EXCEPT !.scratchpad = [b \in DOMAIN @ |-> 0]], i).outcome = outcome'
                    /\ Execute([unit EXCEPT !.scratchpad = [b \in DOMAIN @ |-> 0]], i).unit.vectors = unit'.vectors
                    /\ Execute([unit EXCEPT !.scratchpad = [b \in DOMAIN @ |-> 0]], i).unit.predicates = unit'.predicates
               /\ Footprint(unit, i).active <= Footprint(unit, i).lanes /\ Footprint(unit, i).lanes <= VectorBytes
    <3>1. i.op # "VSETL"
      <4>1. "vl" \in Operands(i.op)
        BY <2>1, <2>4, OperandValue
      <4> QED
        BY <4>1 DEF Operands, BinaryOps, BitOps, CompareOps, ReduceOps
    <3>2. Cardinality({b \in DOMAIN unit.scratchpad : Execute(unit, i).unit.scratchpad[b] # unit.scratchpad[b]}) <= Footprint(unit, i).writes
      BY <2>1, <3>1, WritesCovered
    <3>3. Footprint(unit, i).reads = 0 => /\ Execute(Blank(unit), i).outcome = outcome'
                                          /\ Execute(Blank(unit), i).unit.vectors = unit'.vectors
                                          /\ Execute(Blank(unit), i).unit.predicates = unit'.predicates
      BY <2>1, <3>1, ReadsCovered
    <3>4. Footprint(unit, i).active <= Footprint(unit, i).lanes /\ Footprint(unit, i).lanes <= VectorBytes
      BY <2>1, <3>1, FootprintLanes
    <3> QED
      BY <2>1, <3>2, <3>3, <3>4 DEF Blank
  <2>5. FootprintCoversTraffic
    BY <2>4 DEF FootprintCoversTraffic, i
  <2> QED
    BY <2>3, <2>5
<1> QED
  BY <1>1, TypesHold, PTL DEF Spec, LengthsAgree

-----------------------------------------------------------------------------
(* Numbers of a width: what is left of a value, and what it is read as      *)

(* A quotient taken in two steps is the quotient.                           *)
LEMMA NestedQuotient ==
    ASSUME NEW v \in Int, NEW a \in Nat \ {0}, NEW b \in Nat \ {0}
    PROVE  v \div (b * a) = (v \div a) \div b
<1> DEFINE q == v \div a
           p == q \div b
           r0 == v % a
           r1 == q % b
<1>1. q \in Int /\ v = a * q + r0 /\ r0 \in 0 .. a - 1
  OBVIOUS
<1>2. p \in Int /\ q = b * p + r1 /\ r1 \in 0 .. b - 1
  <2> HIDE DEF q
  <2> QED
    BY <1>1
<1> HIDE DEF q, p, r0, r1
<1>3. r1 * a + r0 \in 0 .. b * a - 1 /\ b * a \in Nat \ {0}
  <2>1. r1 * a <= (b - 1) * a
    BY <1>2
  <2>2. (b - 1) * a = b * a - a
    OBVIOUS
  <2>3. b * a \in Nat \ {0}
    OBVIOUS
  <2>4. r1 * a \in Nat
    BY <1>2
  <2> DEFINE x == b * a
             y == r1 * a
             z == (b - 1) * a
  <2> HIDE DEF x, y, z
  <2>5. y <= z /\ z = x - a /\ y \in Nat /\ x \in Nat \ {0}
    BY <2>1, <2>2, <2>3, <2>4 DEF x, y, z
  <2>6. y + r0 \in 0 .. x - 1
    BY <1>1, <2>5
  <2> QED
    BY <2>5, <2>6 DEF x, y
<1>4. v = p * (b * a) + (r1 * a + r0)
  BY <1>1, <1>2
<1>5. v \div (b * a) = p
  <2> DEFINE d == b * a
             r == r1 * a + r0
  <2> HIDE DEF d, r
  <2>1. d \in Nat \ {0} /\ r \in 0 .. d - 1 /\ v = p * d + r
    BY <1>3, <1>4 DEF d, r
  <2>2. v \div d = p
    BY <1>2, <2>1, QuotientIsUnique
  <2> QED
    BY <2>2 DEF d
<1> QED
  BY <1>5 DEF p, q

(* A remainder by a multiple keeps the remainder.                           *)
LEMMA NestedRemainder ==
    ASSUME NEW v \in Int, NEW m \in Nat \ {0}, NEW c \in Nat \ {0}
    PROVE  (v % (c * m)) % m = v % m
<1> DEFINE d == c * m
           q == v \div d
           r == v % d
           p == r \div m
           s == r % m
<1>1. d \in Nat \ {0}
  OBVIOUS
<1>2. q \in Int /\ v = d * q + r /\ r \in 0 .. d - 1
  <2> HIDE DEF d
  <2> QED
    BY <1>1
<1>3. p \in Int /\ r = m * p + s /\ s \in 0 .. m - 1
  <2> HIDE DEF r
  <2> QED
    BY <1>2
<1> HIDE DEF q, r, p, s
<1>4. v = (c * q + p) * m + s
  BY <1>2, <1>3
<1>5. v % m = s
  <2> DEFINE t == c * q + p
  <2>1. t \in Int
    BY <1>2, <1>3
  <2> HIDE DEF t
  <2> QED
    BY <1>3, <1>4, <2>1, QuotientIsUnique DEF t
<1> QED
  BY <1>5 DEF s, r, d

(* A multiple added leaves the remainder.                                   *)
LEMMA ShiftedRemainder ==
    ASSUME NEW v \in Int, NEW m \in Nat \ {0}, NEW t \in Int
    PROVE  (v + t * m) % m = v % m
<1> DEFINE q == v \div m
           r == v % m
<1>1. q \in Int /\ v = m * q + r /\ r \in 0 .. m - 1
  OBVIOUS
<1> HIDE DEF q, r
<1>2. v + t * m = (q + t) * m + r
  BY <1>1
<1> DEFINE x == v + t * m
           p == q + t
<1>3. x \in Int /\ p \in Int
  BY <1>1
<1> HIDE DEF x, p
<1>4. x % m = r
  BY <1>1, <1>2, <1>3, QuotientIsUnique DEF x, p
<1> QED
  BY <1>4 DEF x, r

(* Widths, as factors of the address space.                                 *)
LEMMA SpaceFactors ==
    ASSUME NEW w \in {1, 2, 4}
    PROVE  ByteValues ^ w \in Nat \ {0} /\ \E c \in Nat \ {0} : AddressSpace = c * ByteValues ^ w
<1> DEFINE B == ByteValues
<1>1. B \in Nat \ {0} /\ B * B \in Nat \ {0}
  BY BytePowers
<1>2. B * (B * B) \in Nat \ {0} /\ B * (B * (B * B)) \in Nat \ {0}
  BY <1>1
<1>3. AddressSpace = B * (B * (B * B)) /\ ByteValues ^ 1 = B /\ ByteValues ^ 2 = B * B /\ ByteValues ^ 4 = B * (B * (B * B))
  BY BytePowers
<1> HIDE DEF B
<1>4. CASE w = 1
  <2>1. AddressSpace = (B * (B * B)) * B
    BY <1>1, <1>3
  <2> QED
    BY <1>1, <1>2, <1>3, <1>4, <2>1
<1>5. CASE w = 2
  <2>1. AddressSpace = (B * B) * (B * B)
    BY <1>1, <1>3
  <2> QED
    BY <1>1, <1>3, <1>5, <2>1
<1>6. CASE w = 4
  BY <1>2, <1>3, <1>6
<1> QED
  BY <1>4, <1>5, <1>6

LEMMA WordRemainder ==
    ASSUME NEW v \in Int, NEW w \in {1, 2, 4}
    PROVE  WordOf(v) % ByteValues ^ w = v % ByteValues ^ w
<1>1. PICK c \in Nat \ {0} : AddressSpace = c * ByteValues ^ w
  BY SpaceFactors
<1>2. ByteValues ^ w \in Nat \ {0}
  BY SpaceFactors
<1> DEFINE m == ByteValues ^ w
<1> HIDE DEF m
<1>3. (v % (c * m)) % m = v % m
  BY <1>2, NestedRemainder DEF m
<1> QED
  BY <1>1, <1>3 DEF m, WordOf

(* The bytes of a value, read back, are what is left of it in their width.  *)
LEMMA DigitsMake ==
    ASSUME NEW v \in Int
    PROVE  /\ ByteOf(v, 0) = v % ByteValues ^ 1
           /\ ByteOf(v, 0) + ByteOf(v, 1) * ByteValues = v % ByteValues ^ 2
           /\ Little(ByteOf(v, 0), ByteOf(v, 1), ByteOf(v, 2), ByteOf(v, 3)) = v % ByteValues ^ 4
<1> DEFINE B == ByteValues
           q1 == v \div B
           q2 == q1 \div B
           q3 == q2 \div B
           q4 == q3 \div B
           d0 == v % B
           d1 == q1 % B
           d2 == q2 % B
           d3 == q3 % B
<1>1. B \in Nat \ {0} /\ B * B \in Nat \ {0} /\ B * (B * B) \in Nat \ {0}
  <2>1. B \in Nat \ {0} /\ B * B \in Nat \ {0}
    BY BytePowers
  <2> QED
    BY <2>1
<1>2. ByteValues ^ 0 = 1 /\ ByteValues ^ 1 = B /\ ByteValues ^ 2 = B * B /\ ByteValues ^ 3 = B * (B * B) /\ ByteValues ^ 4 = B * (B * (B * B))
  BY BytePowers
<1> HIDE DEF B
<1>3. q1 \in Int /\ v = B * q1 + d0 /\ d0 \in 0 .. B - 1
  BY <1>1
<1>4. q2 \in Int /\ q1 = B * q2 + d1 /\ d1 \in 0 .. B - 1
  <2> HIDE DEF q1
  <2> QED
    BY <1>1, <1>3
<1>5. q3 \in Int /\ q2 = B * q3 + d2 /\ d2 \in 0 .. B - 1
  <2> HIDE DEF q2
  <2> QED
    BY <1>1, <1>4
<1>6. q4 \in Int /\ q3 = B * q4 + d3 /\ d3 \in 0 .. B - 1
  <2> HIDE DEF q3
  <2> QED
    BY <1>1, <1>5
<1>7. v \div (B * B) = q2
  BY <1>1, NestedQuotient
<1>8. v \div (B * (B * B)) = q3
  <2>1. v \div (B * (B * B)) = (v \div (B * B)) \div B
    <3> DEFINE a == B * B
    <3> HIDE DEF a
    <3>1. v \div (B * a) = (v \div a) \div B
      BY <1>1, NestedQuotient DEF a
    <3> QED
      BY <3>1 DEF a
  <2> QED
    BY <1>7, <2>1
<1>9. ByteOf(v, 0) = d0 /\ ByteOf(v, 1) = d1 /\ ByteOf(v, 2) = d2 /\ ByteOf(v, 3) = d3
  <2>1. v \div 1 = v
    OBVIOUS
  <2> QED
    BY <1>2, <1>7, <1>8, <2>1 DEF ByteOf, B
<1> HIDE DEF q1, q2, q3, q4, d0, d1, d2, d3
<1>10. d0 + d1 * B \in 0 .. B * B - 1
  <2> DEFINE s == B * B
             x == d1 * B
             y == (B - 1) * B
  <2>1. x <= y /\ y = s - B /\ x >= 0 /\ x \in Int /\ s \in Nat
    BY <1>1, <1>4
  <2> HIDE DEF s, x, y
  <2>2. d0 + x \in 0 .. s - 1
    BY <1>1, <1>3, <2>1
  <2> QED
    BY <2>2 DEF s, x
<1>11. v % (B * B) = d0 + d1 * B
  <2> DEFINE d == B * B
             r == d0 + d1 * B
  <2>1. v = q2 * d + r
    BY <1>1, <1>3, <1>4
  <2>2. d \in Nat \ {0} /\ r \in 0 .. d - 1
    BY <1>1, <1>10
  <2> HIDE DEF d, r
  <2>3. v % d = r
    BY <1>5, <1>4, <2>1, <2>2, QuotientIsUnique
  <2> QED
    BY <2>3 DEF d, r
<1>12. d2 + d3 * B \in 0 .. B * B - 1
  <2> DEFINE s == B * B
             x == d3 * B
             y == (B - 1) * B
  <2>1. x <= y /\ y = s - B /\ x >= 0 /\ x \in Int /\ s \in Nat
    BY <1>1, <1>6
  <2> HIDE DEF s, x, y
  <2>2. d2 + x \in 0 .. s - 1
    BY <1>1, <1>5, <2>1
  <2> QED
    BY <2>2 DEF s, x
<1>13. v % (B * (B * (B * B))) = d0 + d1 * B + d2 * (B * B) + d3 * (B * (B * B))
  <2> DEFINE s == B * B
             lo == d0 + d1 * B
             hi == d2 + d3 * B
             d == B * (B * (B * B))
             r == hi * s + lo
  <2>1. s \in Nat \ {0} /\ lo \in 0 .. s - 1 /\ hi \in 0 .. s - 1 /\ d = s * s
    BY <1>1, <1>10, <1>12
  <2>2. q2 = q4 * s + hi
    BY <1>1, <1>4, <1>5, <1>6
  <2>3. v = q2 * s + lo
    BY <1>1, <1>3, <1>4
  <2>4. r = d0 + d1 * B + d2 * (B * B) + d3 * (B * (B * B))
    BY <1>1, <1>3, <1>4, <1>5, <1>6
  <2> HIDE DEF s, lo, hi, d
  <2>5. hi * s <= (s - 1) * s /\ (s - 1) * s = s * s - s /\ hi * s >= 0
    BY <2>1
  <2>6. r \in 0 .. d - 1 /\ d \in Nat \ {0}
    BY <2>1, <2>5
  <2>7. v = q4 * d + r
    BY <1>6, <2>1, <2>2, <2>3
  <2> HIDE DEF r
  <2>8. v % d = r
    BY <1>6, <2>6, <2>7, QuotientIsUnique
  <2> QED
    BY <2>4, <2>8 DEF d
<1> QED
  BY <1>1, <1>2, <1>9, <1>11, <1>13 DEF Little, B, d0

LEMMA ReadBack ==
    ASSUME NEW v \in Int, NEW bytes, NEW at \in Int, NEW size \in {1, 2, 4},
           \A b \in at .. at + size - 1 : bytes[b] = ByteOf(v, b - at)
    PROVE  ReadBytes(bytes, at, size) = v % ByteValues ^ size
<1>1. \A j \in 0 .. size - 1 : at + j \in at .. at + size - 1 /\ (at + j) - at = j
  OBVIOUS
<1>2. \A j \in 0 .. size - 1 : bytes[at + j] = ByteOf(v, j)
  BY <1>1
<1>3. \A b \in at .. at + size - 1 : bytes[b] \in Bytes
  <2> SUFFICES ASSUME NEW b \in at .. at + size - 1 PROVE bytes[b] \in Bytes
    OBVIOUS
  <2>1. b - at \in 0 .. 3
    OBVIOUS
  <2> QED
    BY <2>1, ByteOfRange
<1>4. bytes[at] = ByteOf(v, 0)
  <2>1. 0 \in 0 .. size - 1 /\ at + 0 = at
    OBVIOUS
  <2> QED
    BY <1>2, <2>1
<1>5. CASE size = 1
  <2>1. ReadBytes(bytes, at, 1) = bytes[at]
    BY <1>3, <1>5, ReadBytesValue
  <2> QED
    BY <1>4, <1>5, <2>1, DigitsMake
<1>6. CASE size = 2
  <2>1. ReadBytes(bytes, at, 2) = bytes[at] + bytes[at + 1] * ByteValues
    BY <1>3, <1>6, ReadBytesValue
  <2>2. bytes[at + 1] = ByteOf(v, 1)
    BY <1>2, <1>6
  <2> QED
    BY <1>4, <1>6, <2>1, <2>2, DigitsMake
<1>7. CASE size = 4
  <2>1. ReadBytes(bytes, at, 4) = bytes[at] + bytes[at + 1] * ByteValues + bytes[at + 2] * ByteValues ^ 2 + bytes[at + 3] * ByteValues ^ 3
    BY <1>3, <1>7, ReadBytesValue
  <2>2. bytes[at + 1] = ByteOf(v, 1) /\ bytes[at + 2] = ByteOf(v, 2) /\ bytes[at + 3] = ByteOf(v, 3)
    BY <1>2, <1>7
  <2> QED
    BY <1>4, <1>7, <2>1, <2>2, DigitsMake DEF Little
<1> QED
  BY <1>5, <1>6, <1>7

(* An active lane of the result holds what is left of its value.            *)
LEMMA OutputElement ==
    ASSUME NEW u, NEW i, NEW checks, Writable(u, i, checks), NEW k \in Active(u, i)
    PROVE  ReadBytes(Output(u, i, checks), k * OutputWidth(i), OutputWidth(i))
             = LaneValue(u, i, k, checks) % ByteValues ^ OutputWidth(i)
<1> DEFINE w == OutputWidth(i)
           at == k * w
           value == LaneValue(u, i, k, checks)
           bytes == Output(u, i, checks)
<1>1. w \in {1, 2, 4} /\ i.vl \in Nat /\ i.vl * w <= VectorBytes /\ k \in 0 .. i.vl - 1 /\ value \in Addresses
  BY DEF Writable
<1>2. value \in Int /\ at \in Int
  BY <1>1, AddressFacts
<1>3. \A b \in at .. at + w - 1 : b \in AllLanes
  <2> HIDE DEF w
  <2> QED
    BY <1>1, LaneBytes
<1>4. \A b \in at .. at + w - 1 : b \div w = k
  <2> SUFFICES ASSUME NEW b \in at .. at + w - 1 PROVE b \div w = k
    OBVIOUS
  <2>1. b - at \in 0 .. w - 1 /\ b = k * w + (b - at) /\ b \in Int
    BY <1>1, <1>2
  <2> HIDE DEF w, at
  <2>2. w \in Nat \ {0} /\ k \in Int
    BY <1>1
  <2> QED
    BY <2>1, <2>2, QuotientIsUnique
<1>5. \A b \in at .. at + w - 1 : bytes[b] = ByteOf(value, b - at)
  BY <1>3, <1>4, OutputIs DEF OutputByte
<1> HIDE DEF w, at, value, bytes
<1>6. ReadBytes(bytes, at, w) = value % ByteValues ^ w
  BY <1>1, <1>2, <1>5, ReadBack
<1> QED
  BY <1>6 DEF w, at, value, bytes

(* An integer is in the range of its type, is its bits up to a multiple of  *)
(* the modulus, and every number of the range is read back from its bits.   *)
LEMMA IntegerInRange ==
    ASSUME NEW value \in Int, NEW type
    PROVE  /\ Integer(value, type) \in Lowest(type) .. Greatest(type)
           /\ \E t \in Int : Integer(value, type) = value + t * Modulus(type)
<1> DEFINE m == Modulus(type)
           h == m \div 2
           bits == value % m
           q == value \div m
<1>1. m \in Nat \ {0} /\ h \in Nat \ {0} /\ m = 2 * h
  BY ModulusFacts
<1> HIDE DEF m, h
<1>2. value = m * q + bits /\ q \in Int /\ bits \in 0 .. m - 1
  BY <1>1
<1>3. Integer(value, type) = IF type \in Signed /\ bits >= h THEN bits - m ELSE bits
  BY DEF Integer, m, h
<1>4. Lowest(type) = (IF type \in Signed THEN -h ELSE 0) /\ Greatest(type) = Lowest(type) + m - 1
  BY DEF Lowest, Greatest, m, h
<1> HIDE DEF bits, q
<1>5. Integer(value, type) \in Lowest(type) .. Greatest(type)
  BY <1>1, <1>2, <1>3, <1>4
<1>6. \E t \in Int : Integer(value, type) = value + t * m
  <2>1. bits = value + (-q) * m /\ bits - m = value + (-q - 1) * m /\ -q \in Int /\ -q - 1 \in Int
    BY <1>1, <1>2
  <2> QED
    BY <1>3, <2>1
<1> QED
  BY <1>5, <1>6 DEF m

LEMMA IntegerReadBack ==
    ASSUME NEW type, NEW v \in Lowest(type) .. Greatest(type)
    PROVE  Integer(v % Modulus(type), type) = v
<1> DEFINE m == Modulus(type)
           h == m \div 2
<1>1. m \in Nat \ {0} /\ h \in Nat \ {0} /\ m = 2 * h
  BY ModulusFacts
<1> HIDE DEF m, h
<1>2. Lowest(type) = (IF type \in Signed THEN -h ELSE 0) /\ Greatest(type) = Lowest(type) + m - 1
  BY DEF Lowest, Greatest, m, h
<1>3. v \in Int
  BY <1>1, <1>2
<1>4. v % m = IF v < 0 THEN v + m ELSE v
  <2>1. CASE v >= 0
    <3>1. v \in 0 .. m - 1 /\ v = 0 * m + v
      BY <1>1, <1>2, <2>1
    <3>2. v % m = v
      BY <1>1, <1>3, <3>1, QuotientIsUnique
    <3> QED
      BY <2>1, <3>2
  <2>2. CASE v < 0
    <3> DEFINE r == v + m
    <3>1. r \in 0 .. m - 1 /\ v = (-1) * m + r
      BY <1>1, <1>2, <2>2
    <3> HIDE DEF r
    <3>2. v % m = r /\ -1 \in Int
      BY <1>1, <1>3, <3>1, QuotientIsUnique
    <3> QED
      BY <2>2, <3>2 DEF r
  <2> QED
    BY <1>3, <2>1, <2>2
<1> DEFINE bits == v % m
<1>5. bits \in 0 .. m - 1
  BY <1>1, <1>2, <1>3, <1>4
<1>6. bits % m = bits
  <2>1. bits = 0 * m + bits /\ bits \in Int /\ 0 \in Int
    BY <1>1, <1>5
  <2> HIDE DEF bits
  <2> QED
    BY <1>1, <1>5, <2>1, QuotientIsUnique
<1>7. Integer(bits, type) = IF type \in Signed /\ bits % m >= h THEN (bits % m) - m ELSE bits % m
  BY DEF Integer, m, h
<1>8. Integer(bits, type) = IF type \in Signed /\ bits >= h THEN bits - m ELSE bits
  BY <1>6, <1>7
<1>9. Integer(bits, type) = v
  <2>1. bits = IF v < 0 THEN v + m ELSE v
    BY <1>4
  <2> HIDE DEF bits
  <2> QED
    BY <1>1, <1>2, <1>3, <1>8, <2>1
<1> QED
  BY <1>9 DEF bits, m

(* The word of a number of the range, cut to the width of its type.         *)
LEMMA ElementReadBack ==
    ASSUME NEW type, NEW v \in Lowest(type) .. Greatest(type)
    PROVE  Integer(WordOf(v) % ByteValues ^ Width(type), type) = v
<1>1. v \in Int
  BY RangeBounds
<1>2. WordOf(v) % ByteValues ^ Width(type) = v % Modulus(type)
  BY <1>1, WidthRange, WordRemainder, ModulusFacts
<1> QED
  BY <1>2, IntegerReadBack

-----------------------------------------------------------------------------
(* PWHILELT, conversions and products                                       *)

LEMMA LeastOfTwo ==
    ASSUME NEW a \in Nat, NEW b \in Nat
    PROVE  Least({a, b}) = IF a <= b THEN a ELSE b
<1>1. {a, b} \in SUBSET Nat /\ {a, b} # {}
  OBVIOUS
<1>2. Least({a, b}) \in {a, b} /\ \A y \in {a, b} : Least({a, b}) <= y
  BY <1>1, LeastOf
<1> QED
  BY <1>2

LEMMA WhileSelects ==
    ASSUME NEW u \in Units, NEW i, IsInstruction(i), i.op = "PWHILELT", Execute(u, i).outcome = Done
    PROVE  Execute(u, i).unit.predicates[i.pd]
             = 0 .. Least({i.vl, IF i.base < i.end THEN i.end - i.base ELSE 0}) - 1
<1> DEFINE left == IF i.base < i.end THEN i.end - i.base ELSE 0
<1>1. i.op \in MaskOps /\ i.op \in Opcodes /\ i.op # "VSETL"
  BY DEF MaskOps, Opcodes
<1>2. i.base \in Nat /\ i.end \in Nat /\ i.vl \in Nat /\ i.pd \in PredicateRegisters
  BY <1>1, MaskOperands, LengthOperand, AddressFacts
<1>3. ~(i.vl > Capacity(i))
  <2>1. Invalid # Done
    BY DEF Invalid, Fault, Done
  <2> QED
    BY <1>1, <2>1, ExecuteIs DEF Refuse
<1>4. Execute(u, i) = MakeMask(u, i)
  BY <1>1, <1>3, ExecuteIs
<1>5. \E at : MakeMask(u, i) = Finish([u EXCEPT !.predicates[i.pd] = MaskValue(u, i, at)])
  BY DEF MakeMask
<1>6. \A at : MaskValue(u, i, at) = While(i)
  BY DEF MaskValue
<1>7. MakeMask(u, i).unit.predicates[i.pd] = While(i)
  BY <1>2, <1>5, <1>6, UnitShape DEF Finish
<1>8. left \in Nat /\ Least({i.vl, left}) = IF i.vl <= left THEN i.vl ELSE left
  BY <1>2, LeastOfTwo
<1>9. While(i) = 0 .. Least({i.vl, left}) - 1
  BY <1>2, <1>8 DEF While, Lanes
<1> QED
  BY <1>4, <1>7, <1>9

LEMMA VectorOutcome ==
    ASSUME NEW u \in Units, NEW i, IsInstruction(i), i.op \in VectorOps \ LoadOps, Execute(u, i).outcome = Done
    PROVE  /\ Fits(u, i) /\ Writable(u, i, << >>) /\ i.vd \in VectorRegisters
           /\ Execute(u, i).unit.vectors[i.vd] = Output(u, i, << >>)
<1>1. i.op \in Opcodes /\ i.op # "VSETL"
  BY DEF VectorOps, IsInstruction, LaneOps
<1>2. ~(i.vl > Capacity(i))
  <2>1. Invalid # Done
    BY DEF Invalid, Fault, Done
  <2> QED
    BY <1>1, <2>1, ExecuteIs DEF Refuse
<1>3. Fits(u, i) /\ Execute(u, i) = MakeVector(u, i)
  BY <1>1, <1>2, ExecuteIs DEF Fits
<1>4. FirstFault(<< >>) = << >>
  BY NoFirstFault
<1>5. MakeVector(u, i) = Finish([u EXCEPT !.vectors[i.vd] = Output(u, i, << >>)])
  BY <1>4 DEF MakeVector
<1>6. Checked(u, i, << >>)
  BY <1>3 DEF Checked
<1>7. Writable(u, i, << >>) /\ i.vd \in VectorRegisters
  BY <1>6, OutputFits, VectorOperands
<1>8. Output(u, i, << >>) \in Vectors
  BY <1>7, OutputIs
<1>9. [u EXCEPT !.vectors[i.vd] = Output(u, i, << >>)].vectors[i.vd] = Output(u, i, << >>)
  BY <1>7, <1>8, VectorIsResult, ZenonT(60)
<1>10. Execute(u, i).unit = [u EXCEPT !.vectors[i.vd] = Output(u, i, << >>)]
  <2> DEFINE next == [u EXCEPT !.vectors[i.vd] = Output(u, i, << >>)]
  <2> HIDE DEF next
  <2>1. Execute(u, i) = Finish(next)
    BY <1>3, <1>5 DEF next
  <2>2. Execute(u, i).unit = next
    BY <2>1 DEF Finish
  <2> QED
    BY <2>2 DEF next
<1>11. Execute(u, i).unit.vectors[i.vd] = Output(u, i, << >>)
  BY <1>9, <1>10, Zenon
<1> QED
  BY <1>3, <1>7, <1>11

(* What an active lane of the destination holds afterwards.                 *)
LEMMA ResultElement ==
    ASSUME NEW u \in Units, NEW i, IsInstruction(i), i.op \in VectorOps \ LoadOps, Execute(u, i).outcome = Done,
           NEW k \in Active(u, i)
    PROVE  Element(Execute(u, i).unit, i.vd, k, OutputWidth(i)) = LaneValue(u, i, k, << >>) % ByteValues ^ OutputWidth(i)
<1>1. Execute(u, i).unit.vectors[i.vd] = Output(u, i, << >>) /\ Writable(u, i, << >>)
  BY VectorOutcome
<1>2. ReadBytes(Output(u, i, << >>), k * OutputWidth(i), OutputWidth(i)) = LaneValue(u, i, k, << >>) % ByteValues ^ OutputWidth(i)
  BY <1>1, OutputElement
<1> QED
  BY <1>1, <1>2 DEF Element

LEMMA ClampedIsNearest ==
    ASSUME NEW v \in Int, NEW type, NEW x \in Lowest(type) .. Greatest(type)
    PROVE  /\ Clamped(v, type) \in Lowest(type) .. Greatest(type)
           /\ (IF Clamped(v, type) < v THEN v - Clamped(v, type) ELSE Clamped(v, type) - v) <= (IF x < v THEN v - x ELSE x - v)
<1>1. Lowest(type) \in Int /\ Greatest(type) \in Int /\ Lowest(type) <= Greatest(type)
  BY RangeBounds
<1> QED
  BY <1>1 DEF Clamped

LEMMA ConversionElement ==
    ASSUME NEW u \in Units, NEW i, IsInstruction(i), i.op = "VCONVERT", Execute(u, i).outcome = Done,
           "f32" \notin {i.type, i.result_type}, NEW k \in Active(u, i)
    PROVE  /\ Integer(Element(u, i.va, k, Size(i)), i.type) \in Int
           /\ Integer(Element(Execute(u, i).unit, i.vd, k, Width(i.result_type)), i.result_type)
                = Clamped(Integer(Element(u, i.va, k, Size(i)), i.type), i.result_type)
<1> DEFINE from == Integer(Element(u, i.va, k, Size(i)), i.type)
           type == i.result_type
           to == Clamped(from, type)
<1>1. i.op \in VectorOps \ LoadOps
  BY DEF VectorOps, LaneOps, LoadOps, StoreOps, CompareOps, ReduceOps, Opcodes, BinaryOps, BitOps, MaskOps
<1>2. Fits(u, i) /\ k \in Lanes(i) /\ i.va \in VectorRegisters /\ Has(i, "va")
  BY <1>1, VectorOutcome, ActiveRange, OtherOperands, OperandNamed DEF Operands
<1>3. from \in Int
  <2>1. Element(u, i.va, k, Size(i)) \in Int
    BY <1>2, LaneElement, AddressFacts
  <2> QED
    BY <2>1, IntegerRange
<1>4. LaneValue(u, i, k, << >>) = WordOf(to)
  BY <1>2 DEF LaneValue, LoadOps, Convert
<1>5. OutputWidth(i) = Width(type)
  BY DEF OutputWidth
<1>6. Element(Execute(u, i).unit, i.vd, k, Width(type)) = WordOf(to) % ByteValues ^ Width(type)
  BY <1>1, <1>4, <1>5, ResultElement
<1>7. to \in Lowest(type) .. Greatest(type)
  <2>1. Lowest(type) \in Lowest(type) .. Greatest(type)
    BY RangeBounds
  <2> HIDE DEF from, type
  <2> QED
    BY <1>3, <2>1, ClampedIsNearest
<1> HIDE DEF to, type, from
<1>8. Integer(WordOf(to) % ByteValues ^ Width(type), type) = to
  BY <1>7, ElementReadBack
<1> QED
  BY <1>3, <1>6, <1>8 DEF to, type, from

LEMMA ConversionsNear ==
    ASSUME NEW u \in Units, NEW i, IsInstruction(i), i.op = "VCONVERT", Execute(u, i).outcome = Done,
           "f32" \notin {i.type, i.result_type}, NEW k \in Active(u, i),
           NEW x \in Lowest(i.result_type) .. Greatest(i.result_type)
    PROVE  LET from == Integer(Element(u, i.va, k, Size(i)), i.type)
               to == Integer(Element(Execute(u, i).unit, i.vd, k, Width(i.result_type)), i.result_type)
               gap(a, b) == IF a < b THEN b - a ELSE a - b
           IN  gap(to, from) <= gap(x, from)
<1> DEFINE from == Integer(Element(u, i.va, k, Size(i)), i.type)
           to == Integer(Element(Execute(u, i).unit, i.vd, k, Width(i.result_type)), i.result_type)
           type == i.result_type
<1>1. from \in Int /\ to = Clamped(from, type) /\ x \in Lowest(type) .. Greatest(type)
  BY ConversionElement
<1> HIDE DEF from, to, type
<1>2. (IF to < from THEN from - to ELSE to - from) <= (IF x < from THEN from - x ELSE x - from)
  BY <1>1, ClampedIsNearest
<1> QED
  BY <1>2 DEF from, to

-----------------------------------------------------------------------------
(* Products                                                                 *)

(* A quotient lies where the bounds of what is divided put it.              *)
LEMMA QuotientBounds ==
    ASSUME NEW z \in Int, NEW m \in Nat \ {0}, NEW lo \in Int, NEW hi \in Int, lo * m <= z, z < (hi + 1) * m
    PROVE  z \div m \in lo .. hi
<1> DEFINE q == z \div m
           r == z % m
<1>1. q \in Int /\ z = m * q + r /\ r \in 0 .. m - 1
  OBVIOUS
<1> HIDE DEF q, r
<1>2. ~(q < lo)
  <2> SUFFICES ASSUME q + 1 <= lo PROVE FALSE
    BY <1>1
  <2>1. (q + 1) * m <= lo * m
    BY <1>1
  <2>2. (q + 1) * m = m * q + m
    BY <1>1
  <2> QED
    BY <1>1, <2>1, <2>2
<1>3. ~(q > hi)
  <2> SUFFICES ASSUME hi + 1 <= q PROVE FALSE
    BY <1>1
  <2>1. (hi + 1) * m <= q * m
    BY <1>1
  <2> QED
    BY <1>1, <2>1
<1> QED
  BY <1>1, <1>2, <1>3 DEF q

LEMMA ProductBounds ==
    ASSUME NEW h \in Nat, NEW x \in -h .. h, NEW y \in -h .. h
    PROVE  x * y \in -(h * h) .. h * h
<1>1. ASSUME NEW a \in 0 .. h, NEW b \in 0 .. h PROVE a * b \in 0 .. h * h
  <2>1. a * b <= h * b /\ h * b <= h * h /\ 0 <= a * b /\ a * b \in Int
    OBVIOUS
  <2> QED
    BY <2>1
<1>2. h * h \in Nat
  OBVIOUS
<1>3. CASE x >= 0 /\ y >= 0
  BY <1>1, <1>2, <1>3
<1>4. CASE x >= 0 /\ y < 0
  <2>1. x * (-y) \in 0 .. h * h /\ x * (-y) = -(x * y)
    BY <1>1, <1>4
  <2> QED
    BY <1>2, <2>1
<1>5. CASE x < 0 /\ y >= 0
  <2>1. (-x) * y \in 0 .. h * h /\ (-x) * y = -(x * y)
    BY <1>1, <1>5
  <2> QED
    BY <1>2, <2>1
<1>6. CASE x < 0 /\ y < 0
  <2>1. (-x) * (-y) \in 0 .. h * h /\ (-x) * (-y) = x * y
    BY <1>1, <1>6
  <2> QED
    BY <1>2, <2>1
<1> QED
  BY <1>3, <1>4, <1>5, <1>6

(* The high half of a product of two numbers of a type is one of its numbers. *)
LEMMA HighInRange ==
    ASSUME NEW type, NEW x \in Lowest(type) .. Greatest(type), NEW y \in Lowest(type) .. Greatest(type)
    PROVE  (x * y) \div Modulus(type) \in Lowest(type) .. Greatest(type)
<1> DEFINE m == Modulus(type)
           h == m \div 2
           z == x * y
<1>1. m \in Nat \ {0} /\ h \in Nat \ {0} /\ m = 2 * h
  BY ModulusFacts
<1> HIDE DEF m, h
<1>2. Lowest(type) = (IF type \in Signed THEN -h ELSE 0) /\ Greatest(type) = Lowest(type) + m - 1
  BY DEF Lowest, Greatest, m, h
<1>3. x \in Int /\ y \in Int /\ z \in Int
  BY <1>1, <1>2
<1>4. CASE type \in Signed
  <2>1. Lowest(type) = -h /\ Greatest(type) = h - 1
    BY <1>1, <1>2, <1>4
  <2>2. x \in -h .. h /\ y \in -h .. h
    BY <1>1, <2>1
  <2>3. z \in -(h * h) .. h * h
    BY <1>1, <2>2, ProductBounds
  <2>4. (-h) * m = -(2 * (h * h)) /\ ((h - 1) + 1) * m = 2 * (h * h) /\ h * h > 0
    BY <1>1
  <2> DEFINE s == h * h
  <2>5. s \in Int
    BY <1>1
  <2> HIDE DEF s, z
  <2>6. (-h) * m <= z /\ z < ((h - 1) + 1) * m
    BY <1>3, <2>3, <2>4, <2>5 DEF s
  <2>7. z \div m \in -h .. h - 1
    <3>1. -h \in Int /\ h - 1 \in Int
      BY <1>1
    <3> QED
      BY <1>1, <1>3, <2>6, <3>1, QuotientBounds
  <2> QED
    BY <2>1, <2>7 DEF z, m
<1>5. CASE type \notin Signed
  <2>1. Lowest(type) = 0 /\ Greatest(type) = m - 1
    BY <1>1, <1>2, <1>5
  <2>2. x \in 0 .. m - 1 /\ y \in 0 .. m - 1
    BY <2>1
  <2>3. 0 <= z /\ z <= (m - 1) * y /\ (m - 1) * y <= (m - 1) * m
    BY <1>1, <2>2
  <2>4. (m - 1) * m < m * m /\ ((m - 1) + 1) * m = m * m /\ 0 * m = 0
    BY <1>1
  <2> DEFINE s == m * m
             t == (m - 1) * m
             v == (m - 1) * y
  <2>5. s \in Int /\ t \in Int /\ v \in Int
    BY <1>1, <1>3
  <2> HIDE DEF s, t, v, z
  <2>6. 0 * m <= z /\ z < ((m - 1) + 1) * m
    BY <1>3, <2>3, <2>4, <2>5 DEF s, t, v
  <2>7. z \div m \in 0 .. m - 1
    BY <1>1, <1>3, <2>6, QuotientBounds
  <2> QED
    BY <2>1, <2>7 DEF z, m
<1> QED
  BY <1>4, <1>5

(* Products of numbers and of their bits agree in the low half.             *)
LEMMA LowHalf ==
    ASSUME NEW a \in Int, NEW b \in Int, NEW type
    PROVE  (Integer(a, type) * Integer(b, type)) % Modulus(type) = (a * b) % Modulus(type)
<1> DEFINE m == Modulus(type)
           x == Integer(a, type)
           y == Integer(b, type)
<1>1. m \in Nat \ {0}
  BY ModulusFacts
<1>2. PICK s \in Int : x = a + s * m
  BY IntegerInRange
<1>3. PICK t \in Int : y = b + t * m
  BY IntegerInRange
<1> HIDE DEF m, x, y
<1> DEFINE v == a * b
           c == a * t + s * b + s * (t * m)
<1>4. x * y = v + c * m
  BY <1>1, <1>2, <1>3
<1>5. v \in Int /\ c \in Int
  BY <1>1
<1> HIDE DEF v, c
<1>6. (v + c * m) % m = v % m
  BY <1>1, <1>5, ShiftedRemainder
<1> QED
  BY <1>4, <1>6 DEF m, x, y, v

LEMMA WholeProduct ==
    ASSUME NEW a \in Int, NEW b \in Int, NEW type
    PROVE  High(a, b, type) * Modulus(type) + ((a * b) % Modulus(type)) = Integer(a, type) * Integer(b, type)
<1> DEFINE m == Modulus(type)
           z == Integer(a, type) * Integer(b, type)
<1>1. m \in Nat \ {0} /\ z \in Int
  BY ModulusFacts, IntegerRange
<1>2. z % m = (a * b) % m
  BY LowHalf
<1>3. High(a, b, type) = z \div m
  BY DEF High
<1> HIDE DEF m, z
<1>4. z = m * (z \div m) + (z % m) /\ z \div m \in Int
  BY <1>1
<1>5. (z \div m) * m + (z % m) = z
  BY <1>1, <1>4
<1> QED
  BY <1>2, <1>3, <1>5 DEF m, z

LEMMA ProductElements ==
    ASSUME NEW u \in Units, NEW i, IsInstruction(i), i.op = "VMULH", Execute(u, i).outcome = Done, NEW k \in Active(u, i)
    PROVE  LET a == Element(u, i.va, k, Size(i))
               b == Element(u, i.vb, k, Size(i))
           IN  /\ a \in Int /\ b \in Int
               /\ Integer(Element(Execute(u, i).unit, i.vd, k, Size(i)), i.type) = High(a, b, i.type)
               /\ Element(Execute(u, [i EXCEPT !.op = "VMUL"]).unit, i.vd, k, Size(i)) = (a * b) % Modulus(i.type)
<1> DEFINE a == Element(u, i.va, k, Size(i))
           b == Element(u, i.vb, k, Size(i))
           type == i.type
           high == High(a, b, type)
           j == [i EXCEPT !.op = "VMUL"]
<1>1. i.op \in VectorOps \ LoadOps
  BY DEF VectorOps, LaneOps, LoadOps, StoreOps, CompareOps, ReduceOps, Opcodes, BinaryOps, BitOps, MaskOps
<1>2. {"va", "vb", "vd", "type", "pg", "vl", "policy"} \subseteq Operands(i.op) /\ i.op \in BitOps
  BY DEF Operands, CompareOps, ReduceOps, BinaryOps, BitOps, Result, Masked
<1>3. Fits(u, i) /\ k \in Lanes(i) /\ Has(i, "va") /\ Has(i, "vb") /\ i.va \in VectorRegisters /\ i.vb \in VectorRegisters
  <2>1. \A r \in {"va", "vb"} : Has(i, r) /\ i[r] \in Values(i.op, r)
    BY <1>2, OperandNamed
  <2> QED
    BY <1>1, <2>1, VectorOutcome, ActiveRange, RoleValues
<1>4. Has(i, "type") /\ type \in Types \ {"f32"} /\ Size(i) = Width(type) /\ OutputWidth(i) = Width(type)
  <2>1. Has(i, "type") /\ type \in TypesOf(i.op)
    BY <1>2, OperandNamed, RoleValues
  <2> QED
    BY <1>2, <2>1 DEF TypesOf, Size, OutputWidth, BitOps
<1>5. a \in Int /\ b \in Int
  BY <1>3, LaneElement, AddressFacts
<1>6. high \in Lowest(type) .. Greatest(type)
  BY <1>5, IntegerInRange, HighInRange DEF High
<1>7. Integer(Element(Execute(u, i).unit, i.vd, k, Size(i)), type) = high
  <2>1. LaneValue(u, i, k, << >>) = WordOf(high)
    <3>1. LaneValue(u, i, k, << >>) = Arithmetic("VMULH", a, b, IF Has(i, "vc") THEN Element(u, i["vc"], k, Size(i)) ELSE 0, type)
      BY <1>3 DEF LaneValue, LoadOps
    <3> HIDE DEF high, a, b, type
    <3> QED
      BY <1>4, <3>1 DEF Arithmetic, high
  <2>2. Element(Execute(u, i).unit, i.vd, k, Width(type)) = WordOf(high) % ByteValues ^ Width(type)
    BY <1>1, <1>4, <2>1, ResultElement
  <2> HIDE DEF high, type
  <2>3. Integer(WordOf(high) % ByteValues ^ Width(type), type) = high
    BY <1>6, ElementReadBack
  <2> QED
    BY <1>4, <2>2, <2>3
<1>8. /\ j.op = "VMUL" /\ \A r : (Has(j, r) <=> Has(i, r)) /\ (Has(i, r) /\ r # "op" => j[r] = i[r])
      /\ DOMAIN j = DOMAIN i
  BY DEF Has, IsInstruction
<1>9. IsInstruction(j)
  <2>1. Operands(j.op) = Operands(i.op)
    BY <1>8 DEF Operands, CompareOps, ReduceOps, BinaryOps, BitOps
  <2>2. \A r : r # "type" => Values(j.op, r) = Values(i.op, r)
    BY DEF Values
  <2>3. i.type \in Values(j.op, "type")
    BY <1>4, <1>8 DEF Values, TypesOf, BitOps
  <2>4. "op" \notin Operands(i.op)
    BY DEF Operands, CompareOps, ReduceOps, BinaryOps, BitOps, Result, Masked
  <2>5. \A r \in Operands(i.op) : j[r] \in Values(j.op, r)
    <3> SUFFICES ASSUME NEW r \in Operands(i.op) PROVE j[r] \in Values(j.op, r)
      OBVIOUS
    <3>1. Has(i, r) /\ i[r] \in Values(i.op, r) /\ r # "op"
      BY <2>4, OperandNamed
    <3>2. j[r] = i[r]
      BY <1>8, <3>1
    <3> QED
      BY <2>2, <2>3, <3>1, <3>2
  <2>6. j.op \in Opcodes
    BY <1>8 DEF Opcodes, BinaryOps
  <2> HIDE DEF j
  <2> QED
    BY <1>8, <2>1, <2>5, <2>6 DEF IsInstruction
<1> HIDE DEF j
<1>10. Has(i, "vl") /\ Has(i, "pg") /\ Has(i, "vd") /\ Has(i, "policy")
  BY <1>2, OperandNamed
<1>11. /\ j.vl = i.vl /\ j.type = i.type /\ j.pg = i.pg /\ j.vd = i.vd /\ j.va = i.va /\ j.vb = i.vb
       /\ Size(j) = Size(i) /\ Capacity(j) = Capacity(i)
  <2>1. j.vl = i.vl /\ j.type = i.type /\ j.pg = i.pg /\ j.vd = i.vd /\ j.va = i.va /\ j.vb = i.vb
    BY <1>3, <1>4, <1>8, <1>10
  <2>2. Size(j) = Size(i)
    BY <1>4, <1>8, <2>1 DEF Size
  <2>3. "result_type" \notin DOMAIN i /\ "indices" \notin DOMAIN i
    BY DEF IsInstruction, Operands, CompareOps, ReduceOps, BinaryOps, BitOps, Result, Masked
  <2>4. Capacity(j) = Capacity(i)
    BY <1>8, <2>2, <2>3 DEF Capacity
  <2> QED
    BY <2>1, <2>2, <2>4
<1>12. k \in Active(u, j)
  BY <1>8, <1>10, <1>11 DEF Active, Lanes
<1>13. j.op \in VectorOps \ LoadOps
  BY <1>8 DEF VectorOps, LaneOps, LoadOps, StoreOps, CompareOps, ReduceOps, Opcodes, BinaryOps, BitOps, MaskOps
<1>14. Execute(u, j).outcome = Done
  <2>1. ~(j.vl > Capacity(j)) /\ j.op \in Opcodes /\ j.op # "VSETL"
    BY <1>3, <1>8, <1>9, <1>11 DEF Fits, IsInstruction
  <2>2. Execute(u, j) = MakeVector(u, j)
    BY <1>13, <2>1, ExecuteIs
  <2>3. FirstFault(<< >>) = << >>
    BY NoFirstFault
  <2> QED
    BY <1>13, <2>2, <2>3 DEF MakeVector, Finish
<1>15. Element(Execute(u, j).unit, i.vd, k, Size(i)) = (a * b) % Modulus(type)
  <2>1. OutputWidth(j) = Width(type)
    BY <1>8, <1>11 DEF OutputWidth
  <2>2. LaneValue(u, j, k, << >>) = WordOf(a * b)
    <3>1. LaneValue(u, j, k, << >>) = Arithmetic("VMUL", a, b, IF Has(j, "vc") THEN Element(u, j["vc"], k, Size(j)) ELSE 0, type)
      BY <1>3, <1>8, <1>11 DEF LaneValue, LoadOps
    <3> HIDE DEF a, b, type
    <3> QED
      BY <1>4, <3>1 DEF Arithmetic
  <2>3. Element(Execute(u, j).unit, j.vd, k, OutputWidth(j)) = LaneValue(u, j, k, << >>) % ByteValues ^ OutputWidth(j)
    BY <1>9, <1>12, <1>13, <1>14, ResultElement
  <2>4. Element(Execute(u, j).unit, i.vd, k, Size(i)) = WordOf(a * b) % ByteValues ^ Width(type)
    BY <1>4, <1>11, <2>1, <2>2, <2>3
  <2> HIDE DEF a, b, type
  <2>5. a * b \in Int
    BY <1>5
  <2>6. WordOf(a * b) % ByteValues ^ Width(type) = (a * b) % Modulus(type)
    BY <2>5, WidthRange, WordRemainder, ModulusFacts
  <2> QED
    BY <2>4, <2>6
<1> QED
  BY <1>5, <1>7, <1>15 DEF j, high

LEMMA ProductsWhole ==
    ASSUME NEW u \in Units, NEW i, IsInstruction(i), i.op = "VMULH", Execute(u, i).outcome = Done, NEW k \in Active(u, i)
    PROVE  Integer(Element(Execute(u, i).unit, i.vd, k, Size(i)), i.type) * Modulus(i.type)
             + Element(Execute(u, [i EXCEPT !.op = "VMUL"]).unit, i.vd, k, Size(i))
           = Integer(Element(u, i.va, k, Size(i)), i.type) * Integer(Element(u, i.vb, k, Size(i)), i.type)
<1> DEFINE a == Element(u, i.va, k, Size(i))
           b == Element(u, i.vb, k, Size(i))
           high == Integer(Element(Execute(u, i).unit, i.vd, k, Size(i)), i.type)
           low == Element(Execute(u, [i EXCEPT !.op = "VMUL"]).unit, i.vd, k, Size(i))
<1>1. a \in Int /\ b \in Int /\ high = High(a, b, i.type) /\ low = (a * b) % Modulus(i.type)
  BY ProductElements
<1> HIDE DEF a, b, high, low
<1>2. High(a, b, i.type) * Modulus(i.type) + ((a * b) % Modulus(i.type)) = Integer(a, i.type) * Integer(b, i.type)
  BY <1>1, WholeProduct
<1>3. high * Modulus(i.type) + low = Integer(a, i.type) * Integer(b, i.type)
  BY <1>1, <1>2
<1> QED
  BY <1>3 DEF a, b, high, low

-----------------------------------------------------------------------------
(* Packed predicates                                                        *)

(* A power of two is a multiple of every smaller one.                       *)
LEMMA PowerDivides ==
    ASSUME NEW k \in 0 .. 4 * ByteBits, NEW n \in 0 .. 4 * ByteBits, k <= n
    PROVE  \E q \in Nat : 2 ^ n = q * 2 ^ k
<1> DEFINE T == {m \in 0 .. 4 * ByteBits : m >= k => \E q \in Nat : 2 ^ m = q * 2 ^ k}
<1>1. 4 * ByteBits \in Nat
  BY NpuDataAssumption DEF NpuDataAssumption
<1>2. 2 ^ k \in Nat
  BY PowersOfTwo
<1>3. k \in T
  BY <1>2
<1>4. 0 \in T
  <2>1. CASE k = 0
    BY <1>3, <2>1
  <2>2. CASE k # 0
    BY <1>1, <2>2
  <2> QED
    BY <2>1, <2>2
<1>5. ASSUME NEW m \in 1 .. 4 * ByteBits, m - 1 \in T PROVE m \in T
  <2>1. CASE m < k
    BY <1>1, <2>1
  <2>2. CASE m = k
    BY <1>3, <2>2
  <2>3. CASE m > k
    <3>1. PICK q \in Nat : 2 ^ (m - 1) = q * 2 ^ k
      BY <1>1, <1>5, <2>3
    <3>2. 2 ^ m = 2 * 2 ^ (m - 1)
      <4>1. m - 1 \in 0 .. 4 * ByteBits - 1 /\ (m - 1) + 1 = m
        BY <1>1
      <4> QED
        BY <4>1, PowersAssumption DEF PowersAssumption
    <3>3. 2 ^ m = (2 * q) * 2 ^ k /\ 2 * q \in Nat
      BY <1>2, <3>1, <3>2
    <3>4. \E c \in Nat : 2 ^ m = c * 2 ^ k
      <4> DEFINE c == 2 * q
      <4> HIDE DEF c
      <4>1. c \in Nat /\ 2 ^ m = c * 2 ^ k
        BY <3>3 DEF c
      <4> QED
        BY <4>1
    <3> QED
      BY <3>4
  <2> QED
    BY <1>1, <2>1, <2>2, <2>3
<1> HIDE DEF T
<1>6. \A m \in 0 .. 4 * ByteBits : m \in T
  BY <1>1, <1>4, <1>5, RangeInduction
<1> QED
  BY <1>6 DEF T

(* The bits of the number some bits make are those bits.                    *)
LEMMA BitsOfNumber ==
    ASSUME NEW bits, NEW n \in 0 .. 4 * ByteBits
    PROVE  BitsOf(Number(bits, n), n) = bits \cap (0 .. n - 1)
<1>1. n \in Nat /\ 4 * ByteBits \in Nat
  BY NpuDataAssumption DEF NpuDataAssumption
<1>2. PICK f : /\ f[0] = 0 /\ \A k \in 1 .. n : f[k] = f[k - 1] + IF k - 1 \in bits THEN 2 ^ (k - 1) ELSE 0
               /\ \A k \in 0 .. n : f[k] \in 0 .. 2 ^ k - 1
               /\ Number(bits, n) = f[n]
  BY NumberFollows
<1>3. ASSUME NEW k \in 0 .. n - 1
      PROVE  (f[n] \div 2 ^ k) % 2 = IF k \in bits THEN 1 ELSE 0
  <2> DEFINE p == 2 ^ k
             T == {m \in 0 .. n : m >= k + 1 => \E t \in Nat : f[m] = f[k + 1] + t * (2 * p)}
  <2>1. k \in 0 .. n /\ k + 1 \in 1 .. n /\ k + 1 \in 0 .. n /\ (k + 1) - 1 = k /\ k \in 0 .. 4 * ByteBits /\ k + 1 \in 0 .. 4 * ByteBits
    BY <1>1
  <2>2. p \in Nat \ {0} /\ 2 ^ (k + 1) = 2 * p
    <3>1. k \in 0 .. 4 * ByteBits - 1
      BY <1>1
    <3> QED
      BY <2>1, <3>1, PowersOfTwo, PowersAssumption DEF PowersAssumption
  <2>3. f[k + 1] = f[k] + (IF k \in bits THEN p ELSE 0) /\ f[k] \in 0 .. p - 1
    BY <1>2, <2>1
  <2> HIDE DEF p
  <2>4. f[k + 1] \in Nat
    BY <2>2, <2>3
  <2>5. k + 1 \in T
    <3>1. f[k + 1] = f[k + 1] + 0 * (2 * p)
      BY <2>2, <2>4
    <3> QED
      BY <2>1, <3>1
  <2>6. 0 \in T
    BY <1>1, <2>1
  <2>7. ASSUME NEW m \in 1 .. n, m - 1 \in T PROVE m \in T
    <3>1. CASE m < k + 1
      BY <1>1, <2>1, <3>1
    <3>2. CASE m = k + 1
      BY <2>5, <3>2
    <3>3. CASE m > k + 1
      <4>1. PICK t \in Nat : f[m - 1] = f[k + 1] + t * (2 * p)
        BY <1>1, <2>1, <2>7, <3>3
      <4>2. PICK q \in Nat : 2 ^ (m - 1) = q * (2 * p)
        <5>1. m - 1 \in 0 .. 4 * ByteBits /\ k + 1 <= m - 1
          BY <1>1, <2>1, <3>3
        <5> QED
          BY <2>1, <2>2, <5>1, PowerDivides
      <4>3. f[m] = f[m - 1] + IF m - 1 \in bits THEN 2 ^ (m - 1) ELSE 0
        BY <1>2
      <4>4. CASE m - 1 \in bits
        <5>1. f[m] = f[k + 1] + (t + q) * (2 * p) /\ t + q \in Nat
          BY <2>2, <2>4, <4>1, <4>2, <4>3, <4>4
        <5> QED
          BY <1>1, <5>1
      <4>5. CASE m - 1 \notin bits
        <5>1. f[m] = f[k + 1] + t * (2 * p)
          BY <2>2, <2>4, <4>1, <4>3, <4>5
        <5> QED
          BY <1>1, <5>1
      <4> QED
        BY <4>4, <4>5
    <3> QED
      BY <1>1, <2>1, <3>1, <3>2, <3>3
  <2> HIDE DEF T
  <2>8. \A m \in 0 .. n : m \in T
    BY <1>1, <2>6, <2>7, RangeInduction
  <2>9. PICK t \in Nat : f[n] = f[k + 1] + t * (2 * p)
    BY <1>1, <2>1, <2>8 DEF T
  <2> DEFINE bit == IF k \in bits THEN 1 ELSE 0
             q == 2 * t + bit
             r == f[k]
  <2>10. q \in Int /\ bit \in 0 .. 1 /\ q = t * 2 + bit
    OBVIOUS
  <2>11. f[n] = q * p + r /\ r \in 0 .. p - 1 /\ f[n] \in Int
    BY <2>2, <2>3, <2>9
  <2> HIDE DEF q, r, bit
  <2>12. f[n] \div p = q
    BY <2>2, <2>10, <2>11, QuotientIsUnique, ZenonT(60)
  <2>13. q % 2 = bit
    BY <2>10
  <2> QED
    BY <2>12, <2>13 DEF p, bit
<1>4. \A k \in 0 .. n - 1 : ((f[n] \div 2 ^ k) % 2 = 1) <=> (k \in bits)
  BY <1>3
<1> QED
  BY <1>2, <1>4 DEF BitsOf

LEMMA PackedBounds ==
    ASSUME NEW length \in Nat
    PROVE  /\ Packed(length) \in Nat
           /\ length <= Packed(length) * ByteBits /\ Packed(length) * ByteBits < length + ByteBits
<1> DEFINE x == length + ByteBits - 1
           q == x \div ByteBits
           r == x % ByteBits
<1>1. ByteBits \in Nat \ {0}
  BY NpuDataAssumption DEF NpuDataAssumption
<1>2. x \in Int /\ Packed(length) = q
  BY <1>1 DEF Packed
<1>3. q \in Int /\ x = ByteBits * q + r /\ r \in 0 .. ByteBits - 1
  <2> HIDE DEF x
  <2> QED
    BY <1>1, <1>2
<1> HIDE DEF q, r
<1>4. length <= q * ByteBits /\ q * ByteBits < length + ByteBits
  BY <1>1, <1>3
<1> QED
  BY <1>2, <1>4, PackedRange

LEMMA PackedIs ==
    ASSUME NEW length \in Nat, NEW p \in Nat, length <= p * ByteBits, p * ByteBits < length + ByteBits
    PROVE  Packed(length) = p
<1> DEFINE x == length + ByteBits - 1
           r == x - p * ByteBits
<1>1. ByteBits \in Nat \ {0}
  BY NpuDataAssumption DEF NpuDataAssumption
<1>2. x \in Int /\ r \in 0 .. ByteBits - 1 /\ x = p * ByteBits + r
  BY <1>1
<1>3. Packed(length) = x \div ByteBits
  BY DEF Packed
<1> HIDE DEF x, r
<1> QED
  BY <1>1, <1>2, <1>3, QuotientIsUnique

(* A lane's bit is in the byte, and at the bit, that division names.        *)
LEMMA LaneBit ==
    ASSUME NEW k \in Nat, NEW length \in Nat, k < length
    PROVE  /\ k \div ByteBits \in 0 .. Packed(length) - 1 /\ k % ByteBits \in 0 .. ByteBits - 1
           /\ (k \div ByteBits) * ByteBits + (k % ByteBits) = k
<1> DEFINE q == k \div ByteBits
           r == k % ByteBits
           p == Packed(length)
<1>1. ByteBits \in Nat \ {0}
  BY NpuDataAssumption DEF NpuDataAssumption
<1>2. q \in Nat /\ r \in 0 .. ByteBits - 1 /\ k = ByteBits * q + r
  BY <1>1
<1>3. p \in Nat /\ length <= p * ByteBits
  BY PackedBounds
<1> HIDE DEF q, r, p
<1>4. q < p
  <2> SUFFICES ASSUME p <= q PROVE FALSE
    BY <1>2, <1>3
  <2>1. p * ByteBits <= q * ByteBits
    BY <1>1, <1>2, <1>3
  <2> QED
    BY <1>1, <1>2, <1>3, <2>1
<1>5. q * ByteBits + r = k
  BY <1>1, <1>2
<1> QED
  BY <1>2, <1>3, <1>4, <1>5 DEF q, r, p

(* The scratchpad's region is the one the properties name.                  *)
LEMMA HomeIs == ASSUME NEW r \in DOMAIN Map, Map[r].target = "scratchpad" PROVE Home = Map[r]
<1> DEFINE c == CHOOSE x \in DOMAIN Map : Map[x].target = "scratchpad"
<1>1. c \in DOMAIN Map /\ Map[c].target = "scratchpad"
  OBVIOUS
<1>2. Home = Map[c]
  BY DEF Home
<1> HIDE DEF c
<1>3. c = r
  BY <1>1, MapValid, LocalsAreUnique
<1> QED
  BY <1>2, <1>3

(* What can be written can be read at the same bytes, if it can be read.    *)
LEMMA ReadWhereWritten ==
    ASSUME NEW address \in Int, NEW size \in Nat, LocalAddress(address, size, TRUE, 1).kind = "local",
           "read" \in Home.allowed
    PROVE  LocalAddress(address, size, FALSE, 1) = LocalAddress(address, size, TRUE, 1)
<1> DEFINE there == LocalAddress(address, size, TRUE, 1)
           into == Resolve(Map, WordOf(address), size, "write")
           from == Resolve(Map, address, size, "read")
<1>1. Found(there, address, size, TRUE, 1)
  <2>1. 1 \in Nat \ {0} /\ TRUE \in BOOLEAN
    OBVIOUS
  <2>2. (there.kind = "fault" /\ there \in Faults /\ there # Invalid) \/ Found(there, address, size, TRUE, 1)
    BY <2>1, LocalAddressOutcome
  <2> QED
    BY <2>2
<1>2. address \in Addresses /\ WordOf(address) = address
  BY <1>1, WordOfWord DEF Found
<1>3. ~(address % 1 # 0) /\ into.ok /\ into.storage = "scratchpad" /\ LocalRange(ScratchpadBytes, into.at, size)
      /\ there = [kind |-> "local", at |-> into.at]
  BY DEF LocalAddress, Fault
<1>4. PICK r \in DOMAIN Map : RoutedBy(Map[r], address, size, "write", into)
  <2>1. Resolve(Map, address, size, "write").ok
    BY <1>2, <1>3
  <2>2. \E r \in DOMAIN Map : RoutedBy(Map[r], address, size, "write", Resolve(Map, address, size, "write"))
    BY <2>1, MapValid, RouteShape
  <2> QED
    BY <1>2, <2>2
<1> HIDE DEF there
<1>5. Map[r].target = "scratchpad" /\ Map[r].base <= address /\ address + size <= Map[r].base + Map[r].size /\ size > 0
      /\ into.at = address - Map[r].base
  BY <1>3, <1>4 DEF RoutedBy
<1>6. "read" \in Map[r].allowed
  BY <1>5, HomeIs
<1>7. Map[r].base \in Nat /\ Map[r].size \in Nat
  BY MapValid, RegionIsGood, RegionTypes DEF GoodRegion
<1>8. Contains(Map[r], address)
  BY <1>5, <1>7 DEF Contains
<1>9. from.ok /\ from.storage = "scratchpad" /\ from.at = into.at
  <2>1. /\ from.ok <=> (size > 0 /\ address + size <= Map[r].base + Map[r].size /\ "read" \in Map[r].allowed)
        /\ from.ok => from = [ok |-> TRUE, storage |-> Map[r].target, size |-> size,
                              at |-> IF Map[r].target = "system" THEN address ELSE address - Map[r].base]
    BY <1>8, MapValid, ResolvedIn
  <2> HIDE DEF from, into
  <2> QED
    BY <1>5, <1>6, <2>1
<1> HIDE DEF into
<1>10. LocalAddress(address, size, FALSE, 1) = [kind |-> "local", at |-> from.at]
  <2> HIDE DEF from
  <2>1. LocalAddress(address, size, FALSE, 1) =
          IF address % 1 # 0 THEN Fault(4, WordOf(address))
          ELSE IF address \notin Addresses \/ ~from.ok \/ from.storage # "scratchpad" \/ ~LocalRange(ScratchpadBytes, from.at, size)
          THEN Fault(5, WordOf(address)) ELSE [kind |-> "local", at |-> from.at]
    BY <1>2 DEF LocalAddress, from
  <2> QED
    BY <1>2, <1>3, <1>9, <2>1
<1> QED
  BY <1>3, <1>9, <1>10 DEF there

LEMMA StoredMask ==
    ASSUME NEW u \in Units, NEW i, IsInstruction(i), i.op = "PST", Execute(u, i).outcome = Done
    PROVE  LET local == LocalAddress(i.base + i.offset, Packed(i.vl), TRUE, 1)
           IN  /\ Fits(u, i) /\ Execute(u, i).unit \in Units
               /\ Execute(u, i).unit.predicates = u.predicates
               /\ i.vl = 0 \/ /\ local.kind = "local"
                              /\ \A n \in 0 .. Packed(i.vl) - 1 :
                                    Execute(u, i).unit.scratchpad[local.at + n] = PackedByte(u.predicates[i.pa], n, i.vl)
<1> DEFINE local == LocalAddress(i.base + i.offset, Packed(i.vl), TRUE, 1)
           byte(b) == IF b \in local.at .. local.at + Packed(i.vl) - 1
                      THEN PackedByte(u.predicates[i.pa], b - local.at, i.vl) ELSE u.scratchpad[b]
           memory == [b \in DOMAIN u.scratchpad |-> byte(b)]
<1>1. i.op \in Opcodes /\ i.op # "VSETL"
  BY DEF Opcodes
<1>2. Invalid # Done /\ Invalid.kind = "fault" /\ Done.kind = "done"
  BY DEF Invalid, Fault, Done
<1>3. ~(i.vl > Capacity(i))
  BY <1>1, <1>2, ExecuteIs DEF Refuse
<1>4. Fits(u, i) /\ Execute(u, i) = StoreMask(u, i)
  BY <1>1, <1>3, ExecuteIs DEF Fits
<1>5. IsResult(u, Execute(u, i)) /\ Execute(u, i).unit \in Units
  BY ExecuteIsResult DEF IsResult
<1>6. CASE i.vl = 0
  <2>1. StoreMask(u, i) = Finish(u)
    BY <1>6 DEF StoreMask
  <2>2. Execute(u, i).unit = u
    BY <1>4, <2>1 DEF Finish
  <2> QED
    BY <1>4, <1>5, <1>6, <2>2
<1>7. CASE i.vl # 0
  <2>1. i.base + i.offset \in Int /\ Packed(i.vl) \in Nat /\ 1 \in Nat \ {0} /\ TRUE \in BOOLEAN
    BY <1>4, MaskAddressRange
  <2>2. (local.kind = "fault" /\ local \in Faults /\ local # Invalid) \/ Found(local, i.base + i.offset, Packed(i.vl), TRUE, 1)
    BY <2>1, LocalAddressOutcome
  <2>3. local.kind # "fault"
    <3> SUFFICES ASSUME local.kind = "fault" PROVE FALSE
      OBVIOUS
    <3>1. StoreMask(u, i) = Refuse(u, local)
      BY <1>7 DEF StoreMask
    <3>2. StoreMask(u, i).outcome = local
      BY <3>1 DEF Refuse
    <3> QED
      BY <1>2, <1>4, <3>2
  <2>4. local.kind = "local" /\ local.at \in Nat /\ local.at + Packed(i.vl) <= ScratchpadBytes
    BY <2>2, <2>3 DEF Found
  <2>5. StoreMask(u, i) = Finish([u EXCEPT !.scratchpad = memory])
    BY <1>7, <2>3 DEF StoreMask
  <2>6. u.scratchpad \in [0 .. ScratchpadBytes - 1 -> Bytes]
    BY UnitFacts, ScratchpadFacts
  <2>7. \A n \in 0 .. Packed(i.vl) - 1 : memory[local.at + n] = PackedByte(u.predicates[i.pa], n, i.vl)
    <3> SUFFICES ASSUME NEW n \in 0 .. Packed(i.vl) - 1 PROVE memory[local.at + n] = PackedByte(u.predicates[i.pa], n, i.vl)
      OBVIOUS
    <3>1. local.at + n \in 0 .. ScratchpadBytes - 1 /\ local.at + n \in local.at .. local.at + Packed(i.vl) - 1
          /\ (local.at + n) - local.at = n
      <4> DEFINE at == local.at
                 size == Packed(i.vl)
      <4>1. at \in Nat /\ size \in Nat /\ at + size <= ScratchpadBytes /\ ScratchpadBytes \in Nat /\ n \in 0 .. size - 1
        BY <2>1, <2>4, ScratchpadFacts
      <4> HIDE DEF at, size, local
      <4>2. at + n \in 0 .. ScratchpadBytes - 1 /\ at + n \in at .. at + size - 1 /\ (at + n) - at = n
        BY <4>1
      <4> QED
        BY <4>2 DEF at, size
    <3>2. local.at + n \in DOMAIN u.scratchpad
      BY <2>6, <3>1
    <3> HIDE DEF local
    <3> QED
      BY <3>1, <3>2
  <2> HIDE DEF memory, local
  <2>8. /\ Execute(u, i).unit = [u EXCEPT !.scratchpad = memory]
        /\ Execute(u, i).unit.scratchpad = memory /\ Execute(u, i).unit.predicates = u.predicates
    BY <1>4, <2>5, UnitShape DEF Finish
  <2> QED
    BY <1>4, <1>5, <2>4, <2>7, <2>8 DEF local
<1> QED
  BY <1>6, <1>7

(* The length PackedMasksRoundTrip loads: whole bytes, within a register.   *)
LEMMA LoadedLength ==
    ASSUME NEW length \in Nat, length <= VectorBytes
    PROVE  LET n == Least({VectorBytes, Packed(length) * ByteBits})
           IN  n \in Nat /\ length <= n /\ n <= VectorBytes /\ Packed(n) = Packed(length)
<1> DEFINE p == Packed(length)
           whole == p * ByteBits
           n == Least({VectorBytes, whole})
<1>1. ByteBits \in Nat \ {0} /\ VectorBytes \in Nat
  BY VectorBytesRange, NpuDataAssumption DEF NpuDataAssumption
<1>2. p \in Nat /\ length <= whole /\ whole < length + ByteBits
  BY PackedBounds
<1> HIDE DEF p
<1>3. whole \in Nat
  BY <1>1, <1>2
<1>4. n = IF VectorBytes <= whole THEN VectorBytes ELSE whole
  BY <1>1, <1>3, LeastOfTwo
<1> HIDE DEF n
<1>5. n \in Nat /\ length <= n /\ n <= VectorBytes /\ n <= whole /\ whole < n + ByteBits
  BY <1>1, <1>2, <1>3, <1>4
<1>6. Packed(n) = p
  BY <1>2, <1>5, PackedIs
<1> QED
  BY <1>5, <1>6 DEF n, p

(* A load of n lanes, its check, and what it leaves.                        *)
IsLoad(j, p, base, offset, n) == j = [op |-> "PLD", pd |-> p, base |-> base, offset |-> offset, vl |-> n]

LoadCheck(base, offset, n) == LocalAddress(base + offset, Packed(n), FALSE, 1)

LoadedFrom(w, j, p, at) == Execute(w, j).unit.predicates[p] = MaskValue(w, j, at)

LEMMA LoadExecutes ==
    ASSUME NEW w \in Units, NEW p \in PredicateRegisters, NEW base \in Addresses, NEW offset \in Int,
           NEW n \in Nat, n <= VectorBytes, NEW j, IsLoad(j, p, base, offset, n),
           n = 0 \/ LoadCheck(base, offset, n).kind # "fault"
    PROVE  LoadedFrom(w, j, p, LoadCheck(base, offset, n).at)
<1> DEFINE local == LoadCheck(base, offset, n)
           mask == MaskValue(w, j, local.at)
<1>1. /\ j.op = "PLD" /\ j.pd = p /\ j.base = base /\ j.offset = offset /\ j.vl = n
      /\ DOMAIN j = {"op", "pd", "base", "offset", "vl"}
  BY DEF IsLoad
<1>2. Operands("PLD") = {"pd", "base", "offset", "vl"}
  BY DEF Operands, Memory, BinaryOps, BitOps, CompareOps, ReduceOps
<1>3. IsInstruction(j)
  <2>1. n \in Addresses
    BY VectorBytesRange, AddressFacts
  <2>2. \A r \in {"pd", "base", "offset", "vl"} : j[r] \in Values("PLD", r)
    BY <1>1, <2>1, RoleValues
  <2>3. j.op \in Opcodes
    BY <1>1 DEF Opcodes, MaskOps
  <2> QED
    BY <1>1, <1>2, <2>2, <2>3 DEF IsInstruction
<1>4. ~(j.vl > Capacity(j))
  <2>1. Widths(j) = {1}
    BY <1>1 DEF Widths, Size, Has
  <2>2. Capacity(j) = VectorBytes \div 1
    BY <2>1, CapacityIsLeast
  <2> QED
    BY <1>1, <2>2, VectorBytesRange
<1>5. Execute(w, j) = MakeMask(w, j) /\ Fits(w, j)
  <2>1. j.op \in MaskOps /\ j.op \in Opcodes /\ j.op # "VSETL"
    BY <1>1 DEF MaskOps, Opcodes
  <2> QED
    BY <1>3, <1>4, <2>1, ExecuteIs DEF Fits
<1>6. MakeMask(w, j) = Finish([w EXCEPT !.predicates[p] = mask])
  <2>1. n # 0 => local.kind # "fault"
    OBVIOUS
  <2> QED
    BY <1>1, <2>1 DEF MakeMask, LoadCheck
<1>7. mask \in SUBSET AllLanes
  <2>1. mask \subseteq Lanes(j)
    BY <1>1 DEF MaskValue
  <2> QED
    BY <1>5, <2>1, LanesInRegister
<1> HIDE DEF mask, local
<1>8. [w EXCEPT !.predicates[p] = mask].predicates[p] = mask
  BY <1>7, MaskIsResult
<1>9. Execute(w, j).unit = [w EXCEPT !.predicates[p] = mask]
  <2> DEFINE next == [w EXCEPT !.predicates[p] = mask]
  <2> HIDE DEF next
  <2>1. Execute(w, j) = Finish(next)
    BY <1>5, <1>6 DEF next
  <2> QED
    BY <2>1 DEF Finish, next
<1>10. Execute(w, j).unit.predicates[p] = mask
  BY <1>8, <1>9, Zenon
<1> QED
  BY <1>10 DEF mask, local, LoadedFrom

LEMMA MasksRoundTrip ==
    ASSUME NEW u \in Units, NEW i, IsInstruction(i), i.op = "PST", Execute(u, i).outcome = Done, "read" \in Home.allowed,
           NEW j, j = [op |-> "PLD", pd |-> i.pa, base |-> i.base, offset |-> i.offset,
                       vl |-> Least({VectorBytes, Packed(i.vl) * ByteBits})]
    PROVE  Execute(Execute(u, i).unit, j).unit.predicates[i.pa] = u.predicates[i.pa] \cap Lanes(i)
<1> DEFINE w == Execute(u, i).unit
           there == LocalAddress(i.base + i.offset, Packed(i.vl), TRUE, 1)
           n == Least({VectorBytes, Packed(i.vl) * ByteBits})
           from == LocalAddress(i.base + i.offset, Packed(n), FALSE, 1)
           p == u.predicates[i.pa]
<1>1. /\ Fits(u, i) /\ w \in Units /\ w.predicates = u.predicates
      /\ i.vl = 0 \/ /\ there.kind = "local"
                     /\ \A b \in 0 .. Packed(i.vl) - 1 : w.scratchpad[there.at + b] = PackedByte(p, b, i.vl)
  BY StoredMask
<1>2. i.vl \in Nat /\ i.vl <= VectorBytes
  BY <1>1, LanesInRegister
<1>3. n \in Nat /\ i.vl <= n /\ n <= VectorBytes /\ Packed(n) = Packed(i.vl)
  BY <1>2, LoadedLength
<1>4. i.base \in Addresses /\ i.offset \in Int /\ i.pa \in PredicateRegisters /\ i.base + i.offset \in Int /\ Packed(i.vl) \in Nat
  BY <1>1, MaskOperands, MaskAddressRange
<1> HIDE DEF w, there, n
<1>5. i.vl # 0 => from = there /\ from.kind = "local"
  BY <1>1, <1>3, <1>4, ReadWhereWritten DEF there
<1>6. i.vl = 0 => n = 0
  <2>1. Packed(0) = 0
    <3>1. ByteBits \in Nat \ {0} /\ 0 <= 0 * ByteBits /\ 0 * ByteBits < 0 + ByteBits /\ 0 \in Nat
      BY NpuDataAssumption DEF NpuDataAssumption
    <3> QED
      BY <3>1, PackedIs
  <2>2. 0 * ByteBits = 0
    BY NpuDataAssumption DEF NpuDataAssumption
  <2>3. i.vl = 0 => n = Least({VectorBytes, 0})
    BY <2>1, <2>2 DEF n
  <2>4. Least({VectorBytes, 0}) = 0
    BY VectorBytesRange, LeastOfTwo
  <2> QED
    BY <2>3, <2>4
<1> HIDE DEF from
<1>7. Execute(w, j).unit.predicates[i.pa] = MaskValue(w, j, from.at)
  <2>1. IsLoad(j, i.pa, i.base, i.offset, n)
    BY DEF n, IsLoad
  <2>2. n = 0 \/ LoadCheck(i.base, i.offset, n).kind # "fault"
    BY <1>5, <1>6 DEF from, LoadCheck
  <2>3. LoadedFrom(w, j, i.pa, LoadCheck(i.base, i.offset, n).at)
    BY <1>1, <1>3, <1>4, <2>1, <2>2, LoadExecutes
  <2> QED
    BY <2>3 DEF from, LoadCheck, LoadedFrom
<1>8. MaskValue(w, j, from.at) = {k \in 0 .. n - 1 : k % ByteBits \in BitsOf(w.scratchpad[from.at + (k \div ByteBits)], ByteBits)}
  <2>1. j.op = "PLD" /\ j.vl = n
    BY DEF n
  <2> QED
    BY <2>1 DEF MaskValue, Lanes
<1>9. ASSUME NEW k \in 0 .. n - 1, i.vl # 0
      PROVE  (k % ByteBits \in BitsOf(w.scratchpad[from.at + (k \div ByteBits)], ByteBits)) <=> (k \in p /\ k < i.vl)
  <2> DEFINE q == k \div ByteBits
             r == k % ByteBits
             bits == {m \in 0 .. ByteBits - 1 : q * ByteBits + m \in p /\ q * ByteBits + m < i.vl}
  <2>1. q \in 0 .. Packed(i.vl) - 1 /\ r \in 0 .. ByteBits - 1 /\ q * ByteBits + r = k
    <3>1. k \in Nat /\ k < n
      BY <1>3
    <3> QED
      BY <1>3, <3>1, LaneBit
  <2> HIDE DEF q, r
  <2>2. w.scratchpad[from.at + q] = Number(bits, ByteBits)
    BY <1>1, <1>5, <1>9, <2>1 DEF PackedByte
  <2>3. BitsOf(Number(bits, ByteBits), ByteBits) = bits \cap (0 .. ByteBits - 1)
    <3>1. ByteBits \in 0 .. 4 * ByteBits
      BY NpuDataAssumption DEF NpuDataAssumption
    <3> HIDE DEF bits
    <3> QED
      BY <3>1, BitsOfNumber
  <2>4. (r \in bits) <=> (k \in p /\ k < i.vl)
    BY <2>1
  <2> HIDE DEF bits
  <2>5. (r \in BitsOf(w.scratchpad[from.at + q], ByteBits)) <=> (k \in p /\ k < i.vl)
    BY <2>1, <2>2, <2>3, <2>4
  <2> QED
    BY <2>5 DEF q, r
<1>10. CASE i.vl = 0
  <2>1. 0 .. n - 1 = {} /\ Lanes(i) = {}
    BY <1>6, <1>10 DEF Lanes
  <2>2. MaskValue(w, j, from.at) = {}
    BY <1>8, <2>1
  <2> QED
    BY <1>7, <2>1, <2>2 DEF w
<1>11. CASE i.vl # 0
  <2>1. MaskValue(w, j, from.at) = {k \in 0 .. n - 1 : k \in p /\ k < i.vl}
    BY <1>8, <1>9, <1>11
  <2>2. {k \in 0 .. n - 1 : k \in p /\ k < i.vl} = p \cap (0 .. i.vl - 1)
    BY <1>2, <1>3
  <2> QED
    BY <1>7, <2>1, <2>2 DEF w, Lanes
<1> QED
  BY <1>10, <1>11

(* Lanes are exact where a width runs out: registers hold bytes, a loop     *)
(* counter near the end of the word selects what is left, VMULH and VMUL     *)
(* make the whole product, a narrowed integer is the nearest one, and a      *)
(* packed predicate comes back without bits past its length.                *)
THEOREM LanesExact == Spec => LanesAreExact
<1>1. TypeOK /\ [Next]_vars => TypeOK'
  <2>1. ASSUME TypeOK, Next PROVE TypeOK'
    <3>1. PICK i \in Repertoire : /\ unit' = Execute(unit, i).unit /\ outcome' = Execute(unit, i).outcome
                                  /\ IsResult(unit, Execute(unit, i)) /\ unit \in Units
      BY <2>1, StepIs
    <3> QED
      BY <3>1, ResultTypes DEF TypeOK
  <2>2. ASSUME TypeOK, UNCHANGED vars PROVE TypeOK'
    BY <2>2 DEF TypeOK, vars
  <2> QED
    BY <2>1, <2>2
<1>2. TypeOK /\ [Next]_vars =>
        [TypeOK' /\ WhileStopsAtTheEnd /\ ProductsAreWhole /\ ConversionsAreNearest /\ PackedMasksRoundTrip]_vars
  <2> SUFFICES ASSUME TypeOK, Next
               PROVE  TypeOK' /\ WhileStopsAtTheEnd /\ ProductsAreWhole /\ ConversionsAreNearest /\ PackedMasksRoundTrip
    OBVIOUS
  <2> DEFINE i == executed'
  <2>1. IsInstruction(i) /\ unit \in Units /\ outcome' = Execute(unit, i).outcome /\ unit' = Execute(unit, i).unit
    BY StepExecutes
  <2> HIDE DEF i
  <2>2. WhileStopsAtTheEnd
    <3>1. i.op = "PWHILELT" /\ outcome' = Done =>
            unit'.predicates[i.pd] = 0 .. Least({i.vl, IF i.base < i.end THEN i.end - i.base ELSE 0}) - 1
      BY <2>1, WhileSelects
    <3> QED
      BY <3>1 DEF WhileStopsAtTheEnd, i
  <2>3. ProductsAreWhole
    <3>1. ASSUME i.op = "VMULH", outcome' = Done, NEW k \in Active(unit, i)
          PROVE  Integer(Element(unit', i.vd, k, Size(i)), i.type) * Modulus(i.type)
                   + Element(Execute(unit, [i EXCEPT !.op = "VMUL"]).unit, i.vd, k, Size(i))
                 = Integer(Element(unit, i.va, k, Size(i)), i.type) * Integer(Element(unit, i.vb, k, Size(i)), i.type)
      BY <2>1, <3>1, ProductsWhole
    <3> QED
      BY <3>1 DEF ProductsAreWhole, i
  <2>4. ConversionsAreNearest
    <3>1. ASSUME i.op = "VCONVERT", outcome' = Done, "f32" \notin {i.type, i.result_type}, NEW k \in Active(unit, i),
                 NEW x \in Lowest(i.result_type) .. Greatest(i.result_type)
          PROVE  LET from == Integer(Element(unit, i.va, k, Size(i)), i.type)
                     to == Integer(Element(unit', i.vd, k, Width(i.result_type)), i.result_type)
                     gap(a, b) == IF a < b THEN b - a ELSE a - b
                 IN  gap(to, from) <= gap(x, from)
      BY <2>1, <3>1, ConversionsNear
    <3> QED
      BY <3>1 DEF ConversionsAreNearest, i
  <2>5. PackedMasksRoundTrip
    <3>1. ASSUME i.op = "PST", outcome' = Done, "read" \in Home.allowed
          PROVE  Execute(unit', [op |-> "PLD", pd |-> i.pa, base |-> i.base, offset |-> i.offset,
                                 vl |-> Least({VectorBytes, Packed(i.vl) * ByteBits})]).unit.predicates[i.pa]
                   = unit.predicates[i.pa] \cap Lanes(i)
      BY <2>1, <3>1, MasksRoundTrip
    <3> QED
      BY <3>1 DEF PackedMasksRoundTrip, i
  <2>6. TypeOK'
    BY <1>1
  <2> QED
    BY <2>2, <2>3, <2>4, <2>5, <2>6
<1> QED
  BY <1>2, TypesHold, PTL DEF Spec, LanesAreExact
=============================================================================
