---------------------------- MODULE MatrixProofs ----------------------------
(***************************************************************************)
(* Proofs about MatrixUnit, for every configuration, repertoire and program *)
(* of matrix instructions.                                                  *)
(***************************************************************************)
EXTENDS MatrixUnit, MapProofs, FiniteSetTheorems

-----------------------------------------------------------------------------
(* Powers of two, and the numbers of a byte, an element and a word          *)

LEMMA PowersOfTwo == \A n \in 0 .. 4 * ByteBits : 2 ^ n \in Nat \ {0}
<1> DEFINE T == {n \in 0 .. 4 * ByteBits : 2 ^ n \in Nat \ {0}}
<1>1. 4 * ByteBits \in Nat
  BY NpuDataAssumption DEF NpuDataAssumption
<1>2. 0 \in T
  BY <1>1, PowersAssumption DEF PowersAssumption
<1>3. ASSUME NEW n \in 1 .. 4 * ByteBits, n - 1 \in T PROVE n \in T
  <2>1. n - 1 \in 0 .. 4 * ByteBits - 1 /\ (n - 1) + 1 = n
    BY <1>1
  <2>2. 2 ^ n = 2 * 2 ^ (n - 1)
    BY <2>1, PowersAssumption DEF PowersAssumption
  <2> QED
    BY <1>3, <2>2
<1> HIDE DEF T
<1>4. \A n \in 0 .. 4 * ByteBits : n \in T
  BY <1>1, <1>2, <1>3, RangeInduction
<1> QED
  BY <1>4 DEF T

(* A byte is one bit at least, and a word is four bytes.                    *)
LEMMA BytePowers ==
    /\ ByteValues \in Nat /\ ByteValues >= 2
    /\ ByteValues ^ 0 = 1 /\ ByteValues ^ 1 = ByteValues /\ ByteValues ^ 2 = ByteValues * ByteValues
    /\ ByteValues ^ 3 = ByteValues * (ByteValues * ByteValues)
    /\ ByteValues ^ 4 = ByteValues * (ByteValues * (ByteValues * ByteValues))
    /\ AddressSpace = ByteValues ^ 4
<1>1. ByteBits \in Nat \ {0} /\ AddressSpace = ByteValues ^ 4
  BY NpuDataAssumption DEF NpuDataAssumption
<1>2. ByteValues \in Nat /\ ByteValues >= 2
  <2>1. ByteBits - 1 \in 0 .. 4 * ByteBits - 1 /\ ByteBits - 1 \in 0 .. 4 * ByteBits /\ (ByteBits - 1) + 1 = ByteBits
    BY <1>1
  <2>2. 2 ^ ByteBits = 2 * 2 ^ (ByteBits - 1)
    BY <2>1, PowersAssumption DEF PowersAssumption
  <2>3. 2 ^ (ByteBits - 1) \in Nat \ {0}
    BY <2>1, PowersOfTwo
  <2> QED
    BY <2>2, <2>3 DEF ByteValues
<1>3. \A n \in 0 .. 3 : ByteValues ^ (n + 1) = ByteValues * ByteValues ^ n
  BY PowersAssumption DEF PowersAssumption
<1>4. ByteValues ^ 0 = 1
  BY PowersAssumption DEF PowersAssumption
<1>5. ByteValues ^ 1 = ByteValues
  <2>1. ByteValues ^ (0 + 1) = ByteValues * ByteValues ^ 0
    BY <1>3
  <2> QED
    BY <1>2, <1>4, <2>1
<1>6. ByteValues ^ 2 = ByteValues * ByteValues
  <2>1. ByteValues ^ (1 + 1) = ByteValues * ByteValues ^ 1
    BY <1>3
  <2> QED
    BY <1>5, <2>1
<1>7. ByteValues ^ 3 = ByteValues * (ByteValues * ByteValues)
  <2>1. ByteValues ^ (2 + 1) = ByteValues * ByteValues ^ 2
    BY <1>3
  <2> QED
    BY <1>6, <2>1
<1>8. ByteValues ^ 4 = ByteValues * (ByteValues * (ByteValues * ByteValues))
  <2>1. ByteValues ^ (3 + 1) = ByteValues * ByteValues ^ 3
    BY <1>3
  <2> QED
    BY <1>7, <2>1
<1> QED
  BY <1>1, <1>2, <1>4, <1>5, <1>6, <1>7, <1>8

LEMMA WidthRange == ASSUME NEW type PROVE Width(type) \in {1, 2, 4}
BY DEF Width

(* An element has a power of two of values, so half of them are negative.   *)
LEMMA ModulusFacts ==
    ASSUME NEW type
    PROVE  /\ Modulus(type) = ByteValues ^ Width(type)
           /\ Modulus(type) \in Nat /\ Modulus(type) \div 2 \in Nat \ {0}
           /\ Modulus(type) = 2 * (Modulus(type) \div 2)
           /\ Modulus(type) <= AddressSpace
<1>1. Width(type) \in {1, 2, 4} /\ ByteBits \in Nat \ {0}
  BY WidthRange, NpuDataAssumption DEF NpuDataAssumption
<1>2. Modulus(type) = ByteValues ^ Width(type)
  BY <1>1, PowersAssumption DEF PowersAssumption, Modulus, Bits
<1> DEFINE n == ByteBits * Width(type) - 1
<1>3. n \in 0 .. 4 * ByteBits - 1 /\ n \in 0 .. 4 * ByteBits /\ n + 1 = ByteBits * Width(type)
  BY <1>1
<1>4. 2 ^ n \in Nat \ {0} /\ Modulus(type) = 2 * 2 ^ n
  BY <1>3, PowersOfTwo, PowersAssumption DEF PowersAssumption, Modulus, Bits
<1>5. Modulus(type) \div 2 = 2 ^ n
  <2> HIDE DEF n
  <2> QED
    BY <1>4
<1>6. Modulus(type) <= AddressSpace
  <2>1. ByteValues >= 1 /\ ByteValues * ByteValues >= ByteValues
    BY BytePowers
  <2>2. ByteValues * (ByteValues * ByteValues) >= ByteValues * ByteValues
    BY <2>1, BytePowers
  <2>3. ByteValues * (ByteValues * (ByteValues * ByteValues)) >= ByteValues * (ByteValues * ByteValues)
    BY <2>1, <2>2, BytePowers
  <2> QED
    BY <1>1, <1>2, <2>1, <2>2, <2>3, BytePowers
<1> QED
  BY <1>2, <1>4, <1>5, <1>6

LEMMA WordRange == ASSUME NEW value \in Int PROVE WordOf(value) \in Addresses
BY AddressSpaceAssumption DEF AddressSpaceAssumption, WordOf, Addresses

LEMMA IntegerRange ==
    ASSUME NEW value \in Int, NEW type
    PROVE  Integer(value, type) \in Int
<1>1. Modulus(type) \in Nat \ {0}
  BY ModulusFacts
<1>2. value % Modulus(type) \in Int
  BY <1>1
<1> QED
  BY <1>1, <1>2 DEF Integer

-----------------------------------------------------------------------------
(* Little-endian reads and writes                                           *)

LEMMA ByteRange == ASSUME NEW b \in Bytes PROVE b \in Nat /\ b < ByteValues
BY BytePowers DEF Bytes

(* What read() gives for the sizes there are.                               *)
LEMMA ReadBytesValue ==
    ASSUME NEW bytes, NEW at \in Int, NEW size \in {1, 2, 4}, \A b \in at .. at + size - 1 : bytes[b] \in Bytes
    PROVE  /\ size = 1 => ReadBytes(bytes, at, size) = bytes[at]
           /\ size = 2 => ReadBytes(bytes, at, size) = bytes[at] + bytes[at + 1] * ByteValues
           /\ size = 4 => ReadBytes(bytes, at, size) =
                bytes[at] + bytes[at + 1] * ByteValues + bytes[at + 2] * ByteValues ^ 2 + bytes[at + 3] * ByteValues ^ 3
<1> DEFINE Sums(g) == g = [k \in 0 .. size |-> IF k = 0 THEN 0 ELSE g[k - 1] + bytes[at + k - 1] * ByteValues ^ (k - 1)]
           sum == CHOOSE g : Sums(g)
           step == [p \in Nat \X (1 .. size) |-> p[1] + bytes[at + p[2] - 1] * ByteValues ^ (p[2] - 1)]
<1>1. \A k \in 1 .. size : bytes[at + k - 1] \in Nat /\ ByteValues ^ (k - 1) \in Nat
  <2>1. \A k \in 1 .. size : at + k - 1 \in at .. at + size - 1
    OBVIOUS
  <2>2. \A k \in 1 .. size : k - 1 \in {0, 1, 2, 3}
    OBVIOUS
  <2> QED
    BY <2>1, <2>2, ByteRange, BytePowers
<1>2. IsStep(step, Nat, size)
  <2>1. \A p \in Nat \X (1 .. size) : p[1] + bytes[at + p[2] - 1] * ByteValues ^ (p[2] - 1) \in Nat
    <3> TAKE p \in Nat \X (1 .. size)
    <3> DEFINE x == bytes[at + p[2] - 1]
               y == ByteValues ^ (p[2] - 1)
    <3>1. p[1] \in Nat /\ x \in Nat /\ y \in Nat
      BY <1>1
    <3> HIDE DEF x, y
    <3>2. p[1] + x * y \in Nat
      BY <3>1
    <3> QED
      BY <3>2 DEF x, y
  <2> QED
    BY <2>1 DEF IsStep
<1>3. PICK f : Follows(f, Nat, size, 0, step)
  <2>1. size \in Nat /\ 0 \in Nat
    OBVIOUS
  <2> HIDE DEF step
  <2> QED
    BY <1>2, <2>1, RecursionExists
<1>4. Sums(f)
  <2>1. \A k \in 0 .. size : k # 0 => k \in 1 .. size /\ f[k - 1] \in Nat
    BY <1>3 DEF Follows
  <2>2. \A k \in 0 .. size : f[k] = IF k = 0 THEN 0 ELSE f[k - 1] + bytes[at + k - 1] * ByteValues ^ (k - 1)
    BY <1>3, <2>1 DEF Follows
  <2> QED
    BY <1>3, <2>2 DEF Follows
<1>5. Sums(sum)
  <2> HIDE DEF Sums
  <2> QED
    BY <1>4
<1>6. ReadBytes(bytes, at, size) = sum[size]
  BY DEF ReadBytes
<1> HIDE DEF sum
<1>7. \A k \in 0 .. size : sum[k] = IF k = 0 THEN 0 ELSE sum[k - 1] + bytes[at + k - 1] * ByteValues ^ (k - 1)
  BY <1>5
<1> HIDE DEF Sums
<1>8. sum[0] = 0
  BY <1>7
<1>9. sum[1] = bytes[at]
  <2>1. sum[1] = sum[0] + bytes[at + 1 - 1] * ByteValues ^ 0 /\ bytes[at + 1 - 1] \in Nat
    BY <1>1, <1>7
  <2>2. at + 1 - 1 = at
    OBVIOUS
  <2> QED
    BY <1>8, <2>1, <2>2, BytePowers
<1>10. size # 1 => sum[2] = bytes[at] + bytes[at + 1] * ByteValues
  <2> SUFFICES ASSUME size # 1 PROVE sum[2] = bytes[at] + bytes[at + 1] * ByteValues
    OBVIOUS
  <2>1. sum[2] = sum[1] + bytes[at + 2 - 1] * ByteValues ^ (2 - 1) /\ at + 2 - 1 = at + 1
    BY <1>7
  <2> QED
    BY <1>9, <2>1, BytePowers
<1>11. size = 4 => sum[4] = bytes[at] + bytes[at + 1] * ByteValues + bytes[at + 2] * ByteValues ^ 2 + bytes[at + 3] * ByteValues ^ 3
  <2> SUFFICES ASSUME size = 4
               PROVE  sum[4] = bytes[at] + bytes[at + 1] * ByteValues + bytes[at + 2] * ByteValues ^ 2 + bytes[at + 3] * ByteValues ^ 3
    OBVIOUS
  <2>1. sum[3] = sum[2] + bytes[at + 3 - 1] * ByteValues ^ (3 - 1) /\ at + 3 - 1 = at + 2
    BY <1>7
  <2>2. sum[4] = sum[3] + bytes[at + 4 - 1] * ByteValues ^ (4 - 1) /\ at + 4 - 1 = at + 3
    BY <1>7
  <2> QED
    BY <1>10, <2>1, <2>2
<1> QED
  BY <1>6, <1>9, <1>10, <1>11

(* Four bytes as a word, and the word's bytes again.                        *)
Little(b0, b1, b2, b3) == b0 + b1 * ByteValues + b2 * ByteValues ^ 2 + b3 * ByteValues ^ 3

ByteOf(value, j) == (value \div ByteValues ^ j) % ByteValues

LEMMA LittleDigits ==
    ASSUME NEW b0 \in Bytes, NEW b1 \in Bytes, NEW b2 \in Bytes, NEW b3 \in Bytes
    PROVE  LET value == Little(b0, b1, b2, b3)
           IN  /\ value \in Nat /\ value < ByteValues ^ 4
               /\ b2 = 0 /\ b3 = 0 => value < ByteValues ^ 2
               /\ ByteOf(value, 0) = b0 /\ ByteOf(value, 1) = b1 /\ ByteOf(value, 2) = b2 /\ ByteOf(value, 3) = b3
<1> DEFINE B == ByteValues
           value == Little(b0, b1, b2, b3)
           B2 == B * B
           B3 == B * B2
<1>1. b0 \in 0 .. B - 1 /\ b1 \in 0 .. B - 1 /\ b2 \in 0 .. B - 1 /\ b3 \in 0 .. B - 1 /\ B \in Nat \ {0}
  BY ByteRange, BytePowers
<1>2. value = b0 + b1 * B + b2 * B2 + b3 * B3 /\ ByteValues ^ 2 = B2 /\ ByteValues ^ 3 = B3 /\ ByteValues ^ 4 = B * B3
      /\ ByteValues ^ 0 = 1 /\ ByteValues ^ 1 = B
  BY BytePowers DEF Little
<1> HIDE DEF B, value
<1> DEFINE q1 == b1 + b2 * B + b3 * B2
           q2 == b2 + b3 * B
<1>3. B2 \in Nat \ {0} /\ B3 \in Nat \ {0}
  BY <1>1
<1>4. q1 \in Nat /\ q2 \in Nat /\ value \in Nat
  BY <1>1, <1>2
<1>5. value = q1 * B + b0 /\ q1 = q2 * B + b1 /\ q2 = b3 * B + b2
  BY <1>1, <1>2
<1>6. value \div B = q1 /\ value % B = b0
  <2>1. value = q1 * B + b0 /\ q1 \in Int /\ value \in Int /\ b0 \in 0 .. B - 1 /\ B \in Nat \ {0}
    BY <1>1, <1>4, <1>5
  <2> HIDE DEF q1
  <2> QED
    BY <2>1, QuotientIsUnique
<1>7. q1 % B = b1
  <2>1. q1 = q2 * B + b1 /\ q1 \in Int /\ q2 \in Int /\ b1 \in 0 .. B - 1 /\ B \in Nat \ {0}
    BY <1>1, <1>4, <1>5
  <2> HIDE DEF q1, q2
  <2> QED
    BY <2>1, QuotientIsUnique
<1>8. q2 % B = b2
  <2>1. q2 = b3 * B + b2 /\ q2 \in Int /\ b3 \in Int /\ b2 \in 0 .. B - 1 /\ B \in Nat \ {0}
    BY <1>1, <1>5
  <2> HIDE DEF q2
  <2> QED
    BY <2>1, QuotientIsUnique
<1>9. b0 + b1 * B \in 0 .. B2 - 1
  <2>1. b1 * B <= (B - 1) * B
    BY <1>1
  <2> QED
    BY <1>1, <2>1
<1>10. value \div B2 = q2
  <2> DEFINE rest == b0 + b1 * B
  <2>1. value = q2 * B2 + rest
    BY <1>1, <1>2
  <2>2. q2 \in Int /\ value \in Int /\ rest \in 0 .. B2 - 1 /\ B2 \in Nat \ {0}
    BY <1>1, <1>3, <1>4, <1>9
  <2> HIDE DEF q2, B2, rest
  <2> QED
    BY <2>1, <2>2, QuotientIsUnique
<1>11. b0 + b1 * B + b2 * B2 \in 0 .. B3 - 1
  <2>1. b2 * B2 <= (B - 1) * B2
    BY <1>1, <1>3
  <2>2. (B - 1) * B2 = B3 - B2 /\ b2 * B2 >= 0
    BY <1>1
  <2> HIDE DEF B2, B3
  <2> QED
    BY <1>1, <1>3, <1>9, <2>1, <2>2
<1>12. value \div B3 = b3
  <2> DEFINE rest == b0 + b1 * B + b2 * B2
  <2>1. value = b3 * B3 + rest /\ b3 \in Int
    BY <1>1, <1>2
  <2>2. value \in Int /\ rest \in 0 .. B3 - 1 /\ B3 \in Nat \ {0}
    BY <1>3, <1>4, <1>11
  <2> HIDE DEF B3, B2, q1, q2, rest
  <2> QED
    BY <2>1, <2>2, QuotientIsUnique
<1>13. b3 % B = b3 /\ value \div 1 = value
  BY <1>1, <1>4
<1>14. value < B * B3
  <2>1. b3 * B3 <= (B - 1) * B3
    BY <1>1, <1>3
  <2>2. (B - 1) * B3 = B * B3 - B3
    BY <1>1
  <2> HIDE DEF B2, B3
  <2> QED
    BY <1>1, <1>2, <1>3, <1>11, <2>1, <2>2
<1>15. b2 = 0 /\ b3 = 0 => value < B2
  BY <1>1, <1>2, <1>3, <1>9
<1>16. \A j : ByteOf(value, j) = (value \div ByteValues ^ j) % B
  BY DEF ByteOf, B
<1> QED
  BY <1>2, <1>4, <1>6, <1>7, <1>8, <1>10, <1>12, <1>13, <1>14, <1>15, <1>16 DEF value

(* The bytes "size" of them make, the missing ones being zero.              *)
ByteAt(bytes, at, size, j) == IF j < size THEN bytes[at + j] ELSE 0

LEMMA ReadBytesIsLittle ==
    ASSUME NEW bytes, NEW at \in Int, NEW size \in {1, 2, 4}, \A b \in at .. at + size - 1 : bytes[b] \in Bytes
    PROVE  /\ \A j \in 0 .. 3 : ByteAt(bytes, at, size, j) \in Bytes
           /\ ReadBytes(bytes, at, size) =
                Little(ByteAt(bytes, at, size, 0), ByteAt(bytes, at, size, 1), ByteAt(bytes, at, size, 2), ByteAt(bytes, at, size, 3))
<1>1. \A j \in 0 .. size - 1 : bytes[at + j] \in Bytes
  OBVIOUS
<1>2. 0 \in Bytes
  BY BytePowers DEF Bytes
<1>3. \A j \in 0 .. 3 : ByteAt(bytes, at, size, j) \in Bytes
  BY <1>1, <1>2 DEF ByteAt
<1>4. bytes[at] \in Nat /\ at + 0 = at /\ ByteValues \in Nat /\ ByteValues ^ 2 \in Nat /\ ByteValues ^ 3 \in Nat
  <2>1. at + 0 = at
    OBVIOUS
  <2>2. bytes[at + 0] \in Bytes
    BY <1>1
  <2> QED
    BY <2>1, <2>2, ByteRange, BytePowers
<1> DEFINE Goal == ReadBytes(bytes, at, size) =
                     Little(ByteAt(bytes, at, size, 0), ByteAt(bytes, at, size, 1), ByteAt(bytes, at, size, 2), ByteAt(bytes, at, size, 3))
<1>5. ASSUME size = 1 PROVE Goal
  <2>1. ReadBytes(bytes, at, size) = bytes[at]
    BY <1>5, ReadBytesValue
  <2>2. ByteAt(bytes, at, size, 0) = bytes[at] /\ \A j \in 1 .. 3 : ByteAt(bytes, at, size, j) = 0
    BY <1>4, <1>5 DEF ByteAt
  <2> QED
    BY <1>4, <2>1, <2>2 DEF Little
<1>6. ASSUME size = 2 PROVE Goal
  <2>1. bytes[at + 1] \in Nat
    BY <1>1, <1>6, ByteRange
  <2>2. ReadBytes(bytes, at, size) = bytes[at] + bytes[at + 1] * ByteValues
    BY <1>6, ReadBytesValue
  <2>3. ByteAt(bytes, at, size, 0) = bytes[at] /\ ByteAt(bytes, at, size, 1) = bytes[at + 1] /\ \A j \in 2 .. 3 : ByteAt(bytes, at, size, j) = 0
    BY <1>4, <1>6 DEF ByteAt
  <2> QED
    BY <1>4, <2>1, <2>2, <2>3 DEF Little
<1>7. ASSUME size = 4 PROVE Goal
  <2>1. ReadBytes(bytes, at, size) =
          bytes[at] + bytes[at + 1] * ByteValues + bytes[at + 2] * ByteValues ^ 2 + bytes[at + 3] * ByteValues ^ 3
    BY <1>7, ReadBytesValue
  <2>2. ByteAt(bytes, at, size, 0) = bytes[at] /\ \A j \in 1 .. 3 : ByteAt(bytes, at, size, j) = bytes[at + j]
    BY <1>4, <1>7 DEF ByteAt
  <2> QED
    BY <2>1, <2>2 DEF Little
<1> QED
  BY <1>3, <1>5, <1>6, <1>7

(* A read gives an element of its size, made of the bytes read and of them  *)
(* only.                                                                    *)
LEMMA ReadBytesFacts ==
    ASSUME NEW bytes, NEW at \in Int, NEW size \in {1, 2, 4}, \A b \in at .. at + size - 1 : bytes[b] \in Bytes
    PROVE  /\ ReadBytes(bytes, at, size) \in Nat /\ ReadBytes(bytes, at, size) < ByteValues ^ size
           /\ \A j \in 0 .. size - 1 : ByteOf(ReadBytes(bytes, at, size), j) = bytes[at + j]
<1> DEFINE b(j) == ByteAt(bytes, at, size, j)
           value == ReadBytes(bytes, at, size)
<1>1. /\ b(0) \in Bytes /\ b(1) \in Bytes /\ b(2) \in Bytes /\ b(3) \in Bytes
      /\ value = Little(b(0), b(1), b(2), b(3))
  BY ReadBytesIsLittle
<1>2. \A j \in 0 .. size - 1 : b(j) = bytes[at + j]
  BY DEF ByteAt
<1>3. (size = 1 => b(1) = 0 /\ b(2) = 0 /\ b(3) = 0) /\ (size = 2 => b(2) = 0 /\ b(3) = 0)
  BY DEF ByteAt
<1> HIDE DEF b, value
<1>4. /\ value \in Nat /\ value < ByteValues ^ 4
      /\ b(2) = 0 /\ b(3) = 0 => value < ByteValues ^ 2
      /\ ByteOf(value, 0) = b(0) /\ ByteOf(value, 1) = b(1) /\ ByteOf(value, 2) = b(2) /\ ByteOf(value, 3) = b(3)
  BY <1>1, LittleDigits
<1>5. \A j \in 0 .. 3 : ByteOf(value, j) = b(j)
  <2>1. \A j \in 0 .. 3 : j = 0 \/ j = 1 \/ j = 2 \/ j = 3
    OBVIOUS
  <2> QED
    BY <1>4, <2>1
<1>6. value < ByteValues ^ size
  <2>1. CASE size = 1
    <3>1. value = b(0)
      BY <1>1, <1>3, <2>1, ByteRange, BytePowers DEF Little
    <3> QED
      BY <1>1, <2>1, <3>1, ByteRange, BytePowers
  <2>2. CASE size # 1
    BY <1>3, <1>4, <2>2
  <2> QED
    BY <2>1, <2>2
<1> QED
  BY <1>2, <1>4, <1>5, <1>6 DEF value

LEMMA ByteOfRange ==
    ASSUME NEW value \in Int, NEW j \in 0 .. 3
    PROVE  ByteOf(value, j) \in Bytes
<1>1. ByteValues ^ j \in Nat \ {0}
  <2>1. j = 0 \/ j = 1 \/ j = 2 \/ j = 3
    OBVIOUS
  <2>2. ByteValues \in Nat \ {0} /\ ByteValues * ByteValues \in Nat \ {0}
    BY BytePowers
  <2>3. ByteValues * (ByteValues * ByteValues) \in Nat \ {0}
    BY <2>2
  <2> QED
    BY <2>1, <2>2, <2>3, BytePowers
<1>2. value \div ByteValues ^ j \in Int
  BY <1>1
<1> QED
  BY <1>2, BytePowers DEF ByteOf, Bytes

(* Bytes at the places of a set, and what writing some of them leaves.      *)
IsMemory(bytes, D) == D \subseteq Int /\ bytes \in [D -> Bytes]

LEMMA WriteBytesRange ==
    ASSUME NEW D, NEW bytes, IsMemory(bytes, D), NEW at \in Int, NEW size \in {1, 2, 4}, NEW value \in Int
    PROVE  /\ IsMemory(WriteBytes(bytes, at, size, value), D)
           /\ \A b \in D : WriteBytes(bytes, at, size, value)[b] =
                               IF b \in at .. at + size - 1 THEN ByteOf(value, b - at) ELSE bytes[b]
<1>1. \A b \in D : b \in at .. at + size - 1 => b - at \in 0 .. 3
  BY DEF IsMemory
<1>2. \A b \in D : WriteBytes(bytes, at, size, value)[b] =
                       IF b \in at .. at + size - 1 THEN ByteOf(value, b - at) ELSE bytes[b]
  BY DEF WriteBytes, ByteOf, IsMemory
<1>3. \A b \in D : WriteBytes(bytes, at, size, value)[b] \in Bytes
  BY <1>1, <1>2, ByteOfRange DEF IsMemory
<1>4. WriteBytes(bytes, at, size, value) = [b \in D |-> WriteBytes(bytes, at, size, value)[b]]
  BY DEF WriteBytes, IsMemory
<1> QED
  BY <1>2, <1>3, <1>4 DEF IsMemory

LEMMA PowerInSpace == ASSUME NEW w \in {1, 2, 4} PROVE ByteValues ^ w \in Nat /\ ByteValues ^ w <= AddressSpace
<1>1. PICK type \in {"u8", "u16", "u32"} : Width(type) = w
  <2>1. Width("u8") = 1 /\ Width("u16") = 2 /\ Width("u32") = 4
    BY DEF Width
  <2> QED
    BY <2>1
<1> QED
  BY <1>1, ModulusFacts

-----------------------------------------------------------------------------
(* Local addresses                                                          *)

LEMMA AddressFacts == AddressSpace \in Nat \ {0} /\ Addresses = 0 .. AddressSpace - 1 /\ Addresses \subseteq Nat /\ 0 \in Addresses
BY AddressSpaceAssumption DEF AddressSpaceAssumption, Addresses

Faults == [kind : {"fault"}, cause : {4, 5, 6, 7, 24}, value : Addresses]

LEMMA MapValid == MapIsValid(Map)
BY NpuDataAssumption, CreatedMapIsValid DEF NpuDataAssumption, Map

Kind(write) == IF write THEN "write" ELSE "read"

LEMMA WordOfWord == ASSUME NEW a \in Addresses PROVE WordOf(a) = a
BY AddressSpaceAssumption DEF AddressSpaceAssumption, WordOf, Addresses

(* What a check that passed found: aligned bytes of the scratchpad.         *)
Found(local, address, size, write, alignment) ==
    /\ local.kind = "local" /\ local.at \in Nat /\ local.at + size <= ScratchpadBytes
    /\ address % alignment = 0 /\ address \in Addresses
    /\ \E r \in DOMAIN Map : /\ Map[r].target = "scratchpad" /\ Kind(write) \in Map[r].allowed
                             /\ Map[r].base <= address /\ address + size <= Map[r].base + Map[r].size
                             /\ local.at = address - Map[r].base

(* A check passes, or it names a fault of the ISA at a word.                *)
LEMMA LocalAddressOutcome ==
    ASSUME NEW address \in Int, NEW size \in Nat, NEW write \in BOOLEAN, NEW alignment \in Nat \ {0}
    PROVE  LET local == LocalAddress(address, size, write, alignment)
           IN  \/ local.kind = "fault" /\ local \in Faults /\ local # Invalid
               \/ Found(local, address, size, write, alignment)
<1> DEFINE local == LocalAddress(address, size, write, alignment)
           low == WordOf(address)
           route == Resolve(Map, low, size, Kind(write))
           bad == \/ address \notin Addresses \/ ~route.ok \/ route.storage # "scratchpad"
                  \/ ~LocalRange(ScratchpadBytes, route.at, size)
<1>1. low \in Addresses /\ low \in Int
  BY WordRange DEF Addresses
<1>2. \A cause \in {4, 5, 6, 7} : Fault(cause, low) \in Faults /\ Fault(cause, low).kind = "fault" /\ Fault(cause, low) # Invalid
  BY <1>1 DEF Fault, Faults, Invalid
<1>3. local = IF address % alignment # 0 THEN Fault(IF write THEN 6 ELSE 4, low)
              ELSE IF bad THEN Fault(IF write THEN 7 ELSE 5, low)
              ELSE [kind |-> "local", at |-> route.at]
  BY DEF LocalAddress, Kind
<1>4. CASE address % alignment # 0 \/ bad
  <2>1. local = Fault(IF write THEN 6 ELSE 4, low) \/ local = Fault(IF write THEN 7 ELSE 5, low)
    BY <1>3, <1>4
  <2> HIDE DEF local
  <2>2. local.kind = "fault" /\ local \in Faults /\ local # Invalid
    BY <1>2, <2>1
  <2> QED
    BY <2>2 DEF local
<1>5. CASE address % alignment = 0 /\ ~bad
  <2>1. local = [kind |-> "local", at |-> route.at]
    BY <1>3, <1>5
  <2>2. low = address
    BY <1>5, WordOfWord
  <2>3. PICK r \in DOMAIN Map : RoutedBy(Map[r], low, size, Kind(write), route)
    BY <1>1, <1>5, MapValid, RouteShape
  <2>4. Map[r] \in Regions
    BY MapValid DEF MapIsValid
  <2>5. Map[r].base \in Nat /\ Map[r].size \in Nat
    BY <2>4, RegionTypes
  <2> HIDE DEF local, low, route
  <2>6. Map[r].target = "scratchpad" /\ route.at = address - Map[r].base /\ Map[r].base <= address
        /\ address + size <= Map[r].base + Map[r].size /\ Kind(write) \in Map[r].allowed
    BY <1>5, <2>2, <2>3 DEF RoutedBy
  <2>7. route.at \in Nat
    BY <2>5, <2>6
  <2>8. ScratchpadBytes \in Nat
    BY NpuDataAssumption DEF NpuDataAssumption
  <2>9. route.at + size <= ScratchpadBytes
    BY <1>5, <2>7, <2>8 DEF LocalRange
  <2>10. local.kind = "local" /\ local.at = route.at
    BY <2>1
  <2> QED
    BY <1>5, <2>6, <2>7, <2>9, <2>10 DEF local, Found
<1> QED
  BY <1>4, <1>5

(* It passes exactly for the elements that are held.                        *)
LEMMA LocalAddressExact ==
    ASSUME NEW address \in Int, NEW size \in {1, 2, 4}, NEW write \in BOOLEAN
    PROVE  (LocalAddress(address, size, write, size).kind = "fault") <=> ~Held(address, size, write)
<1> DEFINE local == LocalAddress(address, size, write, size)
           limit(r) == IF ScratchpadBytes < Map[r].size THEN ScratchpadBytes ELSE Map[r].size
<1>1. size \in Nat /\ size \in Nat \ {0} /\ ScratchpadBytes \in Nat
  BY NpuDataAssumption DEF NpuDataAssumption
<1>2. Held(address, size, write) <=>
        \E r \in DOMAIN Map : /\ Map[r].target = "scratchpad" /\ Kind(write) \in Map[r].allowed
                              /\ address % size = 0 /\ Map[r].base <= address
                              /\ address + size <= Map[r].base + limit(r)
  BY DEF Held, Kind
<1>3. \A r \in DOMAIN Map : GoodRegion(Map[r]) /\ Map[r].base \in Nat /\ Map[r].size \in Nat
  <2> TAKE r \in DOMAIN Map
  <2>1. GoodRegion(Map[r])
    BY MapValid, RegionIsGood
  <2> QED
    BY <2>1, RegionTypes DEF GoodRegion
<1>4. ASSUME local.kind # "fault" PROVE Held(address, size, write)
  <2>1. Found(local, address, size, write, size)
    BY <1>1, <1>4, LocalAddressOutcome
  <2>2. PICK r \in DOMAIN Map : /\ Map[r].target = "scratchpad" /\ Kind(write) \in Map[r].allowed
                                /\ Map[r].base <= address /\ address + size <= Map[r].base + Map[r].size
                                /\ local.at = address - Map[r].base
    BY <2>1 DEF Found
  <2> HIDE DEF local
  <2>3. address + size <= Map[r].base + limit(r) /\ address % size = 0
    BY <1>1, <1>3, <2>1, <2>2 DEF Found
  <2> QED
    BY <1>2, <2>2, <2>3
<1>5. ASSUME Held(address, size, write) PROVE local.kind # "fault"
  <2>1. PICK r \in DOMAIN Map : /\ Map[r].target = "scratchpad" /\ Kind(write) \in Map[r].allowed
                                /\ address % size = 0 /\ Map[r].base <= address
                                /\ address + size <= Map[r].base + limit(r)
    BY <1>2, <1>5
  <2>2. /\ Map[r].base \in Nat /\ Map[r].size \in Nat /\ Map[r].base + Map[r].size <= AddressSpace /\ AddressSpace \in Nat
    BY <1>3, AddressSpaceAssumption DEF AddressSpaceAssumption, GoodRegion
  <2>3. address + size <= Map[r].base + Map[r].size /\ address - Map[r].base + size <= ScratchpadBytes
    BY <1>1, <2>1, <2>2
  <2>4. address \in Addresses /\ Contains(Map[r], address)
    BY <1>1, <2>1, <2>2, <2>3 DEF Addresses, Contains
  <2>5. WordOf(address) = address
    BY <2>4, WordOfWord
  <2> DEFINE route == Resolve(Map, WordOf(address), size, Kind(write))
  <2>6. route.ok /\ route.storage = "scratchpad" /\ route.at = address - Map[r].base
    <3>1. /\ route.ok <=> size > 0 /\ address + size <= Map[r].base + Map[r].size /\ Kind(write) \in Map[r].allowed
          /\ route.ok => route = [ok |-> TRUE, storage |-> Map[r].target, size |-> size,
                                  at |-> IF Map[r].target = "system" THEN address ELSE address - Map[r].base]
      BY <1>1, <2>4, <2>5, MapValid, ResolvedIn
    <3> HIDE DEF route
    <3> QED
      BY <1>1, <2>1, <2>3, <3>1
  <2>7. LocalRange(ScratchpadBytes, route.at, size)
    <3> HIDE DEF route
    <3> QED
      BY <1>1, <2>1, <2>2, <2>3, <2>6 DEF LocalRange
  <2>8. local = [kind |-> "local", at |-> route.at]
    BY <2>1, <2>4, <2>6, <2>7 DEF LocalAddress, Kind
  <2> HIDE DEF local, route
  <2> QED
    BY <2>8
<1> QED
  BY <1>4, <1>5

(* What FirstFault reports is the first of the checks that failed.          *)
LEMMA FirstFaultIsFirst ==
    ASSUME NEW checks, DOMAIN checks \subseteq Nat, FirstFault(checks) # << >>
    PROVE  \E k \in DOMAIN checks : /\ checks[k].kind = "fault" /\ FirstFault(checks) = <<checks[k]>>
                                    /\ FirstFault(checks)[1] = checks[k]
                                    /\ \A j \in DOMAIN checks : checks[j].kind = "fault" => k <= j
<1> DEFINE bad == {k \in DOMAIN checks : checks[k].kind = "fault"}
           least == CHOOSE k \in bad : \A j \in bad : k <= j
<1>1. bad # {}
  BY DEF FirstFault
<1>2. \E k \in bad : \A j \in bad : k <= j
  <2>1. bad \in SUBSET Nat
    OBVIOUS
  <2> HIDE DEF bad
  <2> QED
    BY <1>1, <2>1, LeastExists
<1>3. least \in bad /\ \A j \in bad : least <= j
  BY <1>2
<1>4. FirstFault(checks) = <<checks[least]>>
  BY <1>1 DEF FirstFault
<1>5. \A x : <<x>>[1] = x
  OBVIOUS
<1>6. least \in DOMAIN checks /\ checks[least].kind = "fault"
  BY <1>3
<1> HIDE DEF least
<1> QED
  BY <1>3, <1>4, <1>5, <1>6

LEMMA NoFirstFault ==
    ASSUME NEW checks
    PROVE  FirstFault(checks) = << >> <=> \A k \in DOMAIN checks : checks[k].kind # "fault"
BY DEF FirstFault

(* The scratchpad's region is the one the properties name.                  *)
LEMMA HomeIs == ASSUME NEW r \in DOMAIN Map, Map[r].target = "scratchpad" PROVE Home = Map[r]
<1> DEFINE c == CHOOSE x \in DOMAIN Map : Map[x].target = "scratchpad"
<1>1. c \in DOMAIN Map /\ Map[c].target = "scratchpad"
  OBVIOUS
<1>2. Home = Map[c]
  BY DEF Home
<1> HIDE DEF c
<1>3. c = r
  BY <1>1, MapValid, LocalsAreUnique
<1> QED
  BY <1>2, <1>3

-----------------------------------------------------------------------------
(* Shapes, and the elements of a tile row by row                            *)

(* The part of the state an instruction relies on: TilesFit, with every      *)
(* element and every byte of the scratchpad a value of its width.           *)
Good(u) ==
    /\ DOMAIN u = {"views", "tiles", "scratchpad"} /\ u.scratchpad \in Scratchpads
    /\ DOMAIN u.views = ViewRegisters /\ \A v \in ViewRegisters : IsView(u.views[v])
    /\ DOMAIN u.tiles = TileRegisters /\ \A t \in TileRegisters : IsTile(u.tiles[t])

Inv == Good(unit)

(* What NpuContract allows between u and r.unit.                            *)
Allowed(u, r) ==
    \/ r.outcome \in Faults /\ r.unit = u
    \/ r.outcome = Done /\ r.unit.scratchpad = u.scratchpad
    \/ r.outcome = Done /\ r.unit.views = u.views /\ r.unit.tiles = u.tiles

Sound(u, r) == Good(r.unit) /\ Allowed(u, r)

LEMMA ScratchpadFacts == ScratchpadBytes \in Nat /\ Scratchpads = [0 .. ScratchpadBytes - 1 -> Bytes] /\ 0 .. ScratchpadBytes - 1 \subseteq Int
BY NpuDataAssumption DEF NpuDataAssumption, Scratchpads

(* Rows and columns of a number of elements.                                *)
LEMMA RowAndColumn ==
    ASSUME NEW m \in Nat, NEW n \in Nat, NEW e \in 0 .. m * n - 1
    PROVE  /\ n \in Nat \ {0} /\ e \in Nat
           /\ e \div n \in 0 .. m - 1 /\ e % n \in 0 .. n - 1 /\ e = (e \div n) * n + (e % n)
<1>1. n # 0 /\ m * n \in Nat
  OBVIOUS
<1> DEFINE q == e \div n
           r == e % n
<1>2. q \in Int /\ r \in 0 .. n - 1 /\ e = n * q + r /\ e \in Nat
  BY <1>1
<1> HIDE DEF q, r
<1>3. q >= 0
  <2> SUFFICES ASSUME q <= -1 PROVE FALSE
    BY <1>2
  <2>1. n * q <= n * (-1)
    BY <1>1, <1>2
  <2> QED
    BY <1>1, <1>2, <2>1
<1>4. q < m
  <2> SUFFICES ASSUME q >= m PROVE FALSE
    BY <1>2
  <2>1. n * q >= n * m
    BY <1>1, <1>2
  <2> QED
    BY <1>1, <1>2, <2>1
<1>5. n * q = q * n
  BY <1>2
<1> QED
  BY <1>1, <1>2, <1>3, <1>4, <1>5 DEF q, r

LEMMA ElementOfRow ==
    ASSUME NEW m \in Nat, NEW n \in Nat, NEW r \in 0 .. m - 1, NEW k \in 0 .. n - 1
    PROVE  /\ r * n + k \in 0 .. m * n - 1
           /\ (r * n + k) \div n = r /\ (r * n + k) % n = k
<1>1. n \in Nat \ {0} /\ r \in Int /\ k \in 0 .. n - 1 /\ r * n \in Int
  OBVIOUS
<1>2. r * n <= (m - 1) * n /\ r * n >= 0
  BY <1>1
<1>3. (m - 1) * n = m * n - n
  OBVIOUS
<1> DEFINE x == r * n + k
<1>4. x \in Int /\ x = r * n + k
  BY <1>1
<1>5. x \in 0 .. m * n - 1
  <2> DEFINE p == r * n
             q == m * n
  <2>1. p \in Int /\ q \in Int /\ p <= q - n /\ p >= 0 /\ x = p + k
    BY <1>1, <1>2, <1>3
  <2> HIDE DEF p, q, x
  <2>2. x \in 0 .. q - 1
    BY <1>1, <1>4, <2>1
  <2> QED
    BY <2>2 DEF q
<1> HIDE DEF x
<1>6. x \div n = r /\ x % n = k
  BY <1>1, <1>4, QuotientIsUnique
<1> QED
  BY <1>5, <1>6 DEF x

(* A shape's dimensions.                                                    *)
LEMMA ShapeFacts ==
    ASSUME NEW x, IsShape(x)
    PROVE  /\ x.rows \in Nat /\ x.cols \in Nat /\ x.rows * x.cols \in Nat /\ x.type \in Types /\ x.valid
           /\ x.rows <= MatrixRows /\ x.cols <= MatrixCols /\ Width(x.type) \in {1, 2, 4}
           /\ x.rows * x.cols * Width(x.type) <= TileBytes
BY MatrixAssumption, WidthRange DEF MatrixAssumption, IsShape

LEMMA ViewFacts ==
    ASSUME NEW v, IsView(v), v.valid
    PROVE  IsShape(v) /\ v.base \in Int /\ v.row_stride \in Int /\ v.col_stride \in Int
BY AddressFacts DEF IsView, Absent

LEMMA TileFacts ==
    ASSUME NEW t, IsTile(t), t.valid
    PROVE  IsShape(t) /\ t.elements \in [0 .. t.rows * t.cols - 1 -> Addresses]
BY DEF IsTile, Absent

LEMMA TileIsTile ==
    ASSUME NEW rows \in Nat, NEW cols \in Nat, NEW type \in Types, Fits(rows, cols, type),
           NEW elements, elements \in [0 .. rows * cols - 1 -> Addresses]
    PROVE  IsTile(Tile(rows, cols, type, elements)) /\ IsShape(Tile(rows, cols, type, elements))
<1> DEFINE t == Tile(rows, cols, type, elements)
<1>1. /\ DOMAIN t = {"valid", "rows", "cols", "type", "elements"}
      /\ t.valid /\ t.rows = rows /\ t.cols = cols /\ t.type = type /\ t.elements = elements
  BY DEF Tile
<1> HIDE DEF t
<1>2. IsShape(t)
  BY <1>1, MatrixAssumption DEF MatrixAssumption, Fits, IsShape
<1>3. t.elements \in [0 .. t.rows * t.cols - 1 -> Addresses]
  BY <1>1
<1> QED
  BY <1>1, <1>2, <1>3 DEF IsTile, t

-----------------------------------------------------------------------------
(* The checks of a transfer                                                 *)

LEMMA ElementAddressRange ==
    ASSUME NEW v, IsView(v), v.valid, NEW e \in 0 .. v.rows * v.cols - 1
    PROVE  ElementAddress(v, e) \in Int /\ Place(v, e) = ElementAddress(v, e)
<1>1. v.rows \in Nat /\ v.cols \in Nat /\ v.base \in Int /\ v.row_stride \in Int /\ v.col_stride \in Int
  BY ViewFacts, ShapeFacts
<1>2. e \div v.cols \in Int /\ e % v.cols \in Int
  BY <1>1, RowAndColumn
<1>3. (e \div v.cols) * v.row_stride \in Int /\ (e % v.cols) * v.col_stride \in Int
  BY <1>1, <1>2
<1> QED
  BY <1>1, <1>3 DEF ElementAddress, Place

LEMMA ChecksAre ==
    ASSUME NEW v, IsView(v), v.valid, NEW write \in BOOLEAN
    PROVE  /\ DOMAIN Checks(v, write) = 1 .. v.rows * v.cols /\ DOMAIN Checks(v, write) \subseteq Nat
           /\ \A e \in 0 .. v.rows * v.cols - 1 :
                  Checks(v, write)[e + 1] = LocalAddress(Place(v, e), Width(v.type), write, Width(v.type))
<1>1. v.rows * v.cols \in Nat
  BY ViewFacts, ShapeFacts
<1>2. DOMAIN Checks(v, write) = 1 .. v.rows * v.cols
  BY DEF Checks
<1>3. \A e \in 0 .. v.rows * v.cols - 1 : Checks(v, write)[e + 1] = LocalAddress(Place(v, e), Width(v.type), write, Width(v.type))
  <2> TAKE e \in 0 .. v.rows * v.cols - 1
  <2>1. e + 1 \in 1 .. v.rows * v.cols /\ (e + 1) - 1 = e
    BY <1>1
  <2>2. Checks(v, write)[e + 1] = LocalAddress(ElementAddress(v, e), Width(v.type), write, Width(v.type))
    BY <2>1 DEF Checks
  <2> QED
    BY <2>2, ElementAddressRange
<1> QED
  BY <1>1, <1>2, <1>3

LEMMA CheckOutcome ==
    ASSUME NEW v, IsView(v), v.valid, NEW write \in BOOLEAN, NEW k \in 1 .. v.rows * v.cols
    PROVE  LET check == Checks(v, write)[k]
           IN  \/ check.kind = "fault" /\ check \in Faults /\ check # Invalid
               \/ Found(check, Place(v, k - 1), Width(v.type), write, Width(v.type))
<1>1. v.rows * v.cols \in Nat /\ Width(v.type) \in Nat /\ Width(v.type) \in Nat \ {0}
  BY ViewFacts, ShapeFacts
<1>2. k - 1 \in 0 .. v.rows * v.cols - 1 /\ (k - 1) + 1 = k
  BY <1>1
<1>3. Checks(v, write)[k] = LocalAddress(Place(v, k - 1), Width(v.type), write, Width(v.type))
  BY <1>2, ChecksAre
<1>4. Place(v, k - 1) \in Int
  BY <1>2, ElementAddressRange
<1> QED
  BY <1>1, <1>3, <1>4, LocalAddressOutcome

LEMMA FirstCheck ==
    ASSUME NEW v, IsView(v), v.valid, NEW write \in BOOLEAN
    PROVE  /\ FirstFault(Checks(v, write)) # << >> => FirstFault(Checks(v, write))[1] \in Faults
           /\ FirstFault(Checks(v, write)) = << >> =>
                \A k \in 1 .. v.rows * v.cols :
                    Found(Checks(v, write)[k], Place(v, k - 1), Width(v.type), write, Width(v.type))
<1> DEFINE checks == Checks(v, write)
<1>1. DOMAIN checks = 1 .. v.rows * v.cols /\ DOMAIN checks \subseteq Nat
  BY ChecksAre
<1>2. \A k \in 1 .. v.rows * v.cols :
        \/ checks[k].kind = "fault" /\ checks[k] \in Faults
        \/ Found(checks[k], Place(v, k - 1), Width(v.type), write, Width(v.type))
  BY CheckOutcome
<1> HIDE DEF checks
<1>3. FirstFault(checks) # << >> => FirstFault(checks)[1] \in Faults
  <2> SUFFICES ASSUME FirstFault(checks) # << >> PROVE FirstFault(checks)[1] \in Faults
    OBVIOUS
  <2>1. PICK k \in DOMAIN checks : checks[k].kind = "fault" /\ FirstFault(checks)[1] = checks[k]
    BY <1>1, FirstFaultIsFirst
  <2> QED
    BY <1>1, <1>2, <2>1 DEF Found
<1>4. FirstFault(checks) = << >> => \A k \in 1 .. v.rows * v.cols : checks[k].kind # "fault"
  BY <1>1, NoFirstFault
<1> QED
  BY <1>2, <1>3, <1>4 DEF checks

-----------------------------------------------------------------------------
(* The scratchpad along a store                                             *)

(* The scratchpad after the k-th element, given what it was before.         *)
StoredElement(memory, v, tile, checks, k) ==
    IF checks[k].kind # "local" THEN memory
    ELSE WriteBytes(memory, checks[k].at, Width(v.type), tile.elements[k - 1])

Storing(f, u, v, tile, checks) ==
    /\ f \in [0 .. v.rows * v.cols -> Scratchpads] /\ f[0] = u.scratchpad
    /\ \A k \in 1 .. v.rows * v.cols : f[k] = StoredElement(f[k - 1], v, tile, checks, k)

(* A store whose elements are words and whose places are in the scratchpad. *)
Placed(u, v, tile, checks) ==
    /\ u.scratchpad \in Scratchpads /\ v.rows * v.cols \in Nat
    /\ \A k \in 1 .. v.rows * v.cols :
           /\ tile.elements[k - 1] \in Addresses
           /\ checks[k].kind = "local" => checks[k].at \in Nat /\ checks[k].at + Width(v.type) <= ScratchpadBytes

LEMMA StoredElementRange ==
    ASSUME NEW u, NEW v, NEW tile, NEW checks, Placed(u, v, tile, checks),
           NEW memory \in Scratchpads, NEW k \in 1 .. v.rows * v.cols
    PROVE  /\ StoredElement(memory, v, tile, checks, k) \in Scratchpads
           /\ \A b \in 0 .. ScratchpadBytes - 1 :
                  StoredElement(memory, v, tile, checks, k)[b] =
                    IF checks[k].kind = "local" /\ b \in checks[k].at .. checks[k].at + Width(v.type) - 1
                    THEN ByteOf(tile.elements[k - 1], b - checks[k].at) ELSE memory[b]
<1> DEFINE next == StoredElement(memory, v, tile, checks, k)
           D == 0 .. ScratchpadBytes - 1
<1>1. IsMemory(memory, D) /\ Scratchpads = [D -> Bytes]
  BY ScratchpadFacts DEF IsMemory
<1>2. CASE checks[k].kind # "local"
  BY <1>2 DEF StoredElement
<1>3. CASE checks[k].kind = "local"
  <2> DEFINE at == checks[k].at
             w == Width(v.type)
             value == tile.elements[k - 1]
  <2>1. at \in Int /\ w \in {1, 2, 4} /\ value \in Int
    BY <1>3, WidthRange, AddressFacts DEF Placed
  <2>2. next = WriteBytes(memory, at, w, value)
    BY <1>3 DEF StoredElement
  <2> HIDE DEF next, D, at, w, value
  <2>3. IsMemory(WriteBytes(memory, at, w, value), D)
    BY <1>1, <2>1, WriteBytesRange, Zenon
  <2>4. next \in Scratchpads
    BY <1>1, <2>2, <2>3 DEF IsMemory
  <2>5. \A b \in D : next[b] = IF b \in at .. at + w - 1 THEN ByteOf(value, b - at) ELSE memory[b]
    BY <1>1, <2>1, <2>2 DEF WriteBytes, ByteOf, IsMemory
  <2> QED
    BY <1>3, <2>4, <2>5 DEF next, D, at, w, value
<1> QED
  BY <1>2, <1>3

LEMMA StoredFollows ==
    ASSUME NEW u, NEW v, NEW tile, NEW checks, Placed(u, v, tile, checks)
    PROVE  \E f : Storing(f, u, v, tile, checks) /\ Stored(u, v, tile, checks) = f[v.rows * v.cols]
<1> DEFINE n == v.rows * v.cols
           Passes(g) == g = [k \in 0 .. n |->
                               IF k = 0 THEN u.scratchpad
                               ELSE IF checks[k].kind # "local" THEN g[k - 1]
                               ELSE WriteBytes(g[k - 1], checks[k].at, Width(v.type), tile.elements[k - 1])]
           after == CHOOSE g : Passes(g)
           step == [p \in Scratchpads \X (1 .. n) |-> StoredElement(p[1], v, tile, checks, p[2])]
<1>1. n \in Nat /\ u.scratchpad \in Scratchpads
  BY DEF Placed
<1>2. IsStep(step, Scratchpads, n)
  BY StoredElementRange DEF IsStep
<1>3. Stored(u, v, tile, checks) = after[n]
  BY DEF Stored
<1>4. \A memory \in Scratchpads, k \in 1 .. n : StoredElement(memory, v, tile, checks, k) \in Scratchpads
  BY StoredElementRange
<1>5. PICK f : Follows(f, Scratchpads, n, u.scratchpad, step)
  <2> HIDE DEF step, n
  <2> QED
    BY <1>1, <1>2, RecursionExists
<1>6. f \in [0 .. n -> Scratchpads] /\ f[0] = u.scratchpad /\ \A k \in 1 .. n : f[k] = StoredElement(f[k - 1], v, tile, checks, k)
  <2> HIDE DEF n
  <2>1. \A k \in 1 .. n : f[k - 1] \in Scratchpads
    BY <1>1, <1>5 DEF Follows
  <2> QED
    BY <1>5, <2>1 DEF Follows
<1>7. Passes(f)
  <2> HIDE DEF n
  <2>1. \A k \in 0 .. n : k # 0 => k \in 1 .. n
    BY <1>1
  <2>2. f = [k \in 0 .. n |-> f[k]]
    BY <1>6
  <2>3. \A k \in 0 .. n : f[k] = IF k = 0 THEN u.scratchpad ELSE StoredElement(f[k - 1], v, tile, checks, k)
    BY <1>6, <2>1
  <2> QED
    BY <2>2, <2>3 DEF StoredElement
<1>8. Passes(after)
  <2> HIDE DEF Passes
  <2> QED
    BY <1>7
<1> HIDE DEF after
<1>9. Storing(after, u, v, tile, checks)
  <2> HIDE DEF n
  <2> DEFINE T == {k \in 0 .. n : after[k] \in Scratchpads}
  <2>1. \A k \in 1 .. n : after[k] = StoredElement(after[k - 1], v, tile, checks, k)
    BY <1>1, <1>8 DEF StoredElement
  <2>2. after[0] = u.scratchpad
    BY <1>1, <1>8
  <2>3. \A k \in 1 .. n : k - 1 \in T => k \in T
    BY <1>1, <1>4, <2>1
  <2>4. 0 \in T
    BY <1>1, <2>2
  <2>5. \A k \in 0 .. n : k \in T
    <3> HIDE DEF T
    <3> QED
      BY <1>1, <2>3, <2>4, RangeInduction
  <2>6. DOMAIN after = 0 .. n /\ after = [k \in 0 .. n |-> after[k]]
    BY <1>8
  <2> QED
    BY <2>1, <2>2, <2>5, <2>6 DEF Storing, n
<1> QED
  BY <1>3, <1>9

-----------------------------------------------------------------------------
(* Sums over the inner dimension                                            *)

(* One more product added to a sum.                                         *)
Added(sum, a, b, r, c, type, k) ==
    IF type = "f32" THEN WordOf(Float("VFMA", <<a.elements[r * a.cols + (k - 1)], b.elements[(k - 1) * b.cols + c], sum>>))
    ELSE WordOf(sum + Integer(a.elements[r * a.cols + (k - 1)], a.type) * Integer(b.elements[(k - 1) * b.cols + c], b.type))

Summing(g, a, b, r, c, seed, type) ==
    /\ g \in [0 .. a.cols -> Addresses] /\ g[0] = seed
    /\ \A k \in 1 .. a.cols : g[k] = Added(g[k - 1], a, b, r, c, type, k)

(* A row of one tile that meets a column of another.                        *)
Meets(a, b, r, c) ==
    /\ a.cols \in Nat
    /\ \A k \in 1 .. a.cols : a.elements[r * a.cols + (k - 1)] \in Addresses /\ b.elements[(k - 1) * b.cols + c] \in Addresses

LEMMA AddedRange ==
    ASSUME NEW a, NEW b, NEW r, NEW c, Meets(a, b, r, c), NEW type, NEW sum \in Addresses, NEW k \in 1 .. a.cols
    PROVE  Added(sum, a, b, r, c, type, k) \in Addresses
<1> DEFINE x == a.elements[r * a.cols + (k - 1)]
           y == b.elements[(k - 1) * b.cols + c]
<1>1. x \in Addresses /\ y \in Addresses
  BY DEF Meets
<1>2. Added(sum, a, b, r, c, type, k) =
        IF type = "f32" THEN WordOf(Float("VFMA", <<x, y, sum>>)) ELSE WordOf(sum + Integer(x, a.type) * Integer(y, b.type))
  BY DEF Added
<1> HIDE DEF x, y
<1>3. x \in Int /\ y \in Int /\ sum \in Int
  BY <1>1, AddressFacts
<1>4. Integer(x, a.type) \in Int /\ Integer(y, b.type) \in Int
  BY <1>3, IntegerRange
<1>5. sum + Integer(x, a.type) * Integer(y, b.type) \in Int
  BY <1>3, <1>4
<1>6. Float("VFMA", <<x, y, sum>>) \in Int
  BY <1>1, FusedAssumption, AddressFacts DEF FusedAssumption
<1> QED
  BY <1>2, <1>5, <1>6, WordRange

LEMMA SumFollows ==
    ASSUME NEW a, NEW b, NEW r, NEW c, Meets(a, b, r, c), NEW type, NEW seed \in Addresses
    PROVE  \E g : Summing(g, a, b, r, c, seed, type) /\ Accumulated(a, b, r, c, seed, type) = g[a.cols]
<1> DEFINE n == a.cols
           x(k) == a.elements[r * a.cols + Inner(a, k)]
           y(k) == b.elements[Inner(a, k) * b.cols + c]
           Sums(g) == g = [k \in 0 .. n |->
                             IF k = 0 THEN seed
                             ELSE IF type = "f32" THEN WordOf(Float("VFMA", <<x(k), y(k), g[k - 1]>>))
                             ELSE WordOf(g[k - 1] + Integer(x(k), a.type) * Integer(y(k), b.type))]
           sum == CHOOSE g : Sums(g)
           step == [p \in Addresses \X (1 .. n) |-> Added(p[1], a, b, r, c, type, p[2])]
<1>1. n \in Nat
  BY DEF Meets
<1>2. \A s \in Addresses, k \in 1 .. n : Added(s, a, b, r, c, type, k) \in Addresses
  BY AddedRange
<1>3. IsStep(step, Addresses, n)
  BY <1>2 DEF IsStep
<1>4. Accumulated(a, b, r, c, seed, type) = sum[n]
  BY DEF Accumulated
<1>5. PICK f : Follows(f, Addresses, n, seed, step)
  <2> HIDE DEF step, n
  <2> QED
    BY <1>1, <1>3, RecursionExists
<1>6. f \in [0 .. n -> Addresses] /\ f[0] = seed /\ \A k \in 1 .. n : f[k] = Added(f[k - 1], a, b, r, c, type, k)
  <2> HIDE DEF n
  <2>1. \A k \in 1 .. n : f[k - 1] \in Addresses
    BY <1>1, <1>5 DEF Follows
  <2> QED
    BY <1>5, <2>1 DEF Follows
<1>7. \A s, k : Added(s, a, b, r, c, type, k) =
                  IF type = "f32" THEN WordOf(Float("VFMA", <<x(k), y(k), s>>))
                  ELSE WordOf(s + Integer(x(k), a.type) * Integer(y(k), b.type))
  BY DEF Added, Inner
<1> HIDE DEF x, y
<1>8. Sums(f)
  <2> HIDE DEF n
  <2>1. \A k \in 0 .. n : k # 0 => k \in 1 .. n
    BY <1>1
  <2>2. f = [k \in 0 .. n |-> f[k]]
    BY <1>6
  <2>3. \A k \in 0 .. n : f[k] = IF k = 0 THEN seed ELSE Added(f[k - 1], a, b, r, c, type, k)
    BY <1>6, <2>1
  <2> QED
    BY <1>7, <2>2, <2>3
<1>9. Sums(sum)
  <2> HIDE DEF Sums
  <2> QED
    BY <1>8
<1> HIDE DEF sum
<1>10. Summing(sum, a, b, r, c, seed, type)
  <2> HIDE DEF n
  <2> DEFINE T == {k \in 0 .. n : sum[k] \in Addresses}
  <2>1. \A k \in 1 .. n : sum[k] = Added(sum[k - 1], a, b, r, c, type, k)
    BY <1>1, <1>7, <1>9
  <2>2. sum[0] = seed
    BY <1>1, <1>9
  <2>3. \A k \in 1 .. n : k - 1 \in T => k \in T
    BY <1>1, <1>2, <2>1
  <2>4. 0 \in T
    BY <1>1, <2>2
  <2>5. \A k \in 0 .. n : k \in T
    <3> HIDE DEF T
    <3> QED
      BY <1>1, <2>3, <2>4, RangeInduction
  <2>6. DOMAIN sum = 0 .. n /\ sum = [k \in 0 .. n |-> sum[k]]
    BY <1>9
  <2> QED
    BY <2>1, <2>2, <2>5, <2>6 DEF Summing, n
<1> QED
  BY <1>4, <1>10

-----------------------------------------------------------------------------
(* Instructions                                                             *)

LEMMA RefusalSound == ASSUME NEW u, Good(u), NEW fault \in Faults PROVE Sound(u, Refuse(u, fault))
BY DEF Sound, Allowed, Refuse

LEMMA InvalidIsAFault == Invalid \in Faults
BY AddressFacts DEF Invalid, Fault, Faults

LEMMA NewViewSound ==
    ASSUME NEW u, Good(u), NEW r \in ViewRegisters, NEW v, IsView(v)
    PROVE  Sound(u, Finish([u EXCEPT !.views[r] = v]))
BY DEF Sound, Good, Allowed, Finish

LEMMA NewTileSound ==
    ASSUME NEW u, Good(u), NEW r \in TileRegisters, NEW t, IsTile(t)
    PROVE  Sound(u, Finish([u EXCEPT !.tiles[r] = t]))
BY DEF Sound, Good, Allowed, Finish

LEMMA NewBytesSound ==
    ASSUME NEW u, Good(u), NEW bytes \in Scratchpads
    PROVE  Sound(u, Finish([u EXCEPT !.scratchpad = bytes]))
BY DEF Sound, Good, Allowed, Finish

LEMMA SetViewSound ==
    ASSUME NEW u, Good(u), NEW i, i.op = "MVIEW", IsInstruction(i)
    PROVE  Sound(u, SetView(u, i))
<1>1. /\ i.view \in ViewRegisters /\ i.type \in Types
      /\ {i.base, i.rows, i.cols, i.row_stride, i.col_stride} \subseteq Addresses
  BY DEF IsInstruction
<1>2. CASE ~Fits(i.rows, i.cols, i.type)
  BY <1>2, RefusalSound, InvalidIsAFault DEF SetView
<1>3. CASE Fits(i.rows, i.cols, i.type)
  <2> DEFINE v == [valid |-> TRUE, base |-> i.base, rows |-> i.rows, cols |-> i.cols, type |-> i.type,
                   row_stride |-> Integer(i.row_stride, "i32"), col_stride |-> Integer(i.col_stride, "i32")]
  <2>1. /\ DOMAIN v = {"valid", "base", "rows", "cols", "row_stride", "col_stride", "type"}
        /\ v.valid /\ v.base = i.base /\ v.rows = i.rows /\ v.cols = i.cols /\ v.type = i.type
        /\ v.row_stride = Integer(i.row_stride, "i32") /\ v.col_stride = Integer(i.col_stride, "i32")
    OBVIOUS
  <2>2. SetView(u, i) = Finish([u EXCEPT !.views[i.view] = v])
    BY <1>3 DEF SetView
  <2> HIDE DEF v
  <2>3. v.row_stride \in Int /\ v.col_stride \in Int /\ v.base \in Addresses
    BY <1>1, <2>1, IntegerRange, AddressFacts
  <2>4. IsShape(v)
    BY <1>1, <1>3, <2>1, AddressFacts, MatrixAssumption DEF MatrixAssumption, IsShape, Fits
  <2>5. IsView(v)
    BY <2>1, <2>3, <2>4 DEF IsView
  <2> QED
    BY <1>1, <2>2, <2>5, NewViewSound
<1> QED
  BY <1>2, <1>3

LEMMA ClearTileSound ==
    ASSUME NEW u, Good(u), NEW i, i.op = "MCLEAR", IsInstruction(i)
    PROVE  Sound(u, ClearTile(u, i))
<1>1. i.td \in TileRegisters /\ i.type \in Types /\ i.rows \in Nat /\ i.cols \in Nat
  BY AddressFacts DEF IsInstruction
<1>2. CASE ~Fits(i.rows, i.cols, i.type)
  BY <1>2, RefusalSound, InvalidIsAFault DEF ClearTile
<1>3. CASE Fits(i.rows, i.cols, i.type)
  <2> DEFINE zeros == [e \in 0 .. i.rows * i.cols - 1 |-> 0]
  <2>1. zeros \in [0 .. i.rows * i.cols - 1 -> Addresses]
    BY AddressFacts
  <2>2. ClearTile(u, i) = Finish([u EXCEPT !.tiles[i.td] = Tile(i.rows, i.cols, i.type, zeros)])
    BY <1>3 DEF ClearTile
  <2> HIDE DEF zeros
  <2>3. IsTile(Tile(i.rows, i.cols, i.type, zeros))
    BY <1>1, <1>3, <2>1, TileIsTile
  <2> QED
    BY <1>1, <2>2, <2>3, NewTileSound
<1> QED
  BY <1>2, <1>3

(* The elements an accepted load reads.                                     *)
Loaded(u, v) ==
    [e \in 0 .. v.rows * v.cols - 1 |-> ReadBytes(u.scratchpad, Checks(v, FALSE)[e + 1].at, Width(v.type))]

(* The checks of a load, and of a store, that all passed.                   *)
LoadPasses(v)  == v.valid /\ FirstFault(Checks(v, FALSE)) = << >>
StorePasses(v) == v.valid /\ FirstFault(Checks(v, TRUE)) = << >>

(* A found element is behind the scratchpad's region, where it should be.   *)
LEMMA FoundInPlace ==
    ASSUME NEW local, NEW address, NEW size \in {1, 2, 4}, NEW write, Found(local, address, size, write, size)
    PROVE  /\ local.at = address - Home.base /\ local.at \in Nat /\ local.at + size <= ScratchpadBytes
           /\ local.at .. local.at + size - 1 \subseteq 0 .. ScratchpadBytes - 1
<1>1. local.at \in Nat /\ local.at + size <= ScratchpadBytes
  BY DEF Found
<1>2. PICK r \in DOMAIN Map : Map[r].target = "scratchpad" /\ local.at = address - Map[r].base
  BY DEF Found
<1>3. Home = Map[r]
  BY <1>2, HomeIs
<1>4. local.at .. local.at + size - 1 \subseteq 0 .. ScratchpadBytes - 1
  BY <1>1, ScratchpadFacts
<1> QED
  BY <1>1, <1>2, <1>3, <1>4

(* What a load reads at a place is an element made of the bytes there.      *)
LEMMA LoadedElement ==
    ASSUME NEW u, Good(u), NEW v, IsView(v), LoadPasses(v),
           NEW e \in 0 .. v.rows * v.cols - 1
    PROVE  /\ Loaded(u, v)[e] \in Addresses
           /\ \A j \in 0 .. Width(v.type) - 1 :
                  ByteOf(Loaded(u, v)[e], j) = u.scratchpad[Place(v, e) - Home.base + j]
<1> DEFINE check == Checks(v, FALSE)[e + 1]
           at == check.at
           w == Width(v.type)
           x == ReadBytes(u.scratchpad, at, w)
<1>1. v.rows * v.cols \in Nat /\ w \in {1, 2, 4} /\ Loaded(u, v)[e] = x
  BY ViewFacts, ShapeFacts DEF Loaded, LoadPasses
<1>2. e + 1 \in 1 .. v.rows * v.cols /\ (e + 1) - 1 = e
  BY <1>1
<1>3. Found(check, Place(v, e), w, FALSE, w)
  BY <1>2, FirstCheck DEF LoadPasses
<1>4. at = Place(v, e) - Home.base /\ at \in Nat /\ at .. at + w - 1 \subseteq 0 .. ScratchpadBytes - 1
  <2> HIDE DEF check, w
  <2> QED
    BY <1>1, <1>3, FoundInPlace
<1>5. \A b \in 0 .. ScratchpadBytes - 1 : u.scratchpad[b] \in Bytes
  BY ScratchpadFacts DEF Good
<1> HIDE DEF at, w
<1>6. at \in Int /\ \A b \in at .. at + w - 1 : u.scratchpad[b] \in Bytes
  BY <1>4, <1>5
<1>7. x \in Nat /\ x < ByteValues ^ w /\ \A j \in 0 .. w - 1 : ByteOf(x, j) = u.scratchpad[at + j]
  BY <1>1, <1>6, ReadBytesFacts
<1>8. ByteValues ^ w \in Nat /\ ByteValues ^ w <= AddressSpace
  BY <1>1, PowerInSpace
<1> HIDE DEF x
<1>9. x \in Addresses
  BY <1>7, <1>8, AddressFacts
<1> QED
  BY <1>1, <1>4, <1>7, <1>9 DEF w

(* What an accepted load returns.                                           *)
LEMMA LoadTileIs ==
    ASSUME NEW u, Good(u), NEW i, i.op = "MLOAD", IsInstruction(i)
    PROVE  LET v == u.views[i.view]
               t == Tile(v.rows, v.cols, v.type, Loaded(u, v))
           IN  /\ i.td \in TileRegisters /\ IsView(v)
               /\ ~v.valid => LoadTile(u, i) = Refuse(u, Invalid)
               /\ v.valid /\ FirstFault(Checks(v, FALSE)) # << >> =>
                    LoadTile(u, i) = Refuse(u, FirstFault(Checks(v, FALSE))[1])
               /\ v.valid /\ FirstFault(Checks(v, FALSE)) = << >> =>
                    LoadTile(u, i) = Finish([u EXCEPT !.tiles[i.td] = t]) /\ IsTile(t)
<1> DEFINE v == u.views[i.view]
           t == Tile(v.rows, v.cols, v.type, Loaded(u, v))
<1>1. i.td \in TileRegisters /\ IsView(v)
  BY DEF IsInstruction, Good
<1>2. LoadTile(u, i) = IF ~v.valid THEN Refuse(u, Invalid)
                       ELSE IF FirstFault(Checks(v, FALSE)) # << >> THEN Refuse(u, FirstFault(Checks(v, FALSE))[1])
                       ELSE Finish([u EXCEPT !.tiles[i.td] = t])
  BY DEF LoadTile, Loaded
<1> HIDE DEF v
<1>3. ASSUME v.valid, FirstFault(Checks(v, FALSE)) = << >> PROVE IsTile(t)
  <2>1. v.rows \in Nat /\ v.cols \in Nat /\ v.type \in Types /\ Fits(v.rows, v.cols, v.type)
    BY <1>1, <1>3, ViewFacts, ShapeFacts DEF Fits
  <2>2. \A e \in 0 .. v.rows * v.cols - 1 : Loaded(u, v)[e] \in Addresses
    BY <1>1, <1>3, LoadedElement DEF LoadPasses
  <2>3. Loaded(u, v) = [e \in 0 .. v.rows * v.cols - 1 |-> Loaded(u, v)[e]]
    BY DEF Loaded
  <2>4. Loaded(u, v) \in [0 .. v.rows * v.cols - 1 -> Addresses]
    BY <2>2, <2>3
  <2> QED
    BY <2>1, <2>4, TileIsTile
<1> QED
  BY <1>1, <1>2, <1>3 DEF v

LEMMA LoadTileSound ==
    ASSUME NEW u, Good(u), NEW i, i.op = "MLOAD", IsInstruction(i)
    PROVE  Sound(u, LoadTile(u, i))
<1> DEFINE v == u.views[i.view]
           t == Tile(v.rows, v.cols, v.type, Loaded(u, v))
<1>1. /\ i.td \in TileRegisters /\ IsView(v)
      /\ ~v.valid => LoadTile(u, i) = Refuse(u, Invalid)
      /\ v.valid /\ FirstFault(Checks(v, FALSE)) # << >> => LoadTile(u, i) = Refuse(u, FirstFault(Checks(v, FALSE))[1])
      /\ v.valid /\ FirstFault(Checks(v, FALSE)) = << >> => LoadTile(u, i) = Finish([u EXCEPT !.tiles[i.td] = t]) /\ IsTile(t)
  BY LoadTileIs
<1> HIDE DEF v, t
<1>2. CASE ~v.valid
  BY <1>1, <1>2, RefusalSound, InvalidIsAFault
<1>3. CASE v.valid /\ FirstFault(Checks(v, FALSE)) # << >>
  BY <1>1, <1>3, FirstCheck, RefusalSound
<1>4. CASE v.valid /\ FirstFault(Checks(v, FALSE)) = << >>
  BY <1>1, <1>4, NewTileSound
<1> QED
  BY <1>2, <1>3, <1>4

(* An accepted store passes over the elements of a tile of words.           *)
LEMMA StorePlaced ==
    ASSUME NEW u, Good(u), NEW v, IsView(v), NEW tile, IsTile(tile), Storable(v, tile)
    PROVE  Placed(u, v, tile, Checks(v, TRUE))
<1> DEFINE checks == Checks(v, TRUE)
           w == Width(v.type)
<1>1. v.valid /\ tile.valid /\ v.rows = tile.rows /\ v.cols = tile.cols
  BY DEF Storable, SameShape
<1>2. v.rows * v.cols \in Nat /\ w \in {1, 2, 4} /\ tile.elements \in [0 .. v.rows * v.cols - 1 -> Addresses]
  BY <1>1, ViewFacts, ShapeFacts, TileFacts
<1>3. ASSUME NEW k \in 1 .. v.rows * v.cols
      PROVE  /\ tile.elements[k - 1] \in Addresses
             /\ checks[k].kind = "local" => checks[k].at \in Nat /\ checks[k].at + w <= ScratchpadBytes
  <2>1. k - 1 \in 0 .. v.rows * v.cols - 1
    BY <1>2
  <2>2. (checks[k].kind = "fault") \/ Found(checks[k], Place(v, k - 1), w, TRUE, w)
    BY <1>1, CheckOutcome
  <2> HIDE DEF checks, w
  <2> QED
    BY <1>2, <2>1, <2>2 DEF Found
<1> QED
  BY <1>2, <1>3 DEF Placed, Good

LEMMA StoreTileSound ==
    ASSUME NEW u, Good(u), NEW i, i.op = "MSTORE", IsInstruction(i)
    PROVE  Sound(u, StoreTile(u, i))
<1> DEFINE v == u.views[i.view]
           tile == u.tiles[i.ts]
           checks == Checks(v, TRUE)
           memory == Stored(u, v, tile, checks)
<1>1. IsView(v) /\ IsTile(tile)
  BY DEF IsInstruction, Good
<1>2. StoreTile(u, i) = IF ~Storable(v, tile) THEN Refuse(u, Invalid)
                        ELSE IF FirstFault(checks) # << >> THEN Refuse(u, FirstFault(checks)[1])
                        ELSE Finish([u EXCEPT !.scratchpad = memory])
  BY DEF StoreTile
<1> HIDE DEF v, tile, memory
<1>3. CASE ~Storable(v, tile)
  BY <1>2, <1>3, RefusalSound, InvalidIsAFault
<1>4. CASE Storable(v, tile) /\ FirstFault(checks) # << >>
  <2>1. v.valid
    BY <1>4 DEF Storable
  <2> QED
    BY <1>1, <1>2, <1>4, <2>1, FirstCheck, RefusalSound
<1>5. CASE Storable(v, tile) /\ FirstFault(checks) = << >>
  <2>1. Placed(u, v, tile, checks)
    BY <1>1, <1>5, StorePlaced
  <2> HIDE DEF checks
  <2>2. PICK f : Storing(f, u, v, tile, checks) /\ Stored(u, v, tile, checks) = f[v.rows * v.cols]
    BY <2>1, StoredFollows
  <2>3. memory \in Scratchpads
    BY <2>1, <2>2 DEF memory, Storing, Placed
  <2> QED
    BY <1>2, <1>5, <2>3, NewBytesSound
<1> QED
  BY <1>3, <1>4, <1>5

(* Rows and columns of multipliable tiles have words to multiply.           *)
LEMMA TilesMeet ==
    ASSUME NEW a, IsTile(a), a.valid, NEW b, IsTile(b), b.valid, a.cols = b.rows,
           NEW r \in 0 .. a.rows - 1, NEW c \in 0 .. b.cols - 1
    PROVE  Meets(a, b, r, c)
<1>1. /\ a.rows \in Nat /\ a.cols \in Nat /\ a.elements \in [0 .. a.rows * a.cols - 1 -> Addresses]
      /\ b.rows \in Nat /\ b.cols \in Nat /\ b.elements \in [0 .. b.rows * b.cols - 1 -> Addresses]
  BY TileFacts, ShapeFacts
<1>2. ASSUME NEW k \in 1 .. a.cols
      PROVE  a.elements[r * a.cols + (k - 1)] \in Addresses /\ b.elements[(k - 1) * b.cols + c] \in Addresses
  <2>1. k - 1 \in 0 .. a.cols - 1 /\ k - 1 \in 0 .. b.rows - 1
    BY <1>1
  <2>2. r * a.cols + (k - 1) \in 0 .. a.rows * a.cols - 1
    BY <1>1, <2>1, ElementOfRow
  <2>3. (k - 1) * b.cols + c \in 0 .. b.rows * b.cols - 1
    BY <1>1, <2>1, ElementOfRow
  <2> QED
    BY <1>1, <2>2, <2>3
<1> QED
  BY <1>1, <1>2 DEF Meets

Seed(u, i, e) == IF i.op = "MMACC" THEN u.tiles[i.td].elements[e] ELSE 0

(* What a product is made of.                                               *)
LEMMA ProductIs ==
    ASSUME NEW u, Good(u), NEW i, i.op \in {"MDOT", "MMACC"}, IsInstruction(i), Multipliable(u, i)
    PROVE  LET a == u.tiles[i.ta]  b == u.tiles[i.tb]
           IN  /\ i.td \in TileRegisters /\ i.type \in Types
               /\ IsTile(a) /\ IsTile(b) /\ a.valid /\ b.valid /\ a.cols = b.rows /\ Fits(a.rows, b.cols, i.type)
               /\ a.rows \in Nat /\ b.cols \in Nat /\ a.rows * b.cols \in Nat
               /\ \A r \in 0 .. a.rows - 1, c \in 0 .. b.cols - 1 : Meets(a, b, r, c)
               /\ \A e \in 0 .. a.rows * b.cols - 1 : Seed(u, i, e) \in Addresses
               /\ \A e \in 0 .. a.rows * b.cols - 1 :
                      Product(u, i)[e] = Accumulated(a, b, e \div b.cols, e % b.cols, Seed(u, i, e), i.type)
<1> DEFINE a == u.tiles[i.ta]
           b == u.tiles[i.tb]
           old == u.tiles[i.td]
<1>1. {i.ta, i.tb, i.td} \subseteq TileRegisters /\ i.type \in Types
  BY DEF IsInstruction, Types
<1>2. IsTile(a) /\ IsTile(b) /\ IsTile(old)
  BY <1>1 DEF Good
<1>3. a.valid /\ b.valid /\ a.cols = b.rows /\ Fits(a.rows, b.cols, i.type)
      /\ (i.op = "MMACC" => old.valid /\ old.rows = a.rows /\ old.cols = b.cols)
  BY DEF Multipliable
<1>4. \A e \in 0 .. a.rows * b.cols - 1 :
        Product(u, i)[e] = Accumulated(a, b, e \div b.cols, e % b.cols, Seed(u, i, e), i.type)
  BY DEF Product, ProductElement, Seed
<1>5. \A e : Seed(u, i, e) = IF i.op = "MMACC" THEN old.elements[e] ELSE 0
  BY DEF Seed
<1> HIDE DEF a, b, old
<1>6. a.rows \in Nat /\ b.cols \in Nat /\ a.rows * b.cols \in Nat
  BY <1>2, <1>3, TileFacts, ShapeFacts
<1>7. \A r \in 0 .. a.rows - 1, c \in 0 .. b.cols - 1 : Meets(a, b, r, c)
  BY <1>2, <1>3, TilesMeet
<1>8. i.op = "MMACC" => old.elements \in [0 .. a.rows * b.cols - 1 -> Addresses]
  <2> SUFFICES ASSUME i.op = "MMACC" PROVE old.elements \in [0 .. a.rows * b.cols - 1 -> Addresses]
    OBVIOUS
  <2>1. old.elements \in [0 .. old.rows * old.cols - 1 -> Addresses]
    BY <1>2, <1>3, TileFacts
  <2> QED
    BY <1>3, <2>1
<1>9. \A e \in 0 .. a.rows * b.cols - 1 : Seed(u, i, e) \in Addresses
  BY <1>5, <1>8, AddressFacts
<1> QED
  BY <1>1, <1>2, <1>3, <1>4, <1>6, <1>7, <1>9 DEF a, b

LEMMA MultiplySound ==
    ASSUME NEW u, Good(u), NEW i, i.op \in {"MDOT", "MMACC"}, IsInstruction(i)
    PROVE  Sound(u, Multiply(u, i))
<1> DEFINE a == u.tiles[i.ta]
           b == u.tiles[i.tb]
           c == Tile(a.rows, b.cols, i.type, Product(u, i))
<1>1. CASE ~Multipliable(u, i)
  BY <1>1, RefusalSound, InvalidIsAFault DEF Multiply
<1>2. CASE Multipliable(u, i)
  <2>1. /\ i.td \in TileRegisters /\ i.type \in Types /\ Fits(a.rows, b.cols, i.type)
        /\ a.rows \in Nat /\ b.cols \in Nat /\ a.rows * b.cols \in Nat
        /\ \A r \in 0 .. a.rows - 1, s \in 0 .. b.cols - 1 : Meets(a, b, r, s)
        /\ \A e \in 0 .. a.rows * b.cols - 1 : Seed(u, i, e) \in Addresses
        /\ \A e \in 0 .. a.rows * b.cols - 1 :
               Product(u, i)[e] = Accumulated(a, b, e \div b.cols, e % b.cols, Seed(u, i, e), i.type)
    BY <1>2, ProductIs
  <2>2. Multiply(u, i) = Finish([u EXCEPT !.tiles[i.td] = c])
    BY <1>2 DEF Multiply
  <2>3. Product(u, i) = [e \in 0 .. a.rows * b.cols - 1 |-> Product(u, i)[e]]
    BY DEF Product
  <2> HIDE DEF a, b
  <2>4. ASSUME NEW e \in 0 .. a.rows * b.cols - 1 PROVE Product(u, i)[e] \in Addresses
    <3> DEFINE row == e \div b.cols
               column == e % b.cols
    <3>1. row \in 0 .. a.rows - 1 /\ column \in 0 .. b.cols - 1
      BY <2>1, RowAndColumn
    <3>2. Product(u, i)[e] = Accumulated(a, b, row, column, Seed(u, i, e), i.type)
      BY <2>1
    <3> HIDE DEF row, column
    <3>3. Meets(a, b, row, column) /\ Seed(u, i, e) \in Addresses
      BY <2>1, <3>1
    <3>4. PICK g : Summing(g, a, b, row, column, Seed(u, i, e), i.type)
                   /\ Accumulated(a, b, row, column, Seed(u, i, e), i.type) = g[a.cols]
      BY <3>3, SumFollows
    <3>5. g[a.cols] \in Addresses
      BY <3>3, <3>4 DEF Meets, Summing
    <3> QED
      BY <3>2, <3>4, <3>5
  <2>5. Product(u, i) \in [0 .. a.rows * b.cols - 1 -> Addresses]
    BY <2>3, <2>4
  <2>6. IsTile(Tile(a.rows, b.cols, i.type, Product(u, i)))
    BY <2>1, <2>5, TileIsTile
  <2> QED
    BY <2>1, <2>2, <2>6, NewTileSound
<1> QED
  BY <1>1, <1>2

(* Every instruction leaves registers that fit, and does what the contract  *)
(* allows.                                                                  *)
LEMMA ExecuteSound ==
    ASSUME NEW u, Good(u), NEW i, IsInstruction(i)
    PROVE  Sound(u, Execute(u, i))
<1>1. CASE i.op = "MVIEW"
  BY <1>1, SetViewSound DEF Execute
<1>2. CASE i.op = "MCLEAR"
  BY <1>2, ClearTileSound DEF Execute
<1>3. CASE i.op = "MLOAD"
  BY <1>3, LoadTileSound DEF Execute
<1>4. CASE i.op = "MSTORE"
  BY <1>4, StoreTileSound DEF Execute
<1>5. CASE i.op \notin {"MVIEW", "MCLEAR", "MLOAD", "MSTORE"}
  <2>1. i.op \in {"MDOT", "MMACC"}
    BY <1>5 DEF IsInstruction
  <2> QED
    BY <1>5, <2>1, MultiplySound DEF Execute
<1> QED
  BY <1>1, <1>2, <1>3, <1>4, <1>5

-----------------------------------------------------------------------------
(* Programs *)

LEMMA InitEstablishesInv == Init => Inv
<1> SUFFICES ASSUME Init PROVE Good(unit)
  BY DEF Inv
<1> QED
  BY MatrixAssumption DEF MatrixAssumption, Init, Good

LEMMA StepSound ==
    ASSUME Inv, Next
    PROVE  \E r : Sound(unit, r) /\ unit' = r.unit /\ outcome' = r.outcome
<1>1. PICK i \in Repertoire : ExecuteNpu(i)
  BY DEF Next
<1>2. IsInstruction(i)
  BY MatrixAssumption DEF MatrixAssumption
<1>3. unit' = Execute(unit, i).unit /\ outcome' = Execute(unit, i).outcome
  BY <1>1 DEF ExecuteNpu
<1> QED
  BY <1>2, <1>3, ExecuteSound DEF Inv

LEMMA Invariance == Spec => []Inv
<1>1. Init => Inv
  BY InitEstablishesInv
<1>2. Inv /\ [Next]_vars => Inv'
  <2> SUFFICES ASSUME Inv, [Next]_vars PROVE Inv'
    OBVIOUS
  <2>1. CASE Next
    BY <2>1, StepSound DEF Sound, Inv
  <2>2. CASE UNCHANGED vars
    BY <2>2 DEF vars, Inv
  <2> QED
    BY <2>1, <2>2
<1> QED
  BY <1>1, <1>2, PTL DEF Spec

(* Views and tiles keep fitting the machine in every program, with every    *)
(* element their shapes promise (tile_shape_fits and its callers).          *)
THEOREM TilesAlwaysFit == Spec => []TilesFit
<1>1. Inv => TilesFit
  <2> SUFFICES ASSUME Good(unit) PROVE TilesFit
    BY DEF Inv
  <2>1. \A v \in ViewRegisters : unit.views[v] = Absent \/ IsShape(unit.views[v])
    BY DEF Good, IsView
  <2>2. \A t \in TileRegisters : IsTile(unit.tiles[t])
    BY DEF Good
  <2>3. \A x : IsTile(x) => x = Absent \/ (IsShape(x) /\ DOMAIN x.elements = 0 .. x.rows * x.cols - 1)
    BY DEF IsTile
  <2> QED
    BY <2>1, <2>2, <2>3 DEF TilesFit
<1> QED
  BY <1>1, Invariance, PTL

(* Every matrix instruction faults with everything as it was, changes views *)
(* and tiles, or changes the scratchpad, in every program (execute_npu, as  *)
(* program_machine::complete uses it).                                      *)
THEOREM MatrixImplementsContract == Spec => ImplementsContract
<1>1. Init => outcome = [kind |-> "none"]
  BY DEF Init
<1>2. Inv /\ [Next]_vars => [Contract!Next]_<<unit.scratchpad, <<unit.views, unit.tiles>>, outcome>>
  <2> SUFFICES ASSUME Inv, [Next]_vars
               PROVE  [Contract!Next]_<<unit.scratchpad, <<unit.views, unit.tiles>>, outcome>>
    OBVIOUS
  <2>1. CASE Next
    <3>1. PICK r : Sound(unit, r) /\ unit' = r.unit /\ outcome' = r.outcome
      BY <2>1, StepSound
    <3>2. CASE r.outcome \in Faults /\ r.unit = unit
      BY <3>1, <3>2 DEF Faults, Contract!Next, Contract!Trap
    <3>3. CASE r.outcome = Done /\ r.unit.scratchpad = unit.scratchpad
      BY <3>1, <3>3 DEF Done, Contract!Next, Contract!Compute
    <3>4. CASE r.outcome = Done /\ r.unit.views = unit.views /\ r.unit.tiles = unit.tiles
      BY <3>1, <3>4 DEF Done, Contract!Next, Contract!Store
    <3> QED
      BY <3>1, <3>2, <3>3, <3>4 DEF Sound, Allowed
  <2>2. CASE UNCHANGED vars
    BY <2>2 DEF vars
  <2> QED
    BY <2>1, <2>2
<1> QED
  BY <1>1, <1>2, Invariance, PTL DEF Spec, ImplementsContract, Contract!Spec

-----------------------------------------------------------------------------
(* Transfers                                                                *)

(* A step as the properties of actions see it.                              *)
LEMMA StepExecutes ==
    ASSUME Inv, Next
    PROVE  /\ Good(unit) /\ IsInstruction(executed')
           /\ unit' = Execute(unit, executed').unit /\ outcome' = Execute(unit, executed').outcome
<1>1. PICK i \in Repertoire : ExecuteNpu(i)
  BY DEF Next
<1>2. IsInstruction(i)
  BY MatrixAssumption DEF MatrixAssumption
<1> QED
  BY <1>1, <1>2 DEF ExecuteNpu, Inv

(* A transfer that is not invalid has a view, and does what its checks say. *)
LEMMA TransferIs ==
    ASSUME NEW u, Good(u), NEW i, i.op \in {"MLOAD", "MSTORE"}, IsInstruction(i), Execute(u, i).outcome # Invalid,
           NEW write, write = (i.op = "MSTORE")
    PROVE  LET v == u.views[i.view]
               fault == FirstFault(Checks(v, write))
           IN  /\ IsView(v) /\ v.valid /\ (i.op = "MSTORE" => Storable(v, u.tiles[i.ts]))
               /\ fault = << >> => Execute(u, i).outcome = Done
               /\ fault # << >> => Execute(u, i).outcome = fault[1]
<1> DEFINE v == u.views[i.view]
           tile == u.tiles[i.ts]
           fault == FirstFault(Checks(v, write))
           outcome1 == Execute(u, i).outcome
<1>1. IsView(v)
  BY DEF IsInstruction, Good
<1>2. (\A y : Refuse(u, y).outcome = y) /\ (\A z : Finish(z).outcome = Done)
  BY DEF Refuse, Finish
<1>3. ASSUME i.op = "MLOAD"
      PROVE  v.valid /\ (fault = << >> => outcome1 = Done) /\ (fault # << >> => outcome1 = fault[1])
  <2>1. write = FALSE
    BY <1>3
  <2>2. fault = FirstFault(Checks(v, FALSE))
    BY <2>1, Zenon
  <2>3. outcome1 = LoadTile(u, i).outcome
    BY <1>3 DEF Execute
  <2>4. outcome1 # Invalid
    OBVIOUS
  <2>5. /\ ~v.valid => LoadTile(u, i) = Refuse(u, Invalid)
        /\ v.valid /\ FirstFault(Checks(v, FALSE)) # << >> => LoadTile(u, i) = Refuse(u, FirstFault(Checks(v, FALSE))[1])
        /\ v.valid /\ FirstFault(Checks(v, FALSE)) = << >> => \E z : LoadTile(u, i) = Finish(z)
    BY <1>3, LoadTileIs
  <2> HIDE DEF v, fault, outcome1
  <2> QED
    BY <1>2, <2>2, <2>3, <2>4, <2>5
<1>4. ASSUME i.op = "MSTORE"
      PROVE  /\ Storable(v, tile) /\ v.valid
             /\ fault = << >> => outcome1 = Done
             /\ fault # << >> => outcome1 = fault[1]
  <2>1. write = TRUE
    BY <1>4
  <2>2. fault = FirstFault(Checks(v, TRUE))
    BY <2>1, Zenon
  <2>3. outcome1 = StoreTile(u, i).outcome
    BY <1>4 DEF Execute
  <2>4. outcome1 # Invalid
    OBVIOUS
  <2> DEFINE stored == [u EXCEPT !.scratchpad = Stored(u, v, tile, Checks(v, TRUE))]
             found == FirstFault(Checks(v, TRUE))
  <2>5. StoreTile(u, i) = IF ~Storable(v, tile) THEN Refuse(u, Invalid)
                          ELSE IF found # << >> THEN Refuse(u, found[1]) ELSE Finish(stored)
    BY DEF StoreTile
  <2> HIDE DEF v, tile, fault, outcome1, stored, found
  <2>6. Storable(v, tile)
    BY <1>2, <2>3, <2>4, <2>5
  <2>7. StoreTile(u, i) = IF found # << >> THEN Refuse(u, found[1]) ELSE Finish(stored)
    BY <2>5, <2>6
  <2>8. v.valid
    BY <2>6 DEF Storable
  <2>9. outcome1 = IF found # << >> THEN found[1] ELSE Done
    BY <1>2, <2>3, <2>7
  <2> QED
    BY <2>2, <2>6, <2>8, <2>9 DEF found
<1>5. i.op = "MLOAD" \/ i.op = "MSTORE"
  OBVIOUS
<1> HIDE DEF v, tile, fault, outcome1
<1>6. /\ v.valid /\ (i.op = "MSTORE" => Storable(v, tile))
      /\ fault = << >> => outcome1 = Done
      /\ fault # << >> => outcome1 = fault[1]
  BY <1>3, <1>4, <1>5
<1> QED
  BY <1>1, <1>6 DEF v, tile, fault, outcome1

(* A fault names the low word of the address that was checked.              *)
LEMMA FaultNames ==
    ASSUME NEW address, NEW size, NEW write, NEW alignment,
           LocalAddress(address, size, write, alignment).kind = "fault"
    PROVE  LocalAddress(address, size, write, alignment).value = address % AddressSpace
<1> DEFINE local == LocalAddress(address, size, write, alignment)
           route == Resolve(Map, WordOf(address), size, IF write THEN "write" ELSE "read")
<1>1. \/ \E cause : local = Fault(cause, WordOf(address))
      \/ local = [kind |-> "local", at |-> route.at]
  BY DEF LocalAddress
<1> HIDE DEF local, route
<1>2. local.kind = "fault"
  BY DEF local
<1>3. \E cause : local = Fault(cause, WordOf(address))
  BY <1>1, <1>2
<1> QED
  BY <1>3 DEF Fault, WordOf, local

(* The elements of a view that have no place to be moved from or to.        *)
Outside(v, write) == {e \in 0 .. v.rows * v.cols - 1 : ~Held(Place(v, e), Width(v.type), write)}

LEMMA OutsideFaults ==
    ASSUME NEW v, IsView(v), v.valid, NEW write \in BOOLEAN
    PROVE  /\ (FirstFault(Checks(v, write)) = << >>) <=> (Outside(v, write) = {})
           /\ FirstFault(Checks(v, write)) # << >> =>
                LET worst == CHOOSE e \in Outside(v, write) : \A f \in Outside(v, write) : e <= f
                IN  /\ FirstFault(Checks(v, write))[1].kind = "fault"
                    /\ FirstFault(Checks(v, write))[1].value = Place(v, worst) % AddressSpace
<1> DEFINE checks == Checks(v, write)
           n == v.rows * v.cols
           O == Outside(v, write)
<1>1. n \in Nat /\ DOMAIN checks = 1 .. n /\ DOMAIN checks \subseteq Nat
  BY ViewFacts, ShapeFacts, ChecksAre
<1>2. \A e \in 0 .. n - 1 : checks[e + 1] = LocalAddress(Place(v, e), Width(v.type), write, Width(v.type))
  BY ChecksAre
<1>3. \A e \in 0 .. n - 1 : (checks[e + 1].kind = "fault") <=> e \in O
  <2> TAKE e \in 0 .. n - 1
  <2>1. Place(v, e) \in Int /\ Width(v.type) \in {1, 2, 4}
    BY ElementAddressRange, WidthRange
  <2>2. (LocalAddress(Place(v, e), Width(v.type), write, Width(v.type)).kind = "fault")
          <=> ~Held(Place(v, e), Width(v.type), write)
    BY <2>1, LocalAddressExact
  <2> QED
    BY <1>2, <2>2 DEF Outside
<1>4. \A e \in 0 .. n - 1 : checks[e + 1].kind = "fault" => checks[e + 1].value = Place(v, e) % AddressSpace
  BY <1>2, FaultNames
<1>5. O \subseteq 0 .. n - 1
  BY DEF Outside
<1> HIDE DEF checks, n, O
<1>6. \A k \in 1 .. n : k - 1 \in 0 .. n - 1 /\ (k - 1) + 1 = k
  BY <1>1
<1>7. \A e \in O : e + 1 \in DOMAIN checks /\ checks[e + 1].kind = "fault"
  BY <1>1, <1>3, <1>5
<1>8. \A k \in DOMAIN checks : checks[k].kind = "fault" => k - 1 \in O
  BY <1>1, <1>3, <1>6
<1>9. (FirstFault(checks) = << >>) <=> (O = {})
  BY <1>7, <1>8, NoFirstFault
<1>10. ASSUME FirstFault(checks) # << >>
       PROVE  LET worst == CHOOSE e \in O : \A f \in O : e <= f
              IN  FirstFault(checks)[1].kind = "fault" /\ FirstFault(checks)[1].value = Place(v, worst) % AddressSpace
  <2>1. PICK k \in DOMAIN checks : /\ checks[k].kind = "fault" /\ FirstFault(checks)[1] = checks[k]
                                   /\ \A j \in DOMAIN checks : checks[j].kind = "fault" => k <= j
    BY <1>1, <1>10, FirstFaultIsFirst
  <2>2. k \in 1 .. n /\ k - 1 \in O /\ k - 1 \in 0 .. n - 1 /\ (k - 1) + 1 = k
    BY <1>1, <1>6, <1>8, <2>1
  <2>3. \A f \in O : k - 1 <= f
    <3> TAKE f \in O
    <3>1. k <= f + 1 /\ f \in Int
      BY <1>1, <1>5, <1>7, <2>1
    <3> QED
      BY <2>2, <3>1
  <2> DEFINE worst == CHOOSE e \in O : \A f \in O : e <= f
  <2>4. worst \in O /\ \A f \in O : worst <= f
    BY <2>2, <2>3
  <2> HIDE DEF worst
  <2>5. worst = k - 1
    BY <1>1, <1>5, <2>2, <2>3, <2>4
  <2>6. checks[k].value = Place(v, k - 1) % AddressSpace
    BY <1>4, <2>1, <2>2
  <2> QED
    BY <2>1, <2>5, <2>6 DEF worst
<1> QED
  BY <1>9, <1>10 DEF checks, O

(* AccessesFitTheScratchpad, of an instruction and its outcome.             *)
AsHeld(v, write, result) ==
    LET outside == Outside(v, write)
        worst == CHOOSE e \in outside : \A f \in outside : e <= f
    IN  IF outside = {} THEN result = Done
        ELSE result.kind = "fault" /\ result.value = Place(v, worst) % AddressSpace

LEMMA TransfersFit ==
    ASSUME NEW u, Good(u), NEW i, i.op \in {"MLOAD", "MSTORE"}, IsInstruction(i), Execute(u, i).outcome # Invalid,
           NEW write, write = (i.op = "MSTORE")
    PROVE  AsHeld(u.views[i.view], write, Execute(u, i).outcome)
<1> DEFINE v == u.views[i.view]
           fault == FirstFault(Checks(v, write))
<1>1. IsView(v) /\ v.valid /\ (fault = << >> => Execute(u, i).outcome = Done) /\ (fault # << >> => Execute(u, i).outcome = fault[1])
  BY TransferIs
<1>2. write \in BOOLEAN
  OBVIOUS
<1> HIDE DEF v
<1>3. /\ (fault = << >>) <=> (Outside(v, write) = {})
      /\ fault # << >> =>
           LET worst == CHOOSE e \in Outside(v, write) : \A f \in Outside(v, write) : e <= f
           IN  fault[1].kind = "fault" /\ fault[1].value = Place(v, worst) % AddressSpace
  BY <1>1, <1>2, OutsideFaults
<1> HIDE DEF fault
<1> QED
  BY <1>1, <1>3 DEF v, AsHeld

(* A byte along a store: of the last element so far that has it, or as it   *)
(* was.                                                                     *)
LEMMA StoringResolves ==
    ASSUME NEW u, NEW v, NEW tile, NEW checks, Placed(u, v, tile, checks),
           \A k \in 1 .. v.rows * v.cols : checks[k].kind = "local",
           NEW f, Storing(f, u, v, tile, checks), NEW b \in 0 .. ScratchpadBytes - 1,
           NEW writers, writers = {e \in 0 .. v.rows * v.cols - 1 : b \in checks[e + 1].at .. checks[e + 1].at + Width(v.type) - 1}
    PROVE  /\ writers = {} => f[v.rows * v.cols][b] = u.scratchpad[b]
           /\ \A e \in writers : (\A j \in writers : j <= e) =>
                f[v.rows * v.cols][b] = ByteOf(tile.elements[e], b - checks[e + 1].at)
<1> DEFINE n == v.rows * v.cols
           value(e) == ByteOf(tile.elements[e], b - checks[e + 1].at)
           T == {m \in 0 .. n :
                   /\ (\A e \in writers : e >= m) => f[m][b] = u.scratchpad[b]
                   /\ \A e \in writers : e < m /\ (\A j \in writers : j < m => j <= e) => f[m][b] = value(e)}
<1>1. n \in Nat /\ writers \subseteq 0 .. n - 1
  BY DEF Placed
<1>2. \A e \in writers : e \in Nat /\ e < n
  <2> HIDE DEF n
  <2> QED
    BY <1>1
<1>3. 0 \in T
  <2>1. f[0] = u.scratchpad
    BY DEF Storing
  <2> HIDE DEF n, value
  <2> QED
    BY <1>1, <1>2, <2>1
<1>4. ASSUME NEW m \in 1 .. n, m - 1 \in T PROVE m \in T
  <2>1. f[m] = StoredElement(f[m - 1], v, tile, checks, m) /\ f[m - 1] \in Scratchpads
    <3>1. m - 1 \in 0 .. n
      BY <1>1
    <3> QED
      BY <3>1 DEF Storing
  <2>2. f[m][b] = IF checks[m].kind = "local" /\ b \in checks[m].at .. checks[m].at + Width(v.type) - 1
                  THEN ByteOf(tile.elements[m - 1], b - checks[m].at) ELSE f[m - 1][b]
    BY <2>1, StoredElementRange
  <2>3. (m - 1) + 1 = m /\ m - 1 \in 0 .. n - 1 /\ m \in Nat /\ m \in 0 .. n /\ checks[m].kind = "local"
    BY <1>1
  <2>4. m - 1 \in writers <=> b \in checks[m].at .. checks[m].at + Width(v.type) - 1
    BY <2>3
  <2>5. f[m][b] = IF m - 1 \in writers THEN value(m - 1) ELSE f[m - 1][b]
    BY <2>2, <2>3, <2>4
  <2> HIDE DEF value, n
  <2>6. /\ (\A e \in writers : e >= m - 1) => f[m - 1][b] = u.scratchpad[b]
        /\ \A e \in writers : e < m - 1 /\ (\A j \in writers : j < m - 1 => j <= e) => f[m - 1][b] = value(e)
    BY <1>4
  <2>7. ASSUME \A e \in writers : e >= m PROVE f[m][b] = u.scratchpad[b]
    <3>1. m - 1 \notin writers /\ \A e \in writers : e >= m - 1
      BY <1>2, <2>3, <2>7
    <3> QED
      BY <2>5, <2>6, <3>1
  <2>8. ASSUME NEW e \in writers, e < m, \A j \in writers : j < m => j <= e PROVE f[m][b] = value(e)
    <3>1. CASE m - 1 \in writers
      <4>1. e = m - 1
        BY <1>2, <2>3, <2>8, <3>1
      <4> QED
        BY <2>5, <3>1, <4>1
    <3>2. CASE m - 1 \notin writers
      <4>1. e < m - 1 /\ \A j \in writers : j < m - 1 => j <= e
        <5>1. e # m - 1
          BY <3>2
        <5> QED
          BY <1>2, <2>3, <2>8, <5>1
      <4> QED
        BY <2>5, <2>6, <3>2, <4>1
    <3> QED
      BY <3>1, <3>2
  <2> QED
    BY <2>3, <2>7, <2>8
<1>5. n \in T
  <2>1. \A m \in 0 .. n : m \in T
    <3> HIDE DEF T, n
    <3> QED
      BY <1>1, <1>3, <1>4, RangeInduction
  <2> HIDE DEF n
  <2> QED
    BY <1>1, <2>1
<1> QED
  <2> HIDE DEF value
  <2>1. /\ (\A e \in writers : e >= n) => f[n][b] = u.scratchpad[b]
        /\ \A e \in writers : e < n /\ (\A j \in writers : j < n => j <= e) => f[n][b] = value(e)
    BY <1>5
  <2>2. writers = {} => f[n][b] = u.scratchpad[b]
    BY <2>1
  <2>3. \A e \in writers : (\A j \in writers : j <= e) => f[n][b] = value(e)
    BY <1>2, <2>1
  <2> QED
    BY <2>2, <2>3 DEF value

(* Where the elements of a view are in the scratchpad, and which have a     *)
(* byte.                                                                    *)
At(v, e) == Place(v, e) - Home.base

Covering(v, b) == {e \in 0 .. v.rows * v.cols - 1 : b \in At(v, e) .. At(v, e) + Width(v.type) - 1}

(* A transfer that is done has passed its checks.                           *)
LEMMA TransferPassed ==
    ASSUME NEW u, Good(u), NEW i, i.op \in {"MLOAD", "MSTORE"}, IsInstruction(i), Execute(u, i).outcome = Done
    PROVE  LET v == u.views[i.view]
           IN  /\ IsView(v) /\ v.valid
               /\ i.op = "MLOAD" => LoadPasses(v)
               /\ i.op = "MSTORE" => StorePasses(v) /\ Storable(v, u.tiles[i.ts])
<1> DEFINE v == u.views[i.view]
           write == (i.op = "MSTORE")
           fault == FirstFault(Checks(v, write))
<1>1. Execute(u, i).outcome # Invalid
  BY DEF Done, Invalid, Fault
<1>2. write = (i.op = "MSTORE") /\ write \in BOOLEAN
  OBVIOUS
<1>3. (i.op = "MLOAD" => write = FALSE) /\ (i.op = "MSTORE" => write = TRUE)
  OBVIOUS
<1> HIDE DEF write
<1>4. IsView(v) /\ v.valid /\ (i.op = "MSTORE" => Storable(v, u.tiles[i.ts])) /\ (fault # << >> => Execute(u, i).outcome = fault[1])
  BY <1>1, <1>2, TransferIs
<1> HIDE DEF v
<1>5. fault # << >> => fault[1] \in Faults
  BY <1>2, <1>4, FirstCheck
<1>6. Done \notin Faults
  BY DEF Done, Faults
<1>7. fault = << >>
  <2> HIDE DEF fault
  <2> QED
    BY <1>4, <1>5, <1>6
<1>8. i.op = "MLOAD" => FirstFault(Checks(v, FALSE)) = << >>
  BY <1>3, <1>7, Zenon
<1>9. i.op = "MSTORE" => FirstFault(Checks(v, TRUE)) = << >>
  BY <1>3, <1>7, Zenon
<1> QED
  BY <1>4, <1>8, <1>9 DEF v, LoadPasses, StorePasses

LEMMA LoadsInPlace ==
    ASSUME NEW u, Good(u), NEW i, i.op = "MLOAD", IsInstruction(i), Execute(u, i).outcome = Done,
           NEW b \in DOMAIN u.scratchpad, NEW e \in Covering(u.views[i.view], b)
    PROVE  ByteOf(Execute(u, i).unit.tiles[i.td].elements[e], b - At(u.views[i.view], e)) = u.scratchpad[b]
<1> DEFINE v == u.views[i.view]
           t == Tile(v.rows, v.cols, v.type, Loaded(u, v))
           a == At(v, e)
<1>3. IsView(v) /\ LoadPasses(v)
  <2>1. i.op \in {"MLOAD", "MSTORE"}
    OBVIOUS
  <2>2. IsView(v) /\ (i.op = "MLOAD" => LoadPasses(v))
    BY <2>1, TransferPassed
  <2> QED
    BY <2>2
<1>5. i.td \in TileRegisters /\ LoadTile(u, i) = Finish([u EXCEPT !.tiles[i.td] = t])
  <2>1. /\ i.td \in TileRegisters
        /\ v.valid /\ FirstFault(Checks(v, FALSE)) = << >> => LoadTile(u, i) = Finish([u EXCEPT !.tiles[i.td] = t])
    BY LoadTileIs
  <2> QED
    BY <1>3, <2>1 DEF LoadPasses
<1>6. Execute(u, i).unit = [u EXCEPT !.tiles[i.td] = t]
  BY <1>5 DEF Execute, Finish
<1>7. t.elements = Loaded(u, v)
  BY DEF Tile
<1> HIDE DEF t
<1>8. Execute(u, i).unit.tiles[i.td] = t
  BY <1>5, <1>6 DEF Good
<1>9. e \in 0 .. v.rows * v.cols - 1 /\ b \in a .. a + Width(v.type) - 1
  BY DEF Covering
<1>10. \A j \in 0 .. Width(v.type) - 1 : ByteOf(Loaded(u, v)[e], j) = u.scratchpad[a + j]
  <2> HIDE DEF v
  <2>1. e \in 0 .. v.rows * v.cols - 1
    BY <1>9
  <2>2. \A j \in 0 .. Width(v.type) - 1 : ByteOf(Loaded(u, v)[e], j) = u.scratchpad[Place(v, e) - Home.base + j]
    BY <1>3, <2>1, LoadedElement
  <2> QED
    BY <2>2 DEF At
<1>11. a \in Int /\ b \in Int /\ Width(v.type) \in Int
  <2> DEFINE check == Checks(v, FALSE)[e + 1]
             w == Width(v.type)
  <2>1. e + 1 \in 1 .. v.rows * v.cols /\ (e + 1) - 1 = e /\ w \in {1, 2, 4}
    <3>1. v.rows * v.cols \in Nat
      BY <1>3, ViewFacts, ShapeFacts DEF LoadPasses
    <3> HIDE DEF v
    <3> QED
      BY <1>9, <3>1, WidthRange
  <2> HIDE DEF v
  <2>2. Found(check, Place(v, e), w, FALSE, w)
    BY <1>3, <2>1, FirstCheck DEF LoadPasses
  <2> HIDE DEF check, w
  <2>3. check.at = Place(v, e) - Home.base /\ check.at \in Nat
    BY <2>1, <2>2, FoundInPlace
  <2>4. b \in Int
    BY ScratchpadFacts DEF Good
  <2> QED
    BY <2>1, <2>3, <2>4 DEF At, w
<1> HIDE DEF a, v
<1>12. b - a \in 0 .. Width(v.type) - 1 /\ a + (b - a) = b
  BY <1>9, <1>11
<1>13. ByteOf(Loaded(u, v)[e], b - a) = u.scratchpad[b]
  BY <1>10, <1>12
<1> QED
  BY <1>7, <1>8, <1>13 DEF a, v

LEMMA StoresInPlace ==
    ASSUME NEW u, Good(u), NEW i, i.op = "MSTORE", IsInstruction(i), Execute(u, i).outcome = Done,
           NEW b \in DOMAIN u.scratchpad
    PROVE  LET v == u.views[i.view]
               last == CHOOSE e \in Covering(v, b) : \A j \in Covering(v, b) : j <= e
           IN  Execute(u, i).unit.scratchpad[b] =
                 IF Covering(v, b) = {} THEN u.scratchpad[b] ELSE ByteOf(u.tiles[i.ts].elements[last], b - At(v, last))
<1> DEFINE v == u.views[i.view]
           tile == u.tiles[i.ts]
           n == v.rows * v.cols
           w == Width(v.type)
           checks == Checks(v, TRUE)
           writers == {e \in 0 .. n - 1 : b \in checks[e + 1].at .. checks[e + 1].at + w - 1}
<1>3. IsView(v) /\ v.valid /\ FirstFault(checks) = << >> /\ Storable(v, tile)
  <2>1. i.op \in {"MLOAD", "MSTORE"}
    OBVIOUS
  <2>2. IsView(v) /\ (i.op = "MSTORE" => StorePasses(v) /\ Storable(v, tile))
    BY <2>1, TransferPassed
  <2> QED
    BY <2>2 DEF StorePasses
<1>5. Execute(u, i).unit = [u EXCEPT !.scratchpad = Stored(u, v, tile, checks)]
  <2> DEFINE memory == Stored(u, v, tile, checks)
  <2>1. StoreTile(u, i) = Finish([u EXCEPT !.scratchpad = memory])
    BY <1>3 DEF StoreTile
  <2>2. Execute(u, i) = StoreTile(u, i)
    BY DEF Execute
  <2> HIDE DEF memory
  <2>3. Execute(u, i).unit = [u EXCEPT !.scratchpad = memory]
    BY <2>1, <2>2 DEF Finish
  <2> QED
    BY <2>3 DEF memory
<1>6. Execute(u, i).unit.scratchpad = Stored(u, v, tile, checks)
  BY <1>5 DEF Good
<1>7. IsTile(tile) /\ b \in 0 .. ScratchpadBytes - 1 /\ b \in Int
  BY ScratchpadFacts DEF Good, IsInstruction
<1> HIDE DEF v, tile
<1>8. n \in Nat /\ w \in {1, 2, 4}
  BY <1>3, ViewFacts, ShapeFacts
<1>9. Placed(u, v, tile, checks)
  BY <1>3, <1>7, StorePlaced
<1>10. \A k \in 1 .. n : Found(checks[k], Place(v, k - 1), w, TRUE, w)
  BY <1>3, FirstCheck
<1>11. \A k \in 1 .. n : checks[k].kind = "local"
  BY <1>10 DEF Found
<1>12. \A e \in 0 .. n - 1 : checks[e + 1].at = At(v, e)
  <2> TAKE e \in 0 .. n - 1
  <2> DEFINE check == checks[e + 1]
  <2>1. e + 1 \in 1 .. n /\ (e + 1) - 1 = e
    BY <1>8
  <2>2. Found(check, Place(v, e), w, TRUE, w)
    BY <1>10, <2>1
  <2> HIDE DEF check, w
  <2>3. check.at = Place(v, e) - Home.base
    BY <1>8, <2>2, FoundInPlace
  <2> QED
    BY <2>3 DEF At, check
<1>13. writers = Covering(v, b)
  BY <1>12 DEF Covering
<1>14. PICK f : Storing(f, u, v, tile, checks) /\ Stored(u, v, tile, checks) = f[n]
  <2> HIDE DEF checks
  <2> QED
    BY <1>9, StoredFollows
<1>15. /\ writers = {} => f[n][b] = u.scratchpad[b]
       /\ \A e \in writers : (\A j \in writers : j <= e) => f[n][b] = ByteOf(tile.elements[e], b - checks[e + 1].at)
  <2>1. writers = {e \in 0 .. v.rows * v.cols - 1 : b \in checks[e + 1].at .. checks[e + 1].at + Width(v.type) - 1}
    OBVIOUS
  <2> HIDE DEF checks, writers
  <2>2. \A k \in 1 .. v.rows * v.cols : checks[k].kind = "local"
    BY <1>11
  <2> QED
    BY <1>7, <1>9, <1>14, <2>1, <2>2, StoringResolves
<1> HIDE DEF checks
<1>16. writers \subseteq 0 .. n - 1
  OBVIOUS
<1> DEFINE last == CHOOSE e \in Covering(v, b) : \A j \in Covering(v, b) : j <= e
<1>17. ASSUME Covering(v, b) # {} PROVE last \in Covering(v, b) /\ \A j \in Covering(v, b) : j <= last
  <2>1. Covering(v, b) \in SUBSET Nat /\ \A s \in Covering(v, b) : s <= n
    <3> HIDE DEF n, writers
    <3> QED
      BY <1>8, <1>13, <1>16
  <2>2. \E e \in Covering(v, b) : \A j \in Covering(v, b) : j <= e
    <3> HIDE DEF n
    <3> QED
      BY <1>8, <1>17, <2>1, LargestExists
  <2> QED
    BY <2>2
<1> HIDE DEF last, writers, n, w
<1>18. f[n][b] = IF Covering(v, b) = {} THEN u.scratchpad[b] ELSE ByteOf(tile.elements[last], b - At(v, last))
  <2>1. CASE Covering(v, b) = {}
    BY <1>13, <1>15, <2>1
  <2>2. CASE Covering(v, b) # {}
    <3>1. last \in writers /\ \A j \in writers : j <= last
      BY <1>13, <1>17, <2>2
    <3>2. f[n][b] = ByteOf(tile.elements[last], b - checks[last + 1].at)
      BY <1>15, <3>1
    <3>3. checks[last + 1].at = At(v, last)
      BY <1>12, <1>16, <3>1
    <3> QED
      BY <2>2, <3>2, <3>3
  <2> QED
    BY <2>1, <2>2
<1> QED
  BY <1>6, <1>14, <1>18 DEF last, v, tile

(* Tiles move whole and in place or not at all, in every program, through   *)
(* views of any stride (MLOAD and MSTORE of execute_npu).                   *)
THEOREM TilesMoveInPlace == Spec => TransfersFollowTheView
<1>1. Inv /\ [Next]_vars => [AccessesFitTheScratchpad /\ TransfersAreInPlace]_vars
  <2> SUFFICES ASSUME Inv, Next PROVE AccessesFitTheScratchpad /\ TransfersAreInPlace
    OBVIOUS
  <2> DEFINE i == executed'
             v == unit.views[i.view]
             write == (i.op = "MSTORE")
  <2>1. Good(unit) /\ IsInstruction(i) /\ unit' = Execute(unit, i).unit /\ outcome' = Execute(unit, i).outcome
    BY StepExecutes
  <2>2. AccessesFitTheScratchpad
    <3> SUFFICES ASSUME i.op \in {"MLOAD", "MSTORE"}, outcome' # Invalid PROVE AsHeld(v, write, outcome')
      BY DEF AccessesFitTheScratchpad, AsHeld, Outside
    <3>1. write = (i.op = "MSTORE")
      OBVIOUS
    <3>2. Good(unit) /\ i.op \in {"MLOAD", "MSTORE"} /\ IsInstruction(i) /\ Execute(unit, i).outcome # Invalid
      BY <2>1
    <3> HIDE DEF i, write
    <3>3. AsHeld(v, write, Execute(unit, i).outcome)
      BY <3>1, <3>2, TransfersFit
    <3> QED
      BY <2>1, <3>3
  <2>3. TransfersAreInPlace
    <3> DEFINE tile == IF i.op = "MLOAD" THEN unit'.tiles[i.td] ELSE unit.tiles[i.ts]
               last(b) == CHOOSE e \in Covering(v, b) : \A f \in Covering(v, b) : f <= e
    <3> SUFFICES ASSUME i.op \in {"MLOAD", "MSTORE"}, outcome' = Done, NEW b \in DOMAIN unit.scratchpad
                 PROVE  IF i.op = "MLOAD" THEN \A e \in Covering(v, b) : ByteOf(tile.elements[e], b - At(v, e)) = unit.scratchpad[b]
                        ELSE unit'.scratchpad[b] = IF Covering(v, b) = {} THEN unit.scratchpad[b]
                                                   ELSE ByteOf(tile.elements[last(b)], b - At(v, last(b)))
      BY DEF TransfersAreInPlace, Covering, At, ByteOf
    <3>1. CASE i.op = "MLOAD"
      <4>1. \A e \in Covering(v, b) : ByteOf(unit'.tiles[i.td].elements[e], b - At(v, e)) = unit.scratchpad[b]
        <5> HIDE DEF i
        <5> QED
          BY <2>1, <3>1, LoadsInPlace
      <4> QED
        BY <3>1, <4>1
    <3>2. CASE i.op = "MSTORE"
      <4>1. unit'.scratchpad[b] = IF Covering(v, b) = {} THEN unit.scratchpad[b]
                                  ELSE ByteOf(unit.tiles[i.ts].elements[last(b)], b - At(v, last(b)))
        <5> HIDE DEF i
        <5> QED
          BY <2>1, <3>2, StoresInPlace
      <4> QED
        BY <3>2, <4>1
    <3> QED
      BY <3>1, <3>2
  <2> QED
    BY <2>2, <2>3
<1> QED
  BY <1>1, Invariance, PTL DEF Spec, TransfersFollowTheView

-----------------------------------------------------------------------------
(* Exact products                                                           *)

(* What ProductsAreTrue calls a term and a total.                           *)
Term(a, b, r, s, k) == Integer(a.elements[r * a.cols + k], a.type) * Integer(b.elements[k * b.cols + s], b.type)

Total(a, b, r, s) ==
    LET sum[k \in 0 .. a.cols] == IF k = 0 THEN 0 ELSE sum[k - 1] + Term(a, b, r, s, k - 1)
    IN  sum[a.cols]

Totalling(f, a, b, r, s) ==
    f \in [0 .. a.cols -> Int] /\ f[0] = 0 /\ \A k \in 1 .. a.cols : f[k] = f[k - 1] + Term(a, b, r, s, k - 1)

LEMMA TermRange ==
    ASSUME NEW a, NEW b, NEW r, NEW s, Meets(a, b, r, s), NEW k \in 1 .. a.cols
    PROVE  Term(a, b, r, s, k - 1) \in Int
<1> DEFINE x == a.elements[r * a.cols + (k - 1)]
           y == b.elements[(k - 1) * b.cols + s]
<1>1. x \in Int /\ y \in Int
  BY AddressFacts DEF Meets
<1>2. Term(a, b, r, s, k - 1) = Integer(x, a.type) * Integer(y, b.type)
  BY DEF Term
<1> HIDE DEF x, y
<1>3. Integer(x, a.type) \in Int /\ Integer(y, b.type) \in Int
  BY <1>1, IntegerRange
<1> QED
  BY <1>2, <1>3

LEMMA TotalFollows ==
    ASSUME NEW a, NEW b, NEW r, NEW s, Meets(a, b, r, s)
    PROVE  \E f : Totalling(f, a, b, r, s) /\ Total(a, b, r, s) = f[a.cols]
<1> DEFINE n == a.cols
           term(k) == Term(a, b, r, s, k - 1)
           Sums(g) == g = [k \in 0 .. n |-> IF k = 0 THEN 0 ELSE g[k - 1] + term(k)]
           sum == CHOOSE g : Sums(g)
           step == [p \in Int \X (1 .. n) |-> p[1] + term(p[2])]
<1>1. n \in Nat
  BY DEF Meets
<1>2. Total(a, b, r, s) = sum[n]
  BY DEF Total
<1>3. \A k \in 1 .. n : term(k) \in Int
  BY TermRange
<1> HIDE DEF n, term
<1>4. IsStep(step, Int, n)
  BY <1>3 DEF IsStep
<1>5. PICK f : Follows(f, Int, n, 0, step)
  <2>1. 0 \in Int
    OBVIOUS
  <2> HIDE DEF step
  <2> QED
    BY <1>1, <1>4, <2>1, RecursionExists
<1>6. f \in [0 .. n -> Int] /\ f[0] = 0 /\ \A k \in 1 .. n : f[k] = f[k - 1] + term(k)
  <2>1. \A k \in 1 .. n : f[k - 1] \in Int
    BY <1>1, <1>5 DEF Follows
  <2> QED
    BY <1>5, <2>1 DEF Follows
<1>7. Sums(f)
  <2>1. \A k \in 0 .. n : k # 0 => k \in 1 .. n
    BY <1>1
  <2>2. f = [k \in 0 .. n |-> f[k]]
    BY <1>6
  <2>3. \A k \in 0 .. n : f[k] = IF k = 0 THEN 0 ELSE f[k - 1] + term(k)
    BY <1>6, <2>1
  <2> QED
    BY <2>2, <2>3
<1>8. Sums(sum)
  <2> HIDE DEF Sums
  <2> QED
    BY <1>7
<1> HIDE DEF sum
<1>9. sum[0] = 0 /\ \A k \in 1 .. n : sum[k] = sum[k - 1] + term(k)
  BY <1>1, <1>8
<1>10. \A k \in 0 .. n : sum[k] \in Int
  <2> DEFINE T == {k \in 0 .. n : sum[k] \in Int}
  <2>1. \A k \in 1 .. n : k - 1 \in T => k \in T
    BY <1>1, <1>3, <1>9
  <2>2. 0 \in T
    BY <1>1, <1>9
  <2>3. \A k \in 0 .. n : k \in T
    <3> HIDE DEF T
    <3> QED
      BY <1>1, <2>1, <2>2, RangeInduction
  <2> QED
    BY <2>3
<1>11. sum \in [0 .. n -> Int]
  <2>1. sum = [k \in 0 .. n |-> sum[k]]
    BY <1>8
  <2> QED
    BY <1>10, <2>1
<1> QED
  BY <1>2, <1>9, <1>11 DEF Totalling, n, term

(* Reducing before an addition does not show after it.                      *)
LEMMA ReducingEarly ==
    ASSUME NEW m \in Nat \ {0}, NEW x \in Int, NEW t \in Int
    PROVE  ((x % m) + t) % m = (x + t) % m
<1> DEFINE q == x \div m
           y == x % m
           p == (y + t) \div m
           z == (y + t) % m
<1>1. q \in Int /\ y \in 0 .. m - 1 /\ x = m * q + y
  OBVIOUS
<1> HIDE DEF q, y
<1>2. p \in Int /\ z \in 0 .. m - 1 /\ y + t = m * p + z
  BY <1>1
<1> HIDE DEF p, z
<1>3. x + t = (q + p) * m + z
  BY <1>1, <1>2
<1>4. x + t \in Int /\ q + p \in Int
  BY <1>1, <1>2
<1> DEFINE w == x + t
           g == q + p
<1>5. w \in Int /\ g \in Int /\ w = g * m + z
  BY <1>3, <1>4
<1> HIDE DEF w, g
<1>6. w % m = z
  BY <1>2, <1>5, QuotientIsUnique
<1> QED
  BY <1>6 DEF w, z, y

(* An element of an integer product, modulo the word.                       *)
LEMMA AccumulatedIsExact ==
    ASSUME NEW a, NEW b, NEW r, NEW s, Meets(a, b, r, s), NEW type, type # "f32", NEW seed \in Addresses
    PROVE  Accumulated(a, b, r, s, seed, type) = (seed + Total(a, b, r, s)) % Modulus("i32")
<1> DEFINE n == a.cols
           m == AddressSpace
           term(k) == Term(a, b, r, s, k - 1)
<1>1. n \in Nat /\ m \in Nat \ {0} /\ seed \in Int /\ seed \in 0 .. m - 1 /\ Modulus("i32") = m
  <2>1. Width("i32") = 4
    BY DEF Width
  <2> QED
    BY <2>1, ModulusFacts, AddressFacts, NpuDataAssumption DEF NpuDataAssumption, Meets
<1>2. PICK f : Totalling(f, a, b, r, s) /\ Total(a, b, r, s) = f[n]
  BY TotalFollows
<1>3. PICK g : Summing(g, a, b, r, s, seed, type) /\ Accumulated(a, b, r, s, seed, type) = g[n]
  BY SumFollows
<1>4. \A k \in 1 .. n : term(k) \in Int
  BY TermRange
<1>5. f \in [0 .. n -> Int] /\ f[0] = 0 /\ \A k \in 1 .. n : f[k] = f[k - 1] + term(k)
  BY <1>2 DEF Totalling
<1>6. g[0] = seed /\ \A k \in 1 .. n : g[k] = (g[k - 1] + term(k)) % m
  BY <1>3 DEF Summing, Added, Term, WordOf
<1> HIDE DEF n, m, term
<1> DEFINE T == {k \in 0 .. n : g[k] = (seed + f[k]) % m}
<1>7. 0 \in T
  <2>1. seed % m = seed /\ seed + 0 = seed
    BY <1>1
  <2> QED
    BY <1>1, <1>5, <1>6, <2>1, SMTT(60)
<1>8. ASSUME NEW k \in 1 .. n, k - 1 \in T PROVE k \in T
  <2> DEFINE x == seed + f[k - 1]
             t == term(k)
  <2>1. x \in Int /\ t \in Int /\ f[k - 1] \in Int
    BY <1>1, <1>4, <1>5
  <2>2. g[k] = (g[k - 1] + t) % m /\ g[k - 1] = x % m /\ f[k] = f[k - 1] + t
    BY <1>5, <1>6, <1>8
  <2>3. seed + f[k] = x + t
    BY <1>1, <2>1, <2>2
  <2> HIDE DEF x, t
  <2>4. ((x % m) + t) % m = (x + t) % m
    BY <1>1, <2>1, ReducingEarly
  <2>5. g[k] = (seed + f[k]) % m
    BY <2>2, <2>3, <2>4
  <2> QED
    BY <1>1, <2>5
<1>9. n \in T
  <2>1. \A k \in 0 .. n : k \in T
    <3> HIDE DEF T
    <3> QED
      BY <1>1, <1>7, <1>8, RangeInduction
  <2> QED
    BY <1>1, <2>1
<1> QED
  BY <1>1, <1>2, <1>3, <1>9 DEF n

(* What a product that is done leaves in its destination.                   *)
Produced(u, i) ==
    LET a == u.tiles[i.ta]  b == u.tiles[i.tb]
    IN  /\ Multipliable(u, i)
        /\ Execute(u, i).unit = [u EXCEPT !.tiles[i.td] = Tile(a.rows, b.cols, i.type, Product(u, i))]
        /\ Execute(u, i).unit.tiles[i.td] = Tile(a.rows, b.cols, i.type, Product(u, i))
        /\ \A r \in 0 .. a.rows - 1, s \in 0 .. b.cols - 1 :
               /\ Meets(a, b, r, s) /\ Seed(u, i, r * b.cols + s) \in Addresses /\ r * b.cols + s \in 0 .. a.rows * b.cols - 1
               /\ Product(u, i)[r * b.cols + s] = Accumulated(a, b, r, s, Seed(u, i, r * b.cols + s), i.type)

LEMMA ProductDone ==
    ASSUME NEW u, Good(u), NEW i, i.op \in {"MDOT", "MMACC"}, IsInstruction(i), Execute(u, i).outcome = Done
    PROVE  Produced(u, i)
<1> DEFINE a == u.tiles[i.ta]
           b == u.tiles[i.tb]
           c == Tile(a.rows, b.cols, i.type, Product(u, i))
<1>1. Execute(u, i) = Multiply(u, i)
  BY DEF Execute
<1>2. Multipliable(u, i)
  BY <1>1 DEF Multiply, Refuse, Invalid, Fault, Done
<1>3. Multiply(u, i) = Finish([u EXCEPT !.tiles[i.td] = c])
  BY <1>2 DEF Multiply
<1>4. /\ i.td \in TileRegisters /\ IsTile(a) /\ IsTile(b) /\ a.valid /\ b.valid /\ a.cols = b.rows
      /\ \A r \in 0 .. a.rows - 1, s \in 0 .. b.cols - 1 : Meets(a, b, r, s)
      /\ \A e \in 0 .. a.rows * b.cols - 1 : Seed(u, i, e) \in Addresses
      /\ \A e \in 0 .. a.rows * b.cols - 1 :
             Product(u, i)[e] = Accumulated(a, b, e \div b.cols, e % b.cols, Seed(u, i, e), i.type)
  BY <1>2, ProductIs
<1>5. Execute(u, i).unit = [u EXCEPT !.tiles[i.td] = c]
  <2> HIDE DEF c
  <2> QED
    BY <1>1, <1>3 DEF Finish
<1>6. Execute(u, i).unit.tiles[i.td] = c
  <2> HIDE DEF c
  <2> QED
    BY <1>4, <1>5 DEF Good
<1> HIDE DEF a, b
<1>7. a.rows \in Nat /\ b.cols \in Nat
  BY <1>4, TileFacts, ShapeFacts
<1>8. ASSUME NEW r \in 0 .. a.rows - 1, NEW s \in 0 .. b.cols - 1
      PROVE  /\ Meets(a, b, r, s) /\ Seed(u, i, r * b.cols + s) \in Addresses /\ r * b.cols + s \in 0 .. a.rows * b.cols - 1
             /\ Product(u, i)[r * b.cols + s] = Accumulated(a, b, r, s, Seed(u, i, r * b.cols + s), i.type)
  <2> DEFINE e == r * b.cols + s
  <2>1. e \in 0 .. a.rows * b.cols - 1 /\ e \div b.cols = r /\ e % b.cols = s
    <3> DEFINE m == a.rows
               n == b.cols
    <3>1. m \in Nat /\ n \in Nat /\ r \in 0 .. m - 1 /\ s \in 0 .. n - 1
      BY <1>7
    <3> HIDE DEF m, n
    <3>2. r * n + s \in 0 .. m * n - 1 /\ (r * n + s) \div n = r /\ (r * n + s) % n = s
      BY <3>1, ElementOfRow
    <3> QED
      BY <3>2 DEF m, n
  <2> HIDE DEF e
  <2>2. Meets(a, b, r, s) /\ Seed(u, i, e) \in Addresses /\ Product(u, i)[e] = Accumulated(a, b, r, s, Seed(u, i, e), i.type)
    BY <1>4, <2>1
  <2> QED
    BY <2>1, <2>2 DEF e
<1> QED
  BY <1>2, <1>5, <1>6, <1>8 DEF a, b, Produced

(* ProductsAreTrue, of an instruction and the unit after it.                *)
IsExactProduct(u, i, next) ==
    LET a == u.tiles[i.ta]  b == u.tiles[i.tb]  c == next.tiles[i.td]
    IN  /\ c.rows = a.rows /\ c.cols = b.cols
        /\ \A r \in 0 .. a.rows - 1, s \in 0 .. b.cols - 1 :
               c.elements[r * b.cols + s] = (Seed(u, i, r * b.cols + s) + Total(a, b, r, s)) % Modulus("i32")

LEMMA ProductIsExact ==
    ASSUME NEW u, Good(u), NEW i, i.op \in {"MDOT", "MMACC"}, IsInstruction(i), Execute(u, i).outcome = Done, i.type # "f32"
    PROVE  IsExactProduct(u, i, Execute(u, i).unit)
<1> DEFINE a == u.tiles[i.ta]
           b == u.tiles[i.tb]
           c == Execute(u, i).unit.tiles[i.td]
           seed(r, s) == Seed(u, i, r * b.cols + s)
<1>0. Produced(u, i)
  BY ProductDone
<1>1. /\ c = Tile(a.rows, b.cols, i.type, Product(u, i))
      /\ \A r \in 0 .. a.rows - 1, s \in 0 .. b.cols - 1 :
             /\ Meets(a, b, r, s) /\ seed(r, s) \in Addresses
             /\ Product(u, i)[r * b.cols + s] = Accumulated(a, b, r, s, seed(r, s), i.type)
  BY <1>0, Zenon DEF Produced
<1> HIDE DEF a, b, c
<1>2. c.rows = a.rows /\ c.cols = b.cols /\ c.elements = Product(u, i)
  BY <1>1 DEF Tile
<1>3. ASSUME NEW r \in 0 .. a.rows - 1, NEW s \in 0 .. b.cols - 1
      PROVE  c.elements[r * b.cols + s] = (seed(r, s) + Total(a, b, r, s)) % Modulus("i32")
  <2>1. Meets(a, b, r, s) /\ seed(r, s) \in Addresses /\ Product(u, i)[r * b.cols + s] = Accumulated(a, b, r, s, seed(r, s), i.type)
    BY <1>1
  <2> HIDE DEF seed
  <2>2. Accumulated(a, b, r, s, seed(r, s), i.type) = (seed(r, s) + Total(a, b, r, s)) % Modulus("i32")
    BY <2>1, AccumulatedIsExact
  <2> QED
    BY <1>2, <2>1, <2>2
<1> QED
  BY <1>2, <1>3 DEF a, b, c, IsExactProduct

-----------------------------------------------------------------------------
(* Products in parts                                                        *)

(* The parts AccumulationsChain multiplies: columns of one tile and rows of *)
(* another, in two registers more.                                          *)
Columns(x, from, to) ==
    Tile(x.rows, to - from, x.type,
         [e \in 0 .. x.rows * (to - from) - 1 |-> x.elements[(e \div (to - from)) * x.cols + from + (e % (to - from))]])

Rows(x, from, to) ==
    Tile(to - from, x.cols, x.type, [e \in 0 .. (to - from) * x.cols - 1 |-> x.elements[from * x.cols + e]])

Sliced(u, a, b, from, to) ==
    [u EXCEPT !.tiles = [t \in TileRegisters \cup {-1, -2} |->
        CASE t = -1 -> Columns(a, from, to) [] t = -2 -> Rows(b, from, to) [] OTHER -> @[t]]]

LEMMA ColumnElement ==
    ASSUME NEW x, x.rows \in Nat, x.cols \in Nat, NEW from \in Nat, NEW to \in Nat, from <= to,
           NEW r \in 0 .. x.rows - 1, NEW j \in 0 .. to - from - 1
    PROVE  Columns(x, from, to).elements[r * (to - from) + j] = x.elements[r * x.cols + (from + j)]
<1> DEFINE n == to - from
           m == x.rows
           e == r * n + j
           elements == [d \in 0 .. m * n - 1 |-> x.elements[(d \div n) * x.cols + from + (d % n)]]
<1>1. n \in Nat /\ j \in 0 .. n - 1 /\ m \in Nat /\ r \in 0 .. m - 1
  OBVIOUS
<1>2. Columns(x, from, to).elements = elements
  BY DEF Columns, Tile
<1> HIDE DEF n, m
<1>3. e \in 0 .. m * n - 1 /\ e \div n = r /\ e % n = j
  <2>1. r * n + j \in 0 .. m * n - 1 /\ (r * n + j) \div n = r /\ (r * n + j) % n = j
    BY <1>1, ElementOfRow
  <2> QED
    BY <2>1
<1> HIDE DEF e
<1>4. elements[e] = x.elements[r * x.cols + from + j]
  BY <1>3
<1>5. r * x.cols + from + j = r * x.cols + (from + j)
  <2> DEFINE p == r * x.cols
  <2>1. p \in Int /\ j \in Int
    BY <1>1
  <2> HIDE DEF p
  <2>2. p + from + j = p + (from + j)
    BY <2>1
  <2> QED
    BY <2>2 DEF p
<1> HIDE DEF elements
<1> QED
  BY <1>2, <1>4, <1>5 DEF e, n

LEMMA RowElement ==
    ASSUME NEW x, x.cols \in Nat, NEW from \in Nat, NEW to \in Nat, from <= to,
           NEW j \in 0 .. to - from - 1, NEW s \in 0 .. x.cols - 1
    PROVE  Rows(x, from, to).elements[j * x.cols + s] = x.elements[(from + j) * x.cols + s]
<1> DEFINE n == to - from
           m == x.cols
           e == j * m + s
           elements == [d \in 0 .. n * m - 1 |-> x.elements[from * m + d]]
<1>1. n \in Nat /\ j \in 0 .. n - 1 /\ m \in Nat /\ s \in 0 .. m - 1
  OBVIOUS
<1>2. Rows(x, from, to).elements = elements
  BY DEF Rows, Tile
<1> HIDE DEF n, m
<1>3. e \in 0 .. n * m - 1
  <2>1. j * m + s \in 0 .. n * m - 1
    BY <1>1, ElementOfRow
  <2> QED
    BY <2>1
<1>4. from * m + e = (from + j) * m + s
  BY <1>1
<1> HIDE DEF e
<1>5. elements[e] = x.elements[from * m + e]
  BY <1>3
<1> HIDE DEF elements
<1> QED
  BY <1>2, <1>4, <1>5 DEF e, m

(* The sum over a part of the inner dimension, from where the sum over the  *)
(* whole had come.                                                          *)
LEMMA PartFollows ==
    ASSUME NEW a, NEW b, NEW r, NEW s, Meets(a, b, r, s), NEW type, NEW seed, NEW g, Summing(g, a, b, r, s, seed, type),
           a.rows \in Nat, b.cols \in Nat, r \in 0 .. a.rows - 1, s \in 0 .. b.cols - 1,
           NEW from \in 0 .. a.cols, NEW to \in from .. a.cols
    PROVE  Accumulated(Columns(a, from, to), Rows(b, from, to), r, s, g[from], type) = g[to]
<1> DEFINE x == Columns(a, from, to)
           y == Rows(b, from, to)
           n == to - from
<1>1. /\ a.cols \in Nat /\ from \in Nat /\ to \in Nat /\ from <= to /\ to <= a.cols /\ n \in Nat /\ from + n = to
      /\ \A j \in 1 .. n : /\ j - 1 \in 0 .. to - from - 1 /\ from + j \in 1 .. a.cols
                           /\ (from + j) - 1 = from + (j - 1) /\ from + (j - 1) \in 0 .. a.cols
  BY DEF Meets
<1>2. x.cols = n /\ x.type = a.type /\ y.cols = b.cols /\ y.type = b.type
  BY DEF Columns, Rows, Tile
<1>3. \A j \in 1 .. n : /\ x.elements[r * x.cols + (j - 1)] = a.elements[r * a.cols + (from + (j - 1))]
                        /\ y.elements[(j - 1) * y.cols + s] = b.elements[(from + (j - 1)) * b.cols + s]
  <2> TAKE j \in 1 .. n
  <2> DEFINE k == j - 1
  <2>1. k \in 0 .. to - from - 1
    BY <1>1
  <2> HIDE DEF k
  <2>2. Columns(a, from, to).elements[r * (to - from) + k] = a.elements[r * a.cols + (from + k)]
    BY <1>1, <2>1, ColumnElement
  <2>3. Rows(b, from, to).elements[k * b.cols + s] = b.elements[(from + k) * b.cols + s]
    BY <1>1, <2>1, RowElement, SMTT(60)
  <2> QED
    BY <1>2, <2>2, <2>3 DEF k
<1> HIDE DEF n, x, y
<1>4. \A j \in 1 .. n : /\ x.elements[r * x.cols + (j - 1)] = a.elements[r * a.cols + ((from + j) - 1)]
                        /\ y.elements[(j - 1) * y.cols + s] = b.elements[((from + j) - 1) * b.cols + s]
  BY <1>1, <1>3
<1>5. Meets(x, y, r, s)
  <2>1. \A k \in 1 .. a.cols : a.elements[r * a.cols + (k - 1)] \in Addresses /\ b.elements[(k - 1) * b.cols + s] \in Addresses
    BY DEF Meets
  <2> QED
    BY <1>1, <1>2, <1>4, <2>1 DEF Meets
<1>6. \A v : \A j \in 1 .. n : Added(v, x, y, r, s, type, j) = Added(v, a, b, r, s, type, from + j)
  <2> TAKE v
  <2> TAKE j \in 1 .. n
  <2> QED
    BY <1>2, <1>4 DEF Added
<1>7. g \in [0 .. a.cols -> Addresses] /\ \A k \in 1 .. a.cols : g[k] = Added(g[k - 1], a, b, r, s, type, k)
  BY DEF Summing
<1>8. g[from] \in Addresses
  BY <1>1, <1>7
<1>9. PICK h : Summing(h, x, y, r, s, g[from], type) /\ Accumulated(x, y, r, s, g[from], type) = h[x.cols]
  BY <1>5, <1>8, SumFollows
<1>10. h[0] = g[from] /\ \A j \in 1 .. n : h[j] = Added(h[j - 1], x, y, r, s, type, j)
  BY <1>2, <1>9 DEF Summing
<1> DEFINE T == {j \in 0 .. n : h[j] = g[from + j]}
<1>11. 0 \in T
  <2>1. from + 0 = from
    BY <1>1
  <2> QED
    BY <1>1, <1>10, <2>1
<1>12. ASSUME NEW j \in 1 .. n, j - 1 \in T PROVE j \in T
  <2>1. h[j - 1] = g[(from + j) - 1]
    BY <1>1, <1>12
  <2>2. h[j] = Added(g[(from + j) - 1], a, b, r, s, type, from + j)
    BY <1>6, <1>10, <2>1
  <2>3. h[j] = g[from + j]
    BY <1>1, <1>7, <2>2
  <2> QED
    BY <1>1, <2>3
<1>13. n \in T
  <2>1. \A j \in 0 .. n : j \in T
    <3> HIDE DEF T
    <3> QED
      BY <1>1, <1>11, <1>12, RangeInduction
  <2> QED
    BY <1>1, <2>1
<1> QED
  BY <1>1, <1>2, <1>9, <1>13 DEF x, y

(* A product of the tiles in the two registers more.                        *)
LEMMA PartProduct ==
    ASSUME NEW w, "tiles" \in DOMAIN w, NEW j, j.op \in {"MDOT", "MMACC"}, j.td \in DOMAIN w.tiles, Multipliable(w, j),
           NEW x, x = w.tiles[j.ta], NEW y, y = w.tiles[j.tb]
    PROVE  /\ Execute(w, j).unit.tiles[j.td] = Tile(x.rows, y.cols, j.type, Product(w, j))
           /\ Product(w, j) = [e \in 0 .. x.rows * y.cols - 1 |->
                                 Accumulated(x, y, e \div y.cols, e % y.cols, Seed(w, j, e), j.type)]
<1> DEFINE t == Tile(x.rows, y.cols, j.type, Product(w, j))
<1>1. Execute(w, j) = Finish([w EXCEPT !.tiles[j.td] = t])
  BY DEF Execute, Multiply
<1> HIDE DEF t
<1>2. Execute(w, j).unit = [w EXCEPT !.tiles[j.td] = t]
  BY <1>1 DEF Finish
<1>3. Execute(w, j).unit.tiles[j.td] = t
  BY <1>2
<1>4. Product(w, j) = [e \in 0 .. x.rows * y.cols - 1 |->
                         Accumulated(x, y, e \div y.cols, e % y.cols, Seed(w, j, e), j.type)]
  BY DEF Product, ProductElement, Seed
<1> QED
  BY <1>3, <1>4 DEF t

(* A unit with the parts of two tiles beside its own.                       *)
LEMMA SlicedUnit ==
    ASSUME NEW u, "tiles" \in DOMAIN u, NEW a, NEW b, NEW from, NEW to
    PROVE  LET w == Sliced(u, a, b, from, to)
           IN  /\ "tiles" \in DOMAIN w /\ DOMAIN w.tiles = TileRegisters \cup {-1, -2}
               /\ w.tiles[-1] = Columns(a, from, to) /\ w.tiles[-2] = Rows(b, from, to)
               /\ \A t \in TileRegisters : w.tiles[t] = u.tiles[t]
<1> DEFINE w == Sliced(u, a, b, from, to)
           x == Columns(a, from, to)
           y == Rows(b, from, to)
           tiles == [t \in TileRegisters \cup {-1, -2} |-> CASE t = -1 -> x [] t = -2 -> y [] OTHER -> u.tiles[t]]
<1>1. w = [u EXCEPT !.tiles = tiles]
  BY DEF Sliced
<1>2. \A t \in TileRegisters : t # -1 /\ t # -2
  BY MatrixAssumption DEF MatrixAssumption
<1> HIDE DEF x, y
<1>3. tiles[-1] = x /\ tiles[-2] = y /\ \A t \in TileRegisters : tiles[t] = u.tiles[t]
  BY <1>2
<1>4. DOMAIN tiles = TileRegisters \cup {-1, -2}
  OBVIOUS
<1> HIDE DEF tiles
<1>5. w.tiles = tiles /\ "tiles" \in DOMAIN w
  BY <1>1
<1> QED
  BY <1>3, <1>4, <1>5 DEF x, y

(* The instructions for the first part and for the rest.                    *)
ForFirst(i) == [i EXCEPT !.ta = -1, !.tb = -2]
ForRest(i)  == [i EXCEPT !.op = "MMACC", !.ta = -1, !.tb = -2]

LEMMA PartInstructions ==
    ASSUME NEW i, i.op \in {"MDOT", "MMACC"}, IsInstruction(i)
    PROVE  /\ ForFirst(i).op = i.op /\ ForFirst(i).type = i.type /\ ForFirst(i).td = i.td
           /\ ForFirst(i).ta = -1 /\ ForFirst(i).tb = -2
           /\ ForRest(i).op = "MMACC" /\ ForRest(i).type = i.type /\ ForRest(i).td = i.td
           /\ ForRest(i).ta = -1 /\ ForRest(i).tb = -2
<1>1. {"op", "type", "ta", "tb", "td"} \subseteq DOMAIN i
  BY DEF IsInstruction
<1> QED
  BY <1>1 DEF ForFirst, ForRest

(* Element e of the parts and of the whole.                                 *)
Chained(a, b, k, e, seed, type) ==
    Accumulated(Columns(a, k, a.cols), Rows(b, k, a.cols), e \div b.cols, e % b.cols,
                Accumulated(Columns(a, 0, k), Rows(b, 0, k), e \div b.cols, e % b.cols, seed, type), type)
      = Accumulated(a, b, e \div b.cols, e % b.cols, seed, type)

LEMMA ElementChains ==
    ASSUME NEW a, NEW b, IsTile(a), IsTile(b), a.valid, b.valid, a.cols = b.rows, NEW type, NEW seed \in Addresses,
           NEW k \in 0 .. a.cols, NEW e \in 0 .. a.rows * b.cols - 1
    PROVE  Chained(a, b, k, e, seed, type)
<1> DEFINE r == e \div b.cols
           s == e % b.cols
           n == a.cols
<1>1. a.rows \in Nat /\ n \in Nat /\ b.cols \in Nat
  BY TileFacts, ShapeFacts
<1>2. r \in 0 .. a.rows - 1 /\ s \in 0 .. b.cols - 1
  BY <1>1, RowAndColumn
<1> HIDE DEF r, s
<1>3. Meets(a, b, r, s)
  BY <1>2, TilesMeet
<1>4. PICK g : Summing(g, a, b, r, s, seed, type) /\ Accumulated(a, b, r, s, seed, type) = g[a.cols]
  BY <1>3, SumFollows
<1>5. g[0] = seed
  BY <1>4 DEF Summing
<1>6. 0 \in 0 .. a.cols /\ k \in 0 .. a.cols /\ a.cols \in k .. a.cols
  BY <1>1
<1>7. Accumulated(Columns(a, 0, k), Rows(b, 0, k), r, s, g[0], type) = g[k]
  BY <1>1, <1>2, <1>3, <1>4, <1>6, PartFollows
<1>8. Accumulated(Columns(a, k, a.cols), Rows(b, k, a.cols), r, s, g[k], type) = g[a.cols]
  BY <1>1, <1>2, <1>3, <1>4, <1>6, PartFollows
<1>9. Accumulated(Columns(a, k, a.cols), Rows(b, k, a.cols), r, s,
                  Accumulated(Columns(a, 0, k), Rows(b, 0, k), r, s, seed, type), type) = Accumulated(a, b, r, s, seed, type)
  BY <1>4, <1>5, <1>7, <1>8
<1> QED
  BY <1>9 DEF r, s, Chained

(* AccumulationsChain, of an instruction and the unit after it.             *)
Composes(u, i, k, next) ==
    LET a == u.tiles[i.ta]  b == u.tiles[i.tb]
        first == Execute(Sliced(u, a, b, 0, k), ForFirst(i)).unit.tiles[i.td]
    IN  Execute(Sliced([u EXCEPT !.tiles[i.td] = first], a, b, k, a.cols), ForRest(i)).unit.tiles[i.td] = next.tiles[i.td]

LEMMA ProductChains ==
    ASSUME NEW u, Good(u), NEW i, i.op \in {"MDOT", "MMACC"}, IsInstruction(i), Execute(u, i).outcome = Done,
           NEW k \in 0 .. u.tiles[i.ta].cols
    PROVE  Composes(u, i, k, Execute(u, i).unit)
<1> DEFINE a == u.tiles[i.ta]
           b == u.tiles[i.tb]
           n == b.cols
           d == i.td
           old == u.tiles[d]
           i1 == ForFirst(i)
           i2 == ForRest(i)
           a1 == Columns(a, 0, k)
           b1 == Rows(b, 0, k)
           a2 == Columns(a, k, a.cols)
           b2 == Rows(b, k, a.cols)
           u1 == Sliced(u, a, b, 0, k)
           first == Execute(u1, i1).unit.tiles[d]
           between == [u EXCEPT !.tiles[d] = first]
           u2 == Sliced(between, a, b, k, a.cols)
           D == 0 .. a.rows * n - 1
<1>1. Produced(u, i)
  BY ProductDone
<1>2. Multipliable(u, i) /\ Execute(u, i).unit.tiles[d] = Tile(a.rows, n, i.type, Product(u, i))
  BY <1>1, Zenon DEF Produced
<1>3. /\ d \in TileRegisters /\ IsTile(a) /\ IsTile(b) /\ a.valid /\ b.valid /\ a.cols = b.rows
      /\ \A e \in D : Seed(u, i, e) \in Addresses
  <2>1. /\ Good(u) /\ i.op \in {"MDOT", "MMACC"} /\ IsInstruction(i) /\ Multipliable(u, i)
    BY <1>2
  <2>2. /\ i.td \in TileRegisters /\ IsTile(u.tiles[i.ta]) /\ IsTile(u.tiles[i.tb])
        /\ u.tiles[i.ta].valid /\ u.tiles[i.tb].valid /\ u.tiles[i.ta].cols = u.tiles[i.tb].rows
        /\ \A e \in 0 .. u.tiles[i.ta].rows * u.tiles[i.tb].cols - 1 : Seed(u, i, e) \in Addresses
    BY <2>1, ProductIs, SMTT(60)
  <2> QED
    BY <2>2
<1>4. Product(u, i) = [e \in D |-> Accumulated(a, b, e \div n, e % n, Seed(u, i, e), i.type)]
  BY DEF Product, ProductElement, Seed
<1>5. /\ a.valid /\ b.valid /\ a.cols = b.rows /\ Fits(a.rows, n, i.type)
      /\ (a.type = "f32") = (i.type = "f32") /\ (b.type = "f32") = (i.type = "f32")
      /\ i.op = "MMACC" => old.valid /\ old.rows = a.rows /\ old.cols = n /\ old.type = i.type
  BY <1>2 DEF Multipliable
<1>6. /\ i1.op = i.op /\ i1.type = i.type /\ i1.td = d /\ i1.ta = -1 /\ i1.tb = -2
      /\ i2.op = "MMACC" /\ i2.type = i.type /\ i2.td = d /\ i2.ta = -1 /\ i2.tb = -2
  BY PartInstructions
<1>7. "tiles" \in DOMAIN u /\ DOMAIN u.tiles = TileRegisters
  BY DEF Good
<1> HIDE DEF a, b, old, i1, i2
<1>8. /\ a1.valid /\ a1.rows = a.rows /\ a1.cols = k - 0 /\ a1.type = a.type
      /\ b1.valid /\ b1.rows = k - 0 /\ b1.cols = n /\ b1.type = b.type
      /\ a2.valid /\ a2.rows = a.rows /\ a2.cols = a.cols - k /\ a2.type = a.type
      /\ b2.valid /\ b2.rows = a.cols - k /\ b2.cols = n /\ b2.type = b.type
  BY DEF Columns, Rows, Tile
<1> HIDE DEF a1, b1, a2, b2, n, d
<1>9. /\ "tiles" \in DOMAIN u1 /\ DOMAIN u1.tiles = TileRegisters \cup {-1, -2}
      /\ u1.tiles[-1] = a1 /\ u1.tiles[-2] = b1 /\ u1.tiles[d] = old
  <2>1. /\ "tiles" \in DOMAIN u1 /\ DOMAIN u1.tiles = TileRegisters \cup {-1, -2}
        /\ u1.tiles[-1] = Columns(a, 0, k) /\ u1.tiles[-2] = Rows(b, 0, k)
        /\ \A t \in TileRegisters : u1.tiles[t] = u.tiles[t]
    BY <1>7, SlicedUnit
  <2> QED
    BY <1>3, <2>1 DEF a1, b1, old
<1> HIDE DEF u1
<1>10. Multipliable(u1, i1)
  BY <1>5, <1>6, <1>8, <1>9 DEF Multipliable
<1>11. /\ first = Tile(a.rows, n, i.type, Product(u1, i1))
       /\ Product(u1, i1) = [e \in D |-> Accumulated(a1, b1, e \div n, e % n, Seed(u1, i1, e), i.type)]
  <2>1. /\ Execute(u1, i1).unit.tiles[i1.td] = Tile(a1.rows, b1.cols, i1.type, Product(u1, i1))
        /\ Product(u1, i1) = [e \in 0 .. a1.rows * b1.cols - 1 |->
                                Accumulated(a1, b1, e \div b1.cols, e % b1.cols, Seed(u1, i1, e), i1.type)]
    <3>1. i1.op \in {"MDOT", "MMACC"} /\ i1.td \in DOMAIN u1.tiles /\ a1 = u1.tiles[i1.ta] /\ b1 = u1.tiles[i1.tb]
      BY <1>3, <1>6, <1>9
    <3> QED
      BY <1>9, <1>10, <3>1, PartProduct
  <2> QED
    BY <1>6, <1>8, <2>1
<1>12. \A e \in D : Seed(u1, i1, e) = Seed(u, i, e)
  BY <1>6, <1>9 DEF Seed, old, d
<1>13. /\ first.valid /\ first.rows = a.rows /\ first.cols = n /\ first.type = i.type /\ first.elements = Product(u1, i1)
  BY <1>11 DEF Tile
<1> HIDE DEF first
<1>14. "tiles" \in DOMAIN between /\ between.tiles[d] = first
  BY <1>3, <1>7
<1>15. /\ "tiles" \in DOMAIN u2 /\ DOMAIN u2.tiles = TileRegisters \cup {-1, -2}
       /\ u2.tiles[-1] = a2 /\ u2.tiles[-2] = b2 /\ u2.tiles[d] = first
  <2> HIDE DEF between
  <2>1. /\ "tiles" \in DOMAIN u2 /\ DOMAIN u2.tiles = TileRegisters \cup {-1, -2}
        /\ u2.tiles[-1] = Columns(a, k, a.cols) /\ u2.tiles[-2] = Rows(b, k, a.cols)
        /\ \A t \in TileRegisters : u2.tiles[t] = between.tiles[t]
    BY <1>14, SlicedUnit
  <2> QED
    BY <1>3, <1>14, <2>1 DEF a2, b2
<1> HIDE DEF u2
<1>16. Multipliable(u2, i2)
  BY <1>5, <1>6, <1>8, <1>13, <1>15 DEF Multipliable
<1>17. /\ Execute(u2, i2).unit.tiles[d] = Tile(a.rows, n, i.type, Product(u2, i2))
       /\ Product(u2, i2) = [e \in D |-> Accumulated(a2, b2, e \div n, e % n, Seed(u2, i2, e), i.type)]
  <2>1. /\ Execute(u2, i2).unit.tiles[i2.td] = Tile(a2.rows, b2.cols, i2.type, Product(u2, i2))
        /\ Product(u2, i2) = [e \in 0 .. a2.rows * b2.cols - 1 |->
                                Accumulated(a2, b2, e \div b2.cols, e % b2.cols, Seed(u2, i2, e), i2.type)]
    <3>1. i2.op \in {"MDOT", "MMACC"} /\ i2.td \in DOMAIN u2.tiles /\ a2 = u2.tiles[i2.ta] /\ b2 = u2.tiles[i2.tb]
      BY <1>3, <1>6, <1>15
    <3> QED
      BY <1>15, <1>16, <3>1, PartProduct
  <2> QED
    BY <1>6, <1>8, <2>1
<1>18. \A e \in D : Seed(u2, i2, e) = Accumulated(a1, b1, e \div n, e % n, Seed(u, i, e), i.type)
  <2>1. \A e : Seed(u2, i2, e) = first.elements[e]
    BY <1>6, <1>15 DEF Seed
  <2> DEFINE G(e) == Accumulated(a1, b1, e \div n, e % n, Seed(u1, i1, e), i.type)
  <2>2. Product(u1, i1) = [e \in D |-> G(e)]
    BY <1>11
  <2>3. \A e \in D : G(e) = Accumulated(a1, b1, e \div n, e % n, Seed(u, i, e), i.type)
    <3> HIDE DEF D
    <3> QED
      BY <1>12, Zenon
  <2> HIDE DEF G, D
  <2> QED
    BY <1>13, <2>1, <2>2, <2>3
<1>19. \A e \in D : Accumulated(a2, b2, e \div n, e % n, Seed(u2, i2, e), i.type)
                      = Accumulated(a, b, e \div n, e % n, Seed(u, i, e), i.type)
  <2> TAKE e \in D
  <2> DEFINE seed == Seed(u, i, e)
  <2>1. seed \in Addresses /\ k \in 0 .. a.cols /\ e \in 0 .. a.rows * b.cols - 1
    BY <1>3 DEF n, a
  <2> HIDE DEF seed
  <2>2. Chained(a, b, k, e, seed, i.type)
    BY <1>3, <2>1, ElementChains
  <2>3. Seed(u2, i2, e) = Accumulated(a1, b1, e \div n, e % n, seed, i.type)
    BY <1>18 DEF seed
  <2> QED
    BY <2>2, <2>3 DEF a1, b1, a2, b2, n, seed, Chained
<1>20. Product(u2, i2) = Product(u, i)
  <2> DEFINE F(e) == Accumulated(a2, b2, e \div n, e % n, Seed(u2, i2, e), i.type)
             G(e) == Accumulated(a, b, e \div n, e % n, Seed(u, i, e), i.type)
  <2>1. Product(u2, i2) = [e \in D |-> F(e)] /\ Product(u, i) = [e \in D |-> G(e)] /\ \A e \in D : F(e) = G(e)
    BY <1>4, <1>17, <1>19
  <2> HIDE DEF F, G, D
  <2> QED
    BY <2>1
<1> QED
  BY <1>2, <1>17, <1>20 DEF u2, between, first, u1, i1, i2, a, b, d, n, Composes

-----------------------------------------------------------------------------
(* Footprints *)

(* What is announced, instruction by instruction.                           *)
Announces(f, m, n, k, reads, writes) == f.m = m /\ f.n = n /\ f.k = k /\ f.reads = reads /\ f.writes = writes

LEMMA FootprintIs ==
    ASSUME NEW u, NEW i, IsInstruction(i)
    PROVE  LET f == Footprint(u, i)
               v == u.views[i.view]  a == u.tiles[i.ta]  b == u.tiles[i.tb]
               bytes == v.rows * v.cols * Width(v.type)
               idle == Announces(f, 0, 0, 0, 0, 0)
           IN  /\ i.op \in {"MVIEW", "MCLEAR", "MLOAD", "MSTORE", "MDOT", "MMACC"}
               /\ i.op = "MVIEW" => idle
               /\ i.op = "MCLEAR" => IF Fits(i.rows, i.cols, i.type) THEN Announces(f, i.rows, i.cols, 0, 0, 0) ELSE idle
               /\ i.op = "MLOAD" => IF v.valid THEN Announces(f, v.rows, v.cols, 0, bytes, 0) ELSE idle
               /\ i.op = "MSTORE" => IF v.valid THEN Announces(f, v.rows, v.cols, 0, 0, bytes) ELSE idle
               /\ i.op \in {"MDOT", "MMACC"} => IF a.valid /\ b.valid THEN Announces(f, a.rows, b.cols, a.cols, 0, 0) ELSE idle
<1> DEFINE f == Footprint(u, i)
           v == u.views[i.view]
           a == u.tiles[i.ta]
           b == u.tiles[i.tb]
           bytes == v.rows * v.cols * Width(v.type)
           clear == ClearFootprint(i)
<1>1. i.op \in {"MVIEW", "MCLEAR", "MLOAD", "MSTORE", "MDOT", "MMACC"}
  BY DEF IsInstruction
<1>2. f = CASE i.op = "MLOAD" /\ v.valid  -> [Nothing EXCEPT !.m = v.rows, !.n = v.cols, !.reads = bytes]
            [] i.op = "MSTORE" /\ v.valid -> [Nothing EXCEPT !.m = v.rows, !.n = v.cols, !.writes = bytes]
            [] i.op \in {"MDOT", "MMACC"} /\ a.valid /\ b.valid -> [Nothing EXCEPT !.m = a.rows, !.n = b.cols, !.k = a.cols]
            [] i.op = "MCLEAR" -> clear
            [] OTHER -> Nothing
  BY DEF Footprint
<1> HIDE DEF f, v, a, b, bytes
<1>3. clear = IF Fits(i.rows, i.cols, i.type) THEN [Nothing EXCEPT !.m = i.rows, !.n = i.cols] ELSE Nothing
  BY DEF ClearFootprint
<1> HIDE DEF clear
<1>4. i.op = "MVIEW" => f = Nothing
  BY <1>2
<1>5. i.op = "MCLEAR" => f = clear
  BY <1>2
<1>6. i.op = "MLOAD" => f = IF v.valid THEN [Nothing EXCEPT !.m = v.rows, !.n = v.cols, !.reads = bytes] ELSE Nothing
  BY <1>2
<1>7. i.op = "MSTORE" => f = IF v.valid THEN [Nothing EXCEPT !.m = v.rows, !.n = v.cols, !.writes = bytes] ELSE Nothing
  BY <1>2
<1>8. i.op \in {"MDOT", "MMACC"} =>
        f = IF a.valid /\ b.valid THEN [Nothing EXCEPT !.m = a.rows, !.n = b.cols, !.k = a.cols] ELSE Nothing
  BY <1>2
<1>9. f = Nothing => Announces(f, 0, 0, 0, 0, 0)
  BY DEF Nothing, Announces
<1>10. i.op = "MCLEAR" => IF Fits(i.rows, i.cols, i.type) THEN Announces(f, i.rows, i.cols, 0, 0, 0) ELSE Announces(f, 0, 0, 0, 0, 0)
  BY <1>3, <1>5, <1>9 DEF Nothing, Announces
<1>11. i.op = "MLOAD" => IF v.valid THEN Announces(f, v.rows, v.cols, 0, bytes, 0) ELSE Announces(f, 0, 0, 0, 0, 0)
  BY <1>6, <1>9 DEF Nothing, Announces
<1>12. i.op = "MSTORE" => IF v.valid THEN Announces(f, v.rows, v.cols, 0, 0, bytes) ELSE Announces(f, 0, 0, 0, 0, 0)
  BY <1>7, <1>9 DEF Nothing, Announces
<1>13. i.op \in {"MDOT", "MMACC"} => IF a.valid /\ b.valid THEN Announces(f, a.rows, b.cols, a.cols, 0, 0) ELSE Announces(f, 0, 0, 0, 0, 0)
  BY <1>8, <1>9 DEF Nothing, Announces
<1> QED
  BY <1>1, <1>4, <1>9, <1>10, <1>11, <1>12, <1>13 DEF f, v, a, b, bytes

Bounded(f) == f.m <= MatrixRows /\ f.n <= MatrixCols /\ f.k <= MatrixCols /\ f.reads <= TileBytes /\ f.writes <= TileBytes /\ f.writes \in Nat

LEMMA FootprintBounded ==
    ASSUME NEW u, Good(u), NEW i, IsInstruction(i)
    PROVE  Bounded(Footprint(u, i))
<1> DEFINE f == Footprint(u, i)
           v == u.views[i.view]
           a == u.tiles[i.ta]
           b == u.tiles[i.tb]
           bytes == v.rows * v.cols * Width(v.type)
           idle == Announces(f, 0, 0, 0, 0, 0)
<1>1. /\ i.op \in {"MVIEW", "MCLEAR", "MLOAD", "MSTORE", "MDOT", "MMACC"}
      /\ i.op = "MVIEW" => idle
      /\ i.op = "MCLEAR" => IF Fits(i.rows, i.cols, i.type) THEN Announces(f, i.rows, i.cols, 0, 0, 0) ELSE idle
      /\ i.op = "MLOAD" => IF v.valid THEN Announces(f, v.rows, v.cols, 0, bytes, 0) ELSE idle
      /\ i.op = "MSTORE" => IF v.valid THEN Announces(f, v.rows, v.cols, 0, 0, bytes) ELSE idle
      /\ i.op \in {"MDOT", "MMACC"} => IF a.valid /\ b.valid THEN Announces(f, a.rows, b.cols, a.cols, 0, 0) ELSE idle
  BY FootprintIs
<1>2. i.op \in {"MLOAD", "MSTORE"} => IsView(v)
  BY DEF IsInstruction, Good
<1>3. i.op \in {"MDOT", "MMACC"} => IsTile(a) /\ IsTile(b)
  BY DEF IsInstruction, Good
<1> HIDE DEF f, v, a, b
<1>4. MatrixRows \in Nat /\ MatrixCols \in Nat /\ TileBytes \in Nat
  BY MatrixAssumption DEF MatrixAssumption
<1>5. idle => Bounded(f)
  BY <1>4 DEF Bounded, Announces
<1>6. ASSUME IsView(v), v.valid PROVE v.rows <= MatrixRows /\ v.cols <= MatrixCols /\ bytes <= TileBytes /\ bytes \in Nat
  <2>1. v.rows <= MatrixRows /\ v.cols <= MatrixCols /\ bytes <= TileBytes /\ v.rows * v.cols \in Nat /\ Width(v.type) \in {1, 2, 4}
    BY <1>6, ViewFacts, ShapeFacts
  <2> DEFINE n == v.rows * v.cols
  <2>2. bytes = n * Width(v.type)
    OBVIOUS
  <2> HIDE DEF n
  <2>3. n * Width(v.type) \in Nat
    BY <2>1 DEF n
  <2> QED
    BY <2>1, <2>2, <2>3
<1> HIDE DEF bytes
<1>7. ASSUME i.op \in {"MLOAD", "MSTORE"} PROVE Bounded(f)
  BY <1>1, <1>2, <1>4, <1>5, <1>6, <1>7 DEF Bounded, Announces
<1>8. ASSUME i.op \in {"MDOT", "MMACC"} PROVE Bounded(f)
  <2>1. a.valid /\ b.valid => a.rows <= MatrixRows /\ b.cols <= MatrixCols /\ a.cols <= MatrixCols
    BY <1>3, <1>8, TileFacts, ShapeFacts
  <2> QED
    BY <1>1, <1>4, <1>5, <1>8, <2>1 DEF Bounded, Announces
<1>9. ASSUME i.op = "MCLEAR" PROVE Bounded(f)
  BY <1>1, <1>4, <1>5, <1>9 DEF Bounded, Announces, Fits
<1> QED
  BY <1>1, <1>5, <1>7, <1>8, <1>9 DEF f

(* Only a store that is done changes the scratchpad, and no byte outside    *)
(* its elements.                                                            *)
LEMMA BytesChanged ==
    ASSUME NEW u, Good(u), NEW i, IsInstruction(i), NEW b \in DOMAIN u.scratchpad,
           Execute(u, i).unit.scratchpad[b] # u.scratchpad[b]
    PROVE  i.op = "MSTORE" /\ Execute(u, i).outcome = Done /\ Covering(u.views[i.view], b) # {}
<1>1. Sound(u, Execute(u, i))
  BY ExecuteSound
<1>2. Execute(u, i).outcome = Done /\ Execute(u, i).unit.scratchpad # u.scratchpad
  BY <1>1 DEF Sound, Allowed
<1>3. i.op = "MSTORE"
  <2> SUFFICES ASSUME i.op # "MSTORE" PROVE Execute(u, i).unit.scratchpad = u.scratchpad
    BY <1>2
  <2> USE DEF Refuse, Finish
  <2>1. CASE i.op = "MVIEW"
    BY <2>1 DEF Execute, SetView, Good
  <2>2. CASE i.op = "MCLEAR"
    BY <2>2 DEF Execute, ClearTile, Good
  <2>3. CASE i.op = "MLOAD"
    <3> DEFINE v == u.views[i.view]
               y == Tile(v.rows, v.cols, v.type, Loaded(u, v))
    <3>1. /\ ~v.valid => LoadTile(u, i) = Refuse(u, Invalid)
          /\ v.valid /\ FirstFault(Checks(v, FALSE)) # << >> => LoadTile(u, i) = Refuse(u, FirstFault(Checks(v, FALSE))[1])
          /\ v.valid /\ FirstFault(Checks(v, FALSE)) = << >> => LoadTile(u, i) = Finish([u EXCEPT !.tiles[i.td] = y])
      BY <2>3, LoadTileIs
    <3>2. Execute(u, i) = LoadTile(u, i)
      BY <2>3 DEF Execute
    <3> HIDE DEF v, y
    <3>3. "scratchpad" \in DOMAIN u /\ "tiles" \in DOMAIN u
      BY DEF Good
    <3>4. \/ \E fault : Execute(u, i) = Refuse(u, fault)
          \/ Execute(u, i) = Finish([u EXCEPT !.tiles[i.td] = y])
      BY <3>1, <3>2, Zenon
    <3> QED
      BY <3>3, <3>4
  <2>4. CASE i.op \notin {"MVIEW", "MCLEAR", "MLOAD"}
    <3>1. Execute(u, i) = Multiply(u, i)
      BY <2>4 DEF Execute
    <3> QED
      BY <3>1 DEF Multiply, Good
  <2> QED
    BY <2>1, <2>2, <2>3, <2>4
<1>4. Covering(u.views[i.view], b) # {}
  BY <1>2, <1>3, StoresInPlace
<1> QED
  BY <1>2, <1>3, <1>4

(* The bytes a store changes are no more than announced.                    *)
LEMMA WritesAnnounced ==
    ASSUME NEW u, Good(u), NEW i, IsInstruction(i)
    PROVE  Cardinality({b \in DOMAIN u.scratchpad : Execute(u, i).unit.scratchpad[b] # u.scratchpad[b]}) <= Footprint(u, i).writes
<1> DEFINE C == {b \in DOMAIN u.scratchpad : Execute(u, i).unit.scratchpad[b] # u.scratchpad[b]}
           v == u.views[i.view]
           n == v.rows * v.cols
           w == Width(v.type)
           E == 0 .. n - 1
           at == [e \in E |-> At(v, e)]
<1>1. CASE C = {}
  <2>1. Footprint(u, i).writes \in Nat
    BY FootprintBounded DEF Bounded
  <2>2. Cardinality(C) = 0
    BY <1>1, FS_EmptySet
  <2> HIDE DEF C
  <2> QED
    BY <2>1, <2>2 DEF C
<1>2. ASSUME C # {} PROVE Cardinality(C) <= Footprint(u, i).writes
  <2>1. \A b \in C : i.op = "MSTORE" /\ Execute(u, i).outcome = Done /\ Covering(v, b) # {}
    BY BytesChanged
  <2>2. C \subseteq Int
    BY ScratchpadFacts DEF Good
  <2> HIDE DEF C
  <2>3. i.op = "MSTORE" /\ Execute(u, i).outcome = Done
    BY <1>2, <2>1
  <2>4. IsView(v) /\ v.valid /\ StorePasses(v)
    <3>1. i.op \in {"MLOAD", "MSTORE"}
      BY <2>3
    <3> HIDE DEF v
    <3>2. IsView(v) /\ v.valid /\ (i.op = "MSTORE" => StorePasses(v))
      BY <2>3, <3>1, TransferPassed DEF v
    <3> QED
      BY <2>3, <3>2
  <2>5. Footprint(u, i).writes = n * w
    <3>1. i.op = "MSTORE" => IF v.valid THEN Announces(Footprint(u, i), v.rows, v.cols, 0, 0, n * w)
                                        ELSE Announces(Footprint(u, i), 0, 0, 0, 0, 0)
      BY FootprintIs
    <3> HIDE DEF v, n, w
    <3> QED
      BY <2>3, <2>4, <3>1 DEF Announces
  <2> HIDE DEF v
  <2>6. n \in Nat /\ w \in {1, 2, 4} /\ w \in Nat
    BY <2>4, ViewFacts, ShapeFacts
  <2>7. \A b \in C : \E e \in E : b \in at[e] .. at[e] + w - 1
    <3> TAKE b \in C
    <3>1. PICK e \in Covering(v, b) : TRUE
      BY <2>1
    <3>2. e \in E /\ b \in At(v, e) .. At(v, e) + w - 1
      BY <3>1 DEF Covering
    <3> QED
      BY <3>2
  <2>8. \A e \in E : at[e] \in Int
    <3> TAKE e \in E
    <3> DEFINE check == Checks(v, TRUE)[e + 1]
    <3>1. e + 1 \in 1 .. n /\ (e + 1) - 1 = e /\ e \in Int
      <4> HIDE DEF n
      <4> QED
        BY <2>6
    <3>2. Found(check, Place(v, e), w, TRUE, w)
      BY <2>4, <3>1, FirstCheck DEF StorePasses
    <3> HIDE DEF check, w
    <3>3. check.at = Place(v, e) - Home.base /\ check.at \in Nat
      BY <2>6, <3>2, FoundInPlace
    <3>4. At(v, e) \in Int
      BY <3>3 DEF At
    <3> QED
      BY <3>4
  <2> HIDE DEF n, w, at
  <2>9. IsFiniteSet(E) /\ Cardinality(E) = n
    <3>1. 0 \in Int /\ n - 1 \in Int
      BY <2>6
    <3>2. IsFiniteSet(0 .. n - 1) /\ Cardinality(0 .. n - 1) = IF 0 > n - 1 THEN 0 ELSE (n - 1) - 0 + 1
      BY <3>1, FS_Interval
    <3> QED
      BY <2>6, <3>2
  <2> HIDE DEF E
  <2>10. Cardinality(C) <= Cardinality(E) * w
    BY <2>2, <2>6, <2>7, <2>8, <2>9, BytesOfElements
  <2> QED
    BY <2>5, <2>9, <2>10
<1> QED
  BY <1>1, <1>2

(* A tile that changes has the shape announced.                             *)
LEMMA TilesAnnounced ==
    ASSUME NEW u, Good(u), NEW i, IsInstruction(i), NEW t \in TileRegisters, NEW x, x = Execute(u, i).unit.tiles[t],
           x # u.tiles[t]
    PROVE  Footprint(u, i).m = x.rows /\ Footprint(u, i).n = x.cols
<1> DEFINE f == Footprint(u, i)
           v == u.views[i.view]
           a == u.tiles[i.ta]
           b == u.tiles[i.tb]
           bytes == v.rows * v.cols * Width(v.type)
           idle == Announces(f, 0, 0, 0, 0, 0)
<1>1. /\ i.op \in {"MVIEW", "MCLEAR", "MLOAD", "MSTORE", "MDOT", "MMACC"}
      /\ i.op = "MCLEAR" => IF Fits(i.rows, i.cols, i.type) THEN Announces(f, i.rows, i.cols, 0, 0, 0) ELSE idle
      /\ i.op = "MLOAD" => IF v.valid THEN Announces(f, v.rows, v.cols, 0, bytes, 0) ELSE idle
      /\ i.op \in {"MDOT", "MMACC"} => IF a.valid /\ b.valid THEN Announces(f, a.rows, b.cols, a.cols, 0, 0) ELSE idle
  BY FootprintIs
<1> HIDE DEF f, bytes
<1>2. \A r, y : /\ Execute(u, i) = Finish([u EXCEPT !.tiles[r] = y]) /\ r \in TileRegisters => x = y
                /\ Execute(u, i) = Finish([u EXCEPT !.views[r] = y]) => FALSE
                /\ Execute(u, i) = Finish([u EXCEPT !.scratchpad = y]) => FALSE
                /\ Execute(u, i) = Refuse(u, y) => FALSE
  BY DEF Finish, Refuse, Good
<1>3. CASE i.op = "MVIEW"
  BY <1>2, <1>3 DEF Execute, SetView
<1>4. CASE i.op = "MSTORE"
  BY <1>2, <1>4 DEF Execute, StoreTile
<1>5. CASE i.op = "MCLEAR"
  <2> DEFINE y == Tile(i.rows, i.cols, i.type, [e \in 0 .. i.rows * i.cols - 1 |-> 0])
  <2>1. y.rows = i.rows /\ y.cols = i.cols
    BY DEF Tile
  <2>2. Execute(u, i) = IF ~Fits(i.rows, i.cols, i.type) THEN Refuse(u, Invalid) ELSE Finish([u EXCEPT !.tiles[i.td] = y])
    BY <1>5 DEF Execute, ClearTile
  <2>3. i.td \in TileRegisters
    BY <1>5 DEF IsInstruction
  <2> HIDE DEF y
  <2>4. Fits(i.rows, i.cols, i.type) /\ x = y
    BY <1>2, <2>2, <2>3
  <2> QED
    BY <1>1, <1>5, <2>1, <2>4 DEF Announces, f
<1>6. CASE i.op = "MLOAD"
  <2> DEFINE y == Tile(v.rows, v.cols, v.type, Loaded(u, v))
  <2>1. y.rows = v.rows /\ y.cols = v.cols
    BY DEF Tile
  <2>2. /\ i.td \in TileRegisters
        /\ ~v.valid => LoadTile(u, i) = Refuse(u, Invalid)
        /\ v.valid /\ FirstFault(Checks(v, FALSE)) # << >> => LoadTile(u, i) = Refuse(u, FirstFault(Checks(v, FALSE))[1])
        /\ v.valid /\ FirstFault(Checks(v, FALSE)) = << >> => LoadTile(u, i) = Finish([u EXCEPT !.tiles[i.td] = y])
    BY <1>6, LoadTileIs
  <2>3. Execute(u, i) = LoadTile(u, i)
    BY <1>6 DEF Execute
  <2> HIDE DEF y, v
  <2>4. v.valid /\ x = y
    BY <1>2, <2>2, <2>3
  <2> QED
    BY <1>1, <1>6, <2>1, <2>4 DEF Announces, f
<1>7. CASE i.op \in {"MDOT", "MMACC"}
  <2> DEFINE y == Tile(a.rows, b.cols, i.type, Product(u, i))
  <2>1. y.rows = a.rows /\ y.cols = b.cols
    BY DEF Tile
  <2>2. Execute(u, i) = IF ~Multipliable(u, i) THEN Refuse(u, Invalid) ELSE Finish([u EXCEPT !.tiles[i.td] = y])
    BY <1>7 DEF Execute, Multiply
  <2>3. i.td \in TileRegisters
    BY <1>7 DEF IsInstruction
  <2>4. Multipliable(u, i) => a.valid /\ b.valid
    BY DEF Multipliable
  <2> HIDE DEF y, a, b
  <2>5. a.valid /\ b.valid /\ x = y
    BY <1>2, <2>2, <2>3, <2>4
  <2> QED
    BY <1>1, <1>7, <2>1, <2>5 DEF Announces, f
<1> QED
  BY <1>1, <1>3, <1>4, <1>5, <1>6, <1>7

(* Every product is exact in the word, in f32 and in integers the same in   *)
(* parts as at once, and announced in full before it is done (MDOT, MMACC   *)
(* and the footprints of describe_npu).                                     *)
THEOREM ProductsAreAlwaysExact == Spec => ProductsAreExact
<1>1. Inv /\ [Next]_vars => [ProductsAreTrue /\ AccumulationsChain /\ FootprintCoversWork]_vars
  <2> SUFFICES ASSUME Inv, Next PROVE ProductsAreTrue /\ AccumulationsChain /\ FootprintCoversWork
    OBVIOUS
  <2> DEFINE i == executed'
             a == unit.tiles[i.ta]
  <2>1. Good(unit) /\ IsInstruction(i) /\ unit' = Execute(unit, i).unit /\ outcome' = Execute(unit, i).outcome
    BY StepExecutes
  <2>2. ProductsAreTrue
    <3> SUFFICES ASSUME i.op \in {"MDOT", "MMACC"}, outcome' = Done, i.type # "f32"
                 PROVE  IsExactProduct(unit, i, unit')
      BY Zenon DEF ProductsAreTrue, IsExactProduct, Seed, Total, Term
    <3> HIDE DEF i
    <3>1. Good(unit) /\ i.op \in {"MDOT", "MMACC"} /\ IsInstruction(i) /\ Execute(unit, i).outcome = Done /\ i.type # "f32"
      BY <2>1
    <3>2. IsExactProduct(unit, i, Execute(unit, i).unit)
      BY <3>1, ProductIsExact
    <3> QED
      BY <2>1, <3>2
  <2>3. AccumulationsChain
    <3> SUFFICES ASSUME i.op \in {"MDOT", "MMACC"}, outcome' = Done, NEW k \in 0 .. a.cols
                 PROVE  Composes(unit, i, k, unit')
      BY Zenon DEF AccumulationsChain, Composes, Sliced, Columns, Rows, ForFirst, ForRest
    <3> HIDE DEF i
    <3>1. Good(unit) /\ i.op \in {"MDOT", "MMACC"} /\ IsInstruction(i) /\ Execute(unit, i).outcome = Done
      BY <2>1
    <3>2. Composes(unit, i, k, Execute(unit, i).unit)
      BY <3>1, ProductChains
    <3> QED
      BY <2>1, <3>2
  <2>4. FootprintCoversWork
    <3> HIDE DEF i
    <3> DEFINE f == Footprint(unit, i)
               written == Cardinality({d \in DOMAIN unit.scratchpad : unit'.scratchpad[d] # unit.scratchpad[d]})
    <3>1. Bounded(f)
      BY <2>1, FootprintBounded
    <3>2. written <= f.writes
      BY <2>1, WritesAnnounced
    <3>3. f.writes >= written
      <4>1. f.writes \in Nat
        BY <3>1 DEF Bounded
      <4> HIDE DEF written, f
      <4> QED
        BY <3>2, <4>1
    <3>4. \A t \in TileRegisters : unit'.tiles[t] # unit.tiles[t] => f.m = unit'.tiles[t].rows /\ f.n = unit'.tiles[t].cols
      BY <2>1, TilesAnnounced
    <3> QED
      BY <3>1, <3>3, <3>4 DEF FootprintCoversWork, Bounded, i
  <2> QED
    BY <2>2, <2>3, <2>4
<1> QED
  BY <1>1, Invariance, PTL DEF Spec, ProductsAreExact
=============================================================================
