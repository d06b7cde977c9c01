-------------------------- MODULE JsonEscapeProofs --------------------------
(***************************************************************************)
(* Proof that appendJsonEscaped is faithful for texts of any length over   *)
(* any bytes.  Three parts: what a loop over bytes yields (Rounds); what    *)
(* utf8SequenceLength accepts is what UTF-8 defines by the value of the     *)
(* bits; a reader takes what one round appends back in one token.  An       *)
(* induction from the end of the text backwards puts them together.        *)
(***************************************************************************)
EXTENDS JsonEscape, SequenceTheorems, WellFoundedInduction, TLAPS

Byte == 0 .. 255

-----------------------------------------------------------------------------
(* Induction over the natural numbers, for a set of numbers.               *)
LEMMA Least ==
  ASSUME NEW S \in SUBSET Nat, S # {}
  PROVE  \E m \in S : \A k \in S : m <= k
<1>1. IsWellFoundedOn(OpToRel(<, Nat), Nat)
  BY NatLessThanWellFounded
<1> DEFINE R == {p \in Nat \X Nat : p[1] < p[2]}
<1>2. IsWellFoundedOn(R, Nat)
  BY <1>1 DEF OpToRel
<1>3. PICK m \in S : \A k \in S : ~(<<k, m>> \in R)
  <2> HIDE DEF R
  <2> QED BY <1>2, WFMin
<1>4. ASSUME NEW k \in S PROVE ~(k < m) /\ k \in Nat /\ m \in Nat
  <2>1. k \in Nat /\ m \in Nat /\ <<k, m>> \in Nat \X Nat /\ <<k, m>>[1] = k /\ <<k, m>>[2] = m
    OBVIOUS
  <2>2. k < m => <<k, m>> \in R
    BY <2>1
  <2> QED BY <1>3, <2>1, <2>2
<1> HIDE DEF R
<1>5. \A k \in S : m <= k
  BY <1>4
<1> QED BY <1>5

LEMMA AllNumbers ==
  ASSUME NEW G, 0 \in G, \A n \in Nat : n \in G => n + 1 \in G
  PROVE  \A n \in Nat : n \in G
<1> SUFFICES ASSUME Nat \ G # {} PROVE FALSE
  OBVIOUS
<1>1. PICK m \in Nat \ G : \A k \in Nat \ G : m <= k
  BY Least
<1>2. m # 0 /\ m - 1 \in Nat /\ ~(m <= m - 1) /\ m - 1 + 1 = m
  BY <1>1
<1>3. m - 1 \in G
  BY <1>1, <1>2
<1> QED BY <1>1, <1>2, <1>3

-----------------------------------------------------------------------------
(* What the rounds of a loop yield together exists, and each round adds its *)
(* own share: by induction on the number of bytes at the end that are known.*)
Onward(n, gives, takes, f, m) ==
  \A i \in n + 1 - m .. n + 1 : f[i] = IF i > n THEN <<>> ELSE gives[i] \o f[i + takes[i]]

Advances(n, takes) == \A i \in 1 .. n : takes[i] \in 1 .. n + 1 - i

LEMMA OnwardExists ==
  ASSUME NEW n \in Nat, NEW gives, NEW takes, Advances(n, takes)
  PROVE  \E f : /\ f = [i \in 1 .. n + 1 |-> f[i]]
                /\ Onward(n, gives, takes, f, n)
<1> DEFINE Good(m) == \E f : f = [i \in 1 .. n + 1 |-> f[i]] /\ Onward(n, gives, takes, f, m)
           G == {m \in Nat : m <= n => Good(m)}
<1>1. 0 \in G
  <2> DEFINE f == [i \in 1 .. n + 1 |-> <<>>]
  <2>1. f = [i \in 1 .. n + 1 |-> f[i]]
    OBVIOUS
  <2>2. \A i \in n + 1 - 0 .. n + 1 : i \in 1 .. n + 1 /\ i > n
    OBVIOUS
  <2>3. Onward(n, gives, takes, f, 0)
    BY <2>2 DEF Onward
  <2> HIDE DEF f
  <2> QED BY <2>1, <2>3
<1>2. ASSUME NEW m \in Nat, m \in G PROVE m + 1 \in G
  <2> SUFFICES ASSUME m + 1 <= n PROVE Good(m + 1)
    OBVIOUS
  <2>1. PICK f : f = [i \in 1 .. n + 1 |-> f[i]] /\ Onward(n, gives, takes, f, m)
    BY <1>2
  <2>2. PICK k : k = n - m /\ k \in 1 .. n /\ n + 1 - m = k + 1 /\ n + 1 - (m + 1) = k
    OBVIOUS
  <2> DEFINE g == [i \in 1 .. n + 1 |-> IF i = k THEN gives[k] \o f[k + takes[k]] ELSE f[i]]
  <2>3. g = [i \in 1 .. n + 1 |-> g[i]]
    OBVIOUS
  <2>4. /\ \A i \in k + 1 .. n + 1 : i \in 1 .. n + 1 /\ i # k
        /\ k \in 1 .. n + 1 /\ ~(k > n) /\ k + takes[k] \in k + 1 .. n + 1
        /\ \A i \in k .. n + 1 : i = k \/ i \in k + 1 .. n + 1
    BY <2>2 DEF Advances
  <2>5. \A i \in k + 1 .. n + 1 : g[i] = f[i]
    BY <2>4
  <2>6. g[k] = gives[k] \o g[k + takes[k]]
    BY <2>4, <2>5
  <2> HIDE DEF g
  <2>7. ASSUME NEW i \in k + 1 .. n + 1
        PROVE  g[i] = IF i > n THEN <<>> ELSE gives[i] \o g[i + takes[i]]
    <3>1. f[i] = IF i > n THEN <<>> ELSE gives[i] \o f[i + takes[i]]
      BY <2>1, <2>2 DEF Onward
    <3>2. i <= n => i + takes[i] \in k + 1 .. n + 1
      BY <2>2 DEF Advances
    <3>3. i > n \/ i <= n
      BY <2>2
    <3> QED BY <2>5, <3>1, <3>2, <3>3
  <2>8. Onward(n, gives, takes, g, m + 1)
    BY <2>2, <2>4, <2>6, <2>7 DEF Onward
  <2> QED BY <2>3, <2>8
<1> HIDE DEF Good
<1>3. n \in G
  BY <1>1, <1>2, AllNumbers
<1>4. Good(n)
  BY <1>3
<1> QED BY <1>4 DEF Good

Unfolded(n, gives, takes, f) ==
  f[n + 1] = <<>> /\ \A i \in 1 .. n : f[i] = gives[i] \o f[i + takes[i]]

LEMMA RoundsUnfold ==
  ASSUME NEW n \in Nat, NEW gives, NEW takes, Advances(n, takes)
  PROVE  Unfolded(n, gives, takes, Rounds(n, gives, takes))
<1> DEFINE Is(f) == f = [i \in 1 .. n + 1 |-> IF i > n THEN <<>> ELSE gives[i] \o f[i + takes[i]]]
           r == Rounds(n, gives, takes)
<1>1. PICK f : f = [i \in 1 .. n + 1 |-> f[i]] /\ Onward(n, gives, takes, f, n)
  BY OnwardExists
<1>2. \A i \in 1 .. n + 1 : f[i] = IF i > n THEN <<>> ELSE gives[i] \o f[i + takes[i]]
  <2>1. n + 1 - n = 1
    OBVIOUS
  <2> QED BY <1>1, <2>1 DEF Onward
<1>3. Is(f)
  BY <1>1, <1>2
<1>4. r = CHOOSE g : Is(g)
  BY DEF Rounds
<1> HIDE DEF Is
<1>5. Is(r)
  BY <1>3, <1>4
<1> HIDE DEF r
<1>6. \A i \in 1 .. n + 1 : r[i] = IF i > n THEN <<>> ELSE gives[i] \o r[i + takes[i]]
  BY <1>5 DEF Is
<1>7. n + 1 \in 1 .. n + 1 /\ n + 1 > n /\ \A i \in 1 .. n : i \in 1 .. n + 1 /\ ~(i > n)
  OBVIOUS
<1>8. Unfolded(n, gives, takes, r)
  BY <1>6, <1>7 DEF Unfolded
<1> QED BY <1>8 DEF r
-----------------------------------------------------------------------------
(* What utf8SequenceLength accepts is what UTF-8 defines, length by length. *)
Long(s, i) == s[i] > 127 /\ Utf8SequenceLength(s, i) > 0

Between(lo, b, hi) == b \in Int /\ lo <= b /\ b <= hi

LEMMA Intervals ==
  \A b \in Int :
    /\ b \in 0 .. 255 <=> Between(0, b, 255)
    /\ b \in 0 .. 127 <=> Between(0, b, 127)
    /\ b \in 128 .. 191 <=> Between(128, b, 191)
    /\ b \in 192 .. 223 <=> Between(192, b, 223)
    /\ b \in 194 .. 223 <=> Between(194, b, 223)
    /\ b \in 224 .. 239 <=> Between(224, b, 239)
    /\ b \in 240 .. 247 <=> Between(240, b, 247)
    /\ b \in 240 .. 244 <=> Between(240, b, 244)
BY SMT DEF Between

LEMMA ByteIs == \A b \in Byte : Between(0, b, 255)
BY SMT DEF Byte, Between

LEMMA LeadByteIs ==
  \A b \in Byte :
    /\ b \in LeadBytes[1] <=> Between(0, b, 127)
    /\ b \in LeadBytes[2] <=> Between(192, b, 223)
    /\ b \in LeadBytes[3] <=> Between(224, b, 239)
    /\ b \in LeadBytes[4] <=> Between(240, b, 247)
<1>1. /\ LeadBytes[1] = 0 .. 127 /\ LeadBytes[2] = 192 .. 223
      /\ LeadBytes[3] = 224 .. 239 /\ LeadBytes[4] = 240 .. 247
  BY DEF LeadBytes
<1>2. \A b \in Byte : b \in Int
  BY DEF Byte
<1> QED BY <1>1, <1>2, Intervals

LEMMA SmallestIs ==
  Smallest[1] = 0 /\ Smallest[2] = 128 /\ Smallest[3] = 2048 /\ Smallest[4] = 65536
BY SMT DEF Smallest

(* The continuation bytes are those whose two high bits are 10.            *)
LEMMA Continues ==
  ASSUME NEW s \in Seq(Byte), NEW k \in Nat \ {0}
  PROVE  /\ IsContinuationByte(s, k) <=> k <= Len(s) /\ s[k] \div 64 = 2
         /\ IsContinuationByte(s, k) => Between(128, s[k], 191)
<1>1. k <= Len(s) => s[k] \in Byte
  OBVIOUS
<1>2. \A b \in Byte : /\ b \in 128 .. 191 <=> b \div 64 = 2
                      /\ b \in 128 .. 191 => Between(128, b, 191)
  BY DEF Byte, Between
<1> QED BY <1>1, <1>2 DEF IsContinuationByte

(* The bits of a byte that belong to the code point.                       *)
LEMMA LowBits ==
  \A b \in Int : /\ Between(128, b, 191) => b % 64 = b - 128
                 /\ Between(192, b, 223) => b % 32 = b - 192
                 /\ Between(224, b, 239) => b % 16 = b - 224
                 /\ Between(240, b, 247) => b % 8 = b - 240
BY SMT DEF Between

(* The code points of two, three and four bytes.                           *)
Point2(x, a)       == 64 * (x % 32) + (a % 64)
Point3(x, a, b)    == 4096 * (x % 16) + 64 * (a % 64) + (b % 64)
Point4(x, a, b, c) == 262144 * (x % 8) + 4096 * (a % 64) + 64 * (b % 64) + (c % 64)

LEMMA ValuesAre ==
  ASSUME NEW s, NEW i
  PROVE  /\ Value(s, i, 1) = s[i]
         /\ Value(s, i, 2) = Point2(s[i], s[i + 1])
         /\ Value(s, i, 3) = Point3(s[i], s[i + 1], s[i + 2])
         /\ Value(s, i, 4) = Point4(s[i], s[i + 1], s[i + 2], s[i + 3])
BY SMT DEF Value, Point2, Point3, Point4

(* Which combinations of bytes give a code point that needs them all.      *)
LEMMA TwoByteValues ==
  ASSUME NEW x, NEW a, Between(192, x, 223), Between(128, a, 191)
  PROVE  Point2(x, a) >= Smallest[2] /\ IsScalar(Point2(x, a)) <=> 194 <= x
<1>1. x \in Int /\ a \in Int /\ x % 32 = x - 192 /\ a % 64 = a - 128
  BY LowBits, SMT DEF Between
<1> QED BY <1>1, SmallestIs, SMTT(30) DEF IsScalar, Between, Point2

LEMMA ThreeByteValues ==
  ASSUME NEW x, NEW a, NEW b,
         Between(224, x, 239), Between(128, a, 191), Between(128, b, 191)
  PROVE  Point3(x, a, b) >= Smallest[3] /\ IsScalar(Point3(x, a, b))
           <=> ~(x = 224 /\ a < 160) /\ ~(x = 237 /\ a > 159)
<1>1. /\ x \in Int /\ a \in Int /\ b \in Int
      /\ x % 16 = x - 224 /\ a % 64 = a - 128 /\ b % 64 = b - 128
  BY LowBits, SMT DEF Between
<1> QED BY <1>1, SmallestIs, SMTT(30) DEF IsScalar, Between, Point3

LEMMA FourByteValues ==
  ASSUME NEW x, NEW a, NEW b, NEW c, Between(240, x, 247), Between(128, a, 191),
         Between(128, b, 191), Between(128, c, 191)
  PROVE  Point4(x, a, b, c) >= Smallest[4] /\ IsScalar(Point4(x, a, b, c))
           <=> x <= 244 /\ ~(x = 240 /\ a < 144) /\ ~(x = 244 /\ a > 143)
<1>1. /\ x \in Int /\ a \in Int /\ b \in Int /\ c \in Int
      /\ x % 8 = x - 240 /\ a % 64 = a - 128 /\ b % 64 = b - 128 /\ c % 64 = c - 128
  BY LowBits, SMT DEF Between
<1> QED BY <1>1, SmallestIs, SMTT(30) DEF IsScalar, Between, Point4

LEMMA OneByte ==
  ASSUME NEW s \in Seq(Byte), NEW i \in 1 .. Len(s)
  PROVE  Encodes(s, i, 1) <=> s[i] <= 127
<1>1. s[i] \in Byte /\ i + 1 - 1 <= Len(s) /\ \A k \in 1 .. 1 - 1 : FALSE
  OBVIOUS
<1>2. Value(s, i, 1) = s[i] /\ Smallest[1] = 0
  BY ValuesAre, SmallestIs, SMT
<1>3. \A b : Between(0, b, 255) => (b <= 127 <=> Between(0, b, 127))
  BY SMT DEF Between
<1>4. \A b : Between(0, b, 127) => b >= 0 /\ IsScalar(b)
  BY SMT DEF Between, IsScalar
<1>7. Between(0, s[i], 255)
  BY <1>1, ByteIs
<1>5. s[i] \in LeadBytes[1] <=> s[i] <= 127
  BY <1>1, <1>3, <1>7, LeadByteIs
<1>6. s[i] <= 127 => s[i] >= 0 /\ IsScalar(s[i])
  BY <1>3, <1>4, <1>7
<1> QED BY <1>1, <1>2, <1>5, <1>6, Zenon DEF Encodes

LEMMA TwoBytes ==
  ASSUME NEW s \in Seq(Byte), NEW i \in 1 .. Len(s)
  PROVE  Encodes(s, i, 2) <=> s[i] > 127 /\ Utf8SequenceLength(s, i) = 2
<1>1. PICK x \in Byte : x = s[i]
  OBVIOUS
<1>2. Between(0, x, 255)
  BY <1>1, ByteIs
<1> DEFINE Cont == IsContinuationByte(s, i + 1)
<1>3. Utf8SequenceLength(s, i) = 2 <=> Cont /\ Between(194, x, 223)
  <2>1. /\ x \in 194 .. 223 <=> Between(194, x, 223)
        /\ x \in 224 .. 239 <=> Between(224, x, 239)
        /\ x \in 240 .. 244 <=> Between(240, x, 244)
    BY <1>2, Intervals DEF Between
  <2> HIDE DEF Cont
  <2>3. ~(Between(194, x, 223) /\ Between(224, x, 239))
        /\ ~(Between(194, x, 223) /\ Between(240, x, 244))
        /\ ~(Between(224, x, 239) /\ Between(240, x, 244))
    BY SMT DEF Between
  <2> DEFINE
        A == x \in 194 .. 223 /\ IsContinuationByte(s, i + 1)
        B == /\ x \in 224 .. 239 /\ \A k \in 1 .. 2 : IsContinuationByte(s, i + k)
             /\ ~(x = 224 /\ s[i + 1] < 160) /\ ~(x = 237 /\ s[i + 1] > 159)
        C == /\ x \in 240 .. 244 /\ \A k \in 1 .. 3 : IsContinuationByte(s, i + k)
             /\ ~(x = 240 /\ s[i + 1] < 144) /\ ~(x = 244 /\ s[i + 1] > 143)
  <2>4. Utf8SequenceLength(s, i) = CASE A -> 2 [] B -> 3 [] C -> 4 [] OTHER -> 0
    BY <1>1, Zenon DEF Utf8SequenceLength
  <2>5. ~(A /\ B) /\ ~(A /\ C) /\ ~(B /\ C)
    <3>1. A => Between(194, x, 223)
      BY <2>1, Zenon
    <3>2. B => Between(224, x, 239)
      BY <2>1, Zenon
    <3>3. C => Between(240, x, 244)
      BY <2>1, Zenon
    <3> HIDE DEF A, B, C
    <3> QED BY <2>3, <3>1, <3>2, <3>3, Zenon
  <2>6. A <=> Cont /\ Between(194, x, 223)
    BY <2>1, Zenon DEF Cont
  <2> HIDE DEF A, B, C
  <2> QED BY <2>4, <2>5, <2>6, SMT
<1>4. Encodes(s, i, 2) <=>
        /\ Cont /\ x \in LeadBytes[2]
        /\ Value(s, i, 2) >= Smallest[2] /\ IsScalar(Value(s, i, 2))
  <2>1. \A k \in 1 .. 2 - 1 : k = 1
    OBVIOUS
  <2>2. /\ 1 \in 1 .. 2 - 1 /\ i + 2 - 1 = i + 1
        /\ i + 1 <= Len(s) => i + 1 <= Len(s)
    OBVIOUS
  <2>3. /\ IsContinuationByte(s, i + 1) <=> i + 1 <= Len(s) /\ s[i + 1] \div 64 = 2
    BY Continues
  <2>4. Encodes(s, i, 2) <=>
          /\ i + 2 - 1 <= Len(s) /\ x \in LeadBytes[2]
          /\ \A k \in 1 .. 2 - 1 : s[i + k] \div 64 = 2
          /\ Value(s, i, 2) >= Smallest[2] /\ IsScalar(Value(s, i, 2))
    BY <1>1, Zenon DEF Encodes
  <2> QED BY <2>1, <2>2, <2>3, <2>4, Zenon
<1>5. x \in LeadBytes[2] <=> Between(192, x, 223)
  BY <1>1, LeadByteIs
<1>6. Cont => Between(128, s[i + 1], 191)
  BY Continues
<1>7. Cont /\ Between(192, x, 223) =>
        (Value(s, i, 2) >= Smallest[2] /\ IsScalar(Value(s, i, 2))
           <=> 194 <= x)
  <2> SUFFICES ASSUME Cont, Between(192, x, 223)
               PROVE  Value(s, i, 2) >= Smallest[2] /\ IsScalar(Value(s, i, 2))
                        <=> 194 <= x
    OBVIOUS
  <2>1. Between(128, s[i + 1], 191)
    BY <1>6
  <2>2. Point2(x, s[i + 1]) >= Smallest[2] /\ IsScalar(Point2(x, s[i + 1]))
          <=> 194 <= x
    BY <2>1, TwoByteValues
  <2>3. Value(s, i, 2) = Point2(x, s[i + 1])
    BY <1>1, ValuesAre
  <2> QED BY <2>2, <2>3
<1> HIDE DEF Cont
<1>8. Between(194, x, 223) <=> Between(192, x, 223) /\ 194 <= x
  BY <1>2, SMT DEF Between
<1>9. Between(192, x, 223) => x > 127
  BY SMT DEF Between
<1> QED BY <1>1, <1>3, <1>4, <1>5, <1>7, <1>8, <1>9, SMT

LEMMA ThreeBytes ==
  ASSUME NEW s \in Seq(Byte), NEW i \in 1 .. Len(s)
  PROVE  Encodes(s, i, 3) <=> s[i] > 127 /\ Utf8SequenceLength(s, i) = 3
<1>1. PICK x \in Byte : x = s[i]
  OBVIOUS
<1>2. Between(0, x, 255)
  BY <1>1, ByteIs
<1> DEFINE Cont == IsContinuationByte(s, i + 1) /\ IsContinuationByte(s, i + 2)
<1>3. Utf8SequenceLength(s, i) = 3 <=>
        /\ Cont /\ Between(224, x, 239)
        /\ ~(x = 224 /\ s[i + 1] < 160) /\ ~(x = 237 /\ s[i + 1] > 159)
  <2>1. /\ x \in 194 .. 223 <=> Between(194, x, 223)
        /\ x \in 224 .. 239 <=> Between(224, x, 239)
        /\ x \in 240 .. 244 <=> Between(240, x, 244)
    BY <1>2, Intervals DEF Between
  <2>2. (\A k \in 1 .. 2 : IsContinuationByte(s, i + k)) <=> Cont
    OBVIOUS
  <2> HIDE DEF Cont
  <2>3. ~(Between(194, x, 223) /\ Between(224, x, 239))
        /\ ~(Between(194, x, 223) /\ Between(240, x, 244))
        /\ ~(Between(224, x, 239) /\ Between(240, x, 244))
    BY SMT DEF Between
  <2> DEFINE
        A == x \in 194 .. 223 /\ IsContinuationByte(s, i + 1)
        B == /\ x \in 224 .. 239 /\ \A k \in 1 .. 2 : IsContinuationByte(s, i + k)
             /\ ~(x = 224 /\ s[i + 1] < 160) /\ ~(x = 237 /\ s[i + 1] > 159)
        C == /\ x \in 240 .. 244 /\ \A k \in 1 .. 3 : IsContinuationByte(s, i + k)
             /\ ~(x = 240 /\ s[i + 1] < 144) /\ ~(x = 244 /\ s[i + 1] > 143)
  <2>4. Utf8SequenceLength(s, i) = CASE A -> 2 [] B -> 3 [] C -> 4 [] OTHER -> 0
    BY <1>1, Zenon DEF Utf8SequenceLength
  <2>5. ~(A /\ B) /\ ~(A /\ C) /\ ~(B /\ C)
    <3>1. A => Between(194, x, 223)
      BY <2>1, Zenon
    <3>2. B => Between(224, x, 239)
      BY <2>1, Zenon
    <3>3. C => Between(240, x, 244)
      BY <2>1, Zenon
    <3> HIDE DEF A, B, C
    <3> QED BY <2>3, <3>1, <3>2, <3>3, Zenon
  <2>6. B <=> /\ Cont /\ Between(224, x, 239)
               /\ ~(x = 224 /\ s[i + 1] < 160) /\ ~(x = 237 /\ s[i + 1] > 159)
    BY <2>1, <2>2, Zenon DEF Cont
  <2> HIDE DEF A, B, C
  <2> QED BY <2>4, <2>5, <2>6, SMT
<1>4. Encodes(s, i, 3) <=>
        /\ Cont /\ x \in LeadBytes[3]
        /\ Value(s, i, 3) >= Smallest[3] /\ IsScalar(Value(s, i, 3))
  <2>1. \A k \in 1 .. 3 - 1 : k = 1 \/ k = 2
    OBVIOUS
  <2>2. /\ 1 \in 1 .. 3 - 1 /\ 2 \in 1 .. 3 - 1 /\ i + 3 - 1 = i + 2
        /\ i + 2 <= Len(s) => i + 1 <= Len(s) /\ i + 2 <= Len(s)
    OBVIOUS
  <2>3. /\ IsContinuationByte(s, i + 1) <=> i + 1 <= Len(s) /\ s[i + 1] \div 64 = 2
        /\ IsContinuationByte(s, i + 2) <=> i + 2 <= Len(s) /\ s[i + 2] \div 64 = 2
    BY Continues
  <2>4. Encodes(s, i, 3) <=>
          /\ i + 3 - 1 <= Len(s) /\ x \in LeadBytes[3]
          /\ \A k \in 1 .. 3 - 1 : s[i + k] \div 64 = 2
          /\ Value(s, i, 3) >= Smallest[3] /\ IsScalar(Value(s, i, 3))
    BY <1>1, Zenon DEF Encodes
  <2> QED BY <2>1, <2>2, <2>3, <2>4, Zenon
<1>5. x \in LeadBytes[3] <=> Between(224, x, 239)
  BY <1>1, LeadByteIs
<1>6. Cont => Between(128, s[i + 1], 191) /\ Between(128, s[i + 2], 191)
  BY Continues
<1>7. Cont /\ Between(224, x, 239) =>
        (Value(s, i, 3) >= Smallest[3] /\ IsScalar(Value(s, i, 3))
           <=> ~(x = 224 /\ s[i + 1] < 160) /\ ~(x = 237 /\ s[i + 1] > 159))
  <2> SUFFICES ASSUME Cont, Between(224, x, 239)
               PROVE  Value(s, i, 3) >= Smallest[3] /\ IsScalar(Value(s, i, 3))
                        <=> ~(x = 224 /\ s[i + 1] < 160) /\ ~(x = 237 /\ s[i + 1] > 159)
    OBVIOUS
  <2>1. Between(128, s[i + 1], 191) /\ Between(128, s[i + 2], 191)
    BY <1>6
  <2>2. Point3(x, s[i + 1], s[i + 2]) >= Smallest[3] /\ IsScalar(Point3(x, s[i + 1], s[i + 2]))
          <=> ~(x = 224 /\ s[i + 1] < 160) /\ ~(x = 237 /\ s[i + 1] > 159)
    BY <2>1, ThreeByteValues
  <2>3. Value(s, i, 3) = Point3(x, s[i + 1], s[i + 2])
    BY <1>1, ValuesAre
  <2> QED BY <2>2, <2>3
<1> HIDE DEF Cont
<1>8. Between(224, x, 239) => Between(224, x, 239) /\ x > 127
  BY <1>2, SMT DEF Between
<1> QED BY <1>1, <1>3, <1>4, <1>5, <1>7, <1>8, SMT

LEMMA FourBytes ==
  ASSUME NEW s \in Seq(Byte), NEW i \in 1 .. Len(s)
  PROVE  Encodes(s, i, 4) <=> s[i] > 127 /\ Utf8SequenceLength(s, i) = 4
<1>1. PICK x \in Byte : x = s[i]
  OBVIOUS
<1>2. Between(0, x, 255)
  BY <1>1, ByteIs
<1> DEFINE Cont == /\ IsContinuationByte(s, i + 1)
                   /\ IsContinuationByte(s, i + 2)
                   /\ IsContinuationByte(s, i + 3)
<1>3. Utf8SequenceLength(s, i) = 4 <=>
        /\ Cont /\ Between(240, x, 244)
        /\ ~(x = 240 /\ s[i + 1] < 144) /\ ~(x = 244 /\ s[i + 1] > 143)
  <2>1. /\ x \in 194 .. 223 <=> Between(194, x, 223)
        /\ x \in 224 .. 239 <=> Between(224, x, 239)
        /\ x \in 240 .. 244 <=> Between(240, x, 244)
    BY <1>2, Intervals DEF Between
  <2>2. (\A k \in 1 .. 3 : IsContinuationByte(s, i + k)) <=> Cont
    OBVIOUS
  <2> HIDE DEF Cont
  <2>3. ~(Between(194, x, 223) /\ Between(224, x, 239))
        /\ ~(Between(194, x, 223) /\ Between(240, x, 244))
        /\ ~(Between(224, x, 239) /\ Between(240, x, 244))
    BY SMT DEF Between
  <2> DEFINE
        A == x \in 194 .. 223 /\ IsContinuationByte(s, i + 1)
        B == /\ x \in 224 .. 239 /\ \A k \in 1 .. 2 : IsContinuationByte(s, i + k)
             /\ ~(x = 224 /\ s[i + 1] < 160) /\ ~(x = 237 /\ s[i + 1] > 159)
        C == /\ x \in 240 .. 244 /\ \A k \in 1 .. 3 : IsContinuationByte(s, i + k)
             /\ ~(x = 240 /\ s[i + 1] < 144) /\ ~(x = 244 /\ s[i + 1] > 143)
  <2>4. Utf8SequenceLength(s, i) = CASE A -> 2 [] B -> 3 [] C -> 4 [] OTHER -> 0
    BY <1>1, Zenon DEF Utf8SequenceLength
  <2>5. ~(A /\ B) /\ ~(A /\ C) /\ ~(B /\ C)
    <3>1. A => Between(194, x, 223)
      BY <2>1, Zenon
    <3>2. B => Between(224, x, 239)
      BY <2>1, Zenon
    <3>3. C => Between(240, x, 244)
      BY <2>1, Zenon
    <3> HIDE DEF A, B, C
    <3> QED BY <2>3, <3>1, <3>2, <3>3, Zenon
  <2>6. C <=> /\ Cont /\ Between(240, x, 244)
               /\ ~(x = 240 /\ s[i + 1] < 144) /\ ~(x = 244 /\ s[i + 1] > 143)
    BY <2>1, <2>2, Zenon DEF Cont
  <2> HIDE DEF A, B, C
  <2> QED BY <2>4, <2>5, <2>6, SMT
<1>4. Encodes(s, i, 4) <=>
        /\ Cont /\ x \in LeadBytes[4]
        /\ Value(s, i, 4) >= Smallest[4] /\ IsScalar(Value(s, i, 4))
  <2>1. \A k \in 1 .. 4 - 1 : k = 1 \/ k = 2 \/ k = 3
    OBVIOUS
  <2>2. /\ 1 \in 1 .. 4 - 1 /\ 2 \in 1 .. 4 - 1 /\ 3 \in 1 .. 4 - 1 /\ i + 4 - 1 = i + 3
        /\ i + 3 <= Len(s) => i + 1 <= Len(s) /\ i + 2 <= Len(s) /\ i + 3 <= Len(s)
    OBVIOUS
  <2>3. /\ IsContinuationByte(s, i + 1) <=> i + 1 <= Len(s) /\ s[i + 1] \div 64 = 2
        /\ IsContinuationByte(s, i + 2) <=> i + 2 <= Len(s) /\ s[i + 2] \div 64 = 2
        /\ IsContinuationByte(s, i + 3) <=> i + 3 <= Len(s) /\ s[i + 3] \div 64 = 2
    BY Continues
  <2>4. Encodes(s, i, 4) <=>
          /\ i + 4 - 1 <= Len(s) /\ x \in LeadBytes[4]
          /\ \A k \in 1 .. 4 - 1 : s[i + k] \div 64 = 2
          /\ Value(s, i, 4) >= Smallest[4] /\ IsScalar(Value(s, i, 4))
    BY <1>1, Zenon DEF Encodes
  <2> QED BY <2>1, <2>2, <2>3, <2>4, Zenon
<1>5. x \in LeadBytes[4] <=> Between(240, x, 247)
  BY <1>1, LeadByteIs
<1>6. Cont => Between(128, s[i + 1], 191) /\ Between(128, s[i + 2], 191) /\ Between(128, s[i + 3], 191)
  BY Continues
<1>7. Cont /\ Between(240, x, 247) =>
        (Value(s, i, 4) >= Smallest[4] /\ IsScalar(Value(s, i, 4))
           <=> x <= 244 /\ ~(x = 240 /\ s[i + 1] < 144)
                 /\ ~(x = 244 /\ s[i + 1] > 143))
  <2> SUFFICES ASSUME Cont, Between(240, x, 247)
               PROVE  Value(s, i, 4) >= Smallest[4] /\ IsScalar(Value(s, i, 4))
                        <=> x <= 244 /\ ~(x = 240 /\ s[i + 1] < 144)
                 /\ ~(x = 244 /\ s[i + 1] > 143)
    OBVIOUS
  <2>1. Between(128, s[i + 1], 191) /\ Between(128, s[i + 2], 191) /\ Between(128, s[i + 3], 191)
    BY <1>6
  <2>2. Point4(x, s[i + 1], s[i + 2], s[i + 3]) >= Smallest[4] /\ IsScalar(Point4(x, s[i + 1], s[i + 2], s[i + 3]))
          <=> x <= 244 /\ ~(x = 240 /\ s[i + 1] < 144)
                 /\ ~(x = 244 /\ s[i + 1] > 143)
    BY <2>1, FourByteValues
  <2>3. Value(s, i, 4) = Point4(x, s[i + 1], s[i + 2], s[i + 3])
    BY <1>1, ValuesAre
  <2> QED BY <2>2, <2>3
<1> HIDE DEF Cont
<1>8. Between(240, x, 244) <=> Between(240, x, 247) /\ x <= 244
  BY <1>2, SMT DEF Between
<1>9. Between(240, x, 247) => x > 127
  BY SMT DEF Between
<1> QED BY <1>1, <1>3, <1>4, <1>5, <1>7, <1>8, <1>9, SMT

LEMMA Lengths ==
  ASSUME NEW s \in Seq(Byte), NEW i \in 1 .. Len(s)
  PROVE  /\ Utf8SequenceLength(s, i) \in {0, 2, 3, 4}
         /\ Long(s, i) => i + Utf8SequenceLength(s, i) - 1 <= Len(s)
<1>1. Utf8SequenceLength(s, i) \in {0, 2, 3, 4}
  BY DEF Utf8SequenceLength
<1>2. \A m \in 2 .. 4 : Encodes(s, i, m) => i + m - 1 <= Len(s)
  BY DEF Encodes
<1> QED BY <1>1, <1>2, TwoBytes, ThreeBytes, FourBytes DEF Long

(* At most one length fits, because the first byte tells them apart.       *)
LEMMA OneLength ==
  ASSUME NEW s \in Seq(Byte), NEW i \in 1 .. Len(s), NEW m \in 1 .. 4, Encodes(s, i, m)
  PROVE  /\ \E n \in 1 .. 4 : Encodes(s, i, n)
         /\ (CHOOSE n \in 1 .. 4 : Encodes(s, i, n)) = m
<1>1. ASSUME NEW a \in 1 .. 4, NEW b \in 1 .. 4, Encodes(s, i, a), Encodes(s, i, b) PROVE a = b
  <2>1. s[i] \in LeadBytes[a] /\ s[i] \in LeadBytes[b]
    BY <1>1, Zenon DEF Encodes
  <2>2. PICK x \in Byte : x = s[i]
    OBVIOUS
  <2>3. \A k \in 1 .. 4 : k = 1 \/ k = 2 \/ k = 3 \/ k = 4
    OBVIOUS
  <2>4. x \in LeadBytes[a] /\ x \in LeadBytes[b]
    BY <2>1, <2>2
  <2>5. /\ x \in LeadBytes[1] <=> Between(0, x, 127)
        /\ x \in LeadBytes[2] <=> Between(192, x, 223)
        /\ x \in LeadBytes[3] <=> Between(224, x, 239)
        /\ x \in LeadBytes[4] <=> Between(240, x, 247)
    BY LeadByteIs
  <2>6. \A lo, hi, p, q \in Int : Between(lo, x, hi) /\ Between(p, x, q) => p <= hi /\ lo <= q
    BY SMT DEF Between
  <2>7. /\ ~(x \in LeadBytes[1] /\ x \in LeadBytes[2]) /\ ~(x \in LeadBytes[1] /\ x \in LeadBytes[3])
        /\ ~(x \in LeadBytes[1] /\ x \in LeadBytes[4]) /\ ~(x \in LeadBytes[2] /\ x \in LeadBytes[3])
        /\ ~(x \in LeadBytes[2] /\ x \in LeadBytes[4]) /\ ~(x \in LeadBytes[3] /\ x \in LeadBytes[4])
    BY <2>5, <2>6, SMT
  <2> QED BY <2>3, <2>4, <2>7, Zenon
<1> QED BY <1>1

(* The reference decoding and the code agree on what starts at a byte.     *)
LEMMA DecodedIs ==
  ASSUME NEW s \in Seq(Byte), NEW i \in 1 .. Len(s)
  PROVE  /\ Decoded(s, i).bytes = Taken(s, i)
         /\ s[i] <= 127 => Encodes(s, i, 1) /\ Decoded(s, i).point = s[i]
         /\ Long(s, i) => /\ Encodes(s, i, Utf8SequenceLength(s, i))
                          /\ Decoded(s, i).point = Value(s, i, Utf8SequenceLength(s, i))
         /\ s[i] > 127 /\ ~Long(s, i) => Decoded(s, i).point = Replacement
<1> DEFINE m == Utf8SequenceLength(s, i)
<1>1. m \in {0, 2, 3, 4} /\ (s[i] <= 127 \/ s[i] > 127) /\ ~(s[i] <= 127 /\ s[i] > 127)
  <2>1. Between(0, s[i], 255)
    BY ByteIs
  <2> QED BY <2>1, Lengths DEF Between
<1>2. ASSUME NEW k \in 1 .. 4, Encodes(s, i, k)
      PROVE  Decoded(s, i).point = Value(s, i, k) /\ Decoded(s, i).bytes = k
  BY <1>2, OneLength DEF Decoded
<1>3. CASE s[i] <= 127
  <2>1. Encodes(s, i, 1) /\ 1 \in 1 .. 4 /\ Value(s, i, 1) = s[i]
    BY <1>3, OneByte DEF Value
  <2> QED BY <1>1, <1>2, <1>3, <2>1 DEF Taken, Long
<1>4. CASE Long(s, i)
  <2>1. Encodes(s, i, m) /\ m \in 1 .. 4 /\ m > 0 /\ s[i] > 127
    BY <1>1, <1>4, TwoBytes, ThreeBytes, FourBytes DEF Long
  <2> HIDE DEF m
  <2> QED BY <1>1, <1>2, <1>4, <2>1 DEF Taken, m
<1>5. CASE s[i] > 127 /\ ~Long(s, i)
  <2>1. ~(m > 0) /\ m = 0
    BY <1>1, <1>5 DEF Long
  <2>2. \A k \in 1 .. 4 : k = 1 \/ k = 2 \/ k = 3 \/ k = 4
    OBVIOUS
  <2>3. \A k \in 1 .. 4 : ~Encodes(s, i, k)
    BY <1>1, <1>5, <2>1, <2>2, OneByte, TwoBytes, ThreeBytes, FourBytes
  <2> QED BY <1>1, <1>5, <2>1, <2>3 DEF Decoded, Taken
<1> QED BY <1>1, <1>3, <1>4, <1>5

-----------------------------------------------------------------------------
(* What one round appends.                                                 *)
LEMMA LettersAre ==
  /\ DOMAIN Letter = {8, 9, 10, 12, 13, 34, 92}
  /\ Letter[8] = 98 /\ Letter[9] = 116 /\ Letter[10] = 110 /\ Letter[12] = 102
  /\ Letter[13] = 114 /\ Letter[34] = 34 /\ Letter[92] = 92
BY DEF Letter

LEMMA LetterInverse ==
  ASSUME NEW b \in DOMAIN Letter
  PROVE  /\ Letter[b] \in Byte /\ Letter[b] # 117
         /\ (CHOOSE d \in DOMAIN Letter : Letter[d] = Letter[b]) = b
<1>1. \A d \in DOMAIN Letter : Letter[d] = Letter[b] => d = b
  BY LettersAre
<1>2. Letter[b] \in Byte /\ Letter[b] # 117
  BY LettersAre DEF Byte
<1> QED BY <1>1, <1>2

Digit(c) == IF c < 58 THEN c - 48 ELSE c - 87

LEMMA UnicodeEscapeIs ==
  ASSUME NEW unit \in Nat, unit < 65536
  PROVE  LET e == UnicodeEscape(unit)
         IN /\ e \in Seq(Byte) /\ Len(e) = 6
            /\ e[1] = 92 /\ e[2] = 117
            /\ 4096 * Digit(e[3]) + 256 * Digit(e[4]) + 16 * Digit(e[5]) + Digit(e[6]) = unit
<1> DEFINE Hex(d) == IF d < 10 THEN 48 + d ELSE 87 + d
           e == UnicodeEscape(unit)
           a == unit \div 4096
           b == (unit \div 256) % 16
           c == (unit \div 16) % 16
           d == unit % 16
<1>1. /\ a \in 0 .. 15 /\ b \in 0 .. 15 /\ c \in 0 .. 15 /\ d \in 0 .. 15
      /\ unit = 4096 * a + 256 * b + 16 * c + d
  BY SMT
<1>2. \A h \in 0 .. 15 : Hex(h) \in Byte /\ Digit(Hex(h)) = h
  BY DEF Byte, Digit
<1>3. e = <<92, 117, Hex(a), Hex(b), Hex(c), Hex(d)>>
  BY DEF UnicodeEscape
<1> HIDE DEF Hex, a, b, c, d
<1>4. /\ Hex(a) \in Byte /\ Hex(b) \in Byte /\ Hex(c) \in Byte /\ Hex(d) \in Byte
  BY <1>1, <1>2
<1>8. 92 \in Byte /\ 117 \in Byte
  BY DEF Byte
<1>5. /\ e \in Seq(Byte) /\ Len(e) = 6 /\ e[1] = 92 /\ e[2] = 117
      /\ e[3] = Hex(a) /\ e[4] = Hex(b) /\ e[5] = Hex(c) /\ e[6] = Hex(d)
  BY <1>3, <1>4, <1>8
<1>6. /\ Digit(e[3]) = a /\ Digit(e[4]) = b /\ Digit(e[5]) = c /\ Digit(e[6]) = d
  <2>1. Digit(Hex(a)) = a /\ Digit(Hex(b)) = b /\ Digit(Hex(c)) = c /\ Digit(Hex(d)) = d
    BY <1>1, <1>2
  <2> QED BY <1>5, <2>1
<1> HIDE DEF e
<1>7. 4096 * Digit(e[3]) + 256 * Digit(e[4]) + 16 * Digit(e[5]) + Digit(e[6]) = unit
  BY <1>1, <1>6, SMT
<1> QED BY <1>5, <1>7, SMT DEF e

(* The four kinds of rounds.                                               *)
Named(b)   == b \in DOMAIN Letter
Control(b) == b \in (0 .. 31 \cup {127}) \ DOMAIN Letter
Broken(s, i) == s[i] > 127 /\ ~Long(s, i)
Plain(s, i) == ~Named(s[i]) /\ ~Control(s[i]) /\ ~Broken(s, i)

LEMMA SmallBytes ==
  \A b \in Int : /\ Named(b) \/ Control(b) => 0 <= b /\ b <= 127
                 /\ b <= 127 /\ ~Named(b) /\ ~Control(b) => b > 31 \/ b < 0
BY LettersAre, SMT DEF Named, Control

LEMMA EscapeIs ==
  ASSUME NEW s \in Seq(Byte), NEW i \in 1 .. Len(s)
  PROVE  /\ Named(s[i]) => Escape(s, i) = <<92, Letter[s[i]]>>
         /\ Control(s[i]) => Escape(s, i) = UnicodeEscape(s[i])
         /\ Broken(s, i) => Escape(s, i) = UnicodeEscape(Replacement)
         /\ Plain(s, i) => Escape(s, i) = SubSeq(s, i, i + Taken(s, i) - 1)
<1>1. Between(0, s[i], 255) /\ s[i] \in Int
  BY ByteIs DEF Between
<1>2. Broken(s, i) <=> s[i] > 127 /\ Utf8SequenceLength(s, i) = 0
  <2>1. \A m \in {0, 2, 3, 4} : ~(m > 0) <=> m = 0
    OBVIOUS
  <2> QED BY <2>1, Lengths DEF Broken, Long
<1>3. /\ Named(s[i]) => ~Control(s[i]) /\ ~Broken(s, i)
      /\ Control(s[i]) => ~Broken(s, i)
  <2>1. Named(s[i]) \/ Control(s[i]) => ~(s[i] > 127)
    BY <1>1, SmallBytes, SMT
  <2>2. Named(s[i]) => ~Control(s[i])
    BY DEF Named, Control
  <2> QED BY <2>1, <2>2 DEF Broken
<1>4. Escape(s, i) = CASE Named(s[i])   -> <<92, Letter[s[i]]>>
                       [] Control(s[i]) -> UnicodeEscape(s[i])
                       [] Broken(s, i)  -> UnicodeEscape(Replacement)
                       [] OTHER -> SubSeq(s, i, i + Taken(s, i) - 1)
  BY <1>2, Zenon DEF Escape, Named, Control
<1> QED BY <1>3, <1>4 DEF Plain

(* How many bytes a round takes, and what they say.                        *)
LEMMA PlainIs ==
  ASSUME NEW s \in Seq(Byte), NEW i \in 1 .. Len(s), Plain(s, i)
  PROVE  /\ Taken(s, i) \in 1 .. 4 /\ i + Taken(s, i) - 1 <= Len(s)
         /\ Encodes(s, i, Taken(s, i))
         /\ Decoded(s, i).point = Value(s, i, Taken(s, i))
         /\ s[i] > 31 /\ s[i] # 34 /\ s[i] # 92
<1>1. Between(0, s[i], 255) /\ s[i] \in Int /\ 0 <= s[i]
  BY ByteIs DEF Between
<1>2. s[i] # 34 /\ s[i] # 92 /\ s[i] > 31
  BY <1>1, SmallBytes, LettersAre, SMT DEF Plain, Named
<1>3. CASE Long(s, i)
  <2>1. Taken(s, i) = Utf8SequenceLength(s, i)
    BY <1>3 DEF Taken, Long
  <2>2. Taken(s, i) \in 1 .. 4
    BY <1>3, <2>1, Lengths DEF Long
  <2> QED BY <1>2, <1>3, <2>1, <2>2, Lengths, DecodedIs
<1>4. CASE ~Long(s, i)
  <2>1. s[i] <= 127
    BY <1>1, <1>4 DEF Plain, Broken
  <2>2. Taken(s, i) = 1
    BY <1>4 DEF Taken, Long
  <2>3. i + 1 - 1 <= Len(s) /\ 1 \in 1 .. 4
    OBVIOUS
  <2>4. Encodes(s, i, 1) /\ Decoded(s, i).point = s[i] /\ Value(s, i, 1) = s[i]
    BY <2>1, DecodedIs, ValuesAre
  <2> QED BY <1>2, <2>2, <2>3, <2>4, Zenon
<1> QED BY <1>3, <1>4

LEMMA EscapeIsText ==
  ASSUME NEW s \in Seq(Byte), NEW i \in 1 .. Len(s)
  PROVE  Escape(s, i) \in Seq(Byte) /\ Len(Escape(s, i)) > 0
<1>1. CASE Named(s[i])
  <2>1. Letter[s[i]] \in Byte /\ 92 \in Byte
    BY <1>1, LetterInverse DEF Named, Byte
  <2>2. Escape(s, i) = <<92, Letter[s[i]]>>
    BY <1>1, EscapeIs
  <2> QED BY <2>1, <2>2
<1>2. ASSUME NEW unit \in Nat, unit < 65536, Escape(s, i) = UnicodeEscape(unit)
      PROVE  Escape(s, i) \in Seq(Byte) /\ Len(Escape(s, i)) > 0
  <2>1. Escape(s, i) \in Seq(Byte) /\ Len(Escape(s, i)) = 6
    BY <1>2, UnicodeEscapeIs, SMT
  <2> QED BY <2>1
<1>3. CASE Control(s[i])
  <2>1. Between(0, s[i], 255)
    BY ByteIs
  <2>2. s[i] \in Nat /\ s[i] < 65536
    BY <2>1, SMT DEF Between
  <2>3. Escape(s, i) = UnicodeEscape(s[i])
    BY <1>3, EscapeIs
  <2> QED BY <1>2, <2>2, <2>3, SMT
<1>4. CASE Broken(s, i)
  <2>1. Replacement \in Nat /\ Replacement < 65536
    BY SMT DEF Replacement
  <2>2. Escape(s, i) = UnicodeEscape(Replacement)
    BY <1>4, EscapeIs
  <2> QED BY <1>2, <2>1, <2>2, SMT
<1>5. CASE Plain(s, i)
  <2>1. PICK m \in 1 .. 4 : m = Taken(s, i) /\ i + m - 1 <= Len(s)
    BY <1>5, PlainIs
  <2>2. Escape(s, i) = SubSeq(s, i, i + m - 1)
    BY <1>5, <2>1, EscapeIs
  <2>3. SubSeq(s, i, i + m - 1) \in Seq(Byte) /\ Len(SubSeq(s, i, i + m - 1)) = m
    BY <2>1
  <2> QED BY <2>2, <2>3
<1> QED BY <1>1, <1>3, <1>4, <1>5 DEF Plain

-----------------------------------------------------------------------------
(* What the reader makes of it.                                            *)
(* The bytes of a code point mean the same wherever they are.              *)
Agree(s, i, t, q, m) == \A k \in 0 .. m - 1 : t[q + k] = s[i + k]

LEMMA SameBytes ==
  ASSUME NEW s, NEW i \in Nat, NEW t, NEW q \in Nat, NEW m \in 1 .. 4,
         Encodes(s, i, m), q + m - 1 <= Len(t),
         Agree(s, i, t, q, m)
  PROVE  Encodes(t, q, m) /\ Value(t, q, m) = Value(s, i, m)
<1>1. t[q] = s[i] /\ \A k \in 1 .. m - 1 : t[q + k] = s[i + k]
  <2>1. 0 \in 0 .. m - 1 /\ q + 0 = q /\ i + 0 = i /\ \A k \in 1 .. m - 1 : k \in 0 .. m - 1
    OBVIOUS
  <2> QED BY <2>1 DEF Agree
<1>2. Value(t, q, m) = Value(s, i, m)
  <2>1. CASE m = 1
    BY <1>1, <2>1, ValuesAre
  <2>2. CASE m = 2
    <3>1. 1 \in 1 .. m - 1
      BY <2>2
    <3>2. t[q] = s[i] /\ t[q + 1] = s[i + 1]
      BY <1>1, <3>1
    <3> QED BY <2>2, <3>2, ValuesAre
  <2>3. CASE m = 3
    <3>1. 1 \in 1 .. m - 1 /\ 2 \in 1 .. m - 1
      BY <2>3
    <3>2. t[q] = s[i] /\ t[q + 1] = s[i + 1] /\ t[q + 2] = s[i + 2]
      BY <1>1, <3>1
    <3> QED BY <2>3, <3>2, ValuesAre
  <2>4. CASE m = 4
    <3>1. 1 \in 1 .. m - 1 /\ 2 \in 1 .. m - 1 /\ 3 \in 1 .. m - 1
      BY <2>4
    <3>2. t[q] = s[i] /\ t[q + 1] = s[i + 1] /\ t[q + 2] = s[i + 2] /\ t[q + 3] = s[i + 3]
      BY <1>1, <3>1
    <3> QED BY <2>4, <3>2, ValuesAre
  <2> QED BY <2>1, <2>2, <2>3, <2>4
<1> QED BY <1>1, <1>2, Zenon DEF Encodes

(* A named escape.                                                         *)
LEMMA ReadsLetter ==
  ASSUME NEW t, NEW q \in Nat, Len(t) \in Nat, q + 1 <= Len(t), NEW b \in DOMAIN Letter,
         t[q] = 92, t[q + 1] = Letter[b]
  PROVE  Token(t, q) = [point |-> b, bytes |-> 2]
<1>1. q < Len(t) /\ t[q + 1] # 117 /\ NamedBy(t[q + 1]) = b
  BY LetterInverse DEF NamedBy
<1>2. t[q] \in 0 .. 31 \cup {34, 92} /\ \E d \in DOMAIN Letter : Letter[d] = t[q + 1]
  OBVIOUS
<1> QED BY <1>1, <1>2, SMT DEF Token

(* An escape by number.                                                    *)
LEMMA ReadsUnit ==
  ASSUME NEW t, NEW q \in Nat, Len(t) \in Nat, q + 5 <= Len(t), t[q] = 92, t[q + 1] = 117
  PROVE  Token(t, q) = [point |-> 4096 * Digit(t[q + 2]) + 256 * Digit(t[q + 3])
                                    + 16 * Digit(t[q + 4]) + Digit(t[q + 5]), bytes |-> 6]
<1>1. ~\E b \in DOMAIN Letter : Letter[b] = t[q + 1]
  BY LetterInverse
<1>2. t[q] \in 0 .. 31 \cup {34, 92}
  OBVIOUS
<1> QED BY <1>1, <1>2, SMT DEF Token, Digit

(* A code point as it is.                                                  *)
LEMMA ReadsPlain ==
  ASSUME NEW t \in Seq(Byte), NEW q \in 1 .. Len(t), NEW m \in 1 .. 4, Encodes(t, q, m),
         t[q] > 31, t[q] # 34, t[q] # 92
  PROVE  Token(t, q) = [point |-> Value(t, q, m), bytes |-> m]
<1>1. t[q] \notin 0 .. 31 \cup {34, 92} /\ t[q] # 92
  <2>1. \A b \in Int : b > 31 /\ b # 34 /\ b # 92 => b \notin 0 .. 31 \cup {34, 92}
    OBVIOUS
  <2>2. t[q] \in Int
    <3>1. Between(0, t[q], 255)
      BY ByteIs
    <3> QED BY <3>1 DEF Between
  <2> QED BY <2>1, <2>2
<1>2. (\E n \in 1 .. 4 : Encodes(t, q, n)) /\ (CHOOSE n \in 1 .. 4 : Encodes(t, q, n)) = m
  BY OneLength
<1>3. Decoded(t, q) = [point |-> Value(t, q, m), bytes |-> m]
  BY <1>2, Zenon DEF Decoded
<1>4. Token(t, q) = Decoded(t, q)
  BY <1>1, <1>2, SMT DEF Token
<1> QED BY <1>3, <1>4

(* Whatever a round appends is one token, and says what the text says.     *)
Holds(t, q, e) == /\ q + Len(e) - 1 <= Len(t)
                  /\ \A k \in 1 .. Len(e) : t[q + k - 1] = e[k]

LEMMA TokenIs ==
  ASSUME NEW s \in Seq(Byte), NEW i \in 1 .. Len(s), NEW t \in Seq(Byte), NEW q \in 1 .. Len(t),
         Holds(t, q, Escape(s, i))
  PROVE  Token(t, q) = [point |-> Decoded(s, i).point, bytes |-> Len(Escape(s, i))]
<1> DEFINE e == Escape(s, i)
<1>0. q + Len(e) - 1 <= Len(t) /\ \A k \in 1 .. Len(e) : t[q + k - 1] = e[k]
  BY DEF Holds
<1>1. Between(0, s[i], 255)
  BY ByteIs
<1>2. CASE Named(s[i])
  <2>1. e = <<92, Letter[s[i]]>>
    BY <1>2, EscapeIs
  <2>2. Len(e) = 2 /\ e[1] = 92 /\ e[2] = Letter[s[i]]
    BY <2>1
  <2>3. t[q] = 92 /\ t[q + 1] = Letter[s[i]] /\ q + 1 <= Len(t)
    <3>1. 1 \in 1 .. 2 /\ 2 \in 1 .. 2 /\ q + 1 - 1 = q /\ q + 2 - 1 = q + 1
      OBVIOUS
    <3> QED BY <1>0, <2>2, <3>1
  <2>4. Decoded(s, i).point = s[i]
    BY <1>1, <1>2, SmallBytes, DecodedIs, SMT DEF Between
  <2>6. q \in Nat /\ Len(t) \in Nat
    OBVIOUS
  <2>5. Token(t, q) = [point |-> s[i], bytes |-> 2]
    BY <2>6, <1>2, <2>3, ReadsLetter DEF Named
  <2> QED BY <2>2, <2>4, <2>5
<1>3. ASSUME NEW unit \in Nat, unit < 65536, e = UnicodeEscape(unit), Decoded(s, i).point = unit
      PROVE  Token(t, q) = [point |-> Decoded(s, i).point, bytes |-> Len(e)]
  <2>1. /\ Len(e) = 6 /\ e[1] = 92 /\ e[2] = 117
        /\ 4096 * Digit(e[3]) + 256 * Digit(e[4]) + 16 * Digit(e[5]) + Digit(e[6]) = unit
    BY <1>3, UnicodeEscapeIs, SMT
  <2> HIDE DEF e
  <2>2. /\ t[q] = e[1] /\ t[q + 1] = e[2] /\ t[q + 2] = e[3]
        /\ t[q + 3] = e[4] /\ t[q + 4] = e[5] /\ t[q + 5] = e[6] /\ q + 5 <= Len(t)
    <3>1. /\ 1 \in 1 .. 6 /\ 2 \in 1 .. 6 /\ 3 \in 1 .. 6 /\ 4 \in 1 .. 6 /\ 5 \in 1 .. 6 /\ 6 \in 1 .. 6
          /\ q + 1 - 1 = q /\ q + 2 - 1 = q + 1 /\ q + 3 - 1 = q + 2
          /\ q + 4 - 1 = q + 3 /\ q + 5 - 1 = q + 4 /\ q + 6 - 1 = q + 5
      OBVIOUS
    <3> QED BY <1>0, <2>1, <3>1, SMT
  <2>3. Token(t, q) = [point |-> 4096 * Digit(t[q + 2]) + 256 * Digit(t[q + 3])
                                    + 16 * Digit(t[q + 4]) + Digit(t[q + 5]), bytes |-> 6]
    <3>1. q \in Nat /\ Len(t) \in Nat
      OBVIOUS
    <3>2. t[q] = 92 /\ t[q + 1] = 117 /\ q + 5 <= Len(t)
      BY <2>1, <2>2
    <3> QED BY <3>1, <3>2, ReadsUnit, SMT
  <2> QED BY <1>3, <2>1, <2>2, <2>3, SMT
<1>4. CASE Control(s[i])
  <2>1. s[i] \in Nat /\ s[i] < 65536 /\ s[i] <= 127
    BY <1>1, <1>4, SmallBytes, SMT DEF Between
  <2> QED BY <1>3, <1>4, <2>1, EscapeIs, DecodedIs, SMT
<1>5. CASE Broken(s, i)
  <2>1. Replacement \in Nat /\ Replacement < 65536
    BY SMT DEF Replacement
  <2>2. e = UnicodeEscape(Replacement) /\ Decoded(s, i).point = Replacement
    BY <1>5, EscapeIs, DecodedIs DEF Broken
  <2> QED BY <1>3, <2>1, <2>2, SMT
<1>6. CASE Plain(s, i)
  <2>1. PICK m \in 1 .. 4 : /\ m = Taken(s, i) /\ i + m - 1 <= Len(s)
                            /\ Encodes(s, i, m) /\ Decoded(s, i).point = Value(s, i, m)
    BY <1>6, PlainIs
  <2>2. e = SubSeq(s, i, i + m - 1)
    <3>1. e = SubSeq(s, i, i + Taken(s, i) - 1)
      BY <1>6, EscapeIs
    <3> QED BY <2>1, <3>1
  <2>3. /\ Len(SubSeq(s, i, i + m - 1)) = m
        /\ \A k \in 1 .. m : SubSeq(s, i, i + m - 1)[k] = s[i + k - 1]
    BY <2>1, SMTT(30)
  <2>4. Len(e) = m /\ \A k \in 1 .. m : t[q + k - 1] = s[i + k - 1]
    BY <1>0, <2>2, <2>3
  <2>5. \A k \in 0 .. m - 1 : t[q + k] = s[i + k]
    <3> TAKE k \in 0 .. m - 1
    <3>1. k + 1 \in 1 .. m /\ q + (k + 1) - 1 = q + k /\ i + (k + 1) - 1 = i + k
      OBVIOUS
    <3> QED BY <2>4, <3>1
  <2>6. Encodes(t, q, m) /\ Value(t, q, m) = Value(s, i, m)
    <3>1. i \in Nat /\ q \in Nat /\ q + m - 1 <= Len(t)
      BY <1>0, <2>4
    <3>2. Agree(s, i, t, q, m)
      BY <2>5 DEF Agree
    <3>3. Encodes(s, i, m) /\ m \in 1 .. 4
      BY <2>1
    <3> QED BY <3>1, <3>2, <3>3, SameBytes
  <2>7. t[q] = s[i]
    <3>1. 0 \in 0 .. m - 1 /\ q + 0 = q /\ i + 0 = i
      OBVIOUS
    <3> QED BY <2>5, <3>1
  <2>8. t[q] > 31 /\ t[q] # 34 /\ t[q] # 92
    BY <1>6, <2>7, PlainIs
  <2>9. Token(t, q) = [point |-> Value(t, q, m), bytes |-> m]
    BY <2>6, <2>8, ReadsPlain
  <2> QED BY <2>1, <2>4, <2>6, <2>9
<1> QED BY <1>2, <1>4, <1>5, <1>6 DEF Plain

-----------------------------------------------------------------------------
(* The three loops: what each yields from a byte on.                       *)
EscapedFrom(s) ==
  Rounds(Len(s), [i \in 1 .. Len(s) |-> Escape(s, i)], [i \in 1 .. Len(s) |-> Taken(s, i)])
PointsFrom(s) ==
  Rounds(Len(s), [i \in 1 .. Len(s) |-> <<Decoded(s, i).point>>],
                 [i \in 1 .. Len(s) |-> Decoded(s, i).bytes])
ReadFrom(s) ==
  Rounds(Len(s), [i \in 1 .. Len(s) |-> <<Token(s, i).point>>],
                 [i \in 1 .. Len(s) |-> Token(s, i).bytes])

LEMMA TakenAdvances ==
  ASSUME NEW s \in Seq(Byte), NEW i \in 1 .. Len(s)
  PROVE  Taken(s, i) \in 1 .. Len(s) + 1 - i
<1>1. CASE Long(s, i)
  <2>1. PICK m \in {0, 2, 3, 4} : m = Utf8SequenceLength(s, i) /\ i + m - 1 <= Len(s) /\ m > 0
    BY <1>1, Lengths DEF Long
  <2>2. Taken(s, i) = m
    BY <1>1, <2>1 DEF Taken, Long
  <2> QED BY <2>1, <2>2
<1>2. CASE ~Long(s, i)
  BY <1>2 DEF Taken, Long
<1> QED BY <1>1, <1>2

LEMMA TokenAdvances ==
  ASSUME NEW t \in Seq(Byte), NEW q \in 1 .. Len(t)
  PROVE  Token(t, q).bytes \in 1 .. Len(t) + 1 - q
<1>1. \/ q + 5 <= Len(t) /\ Token(t, q).bytes = 6
      \/ q < Len(t) /\ Token(t, q).bytes = 2
      \/ Token(t, q).bytes = Decoded(t, q).bytes
      \/ Token(t, q).bytes = Len(t) + 1 - q
  BY SMT DEF Token
<1>2. Decoded(t, q).bytes \in 1 .. Len(t) + 1 - q
  BY DecodedIs, TakenAdvances
<1>3. PICK b : b = Token(t, q).bytes
  OBVIOUS
<1> QED BY <1>1, <1>2

LEMMA EscapedUnfolds ==
  ASSUME NEW s \in Seq(Byte)
  PROVE  /\ EscapedFrom(s)[Len(s) + 1] = <<>>
         /\ \A i \in 1 .. Len(s) :
              EscapedFrom(s)[i] = Escape(s, i) \o EscapedFrom(s)[i + Taken(s, i)]
<1> DEFINE len == Len(s)
           share == [i \in 1 .. len |-> Escape(s, i)]
           bytes == [i \in 1 .. len |-> Taken(s, i)]
<1>1. len \in Nat /\ Advances(len, bytes)
  BY TakenAdvances DEF Advances
<1>2. EscapedFrom(s) = Rounds(len, share, bytes)
  BY DEF EscapedFrom
<1>3. \A i \in 1 .. len : share[i] = Escape(s, i) /\ bytes[i] = Taken(s, i)
  OBVIOUS
<1> HIDE DEF len, share, bytes
<1>4. Unfolded(len, share, bytes, Rounds(len, share, bytes))
  BY <1>1, RoundsUnfold
<1> QED BY <1>2, <1>3, <1>4, Zenon DEF len, Unfolded

LEMMA PointsUnfold ==
  ASSUME NEW s \in Seq(Byte)
  PROVE  /\ PointsFrom(s)[Len(s) + 1] = <<>>
         /\ \A i \in 1 .. Len(s) :
              PointsFrom(s)[i] = <<Decoded(s, i).point>> \o PointsFrom(s)[i + Taken(s, i)]
<1> DEFINE len == Len(s)
           share == [i \in 1 .. len |-> <<Decoded(s, i).point>>]
           bytes == [i \in 1 .. len |-> Decoded(s, i).bytes]
<1>1. len \in Nat /\ Advances(len, bytes)
  BY TakenAdvances, DecodedIs DEF Advances
<1>2. PointsFrom(s) = Rounds(len, share, bytes)
  BY DEF PointsFrom
<1>3. \A i \in 1 .. len : share[i] = <<Decoded(s, i).point>> /\ bytes[i] = Taken(s, i)
  BY DecodedIs
<1> HIDE DEF len, share, bytes
<1>4. Unfolded(len, share, bytes, Rounds(len, share, bytes))
  BY <1>1, RoundsUnfold
<1> QED BY <1>2, <1>3, <1>4, Zenon DEF len, Unfolded

LEMMA ReadUnfolds ==
  ASSUME NEW t \in Seq(Byte)
  PROVE  /\ ReadFrom(t)[Len(t) + 1] = <<>>
         /\ \A q \in 1 .. Len(t) :
              ReadFrom(t)[q] = <<Token(t, q).point>> \o ReadFrom(t)[q + Token(t, q).bytes]
<1> DEFINE len == Len(t)
           share == [i \in 1 .. len |-> <<Token(t, i).point>>]
           bytes == [i \in 1 .. len |-> Token(t, i).bytes]
<1>1. len \in Nat /\ Advances(len, bytes)
  BY TokenAdvances DEF Advances
<1>2. ReadFrom(t) = Rounds(len, share, bytes)
  BY DEF ReadFrom
<1>3. \A i \in 1 .. len : share[i] = <<Token(t, i).point>> /\ bytes[i] = Token(t, i).bytes
  OBVIOUS
<1> HIDE DEF len, share, bytes
<1>4. Unfolded(len, share, bytes, Rounds(len, share, bytes))
  BY <1>1, RoundsUnfold
<1> QED BY <1>2, <1>3, <1>4, Zenon DEF len, Unfolded

(* From byte i on the escaped text is read as the points of the text from  *)
(* byte i on, whatever was written before it.                              *)
ReadsBack(s, i) ==
  /\ EscapedFrom(s)[i] \in Seq(Byte)
  /\ \A before \in Seq(Byte) :
       ReadFrom(before \o EscapedFrom(s)[i])[Len(before) + 1] = PointsFrom(s)[i]

LEMMA ReadsBackAtEnd ==
  ASSUME NEW s \in Seq(Byte)
  PROVE  ReadsBack(s, Len(s) + 1)
<1>1. EscapedFrom(s)[Len(s) + 1] = <<>> /\ PointsFrom(s)[Len(s) + 1] = <<>>
  BY EscapedUnfolds, PointsUnfold
<1>2. \A before \in Seq(Byte) : before \o <<>> = before /\ ReadFrom(before)[Len(before) + 1] = <<>>
  BY ReadUnfolds
<1>3. <<>> \in Seq(Byte)
  OBVIOUS
<1> QED BY <1>1, <1>2, <1>3, Zenon DEF ReadsBack

LEMMA ReadsBackBefore ==
  ASSUME NEW s \in Seq(Byte), NEW i \in 1 .. Len(s), ReadsBack(s, i + Taken(s, i))
  PROVE  ReadsBack(s, i)
<1> DEFINE e == Escape(s, i)
           rest == EscapedFrom(s)[i + Taken(s, i)]
<1>1. EscapedFrom(s)[i] = e \o rest
  BY EscapedUnfolds
<1>2. e \in Seq(Byte) /\ Len(e) > 0 /\ rest \in Seq(Byte)
  BY EscapeIsText DEF ReadsBack
<1> HIDE DEF e, rest
<1>3. ASSUME NEW before \in Seq(Byte)
      PROVE  ReadFrom(before \o (e \o rest))[Len(before) + 1] = PointsFrom(s)[i]
  <2> DEFINE t == before \o (e \o rest)
             q == Len(before) + 1
  <2>1. t = (before \o e) \o rest /\ before \o e \in Seq(Byte) /\ t \in Seq(Byte)
    BY <1>2
  <2>2. /\ q \in 1 .. Len(t) /\ q + Len(e) - 1 <= Len(t) /\ Len(before \o e) + 1 = q + Len(e)
        /\ \A k \in 1 .. Len(e) : t[q + k - 1] = e[k]
    BY <1>2
  <2> HIDE DEF t, q
  <2>3. Token(t, q) = [point |-> Decoded(s, i).point, bytes |-> Len(e)]
    <3>1. Holds(t, q, e)
      BY <2>2 DEF Holds
    <3>2. t \in Seq(Byte) /\ q \in 1 .. Len(t) /\ Holds(t, q, Escape(s, i))
      BY <2>1, <2>2, <3>1 DEF e
    <3>3. Token(t, q) = [point |-> Decoded(s, i).point, bytes |-> Len(Escape(s, i))]
      BY <3>2, TokenIs
    <3> QED BY <3>3 DEF e
  <2>4. ReadFrom(t)[q] = <<Decoded(s, i).point>> \o ReadFrom(t)[q + Len(e)]
    <3>1. ReadFrom(t)[q] = <<Token(t, q).point>> \o ReadFrom(t)[q + Token(t, q).bytes]
      BY <2>1, <2>2, ReadUnfolds
    <3>2. Token(t, q).point = Decoded(s, i).point /\ Token(t, q).bytes = Len(e)
      BY <2>3
    <3> QED BY <3>1, <3>2
  <2>5. ReadFrom(t)[q + Len(e)] = PointsFrom(s)[i + Taken(s, i)]
    BY <2>1, <2>2, Zenon DEF ReadsBack, rest
  <2>6. PointsFrom(s)[i] = <<Decoded(s, i).point>> \o PointsFrom(s)[i + Taken(s, i)]
    BY PointsUnfold
  <2> QED BY <2>4, <2>5, <2>6 DEF t, q
<1>4. e \o rest \in Seq(Byte)
  BY <1>2
<1> QED BY <1>1, <1>3, <1>4 DEF ReadsBack

LEMMA ReadsBackEverywhere ==
  ASSUME NEW s \in Seq(Byte)
  PROVE  \A i \in 1 .. Len(s) + 1 : ReadsBack(s, i)
<1>1. PICK n \in Nat : n = Len(s)
  OBVIOUS
<1> DEFINE G == {m \in Nat : m <= n => \A i \in n + 1 - m .. n + 1 : ReadsBack(s, i)}
<1>2. 0 \in G
  <2>1. \A i \in n + 1 - 0 .. n + 1 : i = n + 1
    OBVIOUS
  <2> QED BY <1>1, <2>1, ReadsBackAtEnd
<1>3. ASSUME NEW m \in Nat, m \in G PROVE m + 1 \in G
  <2> SUFFICES ASSUME m + 1 <= n, NEW i \in n + 1 - (m + 1) .. n + 1 PROVE ReadsBack(s, i)
    OBVIOUS
  <2>1. \A j \in n + 1 - m .. n + 1 : ReadsBack(s, j)
    BY <1>3
  <2>2. CASE i \in n + 1 - m .. n + 1
    BY <2>1, <2>2
  <2>3. CASE i \notin n + 1 - m .. n + 1
    <3>1. i = n - m /\ i \in 1 .. n
      BY <2>3
    <3>2. Taken(s, i) \in 1 .. n + 1 - i
      BY <1>1, <3>1, TakenAdvances
    <3>3. i + Taken(s, i) \in n + 1 - m .. n + 1
      BY <3>1, <3>2
    <3> QED BY <1>1, <2>1, <3>1, <3>3, ReadsBackBefore
  <2> QED BY <2>2, <2>3
<1> HIDE DEF G
<1>4. n \in G
  BY <1>2, <1>3, AllNumbers
<1>5. n + 1 - n = 1
  BY <1>1
<1> QED BY <1>1, <1>4, <1>5 DEF G

(* Whatever the text, what appendJsonEscaped appends for it is read as it. *)
LEMMA EscapeIsFaithful ==
  ASSUME NEW s \in Seq(Byte)
  PROVE  ReadJson(AppendJsonEscaped(s)) = CodePoints(s)
<1>1. ReadsBack(s, 1)
  <2>1. 1 \in 1 .. Len(s) + 1
    OBVIOUS
  <2> QED BY <2>1, ReadsBackEverywhere
<1>2. AppendJsonEscaped(s) = EscapedFrom(s)[1] /\ CodePoints(s) = PointsFrom(s)[1]
  BY DEF AppendJsonEscaped, EscapedFrom, CodePoints, PointsFrom
<1>3. \A t : ReadJson(t) = ReadFrom(t)[1]
  BY DEF ReadJson, ReadFrom
<1>4. PICK o \in Seq(Byte) : o = EscapedFrom(s)[1]
  BY <1>1 DEF ReadsBack
<1>5. <<>> \o o = o /\ Len(<<>>) + 1 = 1 /\ <<>> \in Seq(Byte)
  OBVIOUS
<1>6. ReadFrom(o)[1] = PointsFrom(s)[1]
  BY <1>1, <1>4, <1>5 DEF ReadsBack
<1> QED BY <1>2, <1>3, <1>4, <1>6

-----------------------------------------------------------------------------
TypeInv == in \in Seq(SomeBytes) /\ out = AppendJsonEscaped(in)

LEMMA InitType == EscapeInit => TypeInv
<1> SUFFICES ASSUME EscapeInit PROVE TypeInv
  OBVIOUS
<1>1. in = <<>> /\ out = <<>>
  BY DEF EscapeInit
<1>2. <<>> \in Seq(Byte) /\ Len(<<>>) + 1 = 1 /\ <<>> \in Seq(SomeBytes)
  OBVIOUS
<1>3. AppendJsonEscaped(<<>>) = EscapedFrom(<<>>)[1]
  BY DEF AppendJsonEscaped, EscapedFrom
<1>4. AppendJsonEscaped(<<>>) = <<>>
  BY <1>2, <1>3, EscapedUnfolds
<1> QED BY <1>1, <1>2, <1>4 DEF TypeInv

LEMMA StepType == TypeInv /\ [EscapeNext]_<<in, out>> => TypeInv'
BY DEF TypeInv, EscapeNext

(* EscapedTextIsFaithful, JsonEscape.cpp:65-100: for every text over any   *)
(* bytes and of any length, what is appended for it is the body of a valid *)
(* JSON string that a reader takes back to the text.                       *)
THEOREM EscapedTextTheorem == EscapeSpec => []EscapedTextIsFaithful
<1>1. TypeInv => EscapedTextIsFaithful
  <2> SUFFICES ASSUME TypeInv PROVE EscapedTextIsFaithful
    OBVIOUS
  <2>1. in \in Seq(Byte)
    <3>1. SomeBytes \subseteq Byte
      BY EscapeConstants, Zenon DEF Byte
    <3> QED BY <3>1 DEF TypeInv
  <2> QED BY <2>1, EscapeIsFaithful DEF TypeInv, EscapedTextIsFaithful
<1> QED BY <1>1, InitType, StepType, PTL DEF EscapeSpec
=============================================================================
