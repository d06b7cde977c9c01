------------------------ MODULE RequestReaderProofs ------------------------
(***************************************************************************)
(* Proofs about RequestReader: the cuts between chunks do not change the   *)
(* verdict, and the buffer is bounded.                                     *)
(***************************************************************************)
EXTENDS RequestReader, SequenceTheorems, WellFoundedInduction, TLAPS

-----------------------------------------------------------------------------
(* Numbers have least elements, which Min returns.                         *)
LEMMA Least ==
  ASSUME NEW S \in SUBSET Nat, S # {}
  PROVE  \E m \in S : \A k \in S : m <= k
<1>1. IsWellFoundedOn(OpToRel(<, Nat), Nat)
  BY NatLessThanWellFounded
<1> DEFINE R == {p \in Nat \X Nat : p[1] < p[2]}
<1>2. IsWellFoundedOn(R, Nat)
  BY <1>1 DEF OpToRel
<1>3. PICK m \in S : \A k \in S : ~(<<k, m>> \in R)
  <2> HIDE DEF R
  <2> QED BY <1>2, WFMin
<1>4. ASSUME NEW k \in S PROVE ~(k < m) /\ k \in Nat /\ m \in Nat
  <2>1. k \in Nat /\ m \in Nat /\ <<k, m>> \in Nat \X Nat /\ <<k, m>>[1] = k /\ <<k, m>>[2] = m
    OBVIOUS
  <2>2. k < m => <<k, m>> \in R
    BY <2>1
  <2> QED BY <1>3, <2>1, <2>2
<1> HIDE DEF R
<1>5. \A k \in S : m <= k
  BY <1>4
<1> QED BY <1>5

LEMMA MinIsLeast ==
  ASSUME NEW S \in SUBSET Nat, S # {}
  PROVE  Min(S) \in S /\ Min(S) \in Nat /\ \A k \in S : Min(S) <= k
<1>1. \E m \in S : \A k \in S : m <= k
  BY Least
<1>2. Min(S) \in S /\ \A k \in S : Min(S) <= k
  BY <1>1 DEF Min
<1> QED BY <1>2

LEMMA MinIs ==
  ASSUME NEW S \in SUBSET Nat, NEW m \in S, \A k \in S : m <= k
  PROVE  Min(S) = m
<1>1. Min(S) \in S /\ Min(S) \in Nat /\ Min(S) <= m
  BY MinIsLeast
<1>2. m <= Min(S) /\ m \in Nat
  BY <1>1
<1> QED BY <1>1, <1>2

-----------------------------------------------------------------------------
(* Where a text occurs does not change when more follows.                  *)
LEMMA Texts ==
  /\ CRLF \in Seq(Bytes) /\ Len(CRLF) = 2
  /\ HeaderEnd \in Seq(Bytes) /\ Len(HeaderEnd) = 4
BY DEF CRLF, HeaderEnd, Bytes

LEMMA OccursNat ==
  ASSUME NEW s \in Seq(Bytes), NEW text \in Seq(Bytes), NEW from \in Nat
  PROVE  /\ Occurs(text, s, from) \in SUBSET Nat
         /\ \A i \in Occurs(text, s, from) : from <= i /\ i + Len(text) <= Len(s)
<1>1. Len(s) \in Nat /\ Len(text) \in Nat
  BY LenProperties
<1> QED BY <1>1 DEF Occurs

LEMMA OccursFrom ==
  ASSUME NEW s \in Seq(Bytes), NEW text \in Seq(Bytes), NEW from \in Nat, NEW i \in Nat
  PROVE  i \in Occurs(text, s, from) <=> from <= i /\ i \in Occurs(text, s, 0)
<1>1. Len(s) \in Nat /\ Len(text) \in Nat
  BY LenProperties
<1>2. i \in from .. Len(s) - Len(text) <=> from <= i /\ i \in 0 .. Len(s) - Len(text)
  BY <1>1
<1> QED BY <1>2 DEF Occurs

LEMMA OccursInFront ==
  ASSUME NEW s \in Seq(Bytes), NEW t \in Seq(Bytes),
         NEW text \in Seq(Bytes), Len(text) > 0, NEW i \in Nat
  PROVE  i \in Occurs(text, s, 0) <=> i \in Occurs(text, s \o t, 0) /\ i + Len(text) <= Len(s)
<1>1. PICK n \in Nat, k \in Nat, l \in Nat :
        n = Len(s) /\ k = Len(t) /\ l = Len(text) /\ l > 0 /\ Len(s \o t) = n + k
  BY LenProperties, ConcatProperties
<1>2. CASE i + l <= n
  <2>1. i + 1 \in 1 .. n /\ i + l \in 1 .. n
    BY <1>1, <1>2
  <2>2. SubSeq(s \o t, i + 1, i + l) = SubSeq(s, i + 1, i + l)
    BY <1>1, <2>1, SubSeqOfConcat1
  <2>3. i \in 0 .. n - l /\ i \in 0 .. n + k - l
    BY <1>1, <1>2
  <2> QED BY <1>1, <1>2, <2>2, <2>3 DEF Occurs
<1>3. CASE ~(i + l <= n)
  <2>1. i \notin 0 .. n - l
    BY <1>1, <1>3
  <2> QED BY <1>1, <1>3, <2>1 DEF Occurs
<1> QED BY <1>2, <1>3

LEMMA FirstStays ==
  ASSUME NEW s \in Seq(Bytes), NEW t \in Seq(Bytes),
         NEW text \in Seq(Bytes), Len(text) > 0, Occurs(text, s, 0) # {}
  PROVE  /\ Occurs(text, s \o t, 0) # {}
         /\ Min(Occurs(text, s \o t, 0)) = Min(Occurs(text, s, 0))
<1> DEFINE A == Occurs(text, s, 0)
           B == Occurs(text, s \o t, 0)
           m == Min(A)
<1>1. s \o t \in Seq(Bytes) /\ Len(s) \in Nat /\ Len(text) \in Nat
  BY ConcatProperties, LenProperties
<1>2. A \in SUBSET Nat /\ B \in SUBSET Nat /\ \A i \in A : i + Len(text) <= Len(s)
  BY <1>1, OccursNat
<1>3. m \in A /\ m \in Nat /\ \A k \in A : m <= k
  BY <1>2, MinIsLeast
<1>4. \A i \in Nat : i \in A <=> i \in B /\ i + Len(text) <= Len(s)
  BY OccursInFront
<1> HIDE DEF A, B, m
<1>5. m \in B
  BY <1>3, <1>4
<1>6. ASSUME NEW k \in B PROVE m <= k
  <2>1. k \in Nat /\ m + Len(text) <= Len(s)
    BY <1>2, <1>3
  <2>2. CASE k \in A
    BY <1>3, <2>2
  <2>3. CASE k \notin A
    <3>1. ~(k + Len(text) <= Len(s))
      BY <1>4, <2>1, <2>3
    <3> QED BY <1>1, <1>3, <2>1, <3>1
  <2> QED BY <2>2, <2>3
<1>7. Min(B) = m
  BY <1>2, <1>5, <1>6, MinIs
<1> QED BY <1>5, <1>7 DEF A, B, m

(* The end of the header section holds the end of a line.                  *)
LEMMA EndHasLineEnd ==
  ASSUME NEW s \in Seq(Bytes), NEW i \in Occurs(HeaderEnd, s, 0)
  PROVE  i \in Occurs(CRLF, s, 0)
<1>1. PICK n \in Nat : n = Len(s)
  BY LenProperties
<1>2. i \in Nat /\ i + 4 <= n /\ SubSeq(s, i + 1, i + 4) = HeaderEnd
  BY <1>1, Texts DEF Occurs
<1>3. \A j \in 1 .. n : s[j] \in Bytes
  BY <1>1
<1>4. \A j \in 1 .. 4 : SubSeq(s, i + 1, i + 4)[j] = s[i + j]
  <2>1. \A j \in i + 1 .. i + 4 : s[j] \in Bytes
    BY <1>2, <1>3
  <2>2. \A j \in 1 .. i + 4 - (i + 1) + 1 : SubSeq(s, i + 1, i + 4)[j] = s[i + 1 + j - 1]
    BY <1>2, <2>1, SubSeqProperties
  <2>3. i + 4 - (i + 1) + 1 = 4 /\ \A j \in 1 .. 4 : i + 1 + j - 1 = i + j
    BY <1>2
  <2> QED BY <2>2, <2>3
<1>5. HeaderEnd[1] = "CR" /\ HeaderEnd[2] = "LF"
  BY DEF HeaderEnd, CRLF
<1>6. s[i + 1] = "CR" /\ s[i + 2] = "LF"
  BY <1>2, <1>4, <1>5
<1>7. SubSeq(s, i + 1, i + 2) = CRLF
  <2>1. \A j \in i + 1 .. i + 2 : s[j] \in Bytes
    BY <1>2, <1>3
  <2>2. /\ SubSeq(s, i + 1, i + 2) \in Seq(Bytes)
        /\ Len(SubSeq(s, i + 1, i + 2)) = IF i + 1 <= i + 2 THEN i + 2 - (i + 1) + 1 ELSE 0
        /\ \A j \in 1 .. i + 2 - (i + 1) + 1 : SubSeq(s, i + 1, i + 2)[j] = s[i + 1 + j - 1]
    BY <1>2, <2>1, SubSeqProperties
  <2>3. i + 1 <= i + 2 /\ i + 2 - (i + 1) + 1 = 2 /\ i + 1 + 1 - 1 = i + 1 /\ i + 1 + 2 - 1 = i + 2
    BY <1>2
  <2> DEFINE q == SubSeq(s, i + 1, i + 2)
  <2> HIDE DEF q
  <2>4. q \in Seq(Bytes) /\ Len(q) = 2 /\ q[1] = "CR" /\ q[2] = "LF"
    <3>1. q \in Seq(Bytes) /\ Len(q) = 2 /\ \A j \in 1 .. 2 : q[j] = s[i + 1 + j - 1]
      BY <2>2, <2>3 DEF q
    <3>2. 1 \in 1 .. 2 /\ 2 \in 1 .. 2
      OBVIOUS
    <3>3. q[1] = s[i + 1 + 1 - 1] /\ q[2] = s[i + 1 + 2 - 1]
      BY <3>1, <3>2
    <3> QED BY <1>6, <2>3, <3>1, <3>3
  <2>5. CRLF[1] = "CR" /\ CRLF[2] = "LF"
    BY DEF CRLF
  <2>6. \A j \in 1 .. Len(q) : q[j] = CRLF[j]
    BY <2>4, <2>5
  <2>7. q = CRLF
    BY <2>4, <2>6, Texts, SeqEqual
  <2> QED BY <2>7 DEF q
<1>8. i \in 0 .. n - 2
  BY <1>2
<1> QED BY <1>1, <1>7, <1>8, Texts DEF Occurs

-----------------------------------------------------------------------------
(* What has been said of a stream holds for what it goes on with.          *)
Right(v, whole) == whole = v \/ (v = "414" /\ whole \in {"431", "waiting"})

Known == malformed \in BOOLEAN /\ contentLength \in Nat

HeaderEnds(s) == Occurs(HeaderEnd, s, 0)
LineEnds(s)   == Occurs(CRLF, s, 0)

LEMMA EndsAreNumbers ==
  ASSUME NEW s \in Seq(Bytes)
  PROVE  /\ HeaderEnds(s) \in SUBSET Nat /\ LineEnds(s) \in SUBSET Nat
         /\ \A i \in HeaderEnds(s) : i + 4 <= Len(s) /\ i \in LineEnds(s)
         /\ HeaderEnds(s) # {} => Min(HeaderEnds(s)) \in HeaderEnds(s) /\ Min(HeaderEnds(s)) \in Nat
         /\ LineEnds(s) # {} => Min(LineEnds(s)) \in LineEnds(s) /\ Min(LineEnds(s)) \in Nat
<1>1. HeaderEnds(s) \in SUBSET Nat /\ LineEnds(s) \in SUBSET Nat
      /\ \A i \in HeaderEnds(s) : i + 4 <= Len(s)
  BY Texts, OccursNat DEF HeaderEnds, LineEnds
<1>2. \A i \in HeaderEnds(s) : i \in LineEnds(s)
  BY EndHasLineEnd DEF HeaderEnds, LineEnds
<1> QED BY <1>1, <1>2, MinIsLeast

LEMMA EndsStay ==
  ASSUME NEW s \in Seq(Bytes), NEW t \in Seq(Bytes)
  PROVE  /\ HeaderEnds(s) # {} => /\ HeaderEnds(s \o t) # {}
                                  /\ Min(HeaderEnds(s \o t)) = Min(HeaderEnds(s))
         /\ LineEnds(s) # {} => /\ LineEnds(s \o t) # {}
                                /\ Min(LineEnds(s \o t)) = Min(LineEnds(s))
         /\ \A i \in HeaderEnds(s \o t) : i \in HeaderEnds(s) \/ i + 4 > Len(s)
         /\ \A i \in LineEnds(s \o t) : i \in LineEnds(s) \/ i + 2 > Len(s)
<1>1. Len(CRLF) > 0 /\ Len(HeaderEnd) > 0
  BY Texts
<1>2. /\ HeaderEnds(s) # {} => /\ HeaderEnds(s \o t) # {}
                               /\ Min(HeaderEnds(s \o t)) = Min(HeaderEnds(s))
      /\ LineEnds(s) # {} => /\ LineEnds(s \o t) # {}
                             /\ Min(LineEnds(s \o t)) = Min(LineEnds(s))
  BY <1>1, Texts, FirstStays DEF HeaderEnds, LineEnds
<1>3. s \o t \in Seq(Bytes) /\ Len(s) \in Nat
  BY ConcatProperties, LenProperties
<1>4. \A i \in HeaderEnds(s \o t) : i \in Nat
  BY <1>3, EndsAreNumbers
<1>5. \A i \in LineEnds(s \o t) : i \in Nat
  BY <1>3, EndsAreNumbers
<1>6. \A i \in Nat : i \in HeaderEnds(s) <=> i \in HeaderEnds(s \o t) /\ i + 4 <= Len(s)
  BY <1>1, Texts, OccursInFront DEF HeaderEnds
<1>7. \A i \in Nat : i \in LineEnds(s) <=> i \in LineEnds(s \o t) /\ i + 2 <= Len(s)
  BY <1>1, Texts, OccursInFront DEF LineEnds
<1>8. \A i \in Nat : ~(i + 4 <= Len(s)) => i + 4 > Len(s)
  BY <1>3
<1>9. \A i \in Nat : ~(i + 2 <= Len(s)) => i + 2 > Len(s)
  BY <1>3
<1> QED BY <1>2, <1>4, <1>5, <1>6, <1>7, <1>8, <1>9

(* A section judged once more with what follows it.                        *)
LEMMA ParsedStays ==
  ASSUME Known, NEW s \in Seq(Bytes), NEW t \in Seq(Bytes), HeaderEnds(s) # {}
  PROVE  /\ HeaderEnds(s \o t) # {} /\ RequestBytes(s \o t) = RequestBytes(s)
         /\ Parsed(s) # "waiting" => Parsed(s \o t) = Parsed(s)
         /\ Parsed(s) = "waiting" =>
              Parsed(s \o t) = IF Len(s \o t) < RequestBytes(s) THEN "waiting" ELSE "accepted"
<1>1. /\ HeaderEnds(s \o t) # {} /\ Min(HeaderEnds(s \o t)) = Min(HeaderEnds(s))
      /\ Min(HeaderEnds(s)) \in Nat
  BY EndsStay, EndsAreNumbers
<1>2. LineEnds(s) # {}
  BY EndsAreNumbers
<1>3. Min(LineEnds(s \o t)) = Min(LineEnds(s)) /\ Min(LineEnds(s)) \in Nat
  BY <1>2, EndsStay, EndsAreNumbers
<1>4. RequestBytes(s \o t) = RequestBytes(s) /\ RequestBytes(s) \in Nat
  BY <1>1 DEF RequestBytes, HeaderEnds, Known
<1>5. Len(s) <= Len(s \o t) /\ Len(s) \in Nat /\ Len(s \o t) \in Nat
  <2>1. Len(s) \in Nat /\ Len(t) \in Nat /\ Len(s \o t) = Len(s) + Len(t)
    BY LenProperties, ConcatProperties
  <2> QED BY <2>1
<1>6. ~(Len(s) < RequestBytes(s)) => ~(Len(s \o t) < RequestBytes(s))
  BY <1>4, <1>5
<1>7. /\ Min(Occurs(HeaderEnd, s \o t, 0)) = Min(Occurs(HeaderEnd, s, 0))
      /\ Min(Occurs(CRLF, s \o t, 0)) = Min(Occurs(CRLF, s, 0))
  BY <1>1, <1>3 DEF HeaderEnds, LineEnds
<1> QED BY <1>1, <1>4, <1>6, <1>7 DEF Parsed

LEMMA WaitingIsShort ==
  ASSUME Known, NEW s \in Seq(Bytes), HeaderEnds(s) # {}, Parsed(s) = "waiting"
  PROVE  /\ Len(s) < RequestBytes(s) /\ RequestBytes(s) \in Nat
         /\ RequestBytes(s) <= kMaxHeaderSectionLength + kMaxBodyLength
<1>1. Min(HeaderEnds(s)) \in Nat /\ kMaxHeaderSectionLength \in Nat /\ kMaxBodyLength \in Nat
  BY EndsAreNumbers, ReaderConstants
<1>2. /\ ~(Min(HeaderEnds(s)) + 4 > kMaxHeaderSectionLength) /\ ~(contentLength > kMaxBodyLength)
      /\ Len(s) < RequestBytes(s)
  BY DEF Parsed, HeaderEnds
<1> QED BY <1>1, <1>2 DEF Known, RequestBytes, HeaderEnds

(* What is told of an unfinished section, with the streams that follow.    *)
LEMMA UnfinishedStays ==
  ASSUME Known, NEW s \in Seq(Bytes), NEW t \in Seq(Bytes),
         HeaderEnds(s) = {}, Unfinished(s) # "waiting"
  PROVE  Right(Unfinished(s), Whole(s \o t))
<1> DEFINE u == s \o t
<1>1. PICK n \in Nat, k \in Nat : n = Len(s) /\ Len(u) = k /\ n <= k /\ u \in Seq(Bytes)
  <2>1. Len(s) \in Nat /\ Len(t) \in Nat /\ Len(u) = Len(s) + Len(t) /\ u \in Seq(Bytes)
    BY LenProperties, ConcatProperties
  <2> QED BY <2>1
<1> DEFINE L == kMaxRequestLineLength
           H == kMaxHeaderSectionLength
<1>2. L \in Nat /\ H \in Nat /\ L + 2 < H
  BY ReaderConstants
<1>3. \A i \in HeaderEnds(u) : i \in Nat /\ i + 4 > n
  BY <1>1, EndsStay, EndsAreNumbers
<1>4. /\ HeaderEnds(u) # {} => /\ Min(HeaderEnds(u)) \in HeaderEnds(u)
                               /\ Min(HeaderEnds(u)) \in LineEnds(u)
      /\ LineEnds(u) # {} => Min(LineEnds(u)) \in LineEnds(u) /\ Min(LineEnds(u)) \in Nat
  BY <1>1, EndsAreNumbers
<1>5. LineEnds(s) = {} => \A i \in LineEnds(u) : i \in Nat /\ i + 2 > n
  BY <1>1, EndsStay, EndsAreNumbers
<1>6. LineEnds(s) # {} => LineEnds(u) # {}
  BY <1>1, EndsStay
<1> DEFINE h == Min(HeaderEnds(u))
           l == Min(LineEnds(u))
<1>7. /\ Whole(u) = IF HeaderEnds(u) # {} THEN Parsed(u) ELSE Unfinished(u)
      /\ h + 4 > H => Parsed(u) = "431"
      /\ ~(h + 4 > H) /\ l > L => Parsed(u) = "414"
  BY DEF Whole, Parsed, HeaderEnds, LineEnds
<1>8. /\ Unfinished(u) \in {"414", "431", "waiting"}
      /\ LineEnds(u) # {} /\ Len(u) >= H => Unfinished(u) = "431"
  BY DEF Unfinished, LineEnds
<1>9. \/ Unfinished(s) = "414" /\ n > L + 1 /\ LineEnds(s) = {}
      \/ Unfinished(s) = "431" /\ n >= H /\ ~(n > L + 1 /\ LineEnds(s) = {})
  BY <1>1 DEF Unfinished, LineEnds
<1>10. CASE HeaderEnds(u) = {}
  <2>1. CASE Unfinished(s) = "414"
    BY <1>7, <1>8, <1>10, <2>1 DEF Right
  <2>2. CASE Unfinished(s) = "431"
    <3>1. n > L + 1 /\ k >= H
      BY <1>1, <1>2, <1>9, <2>2
    <3>2. LineEnds(u) # {}
      BY <1>6, <1>9, <2>2, <3>1
    <3> QED BY <1>1, <1>7, <1>8, <1>10, <2>2, <3>1, <3>2 DEF Right
  <2> QED BY <1>9, <2>1, <2>2
<1>11. CASE HeaderEnds(u) # {}
  <2>1. h \in Nat /\ h + 4 > n /\ l \in LineEnds(u) /\ l \in Nat
    BY <1>3, <1>4, <1>11
  <2>2. CASE Unfinished(s) = "414"
    <3>1. n > L + 1 /\ l + 2 > n
      BY <1>5, <1>9, <2>1, <2>2
    <3>2. l > L
      BY <1>1, <1>2, <2>1, <3>1
    <3>3. Whole(u) \in {"431", "414"}
      BY <1>7, <1>11, <3>2
    <3> QED BY <2>2, <3>3 DEF Right
  <2>3. CASE Unfinished(s) = "431"
    <3>1. h + 4 > H
      BY <1>1, <1>2, <1>9, <2>1, <2>3
    <3>2. Whole(u) = "431"
      BY <1>7, <1>11, <3>1
    <3> QED BY <2>3, <3>2 DEF Right
  <2> QED BY <1>9, <2>2, <2>3
<1> QED BY <1>10, <1>11

-----------------------------------------------------------------------------
TypeInv ==
  /\ Known
  /\ buffer \in Seq(Bytes)
  /\ unread \in Seq(Bytes)
  /\ headerParsed \in BOOLEAN

(* What a connection that goes on reading knows of its buffer.             *)
Waiting ==
  /\ unread = <<>>
  /\ Whole(buffer) = "waiting"
  /\ IF headerParsed
     THEN HeaderEnds(buffer) # {} /\ expectedRequestBytes = RequestBytes(buffer)
     ELSE HeaderEnds(buffer) = {} /\ headerScanOffset = Len(buffer)

(* A verdict is that of every stream that begins as the buffer does.       *)
Decided == \A t \in Seq(Bytes) : Right(verdict, Whole(buffer \o t))

Bounded == Len(buffer) < kMaxHeaderSectionLength + kMaxBodyLength + kReadChunkSize

Inv ==
  /\ TypeInv
  /\ Bounded
  /\ verdict = "waiting" => Waiting
  /\ verdict # "waiting" => Decided

LEMMA InitInv == Init => Inv
<1> SUFFICES ASSUME Init PROVE Inv
  OBVIOUS
<1>1. TypeInv /\ Len(buffer) = 0 /\ unread = <<>> /\ ~headerParsed /\ headerScanOffset = 0
      /\ verdict = "waiting"
  <2>1. 0 .. kMaxBodyLength + 1 \in SUBSET Nat
    BY ReaderConstants
  <2>2. Known
    BY <2>1 DEF Init, Known
  <2>3. <<>> \in Seq(Bytes) /\ Len(<<>>) = 0
    BY EmptySeq
  <2> QED BY <2>2, <2>3 DEF Init, TypeInv
<1>2. HeaderEnds(buffer) = {}
  BY <1>1, Texts DEF HeaderEnds, Occurs
<1>3. Unfinished(buffer) = "waiting"
  BY <1>1, ReaderConstants DEF Unfinished
<1>4. Whole(buffer) = "waiting"
  BY <1>2, <1>3 DEF Whole, HeaderEnds
<1>5. Bounded
  BY <1>1, ReaderConstants DEF Bounded
<1> QED BY <1>1, <1>2, <1>4, <1>5 DEF Inv, Waiting

(* What waits is short of what it waits for.                               *)
LEMMA WaitingIsBounded ==
  ASSUME Known, buffer \in Seq(Bytes), Waiting
  PROVE  /\ Len(buffer) < (IF headerParsed THEN expectedRequestBytes ELSE kMaxHeaderSectionLength)
         /\ Len(buffer) < kMaxHeaderSectionLength + kMaxBodyLength
<1>1. Len(buffer) \in Nat /\ kMaxHeaderSectionLength \in Nat /\ kMaxBodyLength \in Nat
  BY ReaderConstants, LenProperties
<1>2. CASE headerParsed
  <2>1. HeaderEnds(buffer) # {} /\ Parsed(buffer) = "waiting"
        /\ expectedRequestBytes = RequestBytes(buffer)
    BY <1>2 DEF Waiting, Whole, HeaderEnds
  <2>2. /\ Len(buffer) < RequestBytes(buffer) /\ RequestBytes(buffer) \in Nat
        /\ RequestBytes(buffer) <= kMaxHeaderSectionLength + kMaxBodyLength
    BY <2>1, WaitingIsShort
  <2> QED BY <1>1, <1>2, <2>1, <2>2
<1>3. CASE ~headerParsed
  <2>1. Unfinished(buffer) = "waiting"
    BY <1>3 DEF Waiting, Whole, HeaderEnds
  <2>2. Len(buffer) < kMaxHeaderSectionLength
    BY <1>1, <2>1 DEF Unfinished
  <2> QED BY <1>1, <1>3, <2>2
<1> QED BY <1>2, <1>3

(* Enough says, from what it remembers, what a search of all would say.    *)
LEMMA EnoughIsEnough ==
  ASSUME Known, Waiting, buffer \in Seq(Bytes), NEW chunk \in Seq(Bytes)
  PROVE  LET s == buffer \o chunk
         IN IF headerParsed
            THEN /\ HeaderEnds(s) # {} /\ expectedRequestBytes = RequestBytes(s)
                 /\ Parsed(s) = IF Enough(s) THEN "accepted" ELSE "waiting"
            ELSE Enough(s) <=> HeaderEnds(s) # {}
<1> DEFINE s == buffer \o chunk
<1>1. s \in Seq(Bytes) /\ Len(s) \in Nat /\ Len(buffer) \in Nat
  BY LenProperties, ConcatProperties
<1>2. CASE headerParsed
  <2>1. HeaderEnds(buffer) # {} /\ Parsed(buffer) = "waiting"
        /\ expectedRequestBytes = RequestBytes(buffer)
    BY <1>2 DEF Waiting, Whole, HeaderEnds
  <2>2. RequestBytes(buffer) \in Nat
    BY <2>1, WaitingIsShort
  <2>3. /\ HeaderEnds(s) # {} /\ RequestBytes(s) = RequestBytes(buffer)
        /\ Parsed(s) = IF Len(s) < RequestBytes(buffer) THEN "waiting" ELSE "accepted"
    BY <2>1, ParsedStays
  <2>4. Enough(s) <=> ~(Len(s) < RequestBytes(buffer))
    BY <1>1, <1>2, <2>1, <2>2 DEF Enough
  <2> QED BY <1>2, <2>1, <2>3, <2>4
<1>3. CASE ~headerParsed
  <2>1. HeaderEnds(buffer) = {} /\ headerScanOffset = Len(buffer)
    BY <1>3 DEF Waiting
  <2>2. ResumeFrom \in Nat /\ \A i \in Nat : i + 4 > Len(buffer) => ResumeFrom <= i
    BY <1>1, <2>1 DEF ResumeFrom
  <2>3. \A i \in HeaderEnds(s) : i \in Nat /\ i + 4 > Len(buffer)
    BY <1>1, <2>1, EndsStay, EndsAreNumbers
  <2>4. \A i \in Nat : i \in Occurs(HeaderEnd, s, ResumeFrom) <=> ResumeFrom <= i /\ i \in HeaderEnds(s)
    BY <1>1, <2>2, Texts, OccursFrom DEF HeaderEnds
  <2>5. Occurs(HeaderEnd, s, ResumeFrom) \in SUBSET Nat
    BY <1>1, <2>2, Texts, OccursNat
  <2>6. Occurs(HeaderEnd, s, ResumeFrom) = HeaderEnds(s)
    BY <2>2, <2>3, <2>4, <2>5
  <2> QED BY <1>3, <2>6 DEF Enough
<1> QED BY <1>2, <1>3

LEMMA ReceiveInv ==
  ASSUME Inv, NEW n \in 1 .. kReadChunkSize, NEW chunk \in [1 .. n -> Bytes], Receive(chunk)
  PROVE  Inv'
<1> DEFINE s == buffer \o chunk
<1>1. /\ TypeInv /\ verdict = "waiting" /\ Waiting
      /\ chunk \in Seq(Bytes) /\ Len(chunk) = n /\ n \in Nat /\ n <= kReadChunkSize
  <2>1. TypeInv /\ verdict = "waiting" /\ Waiting
    BY DEF Inv, Receive
  <2>2. n \in Nat /\ n <= kReadChunkSize
    BY ReaderConstants
  <2>3. chunk \in Seq(Bytes) /\ Len(chunk) = n
    BY <2>2
  <2> QED BY <2>1, <2>2, <2>3
<1>2. s \in Seq(Bytes) /\ Len(s) = Len(buffer) + n /\ Len(s) \in Nat /\ Len(buffer) \in Nat
  BY <1>1, LenProperties, ConcatProperties DEF TypeInv
<1>3. /\ buffer' = s /\ UNCHANGED <<malformed, contentLength, unread>>
      /\ verdict' = IF Enough(s) THEN Parsed(s) ELSE IF headerParsed THEN "waiting" ELSE Unfinished(s)
      /\ headerParsed' = (headerParsed \/ (Enough(s) /\ verdict' = "waiting"))
      /\ expectedRequestBytes' =
           IF Enough(s) /\ verdict' = "waiting" THEN RequestBytes(s) ELSE expectedRequestBytes
      /\ headerScanOffset' = IF headerParsed \/ Enough(s) THEN headerScanOffset ELSE Len(s)
  BY DEF Receive
<1>4. /\ Parsed(buffer)' = Parsed(s) /\ RequestBytes(buffer)' = RequestBytes(s)
      /\ Whole(buffer)' = Whole(s) /\ HeaderEnds(buffer)' = HeaderEnds(s)
      /\ \A t : Whole(buffer \o t)' = Whole(s \o t)
  BY <1>3 DEF Parsed, RequestBytes, Whole, HeaderEnds, Unfinished
<1>5. IF headerParsed
      THEN /\ HeaderEnds(s) # {} /\ expectedRequestBytes = RequestBytes(s)
           /\ Parsed(s) = IF Enough(s) THEN "accepted" ELSE "waiting"
      ELSE Enough(s) <=> HeaderEnds(s) # {}
  BY <1>1, EnoughIsEnough DEF TypeInv
<1>6. verdict' = Whole(s)
  BY <1>3, <1>5 DEF Whole, HeaderEnds
<1> HIDE DEF s
<1>7. TypeInv'
  BY <1>1, <1>2, <1>3 DEF TypeInv, Known
<1>8. Bounded'
  <2>1. Len(buffer) < kMaxHeaderSectionLength + kMaxBodyLength
    BY <1>1, WaitingIsBounded DEF TypeInv
  <2>2. Len(s) < kMaxHeaderSectionLength + kMaxBodyLength + kReadChunkSize
    BY <1>1, <1>2, <2>1, ReaderConstants
  <2> QED BY <1>3, <2>2 DEF Bounded
<1>9. ASSUME verdict' = "waiting" PROVE Waiting'
  <2>1. /\ unread' = <<>> /\ Whole(buffer)' = "waiting"
    BY <1>1, <1>3, <1>4, <1>6, <1>9 DEF Waiting
  <2>2. CASE headerParsed \/ Enough(s)
    <3>1. headerParsed' /\ HeaderEnds(s) # {} /\ expectedRequestBytes' = RequestBytes(s)
      BY <1>3, <1>5, <1>9, <2>2
    <3> QED BY <1>4, <2>1, <3>1 DEF Waiting
  <2>3. CASE ~(headerParsed \/ Enough(s))
    <3>1. ~headerParsed' /\ HeaderEnds(s) = {} /\ headerScanOffset' = Len(s)
      BY <1>3, <1>5, <2>3
    <3> QED BY <1>3, <1>4, <2>1, <3>1 DEF Waiting
  <2> QED BY <2>2, <2>3
<1>10. ASSUME verdict' # "waiting" PROVE Decided'
  <2>1. ASSUME NEW t \in Seq(Bytes) PROVE Right(Whole(s), Whole(s \o t))
    <3>1. CASE HeaderEnds(s) # {}
      <4>1. /\ Whole(s) = Parsed(s) /\ HeaderEnds(s \o t) # {}
            /\ Parsed(s) # "waiting" => Parsed(s \o t) = Parsed(s)
        BY <1>1, <1>2, <3>1, ParsedStays DEF Whole, HeaderEnds, TypeInv
      <4>2. Whole(s \o t) = Parsed(s \o t)
        BY <4>1 DEF Whole, HeaderEnds
      <4> QED BY <1>6, <1>10, <4>1, <4>2 DEF Right
    <3>2. CASE HeaderEnds(s) = {}
      <4>1. Whole(s) = Unfinished(s)
        BY <3>2 DEF Whole, HeaderEnds
      <4> QED BY <1>1, <1>2, <1>6, <1>10, <3>2, <4>1, UnfinishedStays DEF TypeInv
    <3> QED BY <3>1, <3>2
  <2>2. Decided' <=> \A t \in Seq(Bytes) : Right(verdict', Whole(buffer \o t)')
    BY DEF Decided, Right
  <2> QED BY <1>4, <1>6, <2>1, <2>2
<1> QED BY <1>7, <1>8, <1>9, <1>10 DEF Inv

LEMMA Inductive == Inv /\ [Next]_vars => Inv'
<1> SUFFICES ASSUME Inv, [Next]_vars PROVE Inv'
  OBVIOUS
<1>1. ASSUME NEW n \in 1 .. kReadChunkSize, NEW chunk \in [1 .. n -> Bytes], Receive(chunk)
      PROVE  Inv'
  BY <1>1, ReceiveInv
<1>2. ASSUME UNCHANGED <<malformed, contentLength, conn>>, unread' \in Seq(Bytes),
             verdict = "waiting" => UNCHANGED unread
      PROVE  Inv'
  <2>1. TypeInv' /\ Bounded' /\ UNCHANGED <<verdict, buffer, headerParsed>>
    BY <1>2 DEF conn, Inv, TypeInv, Known, Bounded
  <2>2. ASSUME verdict = "waiting" PROVE Waiting'
    BY <1>2, <2>2 DEF Inv, Waiting, conn, Whole, Parsed, Unfinished, RequestBytes, HeaderEnds
  <2>3. ASSUME verdict # "waiting" PROVE Decided'
    BY <1>2, <2>3 DEF Inv, Decided, Right, conn, Whole, Parsed, Unfinished, RequestBytes
  <2> QED BY <2>1, <2>2, <2>3 DEF Inv
<1>3. ASSUME NEW byte \in Bytes, SendOn(byte) PROVE Inv'
  <2>1. Append(unread, byte) \in Seq(Bytes)
    BY AppendProperties DEF Inv, TypeInv
  <2> QED BY <1>2, <1>3, <2>1 DEF SendOn
<1>4. CASE UNCHANGED vars
  BY <1>2, <1>4 DEF vars, Inv, TypeInv
<1> QED BY <1>1, <1>3, <1>4 DEF Next

LEMMA Always == Spec => []Inv
<1>1. Inv /\ [Next]_vars => Inv'
  BY Inductive
<1> QED BY InitInv, <1>1, PTL DEF Spec

(* What a client's bytes get does not depend on how they are cut, but for a *)
(* 414 that is told before the stream decides or in place of a 431.        *)
THEOREM VerdictsHold == Spec => []ChunksDoNotMatter
<1>1. Inv => ChunksDoNotMatter
  <2> SUFFICES ASSUME Inv PROVE ChunksDoNotMatter
    OBVIOUS
  <2>1. CASE verdict = "waiting"
    <3>1. unread = <<>> /\ Whole(buffer) = "waiting" /\ buffer \o unread = buffer
      BY <2>1, ConcatEmptySeq DEF Inv, TypeInv, Waiting
    <3> QED BY <2>1, <3>1 DEF ChunksDoNotMatter
  <2>2. CASE verdict # "waiting"
    <3>1. Right(verdict, Whole(buffer \o unread))
      BY <2>2 DEF Inv, TypeInv, Decided
    <3> QED BY <3>1 DEF ChunksDoNotMatter, Right
  <2> QED BY <2>1, <2>2
<1> QED BY <1>1, Always, PTL

(* A connection's buffer holds no more than the limits and one chunk.      *)
THEOREM BufferStaysBounded == Spec => []BufferIsBounded
<1>1. Inv => BufferIsBounded
  BY WaitingIsBounded DEF Inv, TypeInv, Bounded, BufferIsBounded
<1> QED BY <1>1, Always, PTL

=============================================================================
