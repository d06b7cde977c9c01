--------------------------- MODULE UpstreamProofs ---------------------------
(***************************************************************************)
(* Proofs about Upstream: the pool and the calls of forward() share no     *)
(* descriptor, and responses belong to their requests.                     *)
(***************************************************************************)
EXTENDS Upstream, SequenceTheorems, FiniteSetTheorems, TLAPS

-----------------------------------------------------------------------------
(* Pools of one host, as sequences.                                        *)

FdsOf(s) == {s[i].fd : i \in 1 .. Len(s)}

Tidy(s, now) ==
  /\ Len(s) <= MaxIdle
  /\ \A i \in 1 .. Len(s) : s[i].lastUsed <= now
  /\ \A i, j \in 1 .. Len(s) : i < j => s[i].lastUsed <= s[j].lastUsed
  /\ \A i, j \in 1 .. Len(s) : s[i].fd = s[j].fd => i = j

(* t is what is left of s when the entries outside the range of m go.      *)
Left(s, t, m) ==
  /\ Len(t) <= Len(s)
  /\ m \in [1 .. Len(t) -> 1 .. Len(s)]
  /\ \A i, j \in 1 .. Len(t) : i < j => m[i] < m[j]
  /\ \A i \in 1 .. Len(t) : t[i] = s[m[i]]

Missing(s, t, m) == {i \in 1 .. Len(s) : \A j \in 1 .. Len(t) : m[j] # i}

LEMMA WhatIsLeft ==
  ASSUME NEW s \in Seq(Pooled), NEW t \in Seq(Pooled), NEW m, NEW now,
         Tidy(s, now), Left(s, t, m)
  PROVE  /\ Tidy(t, now)
         /\ FdsOf(t) = FdsOf(s) \ {s[i].fd : i \in Missing(s, t, m)}
<1>1. PICK a \in Nat, b \in Nat : a = Len(s) /\ b = Len(t)
  OBVIOUS
<1>2. \A i \in 1 .. b : m[i] \in 1 .. a /\ t[i] = s[m[i]]
  BY <1>1 DEF Left
<1>3. \A i, j \in 1 .. b : i < j => m[i] < m[j]
  BY <1>1 DEF Left
<1>4. \A i, j \in 1 .. b : m[i] = m[j] => i = j
  <2>1. \A i, j \in 1 .. b : m[i] \in Nat /\ m[j] \in Nat
    BY <1>1, <1>2
  <2> QED BY <1>3, <2>1
<1>6. \A i, j \in 1 .. a : s[i].fd = s[j].fd => i = j
  BY <1>1 DEF Tidy
<1>5. Tidy(t, now)
  <2>1. b <= MaxIdle
    BY <1>1, UpstreamAssumption DEF Tidy, Left
  <2>2. \A i \in 1 .. b : t[i].lastUsed <= now
    BY <1>1, <1>2 DEF Tidy
  <2>3. \A i, j \in 1 .. a : i < j => s[i].lastUsed <= s[j].lastUsed
    BY <1>1 DEF Tidy
  <2>4. \A i, j \in 1 .. b : i < j => t[i].lastUsed <= t[j].lastUsed
    BY <1>2, <1>3, <2>3
  <2>5. \A i, j \in 1 .. b : t[i].fd = t[j].fd => i = j
    <3> SUFFICES ASSUME NEW i \in 1 .. b, NEW j \in 1 .. b, t[i].fd = t[j].fd PROVE i = j
      OBVIOUS
    <3>1. s[m[i]].fd = s[m[j]].fd
      BY <1>2
    <3>2. m[i] = m[j]
      BY <1>2, <1>6, <3>1
    <3> QED BY <1>4, <3>2
  <2> QED BY <1>1, <2>1, <2>2, <2>4, <2>5 DEF Tidy
<1> DEFINE gone == Missing(s, t, m)
<1>9. \A i : i \in gone <=> i \in 1 .. a /\ \A j \in 1 .. b : m[j] # i
  BY <1>1 DEF Missing
<1>10. /\ FdsOf(t) = {t[i].fd : i \in 1 .. b}
       /\ FdsOf(s) = {s[i].fd : i \in 1 .. a}
  BY <1>1 DEF FdsOf
<1> HIDE DEF gone
<1>7. \A f \in FdsOf(t) : f \in FdsOf(s) /\ f \notin {s[i].fd : i \in gone}
  <2> SUFFICES ASSUME NEW j \in 1 .. b
               PROVE t[j].fd \in FdsOf(s) /\ t[j].fd \notin {s[i].fd : i \in gone}
    BY <1>10
  <2>1. m[j] \in 1 .. a /\ t[j].fd = s[m[j]].fd /\ m[j] \notin gone
    BY <1>2, <1>9
  <2>2. \A i \in gone : i \in 1 .. a /\ i # m[j]
    BY <1>9, <2>1
  <2> QED BY <1>6, <1>10, <2>1, <2>2
<1>8. \A f \in FdsOf(s) : f \notin {s[i].fd : i \in gone} => f \in FdsOf(t)
  <2> SUFFICES ASSUME NEW i \in 1 .. a, i \notin gone PROVE s[i].fd \in FdsOf(t)
    BY <1>10
  <2>1. PICK j \in 1 .. b : m[j] = i
    BY <1>9
  <2> QED BY <1>2, <1>10, <2>1
<1> QED BY <1>5, <1>7, <1>8, Zenon DEF gone

LEMMA PrefixLeft ==
  ASSUME NEW s \in Seq(Pooled), NEW now, Tidy(s, now), NEW n \in 0 .. Len(s)
  PROVE  LET t == SubSeq(s, 1, n - 1)
         IN /\ t \in Seq(Pooled) /\ Tidy(t, now)
            /\ FdsOf(t) = FdsOf(s) \ {s[i].fd : i \in {j \in 1 .. Len(s) : j >= n}}
<1> DEFINE t == SubSeq(s, 1, n - 1)
<1>1. PICK a \in Nat, b \in Nat : a = Len(s) /\ b = Len(t) /\ b <= a
                                  /\ (n = 0 => b = 0) /\ (n # 0 => b = n - 1)
  OBVIOUS
<1>2. t \in Seq(Pooled) /\ \A i \in 1 .. b : t[i] = s[i]
  BY <1>1
<1> DEFINE m == [i \in 1 .. b |-> i]
<1>3. Left(s, t, m)
  <2>1. \A i \in 1 .. b : i \in 1 .. a
    BY <1>1
  <2> QED BY <1>1, <1>2, <2>1 DEF Left
<1>4. Missing(s, t, m) = {j \in 1 .. Len(s) : j >= n}
  <2>1. \A i \in 1 .. a : (\A j \in 1 .. b : j # i) <=> i >= n
    BY <1>1
  <2>2. \A j \in 1 .. b : m[j] = j
    OBVIOUS
  <2> QED BY <1>1, <2>1, <2>2 DEF Missing
<1> HIDE DEF t, m
<1>5. Tidy(t, now) /\ FdsOf(t) = FdsOf(s) \ {s[i].fd : i \in Missing(s, t, m)}
  BY <1>2, <1>3, WhatIsLeft
<1> QED BY <1>2, <1>4, <1>5 DEF t

LEMMA RemovedLeft ==
  ASSUME NEW s \in Seq(Pooled), NEW now, Tidy(s, now), NEW n \in 1 .. Len(s)
  PROVE  LET t == RemoveAt(s, n)
         IN /\ t \in Seq(Pooled) /\ Tidy(t, now) /\ Len(t) = Len(s) - 1
            /\ FdsOf(t) = FdsOf(s) \ {s[n].fd}
<1> DEFINE t == RemoveAt(s, n)
           u == SubSeq(s, 1, n - 1)
           v == SubSeq(s, n + 1, Len(s))
<1>1. PICK b \in Nat : Len(s) = b + 1 /\ n \in Nat /\ n > 0
  <2>1. Len(s) \in Nat /\ Len(s) > 0
    OBVIOUS
  <2> QED BY <2>1
<1>2. /\ u \in Seq(Pooled) /\ Len(u) = n - 1
      /\ \A i \in 1 .. n - 1 : u[i] = s[i]
  BY <1>1
<1>3. /\ v \in Seq(Pooled) /\ Len(v) = b + 1 - n
      /\ \A i \in 1 .. b + 1 - n : v[i] = s[n + i]
  <2>1. \A i \in n + 1 .. Len(s) : s[i] \in Pooled
    BY <1>1
  <2>2. /\ v \in Seq(Pooled)
        /\ Len(v) = IF n + 1 <= Len(s) THEN Len(s) - (n + 1) + 1 ELSE 0
        /\ \A i \in 1 .. Len(s) - (n + 1) + 1 : v[i] = s[n + 1 + i - 1]
    <3>1. n + 1 \in Int /\ Len(s) \in Int
      BY <1>1
    <3> QED BY <2>1, <3>1, SubSeqProperties
  <2>3. Len(v) = b + 1 - n
    BY <1>1, <2>2
  <2>4. \A i \in 1 .. b + 1 - n : i \in 1 .. Len(s) - (n + 1) + 1 /\ n + 1 + i - 1 = n + i
    BY <1>1
  <2> QED BY <2>2, <2>3, <2>4
<1>4. t = u \o v
  BY DEF RemoveAt
<1> HIDE DEF u, v, t
<1>5. /\ t \in Seq(Pooled) /\ Len(t) = b
      /\ \A i \in 1 .. b : t[i] = s[IF i < n THEN i ELSE i + 1]
  <2>1. /\ t \in Seq(Pooled) /\ Len(t) = Len(u) + Len(v)
        /\ \A i \in 1 .. Len(u) + Len(v) : t[i] = IF i <= Len(u) THEN u[i] ELSE v[i - Len(u)]
    BY <1>2, <1>3, <1>4, ConcatProperties
  <2>2. Len(u) + Len(v) = b
    BY <1>1, <1>2, <1>3
  <2>3. \A i \in 1 .. b : i < n => t[i] = s[i]
    <3>1. \A i \in 1 .. b : i < n => i <= n - 1 /\ i \in 1 .. n - 1
      BY <1>1
    <3> QED BY <1>2, <2>1, <2>2, <3>1
  <2>4. \A i \in 1 .. b : ~(i < n) => t[i] = s[i + 1]
    <3>1. \A i \in 1 .. b : ~(i < n) =>
             ~(i <= n - 1) /\ i - (n - 1) \in 1 .. b + 1 - n /\ n + (i - (n - 1)) = i + 1
      BY <1>1
    <3> QED BY <1>2, <1>3, <2>1, <2>2, <3>1
  <2>5. t \in Seq(Pooled) /\ Len(t) = b
    BY <2>1, <2>2
  <2> QED BY <2>3, <2>4, <2>5
<1> DEFINE m == [i \in 1 .. b |-> IF i < n THEN i ELSE i + 1]
<1>6. \A i \in 1 .. b : m[i] = IF i < n THEN i ELSE i + 1
  OBVIOUS
<1>7. m \in [1 .. b -> 1 .. b + 1]
  BY <1>1
<1> HIDE DEF m
<1>8. Left(s, t, m)
  <2>1. \A i, j \in 1 .. b : i < j => m[i] < m[j]
    BY <1>1, <1>6
  <2>2. b <= b + 1 /\ Len(s) = b + 1 /\ Len(t) = b
    BY <1>1, <1>5
  <2>3. \A i \in 1 .. b : t[i] = s[m[i]]
    BY <1>5, <1>6
  <2> QED BY <1>7, <2>1, <2>2, <2>3 DEF Left
<1>9. Missing(s, t, m) = {n}
  <2>1. \A i \in 1 .. b + 1 : (\A j \in 1 .. b : m[j] # i) => i = n
    <3> SUFFICES ASSUME NEW i \in 1 .. b + 1, i # n PROVE \E j \in 1 .. b : m[j] = i
      OBVIOUS
    <3>1. CASE i < n
      <4>1. i \in 1 .. b /\ m[i] = i
        BY <1>1, <1>6, <3>1
      <4> QED BY <4>1
    <3>2. CASE i > n
      <4>1. i - 1 \in 1 .. b /\ ~(i - 1 < n) /\ i - 1 + 1 = i
        BY <1>1, <3>2
      <4> QED BY <1>6, <4>1
    <3> QED BY <1>1, <3>1, <3>2
  <2>2. \A j \in 1 .. b : m[j] # n
    BY <1>1, <1>6
  <2> QED BY <1>1, <1>5, <2>1, <2>2 DEF Missing
<1>10. Tidy(t, now) /\ FdsOf(t) = FdsOf(s) \ {s[i].fd : i \in {n}}
  BY <1>5, <1>8, <1>9, WhatIsLeft
<1>11. Len(t) = Len(s) - 1
  BY <1>1, <1>5
<1> QED BY <1>5, <1>10, <1>11 DEF t

LEMMA Appended ==
  ASSUME NEW s \in Seq(Pooled), NEW now \in 0 .. MaxTime, Tidy(s, now), Len(s) < MaxIdle,
         NEW f \in Fds, f \notin FdsOf(s)
  PROVE  LET t == Append(s, [fd |-> f, lastUsed |-> now])
         IN t \in Seq(Pooled) /\ Tidy(t, now) /\ FdsOf(t) = FdsOf(s) \cup {f}
<1> DEFINE e == [fd |-> f, lastUsed |-> now]
           t == Append(s, e)
<1>1. e \in Pooled /\ e.fd = f /\ e.lastUsed = now
  BY DEF Pooled
<1> HIDE DEF e
<1>2. PICK n \in Nat : n = Len(s) /\ n + 1 <= MaxIdle
  BY UpstreamAssumption
<1>3. /\ t \in Seq(Pooled) /\ Len(t) = n + 1 /\ t[n + 1] = e
      /\ \A i \in 1 .. n : t[i] = s[i]
  BY <1>1, <1>2, AppendProperties
<1> HIDE DEF t
<1>4. \A i \in 1 .. n + 1 : i \in 1 .. n \/ i = n + 1
  BY <1>2
<1>5. \A i \in 1 .. n : i \in 1 .. n + 1 /\ n + 1 \in 1 .. n + 1 /\ i # n + 1
  BY <1>2
<1>6. \A i \in 1 .. n : s[i].fd # f /\ s[i].lastUsed <= now
  BY <1>2 DEF FdsOf, Tidy
<1>7. FdsOf(t) = FdsOf(s) \cup {f}
  <2>1. n + 1 \in 1 .. n + 1
    BY <1>2
  <2>2. \A g \in FdsOf(t) : g \in FdsOf(s) \cup {f}
    BY <1>1, <1>2, <1>3, <1>4, Zenon DEF FdsOf
  <2>3. f \in FdsOf(t) /\ \A g \in FdsOf(s) : g \in FdsOf(t)
    BY <1>1, <1>2, <1>3, <1>5, <2>1, Zenon DEF FdsOf
  <2> QED BY <2>2, <2>3, Zenon
<1>8. Tidy(t, now)
  <2>1. \A i \in 1 .. n + 1 : t[i].lastUsed <= now
    BY <1>1, <1>2, <1>3, <1>4, <1>6
  <2>2. \A i, j \in 1 .. n + 1 : i < j => i \in 1 .. n /\ (j \in 1 .. n \/ j = n + 1)
    BY <1>2
  <2>3. \A i, j \in 1 .. n : i < j => s[i].lastUsed <= s[j].lastUsed
    BY <1>2 DEF Tidy
  <2>4. \A i, j \in 1 .. n + 1 : i < j => t[i].lastUsed <= t[j].lastUsed
    BY <1>1, <1>3, <1>6, <2>2, <2>3, Zenon
  <2>5. \A i, j \in 1 .. n : s[i].fd = s[j].fd => i = j
    BY <1>2 DEF Tidy
  <2>6. \A i, j \in 1 .. n + 1 : t[i].fd = t[j].fd => i = j
    BY <1>1, <1>3, <1>4, <1>6, <2>5, Zenon
  <2> QED BY <1>2, <1>3, <2>1, <2>4, <2>6 DEF Tidy
<1> QED BY <1>3, <1>7, <1>8 DEF t, e

(* The n-th element of a finite set of numbers exists, and grows with n.   *)
Before(S, i) == {j \in S : j < i}

LEMMA Ranks ==
  ASSUME NEW a \in Nat, NEW S \in SUBSET (1 .. a)
  PROVE  LET c == Cardinality(S)
         IN /\ c \in Nat /\ c <= a
            /\ \A n \in 1 .. c : Nth(S, n) \in S
            /\ \A n, k \in 1 .. c : n < k => Nth(S, n) < Nth(S, k)
            /\ \A i \in S : \E n \in 1 .. c : Nth(S, n) = i
<1>1. PICK c \in Nat : c = Cardinality(S) /\ IsFiniteSet(S) /\ c <= a
  <2>1. IsFiniteSet(1 .. a) /\ Cardinality(1 .. a) = a
    BY FS_Interval
  <2>2. IsFiniteSet(S) /\ Cardinality(S) <= a
    BY <2>1, FS_Subset
  <2>3. Cardinality(S) \in Nat
    BY <2>2, FS_CardinalityType
  <2> QED BY <2>2, <2>3
<1> DEFINE rank == [i \in S |-> Cardinality(Before(S, i)) + 1]
<1>2. \A i \in S : /\ IsFiniteSet(Before(S, i)) /\ Cardinality(Before(S, i)) \in Nat
                   /\ Cardinality(Before(S, i)) <= c - 1
  <2> SUFFICES ASSUME NEW i \in S
               PROVE  /\ IsFiniteSet(Before(S, i)) /\ Cardinality(Before(S, i)) \in Nat
                      /\ Cardinality(Before(S, i)) <= c - 1
    OBVIOUS
  <2>1. IsFiniteSet(S \ {i}) /\ Cardinality(S \ {i}) = c - 1
    BY <1>1, FS_RemoveElement
  <2>2. Before(S, i) \in SUBSET (S \ {i})
    BY DEF Before
  <2>3. IsFiniteSet(Before(S, i)) /\ Cardinality(Before(S, i)) <= c - 1
    BY <2>1, <2>2, FS_Subset
  <2>4. Cardinality(Before(S, i)) \in Nat
    BY <2>3, FS_CardinalityType
  <2> QED BY <2>3, <2>4
<1>3. \A i \in S : rank[i] = Cardinality(Before(S, i)) + 1 /\ rank[i] \in 1 .. c
  BY <1>1, <1>2
<1>4. \A i, j \in S : i < j => rank[i] < rank[j]
  <2> SUFFICES ASSUME NEW i \in S, NEW j \in S, i < j PROVE rank[i] < rank[j]
    OBVIOUS
  <2>1. i \notin Before(S, i) /\ Before(S, i) \cup {i} \in SUBSET Before(S, j)
    <3>1. i \in Nat /\ j \in Nat /\ \A k \in S : k \in Nat
      OBVIOUS
    <3>2. ~(i < i) /\ \A k \in S : k < i => k < j
      BY <3>1
    <3> QED BY <3>2 DEF Before
  <2>2. Cardinality(Before(S, i) \cup {i}) = Cardinality(Before(S, i)) + 1
    BY <1>2, <2>1, FS_AddElement
  <2>3. Cardinality(Before(S, i) \cup {i}) <= Cardinality(Before(S, j))
    BY <1>2, <2>1, FS_Subset
  <2>4. rank[i] = Cardinality(Before(S, i)) + 1 /\ rank[j] = Cardinality(Before(S, j)) + 1
    BY <1>3
  <2>5. Cardinality(Before(S, i)) \in Nat /\ Cardinality(Before(S, j)) \in Nat
    BY <1>2
  <2> QED BY <2>2, <2>3, <2>4, <2>5
<1>5. rank \in [S -> 1 .. c]
  <2>1. \A i \in S : Cardinality(Before(S, i)) + 1 \in 1 .. c
    BY <1>3
  <2> QED BY <2>1
<1> HIDE DEF rank
<1>6. \A i, j \in S : rank[i] = rank[j] => i = j
  <2> SUFFICES ASSUME NEW i \in S, NEW j \in S, rank[i] = rank[j], i # j PROVE FALSE
    OBVIOUS
  <2>1. i < j \/ j < i
    OBVIOUS
  <2>2. rank[i] \in Nat /\ rank[j] \in Nat
    BY <1>3
  <2> QED BY <1>4, <2>1, <2>2
<1>7. \A n \in 1 .. c : \E i \in S : rank[i] = n
  <2>1. rank \in Injection(S, 1 .. c)
    BY <1>5, <1>6 DEF Injection, IsInjective
  <2>2. IsFiniteSet(1 .. c) /\ Cardinality(1 .. c) = c
    BY FS_Interval
  <2>3. rank \in Surjection(S, 1 .. c)
    BY <1>1, <2>1, <2>2, FS_Injection
  <2> QED BY <2>3 DEF Surjection
<1>8. \A n \in 1 .. c : Nth(S, n) \in S /\ rank[Nth(S, n)] = n
  <2> SUFFICES ASSUME NEW n \in 1 .. c PROVE Nth(S, n) \in S /\ rank[Nth(S, n)] = n
    OBVIOUS
  <2>1. \E i \in S : Cardinality(Before(S, i)) = n - 1
    <3>1. PICK i \in S : rank[i] = n
      BY <1>7
    <3>2. Cardinality(Before(S, i)) \in Nat /\ Cardinality(Before(S, i)) + 1 = n
      BY <1>2, <1>3, <3>1
    <3>3. Cardinality(Before(S, i)) = n - 1
      BY <3>2
    <3> QED BY <3>3
  <2>2. Nth(S, n) \in S /\ Cardinality(Before(S, Nth(S, n))) = n - 1
    <3>1. Nth(S, n) = CHOOSE i \in S : Cardinality(Before(S, i)) = n - 1
      BY DEF Nth, Before
    <3> QED BY <2>1, <3>1
  <2>3. rank[Nth(S, n)] = n - 1 + 1
    BY <1>3, <2>2
  <2> QED BY <2>2, <2>3
<1>9. \A n, k \in 1 .. c : n < k => Nth(S, n) < Nth(S, k)
  <2> SUFFICES ASSUME NEW n \in 1 .. c, NEW k \in 1 .. c, n < k, ~(Nth(S, n) < Nth(S, k))
               PROVE  FALSE
    OBVIOUS
  <2>1. Nth(S, n) \in S /\ Nth(S, k) \in S /\ rank[Nth(S, n)] = n /\ rank[Nth(S, k)] = k
    BY <1>8
  <2>2. Nth(S, k) = Nth(S, n) \/ Nth(S, k) < Nth(S, n)
    <3>1. \A i, j \in S : i < j \/ j = i \/ j < i
      OBVIOUS
    <3> QED BY <2>1, <3>1
  <2>3. k = n \/ k < n
    BY <1>4, <2>1, <2>2
  <2> QED BY <2>3
<1>10. \A i \in S : \E n \in 1 .. c : Nth(S, n) = i
  BY <1>3, <1>6, <1>8
<1> QED BY <1>1, <1>8, <1>9, <1>10

(* Reaping keeps the fresh entries, in their order.                        *)
LEMMA KeptLeft ==
  ASSUME NEW s \in Seq(Pooled), Tidy(s, clock)
  PROVE  /\ Kept(s) \in Seq(Pooled) /\ Tidy(Kept(s), clock)
         /\ FdsOf(Kept(s)) = FdsOf(s) \ {s[i].fd : i \in {j \in 1 .. Len(s) : Stale(s[j])}}
<1> DEFINE fresh == {i \in 1 .. Len(s) : ~Stale(s[i])}
<1>1. PICK a \in Nat : a = Len(s) /\ DOMAIN s = 1 .. a /\ \A i \in 1 .. a : s[i] \in Pooled
  BY ElementOfSeq
<1>2. PICK c \in Nat : /\ c = Cardinality(fresh) /\ c <= a
                       /\ \A n \in 1 .. c : Nth(fresh, n) \in fresh
                       /\ \A n, k \in 1 .. c : n < k => Nth(fresh, n) < Nth(fresh, k)
                       /\ \A i \in fresh : \E n \in 1 .. c : Nth(fresh, n) = i
  <2>1. fresh \in SUBSET (1 .. a)
    BY <1>1
  <2> HIDE DEF fresh
  <2> QED BY <2>1, Ranks
<1>3. Kept(s) = [n \in 1 .. c |-> s[Nth(fresh, n)]]
  <2>1. fresh = {i \in DOMAIN s : ~Stale(s[i])}
    BY <1>1
  <2> HIDE DEF fresh
  <2>2. Kept(s) = [n \in 1 .. Cardinality(fresh) |-> s[Nth(fresh, n)]]
    BY <2>1, Zenon DEF Kept
  <2> QED BY <1>2, <2>2, Zenon
<1>4. \A i \in fresh : i \in 1 .. a /\ ~Stale(s[i])
  BY <1>1
<1>5. \A i \in 1 .. a : i \notin fresh <=> Stale(s[i])
  BY <1>1
<1> HIDE DEF fresh
<1> DEFINE t == [n \in 1 .. c |-> s[Nth(fresh, n)]]
           m == [n \in 1 .. c |-> Nth(fresh, n)]
<1>6. t \in Seq(Pooled) /\ Len(t) = c /\ \A n \in 1 .. c : t[n] = s[m[n]]
  <2>1. \A n \in 1 .. c : s[Nth(fresh, n)] \in Pooled
    BY <1>1, <1>2, <1>4
  <2>2. t \in [1 .. c -> Pooled]
    BY <2>1
  <2>3. \A u \in [1 .. c -> Pooled] : u \in Seq(Pooled) /\ Len(u) = c
    OBVIOUS
  <2>4. \A n \in 1 .. c : t[n] = s[m[n]]
    OBVIOUS
  <2> QED BY <2>2, <2>3, <2>4
<1>7. \A n \in 1 .. c : m[n] = Nth(fresh, n)
  OBVIOUS
<1>8. m \in [1 .. c -> 1 .. a]
  BY <1>2, <1>4
<1> HIDE DEF t, m
<1>9. Left(s, t, m)
  BY <1>1, <1>2, <1>6, <1>7, <1>8 DEF Left
<1>10. Missing(s, t, m) = {j \in 1 .. Len(s) : Stale(s[j])}
  <2>1. \A i \in 1 .. a : (\A j \in 1 .. c : m[j] # i) <=> Stale(s[i])
    <3> SUFFICES ASSUME NEW i \in 1 .. a PROVE (\A j \in 1 .. c : m[j] # i) <=> Stale(s[i])
      OBVIOUS
    <3>1. i \in fresh <=> \E j \in 1 .. c : m[j] = i
      BY <1>2, <1>7
    <3> QED BY <1>5, <3>1, Zenon
  <2> QED BY <1>1, <1>6, <2>1, Zenon DEF Missing
<1>11. Tidy(t, clock) /\ FdsOf(t) = FdsOf(s) \ {s[i].fd : i \in Missing(s, t, m)}
  BY <1>6, <1>9, WhatIsLeft
<1>12. Kept(s) = t
  BY <1>3 DEF t
<1> QED BY <1>6, <1>10, <1>11, <1>12

-----------------------------------------------------------------------------
(* Types, the pool, and who owns a descriptor.                             *)

Pools == \A h \in Hosts : Tidy(idle[h], clock)

Owners ==
  /\ \A h \in Hosts : \A f \in FdsOf(idle[h]) : sock[f].host = h
  /\ \A w \in Workers : call[w].fd # NoFd =>
        /\ sock[call[w].fd].host = call[w].host
        /\ \A h \in Hosts : call[w].fd \notin FdsOf(idle[h])
  /\ \A v, w \in Workers : call[v].fd # NoFd /\ call[v].fd = call[w].fd => v = w
  /\ \A f \in Fds : sock[f].host # NoHost =>
        \/ \E h \in Hosts : f \in FdsOf(idle[h])
        \/ \E w \in Workers : call[w].fd = f

Shape == TypeOK /\ Pools /\ Owners

LEMMA PooledFds == TypeOK => \A h \in Hosts : FdsOf(idle[h]) \subseteq Fds
<1> SUFFICES ASSUME TypeOK, NEW h \in Hosts PROVE FdsOf(idle[h]) \subseteq Fds
  OBVIOUS
<1>1. \A i \in 1 .. Len(idle[h]) : idle[h][i] \in Pooled
  BY ElementOfSeq DEF TypeOK
<1>2. \A p \in Pooled : p.fd \in Fds
  BY DEF Pooled
<1> QED BY <1>1, <1>2 DEF FdsOf

LEMMA ClosedIsSocket == /\ Closed \in Socket /\ Closed.host = NoHost
                        /\ \A h \in Hosts : Fresh(h) \in Socket /\ Fresh(h).host = h
<1>1. <<>> \in Seq(Item) /\ <<>> \in Seq(Requests)
  OBVIOUS
<1>2. Closed \in Socket /\ Closed.host = NoHost
  BY <1>1 DEF Closed, Socket
<1> QED BY <1>2 DEF Fresh, Socket

LEMMA NoCallIsCall == /\ NoCall \in Call /\ NoCall.at = "none" /\ NoCall.fd = NoFd
                      /\ NoCall.host = NoHost /\ NoCall.got = {}
BY DEF NoCall, Call, Stage

LEMMA WithoutSockets ==
  ASSUME TypeOK, NEW S
  PROVE  /\ SocketsWithout(S) \in [Fds -> Socket]
         /\ \A f \in Fds : SocketsWithout(S)[f] = IF f \in S THEN Closed ELSE sock[f]
<1>1. \A f \in Fds : (IF f \in S THEN Closed ELSE sock[f]) \in Socket
  BY ClosedIsSocket DEF TypeOK
<1> QED BY <1>1 DEF SocketsWithout

LEMMA InitShape == Init => Shape
<1> SUFFICES ASSUME Init PROVE Shape
  OBVIOUS
<1>1. \A h \in Hosts : idle[h] = <<>>
  BY DEF Init
<1>2. <<>> \in Seq(Pooled) /\ Len(<<>>) = 0
  OBVIOUS
<1>3. TypeOK
  <2>1. call \in [Workers -> Call] /\ \A w \in Workers : call[w] = NoCall
    BY NoCallIsCall DEF Init
  <2>2. sock \in [Fds -> Socket]
    BY ClosedIsSocket DEF Init
  <2>3. idle \in [Hosts -> Seq(Pooled)]
    BY <1>2 DEF Init
  <2>4. clock \in 0 .. MaxTime /\ alive \in BOOLEAN /\ todo \in SUBSET Requests
    BY UpstreamAssumption DEF Init
  <2> QED BY <2>1, <2>2, <2>3, <2>4, NoCallIsCall, Zenon DEF TypeOK
<1>4. Pools
  BY <1>1, <1>2, UpstreamAssumption DEF Pools, Tidy
<1>5. Owners
  <2>1. \A h \in Hosts : FdsOf(idle[h]) = {}
    BY <1>1, <1>2 DEF FdsOf
  <2>2. \A w \in Workers : call[w].fd = NoFd
    BY NoCallIsCall DEF Init
  <2>3. \A f \in Fds : sock[f].host = NoHost
    BY ClosedIsSocket DEF Init
  <2> QED BY <2>1, <2>2, <2>3, Zenon DEF Owners
<1> QED BY <1>3, <1>4, <1>5 DEF Shape

(* A step that opens and closes nothing and leaves the pool alone.         *)
LEMMA OwnersKept ==
  ASSUME Owners, idle' = idle,
         \A f \in Fds : sock'[f].host = sock[f].host,
         \A w \in Workers : call'[w].fd = call[w].fd /\ call[w].fd \in Fds \cup {NoFd}
                            /\ (call[w].fd # NoFd => call'[w].host = call[w].host),
         \A h \in Hosts : FdsOf(idle[h]) \subseteq Fds
  PROVE  Owners'
<1>1. \A h \in Hosts : FdsOf(idle[h])' = FdsOf(idle[h])
  BY DEF FdsOf
<1> QED BY <1>1 DEF Owners

(* A step of the call of w that keeps its descriptor.                      *)
LEMMA CallGoesOn ==
  ASSUME Shape, NEW w \in Workers, NEW c \in Call, call' = [call EXCEPT ![w] = c],
         c.fd = call[w].fd, c.fd # NoFd => c.host = call[w].host,
         c.fd = NoFd <=> c.at \in {"none", "lease", "connect"},
         c.at # "none" => c.req # NoRequest /\ c.host # NoHost,
         sock' \in [Fds -> Socket], \A f \in Fds : sock'[f].host = sock[f].host,
         todo' \in SUBSET Requests,
         UNCHANGED <<idle, clock, alive>>
  PROVE  Shape'
<1>1. /\ call' \in [Workers -> Call] /\ call'[w] = c
      /\ \A v \in Workers : v # w => call'[v] = call[v]
  BY DEF Shape, TypeOK
<1>2. TypeOK'
  <2>1. \A v \in Workers : call'[v].fd = NoFd <=> call'[v].at \in {"none", "lease", "connect"}
    BY <1>1 DEF Shape, TypeOK
  <2>2. \A v \in Workers : call'[v].at # "none" => call'[v].req # NoRequest /\ call'[v].host # NoHost
    BY <1>1 DEF Shape, TypeOK
  <2> QED BY <1>1, <2>1, <2>2 DEF Shape, TypeOK
<1>3. Pools'
  BY DEF Shape, Pools, Tidy
<1>4. Owners'
  <2>1. \A v \in Workers : call'[v].fd = call[v].fd /\ call[v].fd \in Fds \cup {NoFd}
                           /\ (call[v].fd # NoFd => call'[v].host = call[v].host)
    BY <1>1 DEF Shape, TypeOK, Call
  <2> QED BY <2>1, PooledFds, OwnersKept DEF Shape
<1> QED BY <1>2, <1>3, <1>4 DEF Shape

(* The call of w returns and its descriptor, if any, is closed.            *)
LEMMA CallEnds ==
  ASSUME Shape, NEW w \in Workers, call' = [call EXCEPT ![w] = NoCall],
         sock' = SocketsWithout({call[w].fd}),
         UNCHANGED <<todo, idle, clock, alive>>
  PROVE  Shape'
<1>1. /\ call' \in [Workers -> Call] /\ call'[w] = NoCall
      /\ \A v \in Workers : v # w => call'[v] = call[v]
  BY NoCallIsCall DEF Shape, TypeOK
<1>2. /\ sock' \in [Fds -> Socket]
      /\ \A f \in Fds : sock'[f] = IF f = call[w].fd THEN Closed ELSE sock[f]
  BY WithoutSockets DEF Shape
<1>3. TypeOK'
  BY <1>1, <1>2, NoCallIsCall DEF Shape, TypeOK
<1>4. Pools'
  BY DEF Shape, Pools, Tidy
<1>5. Owners'
  <2>1. \A h \in Hosts : FdsOf(idle[h])' = FdsOf(idle[h]) /\ FdsOf(idle[h]) \subseteq Fds
    BY PooledFds DEF FdsOf, Shape
  <2>2. \A v \in Workers : call'[v].fd # NoFd => v # w /\ call'[v] = call[v] /\ call[v].fd \in Fds
    BY <1>1, NoCallIsCall DEF Shape, TypeOK, Call
  <2>3. \A h \in Hosts : \A f \in FdsOf(idle[h])' : sock'[f].host = h
    <3> SUFFICES ASSUME NEW h \in Hosts, NEW f \in FdsOf(idle[h]) PROVE sock'[f].host = h
      BY <2>1
    <3>1. f \in Fds /\ f # call[w].fd /\ sock[f].host = h
      BY <2>1, UpstreamAssumption DEF Shape, Owners
    <3> QED BY <1>2, <3>1
  <2>4. \A v \in Workers : call'[v].fd # NoFd => sock'[call'[v].fd].host = call'[v].host
    <3> SUFFICES ASSUME NEW v \in Workers, call'[v].fd # NoFd
                 PROVE  sock'[call'[v].fd].host = call'[v].host
      OBVIOUS
    <3>1. v # w /\ call'[v] = call[v] /\ call[v].fd \in Fds /\ call[v].fd # NoFd
      BY <2>2
    <3>2. call[v].fd # call[w].fd /\ sock[call[v].fd].host = call[v].host
      BY <3>1 DEF Shape, Owners
    <3> QED BY <1>2, <3>1, <3>2
  <2>5. \A v \in Workers : call'[v].fd # NoFd => \A h \in Hosts : call'[v].fd \notin FdsOf(idle[h])'
    BY <2>1, <2>2 DEF Shape, Owners
  <2>6. \A v, u \in Workers : call'[v].fd # NoFd /\ call'[v].fd = call'[u].fd => v = u
    BY <2>2 DEF Shape, Owners
  <2>7. \A f \in Fds : sock'[f].host # NoHost =>
          \/ \E h \in Hosts : f \in FdsOf(idle[h])'
          \/ \E v \in Workers : call'[v].fd = f
    <3> SUFFICES ASSUME NEW f \in Fds, sock'[f].host # NoHost,
                        \A h \in Hosts : f \notin FdsOf(idle[h])
                 PROVE  \E v \in Workers : call'[v].fd = f
      BY <2>1
    <3>1. f # call[w].fd /\ sock[f].host # NoHost
      BY <1>2, ClosedIsSocket
    <3>2. PICK v \in Workers : call[v].fd = f
      BY <3>1 DEF Shape, Owners
    <3> QED BY <1>1, <3>1, <3>2
  <2> QED BY <2>3, <2>4, <2>5, <2>6, <2>7 DEF Owners
<1> QED BY <1>3, <1>4, <1>5 DEF Shape

(* A new connection is on a descriptor that nobody holds.                  *)
LEMMA ConnectShape == ASSUME Shape, NEW w \in Workers, Connect(w) PROVE Shape'
<1>1. PICK f \in Fds : /\ sock[f].host = NoHost
                       /\ sock' = [sock EXCEPT ![f] = Fresh(call[w].host)]
                       /\ call' = [call EXCEPT ![w].at = "connecting", ![w].fd = f]
  BY DEF Connect, FreeFds
<1>2. /\ call[w] \in Call /\ call[w].at = "connect" /\ call[w].fd = NoFd
      /\ call[w].host \in Hosts /\ call[w].req # NoRequest /\ f # NoFd
      /\ UNCHANGED <<todo, idle, clock, alive>>
  BY UpstreamAssumption DEF Connect, Shape, TypeOK, Call
<1>3. /\ call' \in [Workers -> Call]
      /\ call'[w].fd = f /\ call'[w].at = "connecting"
      /\ call'[w].host = call[w].host /\ call'[w].req = call[w].req
      /\ \A v \in Workers : v # w => call'[v] = call[v]
  <2>1. [call[w] EXCEPT !.at = "connecting", !.fd = f] \in Call
    BY <1>2 DEF Call, Stage
  <2> QED BY <1>1, <1>2, <2>1 DEF Shape, TypeOK, Call
<1>4. /\ sock' \in [Fds -> Socket] /\ sock'[f].host = call[w].host
      /\ \A g \in Fds : g # f => sock'[g] = sock[g]
  BY <1>1, <1>2, ClosedIsSocket DEF Shape, TypeOK
<1>5. TypeOK'
  <2>1. call[w].host # NoHost
    BY <1>2, UpstreamAssumption
  <2>2. \A v \in Workers : call'[v].fd = NoFd <=> call'[v].at \in {"none", "lease", "connect"}
    BY <1>2, <1>3 DEF Shape, TypeOK
  <2>3. \A v \in Workers : call'[v].at # "none" => call'[v].req # NoRequest /\ call'[v].host # NoHost
    BY <1>2, <1>3, <2>1 DEF Shape, TypeOK
  <2> QED BY <1>2, <1>3, <1>4, <2>2, <2>3 DEF Shape, TypeOK
<1>6. Pools'
  BY <1>2 DEF Shape, Pools, Tidy
<1>7. Owners'
  <2>1. \A h \in Hosts : FdsOf(idle[h])' = FdsOf(idle[h]) /\ FdsOf(idle[h]) \subseteq Fds
    BY <1>2, PooledFds DEF FdsOf, Shape
  <2>2. \A h \in Hosts : f \notin FdsOf(idle[h])
    BY <1>1, UpstreamAssumption DEF Shape, Owners
  <2>3. \A v \in Workers : call[v].fd # f
    <3>1. \A v \in Workers : call[v].fd # NoFd => call[v].host # NoHost
      BY DEF Shape, TypeOK
    <3> QED BY <1>1, <1>2, <3>1 DEF Shape, Owners
  <2>4. \A v \in Workers : v # w /\ call[v].fd # NoFd => call[v].fd \in Fds
    BY DEF Shape, TypeOK, Call
  <2>5. \A h \in Hosts : \A g \in FdsOf(idle[h])' : sock'[g].host = h
    BY <1>4, <2>1, <2>2 DEF Shape, Owners
  <2>6. \A v \in Workers : call'[v].fd # NoFd =>
          /\ sock'[call'[v].fd].host = call'[v].host
          /\ \A h \in Hosts : call'[v].fd \notin FdsOf(idle[h])'
    BY <1>3, <1>4, <2>1, <2>2, <2>3, <2>4 DEF Shape, Owners
  <2>7. \A v, u \in Workers : call'[v].fd # NoFd /\ call'[v].fd = call'[u].fd => v = u
    BY <1>3, <2>3 DEF Shape, Owners
  <2>8. \A g \in Fds : sock'[g].host # NoHost =>
          \/ \E h \in Hosts : g \in FdsOf(idle[h])'
          \/ \E v \in Workers : call'[v].fd = g
    <3> SUFFICES ASSUME NEW g \in Fds, sock'[g].host # NoHost, g # f,
                        \A h \in Hosts : g \notin FdsOf(idle[h])
                 PROVE  \E v \in Workers : call'[v].fd = g
      BY <1>3, <2>1
    <3>1. PICK v \in Workers : call[v].fd = g
      BY <1>4 DEF Shape, Owners
    <3>2. v # w
      BY <1>2, <3>1, UpstreamAssumption
    <3> QED BY <1>3, <3>1, <3>2
  <2> QED BY <2>5, <2>6, <2>7, <2>8 DEF Owners
<1> QED BY <1>5, <1>6, <1>7 DEF Shape

(* Entries leave the pool and their descriptors are closed.                *)
LEMMA PoolShrinks ==
  ASSUME Shape, idle' \in [Hosts -> Seq(Pooled)], NEW S,
         \A h \in Hosts : Tidy(idle'[h], clock) /\ FdsOf(idle'[h]) = FdsOf(idle[h]) \ S,
         \A f \in S : \E h \in Hosts : f \in FdsOf(idle[h]),
         sock' = SocketsWithout(S), alive' \in BOOLEAN,
         UNCHANGED <<todo, call, clock>>
  PROVE  Shape'
<1>1. /\ sock' \in [Fds -> Socket]
      /\ \A f \in Fds : sock'[f] = IF f \in S THEN Closed ELSE sock[f]
  BY WithoutSockets DEF Shape
<1>2. TypeOK'
  BY <1>1 DEF Shape, TypeOK
<1>3. Pools'
  <2>1. \A h \in Hosts : Tidy(idle[h], clock)' <=> Tidy(idle'[h], clock)
    BY DEF Tidy
  <2> QED BY <2>1 DEF Pools
<1>4. Owners'
  <2>1. \A h \in Hosts : FdsOf(idle[h])' = FdsOf(idle[h]) \ S /\ FdsOf(idle[h]) \subseteq Fds
    BY PooledFds DEF FdsOf, Shape
  <2>2. \A v \in Workers : call[v].fd # NoFd => call[v].fd \in Fds /\ call[v].fd \notin S
    BY DEF Shape, TypeOK, Call, Owners
  <2>3. \A h \in Hosts : \A g \in FdsOf(idle[h])' : sock'[g].host = h
    BY <1>1, <2>1 DEF Shape, Owners
  <2>4. \A v \in Workers : call'[v].fd # NoFd =>
          /\ sock'[call'[v].fd].host = call'[v].host
          /\ \A h \in Hosts : call'[v].fd \notin FdsOf(idle[h])'
    BY <1>1, <2>1, <2>2 DEF Shape, Owners
  <2>5. \A v, u \in Workers : call'[v].fd # NoFd /\ call'[v].fd = call'[u].fd => v = u
    BY DEF Shape, Owners
  <2>6. \A g \in Fds : sock'[g].host # NoHost =>
          \/ \E h \in Hosts : g \in FdsOf(idle[h])'
          \/ \E v \in Workers : call'[v].fd = g
    <3> SUFFICES ASSUME NEW g \in Fds, sock'[g].host # NoHost
                 PROVE  \/ \E h \in Hosts : g \in FdsOf(idle[h]) \ S
                        \/ \E v \in Workers : call[v].fd = g
      BY <2>1
    <3>1. g \notin S /\ sock[g].host # NoHost
      BY <1>1, ClosedIsSocket
    <3> QED BY <3>1 DEF Shape, Owners
  <2> QED BY <2>3, <2>4, <2>5, <2>6 DEF Owners
<1> QED BY <1>2, <1>3, <1>4 DEF Shape

(* What the pool keeps, what it closes and what it hands out are apart.    *)
LEMMA LeaseShape == ASSUME Shape, NEW w \in Workers, Lease(w) PROVE Shape'
<1>0. PICK h0 \in Hosts : h0 = call[w].host
  BY DEF Lease, Shape, TypeOK, Call
<1> DEFINE s0 == idle[h0]
<1>1. /\ call[w] \in Call /\ call[w].at = "lease" /\ call[w].fd = NoFd
      /\ call[w].host = h0 /\ call[w].req # NoRequest /\ h0 # NoHost
      /\ s0 \in Seq(Pooled) /\ Tidy(s0, clock)
  BY <1>0 DEF Lease, Shape, TypeOK, Call, Pools
<1>2. PICK found \in 0 .. Len(s0) :
        /\ idle' = [idle EXCEPT ![h0] = SubSeq(s0, 1, found - 1)]
        /\ sock' = SocketsWithout({s0[i].fd : i \in found + 1 .. Len(s0)})
        /\ call' = IF found = 0 THEN [call EXCEPT ![w].at = "connect"]
                   ELSE [call EXCEPT ![w].at = "sending", ![w].fd = s0[found].fd]
        /\ UNCHANGED <<todo, clock, alive>>
  <2>1. PICK found \in 0 .. Len(idle[call[w].host]) :
          /\ idle' = [idle EXCEPT ![call[w].host] = SubSeq(idle[call[w].host], 1, found - 1)]
          /\ sock' = SocketsWithout({idle[call[w].host][i].fd : i \in found + 1 .. Len(idle[call[w].host])})
          /\ call' = IF found = 0 THEN [call EXCEPT ![w].at = "connect"]
                     ELSE [call EXCEPT ![w].at = "sending", ![w].fd = idle[call[w].host][found].fd]
          /\ UNCHANGED <<todo, clock, alive>>
    BY DEF Lease
  <2> QED BY <1>0, <2>1
<1> DEFINE t0 == SubSeq(s0, 1, found - 1)
           shut == {s0[i].fd : i \in found + 1 .. Len(s0)}
           gone == {s0[i].fd : i \in {j \in 1 .. Len(s0) : j >= found}}
<1>3. t0 \in Seq(Pooled) /\ Tidy(t0, clock) /\ FdsOf(t0) = FdsOf(s0) \ gone
  BY <1>1, PrefixLeft
<1>4. idle'[h0] = t0 /\ \A h \in Hosts : h # h0 => idle'[h] = idle[h]
  BY <1>1, <1>2 DEF Shape, TypeOK
<1>5. idle' \in [Hosts -> Seq(Pooled)] /\ Pools'
  <2>1. idle' \in [Hosts -> Seq(Pooled)]
    BY <1>2, <1>3 DEF Shape, TypeOK
  <2>2. \A h \in Hosts : Tidy(idle[h], clock)' <=> Tidy(idle'[h], clock)
    BY <1>2 DEF Tidy
  <2>3. \A h \in Hosts : Tidy(idle'[h], clock)
    BY <1>3, <1>4 DEF Shape, Pools
  <2> QED BY <2>1, <2>2, <2>3 DEF Pools
<1>8. \A h \in Hosts : FdsOf(idle[h])' = FdsOf(idle'[h]) /\ FdsOf(idle[h]) \subseteq Fds
  BY PooledFds DEF FdsOf, Shape
<1>6. CASE found = 0
  <2>1. gone = FdsOf(s0) /\ shut = FdsOf(s0)
    <3>1. found + 1 .. Len(s0) = 1 .. Len(s0) /\ {j \in 1 .. Len(s0) : j >= found} = 1 .. Len(s0)
      BY <1>6
    <3> QED BY <3>1 DEF FdsOf
  <2>2. /\ sock' \in [Fds -> Socket]
        /\ \A f \in Fds : sock'[f] = IF f \in shut THEN Closed ELSE sock[f]
    BY <1>2, WithoutSockets DEF Shape
  <2> HIDE DEF gone, shut, t0
  <2>3. /\ call' \in [Workers -> Call] /\ call'[w].at = "connect" /\ call'[w].fd = NoFd
        /\ call'[w].host = h0 /\ call'[w].req = call[w].req
        /\ \A v \in Workers : v # w => call'[v] = call[v]
    BY <1>1, <1>2, <1>6 DEF Shape, TypeOK, Call, Stage
  <2>4. TypeOK'
    <3>1. \A v \in Workers : call'[v].fd = NoFd <=> call'[v].at \in {"none", "lease", "connect"}
      BY <2>3 DEF Shape, TypeOK
    <3>2. \A v \in Workers : call'[v].at # "none" => call'[v].req # NoRequest /\ call'[v].host # NoHost
      BY <1>1, <2>3 DEF Shape, TypeOK
    <3> QED BY <1>2, <1>5, <2>2, <2>3, <3>1, <3>2 DEF Shape, TypeOK
  <2>5. Owners'
    <3>1. /\ FdsOf(idle[h0])' = {} /\ \A h \in Hosts : FdsOf(idle[h]) \subseteq Fds
          /\ \A h \in Hosts : h # h0 => FdsOf(idle[h])' = FdsOf(idle[h])
      BY <1>3, <1>4, <1>8, <2>1
    <3>2. \A h \in Hosts : \A g \in FdsOf(idle[h])' : g \in Fds /\ h # h0 /\ sock[g].host = h /\ g \notin shut
      BY <2>1, <3>1 DEF Shape, Owners
    <3>3. \A v \in Workers : call'[v].fd # NoFd => v # w /\ call'[v] = call[v] /\ call[v].fd \in Fds /\ call[v].fd \notin shut
      BY <1>1, <2>1, <2>3 DEF Shape, TypeOK, Call, Owners
    <3>4. \A h \in Hosts : \A g \in FdsOf(idle[h])' : sock'[g].host = h
      BY <2>2, <3>2
    <3>5. \A v \in Workers : call'[v].fd # NoFd =>
            /\ sock'[call'[v].fd].host = call'[v].host
            /\ \A h \in Hosts : call'[v].fd \notin FdsOf(idle[h])'
      BY <2>2, <3>1, <3>3 DEF Shape, Owners
    <3>6. \A v, u \in Workers : call'[v].fd # NoFd /\ call'[v].fd = call'[u].fd => v = u
      BY <3>3 DEF Shape, Owners
    <3>7. \A g \in Fds : sock'[g].host # NoHost =>
            \/ \E h \in Hosts : g \in FdsOf(idle[h])'
            \/ \E v \in Workers : call'[v].fd = g
      <4> SUFFICES ASSUME NEW g \in Fds, sock'[g].host # NoHost,
                          \A h \in Hosts : h # h0 => g \notin FdsOf(idle[h])
                   PROVE  \E v \in Workers : call'[v].fd = g
        BY <3>1
      <4>1. g \notin FdsOf(s0) /\ sock[g].host # NoHost
        BY <2>1, <2>2, ClosedIsSocket
      <4>2. PICK v \in Workers : call[v].fd = g
        BY <4>1 DEF Shape, Owners
      <4>3. v # w
        BY <1>1, <4>2, UpstreamAssumption
      <4> QED BY <2>3, <4>2, <4>3
    <3> QED BY <3>4, <3>5, <3>6, <3>7 DEF Owners
  <2> QED BY <1>5, <2>4, <2>5 DEF Shape
<1>7. CASE found # 0
  <2> DEFINE f0 == s0[found].fd
  <2>1. /\ gone = shut \cup {f0} /\ f0 \notin shut /\ f0 \in Fds
        /\ gone \subseteq FdsOf(s0)
    <3>1. found \in 1 .. Len(s0) /\ s0[found] \in Pooled
      BY <1>1, <1>7, ElementOfSeq
    <3>2. \A i \in 1 .. Len(s0) : i >= found <=> i = found \/ i \in found + 1 .. Len(s0)
      BY <3>1
    <3>3. \A i \in found + 1 .. Len(s0) : i \in 1 .. Len(s0) /\ i >= found /\ i # found
      BY <3>1
    <3>4. f0 \notin shut
      BY <1>1, <3>1, <3>3 DEF Tidy
    <3>5. gone = shut \cup {f0}
      BY <3>1, <3>2, <3>3
    <3>6. gone \subseteq FdsOf(s0)
      BY DEF FdsOf
    <3> QED BY <3>1, <3>4, <3>5, <3>6 DEF Pooled
  <2>2. /\ sock' \in [Fds -> Socket]
        /\ \A f \in Fds : sock'[f] = IF f \in shut THEN Closed ELSE sock[f]
    BY <1>2, WithoutSockets DEF Shape
  <2> HIDE DEF gone, shut, t0
  <2>3. /\ call' \in [Workers -> Call] /\ call'[w].at = "sending" /\ call'[w].fd = f0
        /\ call'[w].host = h0 /\ call'[w].req = call[w].req
        /\ \A v \in Workers : v # w => call'[v] = call[v]
    BY <1>1, <1>2, <1>7, <2>1 DEF Shape, TypeOK, Call, Stage
  <2>4. f0 # NoFd
    BY <2>1, UpstreamAssumption
  <2>5. TypeOK'
    <3>1. \A v \in Workers : call'[v].fd = NoFd <=> call'[v].at \in {"none", "lease", "connect"}
      BY <2>3, <2>4 DEF Shape, TypeOK
    <3>2. \A v \in Workers : call'[v].at # "none" => call'[v].req # NoRequest /\ call'[v].host # NoHost
      BY <1>1, <2>3 DEF Shape, TypeOK
    <3> QED BY <1>2, <1>5, <2>2, <2>3, <3>1, <3>2 DEF Shape, TypeOK
  <2>6. Owners'
    <3>1. /\ FdsOf(idle[h0])' = FdsOf(s0) \ gone /\ \A h \in Hosts : FdsOf(idle[h]) \subseteq Fds
          /\ \A h \in Hosts : h # h0 => FdsOf(idle[h])' = FdsOf(idle[h])
      BY <1>3, <1>4, <1>8
    <3>2. \A h \in Hosts : \A g \in FdsOf(idle[h])' :
             g \in Fds /\ g \in FdsOf(idle[h]) /\ sock[g].host = h /\ g \notin gone
      BY <1>1, <2>1, <3>1 DEF Shape, Owners
    <3>3. \A v \in Workers : v # w /\ call'[v].fd # NoFd =>
             call'[v] = call[v] /\ call[v].fd \in Fds /\ call[v].fd \notin FdsOf(s0)
      BY <1>1, <2>3 DEF Shape, TypeOK, Call, Owners
    <3>4. \A h \in Hosts : \A g \in FdsOf(idle[h])' : sock'[g].host = h
      BY <2>1, <2>2, <3>2
    <3>5. f0 \in FdsOf(s0) /\ sock'[f0].host = h0
      BY <1>1, <2>1, <2>2 DEF Shape, Owners
    <3>6. \A v \in Workers : call'[v].fd # NoFd =>
            /\ sock'[call'[v].fd].host = call'[v].host
            /\ \A h \in Hosts : call'[v].fd \notin FdsOf(idle[h])'
      <4> SUFFICES ASSUME NEW v \in Workers, call'[v].fd # NoFd
                   PROVE  /\ sock'[call'[v].fd].host = call'[v].host
                          /\ \A h \in Hosts : call'[v].fd \notin FdsOf(idle[h])'
        OBVIOUS
      <4>1. CASE v = w
        BY <2>1, <2>3, <3>2, <3>5, <4>1
      <4>2. CASE v # w
        BY <2>1, <2>2, <3>1, <3>3, <4>2 DEF Shape, Owners
      <4> QED BY <4>1, <4>2
    <3>7. \A v, u \in Workers : call'[v].fd # NoFd /\ call'[v].fd = call'[u].fd => v = u
      BY <2>3, <2>4, <3>3, <3>5 DEF Shape, Owners
    <3>8. \A g \in Fds : sock'[g].host # NoHost =>
            \/ \E h \in Hosts : g \in FdsOf(idle[h])'
            \/ \E v \in Workers : call'[v].fd = g
      <4> SUFFICES ASSUME NEW g \in Fds, sock'[g].host # NoHost,
                          \A h \in Hosts : g \notin FdsOf(idle[h])'
                   PROVE  \E v \in Workers : call'[v].fd = g
        OBVIOUS
      <4>1. g \notin shut /\ sock[g].host # NoHost
        BY <2>2, ClosedIsSocket
      <4>2. CASE g = f0
        BY <2>3, <4>2
      <4>3. CASE g # f0
        <5>1. \A h \in Hosts : g \notin FdsOf(idle[h])
          BY <2>1, <3>1, <4>1, <4>3
        <5>2. PICK v \in Workers : call[v].fd = g
          BY <4>1, <5>1 DEF Shape, Owners
        <5>3. v # w
          BY <1>1, <5>2, UpstreamAssumption
        <5> QED BY <2>3, <5>2, <5>3
      <4> QED BY <4>2, <4>3
    <3> QED BY <3>4, <3>6, <3>7, <3>8 DEF Owners
  <2> QED BY <1>5, <2>5, <2>6 DEF Shape
<1> QED BY <1>6, <1>7

(* The two ways to put a connection into the pool of its host.             *)
PutsInto(w, h) ==
  \/ /\ Len(idle[h]) >= MaxIdle
     /\ \E i \in DOMAIN idle[h] :
          /\ idle' = [idle EXCEPT ![h] = Append(RemoveAt(idle[h], i), Entry(w))]
          /\ sock' = SocketsWithout({idle[h][i].fd})
  \/ /\ Len(idle[h]) < MaxIdle
     /\ idle' = [idle EXCEPT ![h] = Append(idle[h], Entry(w))]
     /\ UNCHANGED sock

LEMMA ReleasePuts ==
  ASSUME NEW w, Release(w), NEW h, h = call[w].host PROVE PutsInto(w, h)
<1>1. PutsInto(w, call[w].host)
  BY DEF Release, PutsInto
<1> QED BY <1>1

(* The call's descriptor becomes the pool's; one may be closed for it.     *)
LEMMA ReleaseShape == ASSUME Shape, NEW w \in Workers, Release(w) PROVE Shape'
<1>0. PICK h0 \in Hosts, f0 \in Fds : h0 = call[w].host /\ f0 = call[w].fd
  BY DEF Release, Shape, TypeOK, Call
<1> DEFINE s0 == idle[h0]
           e0 == [fd |-> f0, lastUsed |-> clock]
<1>1. s0 \in Seq(Pooled) /\ Tidy(s0, clock) /\ f0 \notin FdsOf(s0) /\ f0 # NoFd
      /\ FdsOf(s0) \subseteq Fds
  BY <1>0, PooledFds, UpstreamAssumption DEF Shape, TypeOK, Pools, Owners
<1>2. Entry(w) = e0 /\ call' = [call EXCEPT ![w] = NoCall]
      /\ UNCHANGED <<todo, clock, alive>>
  BY <1>0 DEF Release, Entry
<1>3. PICK t0 \in Seq(Pooled), S \in SUBSET FdsOf(s0) :
        /\ Tidy(t0, clock) /\ Len(t0) < MaxIdle /\ FdsOf(t0) = FdsOf(s0) \ S
        /\ idle' = [idle EXCEPT ![h0] = Append(t0, e0)]
        /\ sock' \in [Fds -> Socket]
        /\ \A f \in Fds : sock'[f] = IF f \in S THEN Closed ELSE sock[f]
  <2>1. CASE Len(s0) < MaxIdle
    <3>1. idle' = [idle EXCEPT ![h0] = Append(s0, e0)] /\ sock' = sock
      <4>1. PutsInto(w, h0) /\ Len(s0) \in Nat /\ MaxIdle \in Nat
        BY <1>0, <1>1, ReleasePuts, LenProperties, UpstreamAssumption
      <4> HIDE DEF e0
      <4> QED BY <1>2, <2>1, <4>1 DEF PutsInto
    <3>2. {} \in SUBSET FdsOf(s0) /\ FdsOf(s0) = FdsOf(s0) \ {}
      OBVIOUS
    <3>3. sock' \in [Fds -> Socket] /\ \A f \in Fds : sock'[f] = IF f \in {} THEN Closed ELSE sock[f]
      BY <3>1 DEF Shape, TypeOK
    <3> HIDE DEF s0, e0
    <3> QED BY <1>1, <2>1, <3>1, <3>2, <3>3 DEF s0
  <2>2. CASE ~(Len(s0) < MaxIdle)
    <3>1. PICK i \in 1 .. Len(s0) : /\ idle' = [idle EXCEPT ![h0] = Append(RemoveAt(s0, i), e0)]
                                    /\ sock' = SocketsWithout({s0[i].fd})
      <4>1. PutsInto(w, h0) /\ DOMAIN s0 = 1 .. Len(s0)
        BY <1>0, <1>1, ReleasePuts, LenProperties
      <4> HIDE DEF e0
      <4> QED BY <1>2, <2>2, <4>1 DEF PutsInto
    <3>2. /\ RemoveAt(s0, i) \in Seq(Pooled) /\ Tidy(RemoveAt(s0, i), clock)
          /\ Len(RemoveAt(s0, i)) = Len(s0) - 1
          /\ FdsOf(RemoveAt(s0, i)) = FdsOf(s0) \ {s0[i].fd}
      BY <1>1, RemovedLeft
    <3>3. Len(RemoveAt(s0, i)) < MaxIdle
      <4>1. Len(s0) <= MaxIdle /\ Len(s0) \in Nat /\ MaxIdle \in Nat
        BY <1>1, UpstreamAssumption, LenProperties DEF Tidy
      <4> QED BY <3>2, <4>1
    <3>4. {s0[i].fd} \in SUBSET FdsOf(s0)
      BY DEF FdsOf
    <3>5. /\ sock' \in [Fds -> Socket]
          /\ \A f \in Fds : sock'[f] = IF f \in {s0[i].fd} THEN Closed ELSE sock[f]
      BY <3>1, WithoutSockets DEF Shape
    <3> QED BY <3>1, <3>2, <3>3, <3>4, <3>5
  <2> QED BY <2>1, <2>2
<1>4. /\ Append(t0, e0) \in Seq(Pooled) /\ Tidy(Append(t0, e0), clock)
      /\ FdsOf(Append(t0, e0)) = (FdsOf(s0) \ S) \cup {f0}
  <2>1. clock \in 0 .. MaxTime /\ f0 \notin FdsOf(t0)
    BY <1>1, <1>3 DEF Shape, TypeOK
  <2> QED BY <1>3, <2>1, Appended
<1> HIDE DEF e0
<1>5. /\ idle' \in [Hosts -> Seq(Pooled)] /\ idle'[h0] = Append(t0, e0)
      /\ \A h \in Hosts : h # h0 => idle'[h] = idle[h]
  BY <1>3, <1>4 DEF Shape, TypeOK
<1>6. Pools'
  <2>1. \A h \in Hosts : Tidy(idle[h], clock)' <=> Tidy(idle'[h], clock)
    BY <1>2 DEF Tidy
  <2> QED BY <1>4, <1>5, <2>1 DEF Shape, Pools
<1>7. /\ call' \in [Workers -> Call] /\ call'[w] = NoCall
      /\ \A v \in Workers : v # w => call'[v] = call[v]
  BY <1>2, NoCallIsCall DEF Shape, TypeOK
<1>8. TypeOK'
  BY <1>2, <1>3, <1>5, <1>7, NoCallIsCall DEF Shape, TypeOK
<1>9. Owners'
  <2>1. \A h \in Hosts : FdsOf(idle[h])' = FdsOf(idle'[h]) /\ FdsOf(idle[h]) \subseteq Fds
    BY PooledFds DEF FdsOf, Shape
  <2>2. /\ FdsOf(idle[h0])' = (FdsOf(s0) \ S) \cup {f0}
        /\ \A h \in Hosts : h # h0 => FdsOf(idle[h])' = FdsOf(idle[h])
    BY <1>4, <1>5, <2>1
  <2>3. sock'[f0] = sock[f0] /\ sock[f0].host = h0
    BY <1>0, <1>1, <1>3 DEF Shape, Owners
  <2>4. \A h \in Hosts : \A g \in FdsOf(idle[h]) : sock[g].host = h
    BY DEF Shape, Owners
  <2>5. \A h \in Hosts : \A g \in FdsOf(idle[h])' : sock'[g].host = h
    <3> SUFFICES ASSUME NEW h \in Hosts, NEW g \in FdsOf(idle[h])' PROVE sock'[g].host = h
      OBVIOUS
    <3>1. CASE h = h0
      BY <1>1, <1>3, <2>2, <2>3, <2>4, <3>1
    <3>2. CASE h # h0
      BY <1>1, <1>3, <2>1, <2>2, <2>4, <3>2
    <3> QED BY <3>1, <3>2
  <2>6. \A v \in Workers : call'[v].fd # NoFd =>
           /\ v # w /\ call'[v] = call[v] /\ call[v].fd \in Fds /\ call[v].fd # f0
           /\ sock[call[v].fd].host = call[v].host
           /\ \A h \in Hosts : call[v].fd \notin FdsOf(idle[h])
    BY <1>0, <1>7, NoCallIsCall DEF Shape, TypeOK, Call, Owners
  <2>7. \A v \in Workers : call'[v].fd # NoFd =>
           /\ sock'[call'[v].fd].host = call'[v].host
           /\ \A h \in Hosts : call'[v].fd \notin FdsOf(idle[h])'
    <3> SUFFICES ASSUME NEW v \in Workers, call'[v].fd # NoFd
                 PROVE  /\ sock'[call'[v].fd].host = call'[v].host
                        /\ \A h \in Hosts : call'[v].fd \notin FdsOf(idle[h])'
      OBVIOUS
    <3>1. sock'[call[v].fd] = sock[call[v].fd]
      BY <1>3, <2>6
    <3> QED BY <2>2, <2>6, <3>1
  <2>8. \A v, u \in Workers : call'[v].fd # NoFd /\ call'[v].fd = call'[u].fd => v = u
    BY <2>6 DEF Shape, Owners
  <2>9. \A g \in Fds : sock'[g].host # NoHost =>
          \/ \E h \in Hosts : g \in FdsOf(idle[h])'
          \/ \E v \in Workers : call'[v].fd = g
    <3> SUFFICES ASSUME NEW g \in Fds, sock'[g].host # NoHost, g # f0,
                        \A h \in Hosts : g \notin FdsOf(idle[h])'
                 PROVE  \E v \in Workers : call'[v].fd = g
      BY <2>2
    <3>1. g \notin S /\ sock[g].host # NoHost
      BY <1>3, ClosedIsSocket
    <3>2. \A h \in Hosts : g \notin FdsOf(idle[h])
      BY <2>2, <3>1
    <3>3. PICK v \in Workers : call[v].fd = g
      BY <3>1, <3>2 DEF Shape, Owners
    <3>4. v # w
      BY <1>0, <3>3
    <3> QED BY <1>7, <3>3, <3>4
  <2> QED BY <2>5, <2>7, <2>8, <2>9 DEF Owners
<1> QED BY <1>6, <1>8, <1>9 DEF Shape

(* reapStale() and closeAll(): the pool sheds entries and closes them.     *)
ShedsFds(S) ==
  /\ sock' = SocketsWithout(S)
  /\ \A f \in S : \E h \in Hosts : f \in FdsOf(idle[h])
  /\ \A h \in Hosts : Tidy(idle'[h], clock) /\ FdsOf(idle'[h]) = FdsOf(idle[h]) \ S
Sheds ==
  /\ idle' \in [Hosts -> Seq(Pooled)] /\ alive' \in BOOLEAN
  /\ UNCHANGED <<todo, call, clock>>
  /\ \E S : ShedsFds(S)

LEMMA ReapSheds == ASSUME Shape, ReapStale PROVE Sheds
<1> DEFINE S == {f \in Fds : \E h \in Hosts : \E i \in DOMAIN idle[h] :
                               idle[h][i].fd = f /\ Stale(idle[h][i])}
<1>1. \A h \in Hosts : idle[h] \in Seq(Pooled) /\ Tidy(idle[h], clock)
                       /\ DOMAIN idle[h] = 1 .. Len(idle[h])
  BY LenProperties DEF Shape, TypeOK, Pools
<1>2. \A h \in Hosts : /\ Kept(idle[h]) \in Seq(Pooled) /\ Tidy(Kept(idle[h]), clock)
                       /\ FdsOf(Kept(idle[h])) =
                             FdsOf(idle[h]) \ {idle[h][i].fd : i \in {j \in 1 .. Len(idle[h]) : Stale(idle[h][j])}}
  BY <1>1, KeptLeft
<1>3. \A h \in Hosts : \A f \in FdsOf(idle[h]) :
         f \in S <=> f \in {idle[h][i].fd : i \in {j \in 1 .. Len(idle[h]) : Stale(idle[h][j])}}
  <2> SUFFICES ASSUME NEW h \in Hosts, NEW f \in FdsOf(idle[h])
               PROVE  f \in S <=> \E i \in 1 .. Len(idle[h]) : idle[h][i].fd = f /\ Stale(idle[h][i])
    BY Zenon
  <2>1. f \in Fds
    BY PooledFds DEF Shape
  <2>2. \A g \in Hosts : \A i \in DOMAIN idle[g] : idle[g][i].fd = f => g = h
    <3>1. \A g \in Hosts : \A i \in DOMAIN idle[g] : idle[g][i].fd \in FdsOf(idle[g])
      BY <1>1 DEF FdsOf
    <3> QED BY <3>1 DEF Shape, Owners
  <2>3. f \in S <=> \E g \in Hosts : \E i \in DOMAIN idle[g] : idle[g][i].fd = f /\ Stale(idle[g][i])
    BY <2>1, Zenon
  <2> QED BY <1>1, <2>2, <2>3, Zenon
<1>4. \A f \in S : \E h \in Hosts : f \in FdsOf(idle[h])
  BY <1>1 DEF FdsOf
<1>5. idle' = [h \in Hosts |-> Kept(idle[h])] /\ sock' = SocketsWithout(S)
      /\ UNCHANGED <<todo, call, clock, alive>>
  BY DEF ReapStale
<1> HIDE DEF S
<1>6. idle' \in [Hosts -> Seq(Pooled)] /\ \A h \in Hosts : idle'[h] = Kept(idle[h])
  BY <1>2, <1>5
<1>7. \A h \in Hosts : Tidy(idle'[h], clock) /\ FdsOf(idle'[h]) = FdsOf(idle[h]) \ S
  <2> SUFFICES ASSUME NEW h \in Hosts
               PROVE  Tidy(idle'[h], clock) /\ FdsOf(idle'[h]) = FdsOf(idle[h]) \ S
    OBVIOUS
  <2>1. FdsOf(Kept(idle[h])) = FdsOf(idle[h]) \ S
    BY <1>2, <1>3
  <2> QED BY <1>2, <1>6, <2>1
<1>8. alive' \in BOOLEAN
  BY <1>5 DEF Shape, TypeOK
<1>9. ShedsFds(S)
  BY <1>4, <1>5, <1>7 DEF ShedsFds
<1> QED BY <1>5, <1>6, <1>8, <1>9 DEF Sheds

LEMMA CloseAllSheds == ASSUME Shape, CloseAll PROVE Sheds
<1> DEFINE S == {f \in Fds : \E h \in Hosts : \E i \in DOMAIN idle[h] : idle[h][i].fd = f}
<1>1. \A h \in Hosts : DOMAIN idle[h] = 1 .. Len(idle[h]) /\ FdsOf(idle[h]) \subseteq Fds
  BY LenProperties, PooledFds DEF Shape, TypeOK
<1>2. /\ \A h \in Hosts : FdsOf(idle[h]) \subseteq S
      /\ \A f \in S : \E h \in Hosts : f \in FdsOf(idle[h])
  BY <1>1 DEF FdsOf
<1>3. idle' = [h \in Hosts |-> <<>>] /\ sock' = SocketsWithout(S) /\ alive' = FALSE
      /\ UNCHANGED <<todo, call, clock>>
  BY DEF CloseAll
<1> HIDE DEF S
<1>4. Tidy(<<>>, clock) /\ FdsOf(<<>>) = {} /\ <<>> \in Seq(Pooled)
  BY UpstreamAssumption DEF Tidy, FdsOf
<1>5. idle' \in [Hosts -> Seq(Pooled)] /\ \A h \in Hosts : idle'[h] = <<>>
  BY <1>3, <1>4
<1>6. \A h \in Hosts : Tidy(idle'[h], clock) /\ FdsOf(idle'[h]) = FdsOf(idle[h]) \ S
  BY <1>2, <1>4, <1>5
<1>7. ShedsFds(S)
  BY <1>2, <1>3, <1>6 DEF ShedsFds
<1> QED BY <1>3, <1>5, <1>7 DEF Sheds

LEMMA ShedShape == Shape /\ Sheds => Shape'
<1> SUFFICES ASSUME Shape, Sheds PROVE Shape'
  OBVIOUS
<1>1. PICK S : ShedsFds(S)
  BY DEF Sheds
<1>2. /\ idle' \in [Hosts -> Seq(Pooled)] /\ alive' \in BOOLEAN
      /\ UNCHANGED <<todo, call, clock>>
  BY DEF Sheds
<1> QED BY <1>1, <1>2, PoolShrinks DEF ShedsFds

(* A step of upstream hosts on the connection behind f.                    *)
LEMMA UpstreamShape ==
  ASSUME Shape, NEW f \in Fds, NEW s \in Socket, s.host = sock[f].host,
         sock' = [sock EXCEPT ![f] = s], UNCHANGED <<todo, call, idle, clock, alive>>
  PROVE  Shape'
<1>1. sock' \in [Fds -> Socket] /\ \A g \in Fds : sock'[g].host = sock[g].host
  BY DEF Shape, TypeOK
<1>2. TypeOK'
  BY <1>1 DEF Shape, TypeOK
<1>3. Pools'
  BY DEF Shape, Pools, Tidy
<1>4. Owners'
  <2>1. \A v \in Workers : call'[v].fd = call[v].fd /\ call[v].fd \in Fds \cup {NoFd}
                           /\ call'[v].host = call[v].host
    BY DEF Shape, TypeOK, Call
  <2>2. idle' = idle
    OBVIOUS
  <2> QED BY <1>1, <2>1, <2>2, PooledFds, OwnersKept DEF Shape
<1> QED BY <1>2, <1>3, <1>4 DEF Shape

LEMMA AnswerShape ==
  ASSUME Shape, NEW f \in Fds,
         \/ AnswerPart(f) \/ UpstreamCloses(f)
         \/ \E kind \in Replies : Answer(f, kind)
         \/ \E kind \in Unasked : Stray(f, kind)
  PROVE  Shape'
<1>1. /\ sock[f] \in Socket /\ sock[f].inbox \in Seq(Item) /\ sock[f].pending \in Seq(Requests)
      /\ sock \in [Fds -> Socket]
  BY DEF Shape, TypeOK, Socket
<1>2. sock[f].pending # <<>> => Head(sock[f].pending) \in Requests /\ Tail(sock[f].pending) \in Seq(Requests)
  BY <1>1, HeadTailProperties
<1>3. CASE AnswerPart(f)
  <2> DEFINE item == [req |-> Head(sock[f].pending), kind |-> "part"]
             s == [sock[f] EXCEPT !.begun = TRUE, !.inbox = Append(@, item)]
  <2>1. item \in Item
    BY <1>2, <1>3 DEF AnswerPart, Item
  <2>2. Append(sock[f].inbox, item) \in Seq(Item)
    BY <1>1, <2>1
  <2>3. sock' = [sock EXCEPT ![f] = s] /\ UNCHANGED <<todo, call, idle, clock, alive>>
    BY <1>1, <1>3 DEF AnswerPart
  <2>4. s \in Socket /\ s.host = sock[f].host
    BY <1>1, <2>2 DEF Socket
  <2> HIDE DEF s
  <2> QED BY <2>3, <2>4, UpstreamShape
<1>4. CASE UpstreamCloses(f)
  <2>1. PICK unread \in {<<>>, sock[f].inbox} :
          sock' = [sock EXCEPT ![f].eof = TRUE, ![f].inbox = unread,
                               ![f].pending = <<>>, ![f].begun = FALSE]
    BY <1>4 DEF UpstreamCloses
  <2> DEFINE s == [sock[f] EXCEPT !.eof = TRUE, !.inbox = unread, !.pending = <<>>, !.begun = FALSE]
  <2>2. unread \in Seq(Item) /\ <<>> \in Seq(Requests)
    <3>1. <<>> \in Seq(Item) /\ <<>> \in Seq(Requests)
      BY EmptySeq
    <3> QED BY <1>1, <3>1
  <2>3. sock' = [sock EXCEPT ![f] = s] /\ UNCHANGED <<todo, call, idle, clock, alive>>
    BY <1>1, <1>4, <2>1 DEF UpstreamCloses
  <2>4. s \in Socket /\ s.host = sock[f].host
    BY <1>1, <2>2 DEF Socket
  <2> HIDE DEF s
  <2> QED BY <2>3, <2>4, UpstreamShape
<1>5. ASSUME NEW kind \in Replies, Answer(f, kind) PROVE Shape'
  <2> DEFINE item == [req |-> Head(sock[f].pending), kind |-> kind]
             s == [sock[f] EXCEPT !.begun = FALSE, !.pending = Tail(@),
                                  !.eof = (kind = "endClose"), !.inbox = Append(@, item)]
  <2>1. item \in Item /\ Tail(sock[f].pending) \in Seq(Requests)
    BY <1>2, <1>5, UpstreamAssumption DEF Answer, Item
  <2>2. Append(sock[f].inbox, item) \in Seq(Item)
    BY <1>1, <2>1
  <2>3. sock' = [sock EXCEPT ![f] = s] /\ UNCHANGED <<todo, call, idle, clock, alive>>
    BY <1>1, <1>5 DEF Answer
  <2>4. s \in Socket /\ s.host = sock[f].host
    BY <1>1, <2>1, <2>2 DEF Socket
  <2> HIDE DEF s
  <2> QED BY <2>3, <2>4, UpstreamShape
<1>6. ASSUME NEW kind \in Unasked, Stray(f, kind) PROVE Shape'
  <2> DEFINE item == [req |-> NoRequest, kind |-> kind]
             a == Awaited(f)
             s == [sock[f] EXCEPT !.strayed = a, !.inbox = Append(@, item)]
  <2>1. item \in Item /\ a \in BOOLEAN
    BY UpstreamAssumption DEF Item, Awaited
  <2>2. Append(sock[f].inbox, item) \in Seq(Item)
    BY <1>1, <2>1
  <2> HIDE DEF a
  <2>3. sock' = [sock EXCEPT ![f] = s] /\ UNCHANGED <<todo, call, idle, clock, alive>>
    BY <1>1, <1>6 DEF Stray, a
  <2>4. s \in Socket /\ s.host = sock[f].host
    BY <1>1, <2>1, <2>2 DEF Socket
  <2> HIDE DEF s
  <2> QED BY <2>3, <2>4, UpstreamShape
<1> QED BY <1>3, <1>4, <1>5, <1>6

(* What a call has of its own while it holds a descriptor.                 *)
LEMMA CallTypes ==
  ASSUME Shape, NEW w \in Workers
  PROVE  /\ call \in [Workers -> Call] /\ call[w] \in Call /\ call[w].got \in SUBSET (Requests \cup {NoRequest})
         /\ call[w].fd # NoFd => call[w].fd \in Fds /\ sock[call[w].fd] \in Socket
         /\ call[w].at # "none" => call[w].req \in Requests /\ call[w].host \in Hosts
         /\ call[w].at # "none" => call[w].req # NoRequest /\ call[w].host # NoHost
         /\ call[w].fd = NoFd <=> call[w].at \in {"none", "lease", "connect"}
         /\ todo \in SUBSET Requests
BY DEF Shape, TypeOK, Call

LEMMA ForwardShape ==
  ASSUME Shape, NEW w \in Workers, NEW h \in Hosts, NEW r \in Requests, Forward(w, h, r)
  PROVE  Shape'
<1> DEFINE c == [NoCall EXCEPT !.at = "lease", !.host = h, !.req = r]
<1>1. c \in Call /\ c.fd = NoFd /\ c.at = "lease" /\ c.req # NoRequest /\ c.host # NoHost
  BY UpstreamAssumption DEF NoCall, Call, Stage
<1>2. call[w].fd = NoFd
  BY CallTypes DEF Forward
<1>3. /\ call' = [call EXCEPT ![w] = c] /\ todo' \in SUBSET Requests
      /\ UNCHANGED <<idle, sock, clock, alive>>
  BY CallTypes DEF Forward
<1>4. sock' \in [Fds -> Socket] /\ \A f \in Fds : sock'[f].host = sock[f].host
  BY <1>3 DEF Shape, TypeOK
<1> HIDE DEF c
<1> QED BY <1>1, <1>2, <1>3, <1>4, CallGoesOn

LEMMA StageShape ==
  ASSUME Shape, NEW w \in Workers, CompleteConnect(w) \/ Send(w) PROVE Shape'
<1> DEFINE at == IF call[w].at = "connecting" THEN "sending" ELSE "receiving"
           c == [call[w] EXCEPT !.at = at]
<1>1. call[w] \in Call /\ call[w].at \in {"connecting", "sending"}
  BY CallTypes DEF CompleteConnect, Send
<1>2. /\ c \in Call /\ c.fd = call[w].fd /\ c.host = call[w].host /\ c.req = call[w].req
      /\ c.at \in {"sending", "receiving"} /\ c.fd # NoFd /\ c.fd \in Fds
      /\ c.req # NoRequest /\ c.host # NoHost
  BY <1>1, CallTypes DEF Call, Stage
<1>3. call' = [call EXCEPT ![w] = c] /\ UNCHANGED <<todo, idle, clock, alive>>
  BY DEF CompleteConnect, Send
<1>4. sock' \in [Fds -> Socket] /\ \A f \in Fds : sock'[f].host = sock[f].host
  <2>1. CASE sock' = sock
    BY <2>1 DEF Shape, TypeOK
  <2>2. CASE sock' # sock
    <3> DEFINE p == Append(sock[call[w].fd].pending, call[w].req)
    <3>1. p \in Seq(Requests)
      BY <1>1, <1>2, CallTypes DEF Socket
    <3>2. sock' = [sock EXCEPT ![call[w].fd].pending = p]
      BY <2>2 DEF CompleteConnect, Send
    <3> HIDE DEF p
    <3> DEFINE g == call[w].fd
               n == [sock[g] EXCEPT !.pending = p]
    <3>3. sock \in [Fds -> Socket] /\ sock' = [sock EXCEPT ![g] = n]
      BY <3>2 DEF Shape, TypeOK
    <3>4. g \in Fds => n \in Socket /\ n.host = sock[g].host
      BY <3>1, <3>3 DEF Socket
    <3> HIDE DEF n, g
    <3> QED BY <3>3, <3>4
  <2> QED BY <2>1, <2>2
<1>5. todo' \in SUBSET Requests
  BY <1>3, CallTypes
<1> HIDE DEF c
<1>6. c.at \notin {"none", "lease", "connect"}
  BY <1>2
<1> QED BY <1>2, <1>3, <1>4, <1>5, <1>6, CallGoesOn

(* What recv() and the parser do with the first pieces of an inbox.  Those  *)
(* used are never behind one that ends a response.                         *)
Leads(inbox, i) == \A j \in 1 .. Len(inbox) : j < i => inbox[j].kind = "part"

TookParts(w, k, got) ==
  /\ call' = [call EXCEPT ![w].got = got]
  /\ \A i \in 1 .. k : sock[call[w].fd].inbox[i].kind = "part"
TookLast(w, got) ==
  /\ \E at \in {"release", "return"} : call' = [call EXCEPT ![w].at = at, ![w].got = got]
  /\ \E i \in 1 .. Len(sock[call[w].fd].inbox) : sock[call[w].fd].inbox[i].kind # "part"

LEMMA WhatReceiveDoes ==
  ASSUME Shape, NEW w \in Workers, Receive(w)
  PROVE  LET f     == call[w].fd
             inbox == sock[f].inbox
             rest(k) == [sock EXCEPT ![f].inbox = SubSeq(inbox, k + 1, Len(inbox))]
         IN \E k \in 1 .. Len(inbox), used \in SUBSET (1 .. Len(inbox)),
               got \in SUBSET (Requests \cup {NoRequest}) :
              /\ got = call[w].got \cup {inbox[i].req : i \in used}
              /\ \A i \in used : Leads(inbox, i)
              /\ \/ TookParts(w, k, got) /\ sock' = rest(k)
                 \/ TookLast(w, got) /\ sock' = rest(k)
                 \/ End(w)
<1> DEFINE f == call[w].fd
           inbox == sock[f].inbox
           rest(k) == [sock EXCEPT ![f].inbox = SubSeq(inbox, k + 1, Len(inbox))]
           Used(last, k) == IF last = 0 THEN 1 .. k ELSE 1 .. last
           Got(last, k) == call[w].got \cup {inbox[i].req : i \in Used(last, k)}
           Is(last, x) == last # 0 /\ inbox[last].kind = x
<1>1. f \in Fds /\ inbox \in Seq(Item) /\ call[w].got \in SUBSET (Requests \cup {NoRequest})
  BY CallTypes, UpstreamAssumption DEF Receive, Socket
<1>2. \A i \in 1 .. Len(inbox) : inbox[i].req \in Requests \cup {NoRequest}
  <2>1. \A i \in 1 .. Len(inbox) : inbox[i] \in Item
    BY <1>1, ElementOfSeq
  <2> QED BY <2>1 DEF Item
<1>3. PICK k \in 1 .. Len(inbox), last \in 0 .. Len(inbox) :
        /\ last <= k /\ (last # 0 => inbox[last].kind # "part")
        /\ \A i \in 1 .. k : (last = 0 \/ i < last) => inbox[i].kind = "part"
        /\ \/ /\ last = 0
              /\ call' = [call EXCEPT ![w].got = Got(last, k)]
              /\ sock' = rest(k)
           \/ /\ Is(last, "end")
              /\ call' = [call EXCEPT ![w].at = "release", ![w].got = Got(last, k)]
              /\ sock' = rest(k)
           \/ /\ Is(last, "endClose")
              /\ call' = [call EXCEPT ![w].at = "return", ![w].got = Got(last, k)]
              /\ sock' = rest(k)
           \/ /\ Is(last, "bad")
              /\ call' = [call EXCEPT ![w] = NoCall]
              /\ sock' = SocketsWithout({f})
  BY DEF Receive
<1>4. /\ Used(last, k) \in SUBSET (1 .. Len(inbox)) /\ (last # 0 => last \in 1 .. Len(inbox))
      /\ \A i \in Used(last, k) : Leads(inbox, i)
  <2>1. PICK n \in Nat : n = Len(inbox)
    BY <1>1
  <2>2. k \in 1 .. n /\ last \in 0 .. n
    BY <1>3, <2>1
  <2>3. 1 .. k \subseteq 1 .. n /\ 1 .. last \subseteq 1 .. n /\ (last # 0 => last \in 1 .. n)
    BY <2>2
  <2>4. (last = 0 /\ Used(last, k) = 1 .. k) \/ (last # 0 /\ Used(last, k) = 1 .. last)
    OBVIOUS
  <2>5. \A i \in 1 .. n, j \in 1 .. n : i \in Used(last, k) /\ j < i =>
           j \in 1 .. k /\ (last = 0 \/ j < last)
    <3>1. last <= k
      BY <1>3
    <3>2. CASE last = 0 /\ Used(last, k) = 1 .. k
      <4> HIDE DEF Used
      <4> QED BY <2>2, <3>2
    <3>3. CASE last # 0 /\ Used(last, k) = 1 .. last
      <4> HIDE DEF Used
      <4> QED BY <2>2, <3>1, <3>3
    <3> QED BY <2>4, <3>2, <3>3
  <2>6. \A i \in Used(last, k) : i \in 1 .. n
    BY <2>3, <2>4
  <2> HIDE DEF Used, inbox
  <2>7. \A i \in Used(last, k) : Leads(inbox, i)
    BY <1>3, <2>1, <2>5, <2>6 DEF Leads
  <2> QED BY <2>1, <2>3, <2>4, <2>7
<1>5. Got(last, k) \in SUBSET (Requests \cup {NoRequest})
  BY <1>1, <1>2, <1>4
<1> DEFINE got == Got(last, k)
<1>6. \/ TookParts(w, k, got) /\ sock' = rest(k)
      \/ TookLast(w, got) /\ sock' = rest(k)
      \/ End(w)
  <2> HIDE DEF Got
  <2>1. CASE last = 0
    <3>1. /\ call' = [call EXCEPT ![w].got = got] /\ sock' = rest(k)
          /\ \A i \in 1 .. k : inbox[i].kind = "part"
      BY <1>3, <2>1
    <3> QED BY <3>1 DEF TookParts
  <2>2. CASE last # 0 /\ Is(last, "end") /\ call' = [call EXCEPT ![w].at = "release", ![w].got = got]
             /\ sock' = rest(k)
    BY <1>3, <1>4, <2>2 DEF TookLast
  <2>3. CASE last # 0 /\ Is(last, "endClose") /\ call' = [call EXCEPT ![w].at = "return", ![w].got = got]
             /\ sock' = rest(k)
    BY <1>3, <1>4, <2>3 DEF TookLast
  <2>4. CASE call' = [call EXCEPT ![w] = NoCall] /\ sock' = SocketsWithout({f})
    BY <2>4 DEF End, Receive
  <2> QED BY <1>3, <2>1, <2>2, <2>3, <2>4
<1> HIDE DEF rest
<1>7. /\ got = call[w].got \cup {inbox[i].req : i \in Used(last, k)}
      /\ \A i \in Used(last, k) : Leads(inbox, i)
      /\ \/ TookParts(w, k, got) /\ sock' = rest(k)
         \/ TookLast(w, got) /\ sock' = rest(k)
         \/ End(w)
  BY <1>3, <1>4, <1>6
<1> HIDE DEF Used, Got, inbox
<1> QED BY <1>4, <1>5, <1>7, Zenon DEF inbox, rest, got

LEMMA ReceiveShape == ASSUME Shape, NEW w \in Workers, Receive(w) PROVE Shape'
<1> DEFINE f == call[w].fd
           inbox == sock[f].inbox
           rest(k) == [sock EXCEPT ![f].inbox = SubSeq(inbox, k + 1, Len(inbox))]
<1>1. PICK k \in 1 .. Len(inbox), got \in SUBSET (Requests \cup {NoRequest}) :
        \/ TookParts(w, k, got) /\ sock' = rest(k)
        \/ TookLast(w, got) /\ sock' = rest(k)
        \/ End(w)
  BY WhatReceiveDoes
<1>2. /\ f \in Fds /\ f # NoFd /\ inbox \in Seq(Item) /\ call[w] \in Call
      /\ call[w].at = "receiving" /\ call[w].req \in Requests /\ call[w].req # NoRequest
      /\ call[w].host # NoHost /\ sock \in [Fds -> Socket]
  BY CallTypes, UpstreamAssumption DEF Receive, Socket, Shape, TypeOK
<1>3. UNCHANGED <<todo, idle, clock, alive>>
  BY DEF Receive
<1>4. rest(k) \in [Fds -> Socket] /\ \A g \in Fds : rest(k)[g].host = sock[g].host
  <2> DEFINE b == SubSeq(inbox, k + 1, Len(inbox))
  <2>1. b \in Seq(Item)
    BY <1>2
  <2>2. rest(k) = [sock EXCEPT ![f].inbox = b]
    OBVIOUS
  <2>3. [sock[f] EXCEPT !.inbox = b] \in Socket /\ [sock[f] EXCEPT !.inbox = b].host = sock[f].host
    <3> HIDE DEF b
    <3>1. sock[f] \in Socket
      BY <1>2
    <3> HIDE DEF inbox, f
    <3> QED BY <2>1, <3>1 DEF Socket
  <2>4. rest(k) = [sock EXCEPT ![f] = [sock[f] EXCEPT !.inbox = b]]
    BY <1>2, <2>2
  <2> HIDE DEF b, rest
  <2> QED BY <1>2, <2>3, <2>4
<1>6. todo' \in SUBSET Requests
  BY <1>3, CallTypes
<1>7. ASSUME NEW c \in Call, call' = [call EXCEPT ![w] = c], c.fd = f, c.host = call[w].host,
             c.req = call[w].req, c.at \in {"receiving", "release", "return"}, sock' = rest(k)
      PROVE  Shape'
  <2>1. c.fd # NoFd /\ c.at \notin {"none", "lease", "connect"} /\ c.req # NoRequest /\ c.host # NoHost
    BY <1>2, <1>7
  <2>2. sock' \in [Fds -> Socket] /\ \A g \in Fds : sock'[g].host = sock[g].host
    BY <1>4, <1>7
  <2> QED BY <1>3, <1>6, <1>7, <2>1, <2>2, CallGoesOn
<1> HIDE DEF rest
<1>8. CASE TookParts(w, k, got) /\ sock' = rest(k)
  <2> DEFINE c == [call[w] EXCEPT !.got = got]
  <2>1. c \in Call /\ c.fd = f /\ c.host = call[w].host /\ c.req = call[w].req /\ c.at = "receiving"
    BY <1>2 DEF Call
  <2>2. call' = [call EXCEPT ![w] = c]
    BY <1>8 DEF TookParts
  <2> HIDE DEF c
  <2> QED BY <1>7, <1>8, <2>1, <2>2
<1>9. CASE TookLast(w, got) /\ sock' = rest(k)
  <2>0. PICK at \in {"release", "return"} : call' = [call EXCEPT ![w].at = at, ![w].got = got]
    BY <1>9 DEF TookLast
  <2> DEFINE c == [call[w] EXCEPT !.at = at, !.got = got]
  <2>1. c \in Call /\ c.fd = f /\ c.host = call[w].host /\ c.req = call[w].req
        /\ c.at \in {"release", "return"}
    BY <1>2 DEF Call, Stage
  <2>2. call' = [call EXCEPT ![w] = c]
    BY <2>0
  <2> HIDE DEF c
  <2> QED BY <1>7, <1>9, <2>1, <2>2
<1>10. CASE End(w)
  BY <1>10, CallEnds DEF End
<1> QED BY <1>1, <1>8, <1>9, <1>10

LEMMA EndShape == ASSUME Shape, NEW w \in Workers, End(w) PROVE Shape'
BY CallEnds DEF End

LEMMA TickShape == ASSUME Shape, Tick PROVE Shape'
<1>1. clock' = clock + 1 /\ clock \in Nat /\ clock' \in 0 .. MaxTime
      /\ UNCHANGED <<todo, call, idle, sock, alive>>
  BY UpstreamAssumption DEF Tick, Shape, TypeOK
<1>2. TypeOK'
  BY <1>1 DEF Shape, TypeOK
<1>3. Pools'
  <2> SUFFICES ASSUME NEW h \in Hosts PROVE Tidy(idle[h], clock)'
    BY DEF Pools
  <2>1. Tidy(idle[h], clock) /\ idle[h] \in Seq(Pooled)
    BY DEF Shape, Pools, TypeOK
  <2>2. \A i \in 1 .. Len(idle[h]) : idle[h][i].lastUsed \in Nat
    <3>1. \A i \in 1 .. Len(idle[h]) : idle[h][i] \in Pooled
      BY <2>1, ElementOfSeq
    <3> QED BY <3>1, UpstreamAssumption DEF Pooled
  <2>3. \A i \in 1 .. Len(idle[h]) : idle[h][i].lastUsed <= clock + 1
    BY <1>1, <2>1, <2>2 DEF Tidy
  <2> QED BY <1>1, <2>1, <2>3 DEF Tidy
<1>4. Owners'
  <2>1. \A v \in Workers : call'[v].fd = call[v].fd /\ call[v].fd \in Fds \cup {NoFd}
                           /\ call'[v].host = call[v].host
    BY <1>1 DEF Shape, TypeOK, Call
  <2> QED BY <1>1, <2>1, PooledFds, OwnersKept DEF Shape
<1> QED BY <1>2, <1>3, <1>4 DEF Shape

LEMMA StepShape == Shape /\ [Next]_vars => Shape'
<1> SUFFICES ASSUME Shape, [Next]_vars PROVE Shape'
  OBVIOUS
<1>1. ASSUME NEW w \in Workers, NEW h \in Hosts, NEW r \in Requests, Forward(w, h, r) PROVE Shape'
  BY <1>1, ForwardShape
<1>2. ASSUME NEW w \in Workers, CallStep(w) PROVE Shape'
  <2>1. CASE End(w)
    BY <2>1, EndShape
  <2>2. ~End(w) => \/ Lease(w) \/ Connect(w) \/ CompleteConnect(w) \/ Send(w)
                    \/ Receive(w) \/ Release(w)
    BY <1>2 DEF CallStep, ConnectFails, ConnectionNotMade, SendFails, ReceiveEnd, ReceiveTimesOut, Return
  <2> QED
    BY <2>1, <2>2, LeaseShape, ConnectShape, StageShape, ReceiveShape, ReleaseShape
<1>3. CASE ReapStale
  BY <1>3, ReapSheds, ShedShape
<1>4. CASE CloseAll
  BY <1>4, CloseAllSheds, ShedShape
<1>5. ASSUME NEW f \in Fds, \/ AnswerPart(f) \/ UpstreamCloses(f)
                            \/ \E kind \in Replies : Answer(f, kind)
                            \/ \E kind \in Unasked : Stray(f, kind)
      PROVE  Shape'
  BY <1>5, AnswerShape
<1>6. CASE Tick
  BY <1>6, TickShape
<1>7. CASE UNCHANGED vars
  <2>1. TypeOK' /\ Pools'
    BY <1>7 DEF Shape, TypeOK, Pools, Tidy, vars
  <2>2. Owners'
    BY <1>7 DEF Shape, Owners, FdsOf, vars
  <2> QED BY <2>1, <2>2 DEF Shape
<1> QED BY <1>1, <1>2, <1>3, <1>4, <1>5, <1>6, <1>7 DEF Next

LEMMA ShapeAlways == Spec => []Shape
BY InitShape, StepShape, PTL DEF Spec

\* Types, for any number of workers, hosts and descriptors; a call that is past
\* connecting holds a descriptor, and no other does.
THEOREM TypeCorrect == Spec => []TypeOK
BY ShapeAlways, PTL DEF Shape

\* Nothing is closed twice, used after it was closed, shared, sent to the wrong host
\* or leaked: an open descriptor has one holder, a closed one none.
THEOREM DescriptorsHaveOneOwner == Spec => []OneOwnerPerDescriptor
<1>1. Shape => OneOwnerPerDescriptor
  <2> SUFFICES ASSUME Shape, NEW f \in Fds
               PROVE  /\ Cardinality(InPool(f)) + Cardinality(InUse(f))
                            = (IF sock[f].host = NoHost THEN 0 ELSE 1)
                      /\ \A e \in InPool(f) : sock[f].host = e[1]
                      /\ \A w \in InUse(f) : sock[f].host = call[w].host
    BY DEF OneOwnerPerDescriptor
  <2>1. \A h \in Hosts : \A i \in 1 .. MaxIdle :
          <<h, i>> \in InPool(f) <=> i \in 1 .. Len(idle[h]) /\ idle[h][i].fd = f
    <3>1. \A h \in Hosts : DOMAIN idle[h] = 1 .. Len(idle[h])
      BY LenProperties DEF Shape, TypeOK
    <3> QED BY <3>1 DEF InPool
  <2>2. \A h \in Hosts : \A i \in 1 .. Len(idle[h]) : i \in 1 .. MaxIdle
    <3> SUFFICES ASSUME NEW h \in Hosts PROVE \A i \in 1 .. Len(idle[h]) : i \in 1 .. MaxIdle
      OBVIOUS
    <3>1. Len(idle[h]) <= MaxIdle /\ Len(idle[h]) \in Nat
      BY LenProperties DEF Shape, Pools, Tidy, TypeOK
    <3> QED BY <3>1, UpstreamAssumption
  <2>3. \A e \in InPool(f) : \E h \in Hosts, i \in 1 .. MaxIdle : e = <<h, i>>
    BY DEF InPool
  <2>4. \A h \in Hosts : f \in FdsOf(idle[h]) <=> \E i \in 1 .. MaxIdle : <<h, i>> \in InPool(f)
    BY <2>1, <2>2 DEF FdsOf
  <2>5. \A e \in InPool(f) : e[1] \in Hosts /\ f \in FdsOf(idle[e[1]]) /\ sock[f].host = e[1]
    BY <2>3, <2>4 DEF Shape, Owners
  <2>6. \A w \in InUse(f) : w \in Workers /\ call[w].fd = f /\ f # NoFd /\ sock[f].host = call[w].host
                            /\ call[w].host # NoHost
    BY UpstreamAssumption DEF InUse, Shape, Owners, TypeOK
  <2>7. \A e, d \in InPool(f) : e = d
    <3> SUFFICES ASSUME NEW e \in InPool(f), NEW d \in InPool(f) PROVE e = d
      OBVIOUS
    <3>1. PICK h \in Hosts, i \in 1 .. MaxIdle, j \in 1 .. MaxIdle : e = <<h, i>> /\ d = <<h, j>>
      BY <2>3, <2>5
    <3>2. i = j
      BY <2>1, <3>1 DEF Shape, Pools, Tidy
    <3> QED BY <3>1, <3>2
  <2>8. \A v, w \in InUse(f) : v = w
    BY <2>6 DEF Shape, Owners
  <2>9. InPool(f) = {} \/ InUse(f) = {}
    BY <2>5, <2>6 DEF Shape, Owners
  <2>10. sock[f].host # NoHost <=> InPool(f) # {} \/ InUse(f) # {}
    <3>1. sock[f].host # NoHost => InPool(f) # {} \/ InUse(f) # {}
      BY <2>4 DEF Shape, Owners, InUse
    <3> QED BY <2>5, <2>6, <3>1, UpstreamAssumption
  <2>11. /\ InPool(f) = {} => Cardinality(InPool(f)) = 0
         /\ InUse(f) = {} => Cardinality(InUse(f)) = 0
         /\ InPool(f) # {} => Cardinality(InPool(f)) = 1
         /\ InUse(f) # {} => Cardinality(InUse(f)) = 1
    <3>1. \A S : S # {} /\ (\A x, y \in S : x = y) => \E x : S = {x}
      OBVIOUS
    <3> QED BY <2>7, <2>8, <3>1, FS_EmptySet, FS_Singleton
  <2>12. Cardinality(InPool(f)) + Cardinality(InUse(f)) = (IF sock[f].host = NoHost THEN 0 ELSE 1)
    BY <2>9, <2>10, <2>11
  <2> QED BY <2>5, <2>6, <2>12
<1> QED BY ShapeAlways, <1>1, PTL

-----------------------------------------------------------------------------
(* What has been exchanged on a connection.                                *)

\* Nothing is left to answer on socket s, unless something unasked was taken for an
\* answer.
Settled(s) == s.pending = <<>> \/ s.strayed

\* Socket s is as call c left it, if nothing strayed: before the request nothing is on
\* its way; after the request what comes first answers it, and whatever follows the end
\* of the response finds nothing outstanding.
Fine(c, s) ==
  s.strayed \/
  /\ c.at \in {"connecting", "sending"} => s.inbox = <<>> /\ s.pending = <<>>
  /\ c.at = "receiving" =>
        /\ s.pending \in {<<>>, <<c.req>>}
        /\ \A i \in 1 .. Len(s.inbox) : Leads(s.inbox, i) => s.inbox[i].req = c.req
        /\ s.pending # <<>> => \A i \in 1 .. Len(s.inbox) : s.inbox[i].kind = "part"
  /\ c.at \in {"release", "return"} => s.pending = <<>>
  /\ c.got \subseteq {c.req}

Clean(c) == c.at \notin {"receiving", "release", "return"} => c.got = {}

Exchange ==
  /\ \A w \in Workers : Clean(call[w]) /\ (call[w].fd # NoFd => Fine(call[w], sock[call[w].fd]))
  /\ \A h \in Hosts : \A f \in FdsOf(idle[h]) : Settled(sock[f])

Exchanges == Shape /\ Exchange

LEMMA ClosedIsSettled == Settled(Closed)
BY DEF Closed, Settled

LEMMA InitExchange == Init => Exchange
<1> SUFFICES ASSUME Init PROVE Exchange
  OBVIOUS
<1>1. \A w \in Workers : Clean(call[w]) /\ call[w].fd = NoFd
  BY DEF Init, NoCall, Clean
<1>2. \A h \in Hosts : FdsOf(idle[h]) = {}
  BY DEF Init, FdsOf
<1> QED BY <1>1, <1>2 DEF Exchange, Init

(* A step of the call of w that leaves alone what others hold.             *)
LEMMA ExchangeOfCall ==
  ASSUME Exchanges, NEW w \in Workers, NEW c \in Call, call' = [call EXCEPT ![w] = c],
         \A v \in Workers : v # w /\ call[v].fd # NoFd => sock'[call[v].fd] = sock[call[v].fd],
         Clean(c), c.fd # NoFd => Fine(c, sock'[c.fd]),
         \A h \in Hosts : \A f \in FdsOf(idle[h])' : Settled(sock'[f])
  PROVE  Exchange'
<1>1. call'[w] = c /\ \A v \in Workers : v # w => call'[v] = call[v]
  BY DEF Exchanges, Shape, TypeOK
<1>2. \A v \in Workers : Clean(call'[v]) /\ (call'[v].fd # NoFd => Fine(call'[v], sock'[call'[v].fd]))
  <2> SUFFICES ASSUME NEW v \in Workers
               PROVE  Clean(call'[v]) /\ (call'[v].fd # NoFd => Fine(call'[v], sock'[call'[v].fd]))
    OBVIOUS
  <2>1. CASE v = w
    BY <1>1, <2>1
  <2>2. CASE v # w
    BY <1>1, <2>2 DEF Exchanges, Exchange
  <2> QED BY <2>1, <2>2
<1>3. \A v \in Workers : /\ Clean(call[v])' <=> Clean(call'[v])
                         /\ Fine(call[v], sock[call[v].fd])' <=> Fine(call'[v], sock'[call'[v].fd])
  BY DEF Clean, Fine, Leads
<1>4. \A f : Settled(sock[f])' <=> Settled(sock'[f])
  BY DEF Settled
<1> QED BY <1>2, <1>3, <1>4 DEF Exchange

(* What others hold is neither the call's own descriptor nor the pool's.   *)
LEMMA HeldApart ==
  ASSUME Shape, NEW w \in Workers, NEW v \in Workers, v # w, call[v].fd # NoFd
  PROVE  /\ call[v].fd \in Fds /\ call[v].fd # call[w].fd
         /\ sock[call[v].fd].host # NoHost
         /\ \A h \in Hosts : call[v].fd \notin FdsOf(idle[h])
BY UpstreamAssumption DEF Shape, TypeOK, Call, Owners

LEMMA NoCallIsClean == Clean(NoCall) /\ NoCall.fd = NoFd /\ NoCall \in Call
BY NoCallIsCall DEF Clean

(* The call of w returns.                                                  *)
LEMMA ExchangeEnds == ASSUME Exchanges, NEW w \in Workers, End(w) PROVE Exchange'
<1>0. call' = [call EXCEPT ![w] = NoCall] /\ sock' = SocketsWithout({call[w].fd}) /\ UNCHANGED idle
  BY DEF End
<1>1. \A f \in Fds : sock'[f] = IF f = call[w].fd THEN Closed ELSE sock[f]
  BY <1>0, WithoutSockets DEF Exchanges, Shape
<1>2. \A v \in Workers : v # w /\ call[v].fd # NoFd => sock'[call[v].fd] = sock[call[v].fd]
  BY <1>1, HeldApart DEF Exchanges
<1>3. \A h \in Hosts : \A f \in FdsOf(idle[h])' : Settled(sock'[f])
  <2>1. \A h \in Hosts : FdsOf(idle[h])' = FdsOf(idle[h]) /\ FdsOf(idle[h]) \subseteq Fds
    BY <1>0, PooledFds DEF FdsOf, Exchanges, Shape
  <2>2. \A h \in Hosts : \A f \in FdsOf(idle[h]) : f \in Fds /\ Settled(sock[f])
    BY <2>1 DEF Exchanges, Exchange
  <2> QED BY <1>1, <2>1, <2>2, ClosedIsSettled
<1> QED BY <1>0, <1>2, <1>3, NoCallIsClean, ExchangeOfCall

LEMMA ExchangeForward ==
  ASSUME Exchanges, NEW w \in Workers, NEW h \in Hosts, NEW r \in Requests, Forward(w, h, r)
  PROVE  Exchange'
<1> DEFINE c == [NoCall EXCEPT !.at = "lease", !.host = h, !.req = r]
<1>1. c \in Call /\ c.fd = NoFd /\ Clean(c)
  BY UpstreamAssumption DEF NoCall, Call, Stage, Clean
<1>2. call' = [call EXCEPT ![w] = c] /\ UNCHANGED <<idle, sock>>
  BY DEF Forward
<1>3. \A g \in Hosts : \A f \in FdsOf(idle[g])' : Settled(sock'[f])
  BY <1>2 DEF Exchanges, Exchange, FdsOf
<1> HIDE DEF c
<1> QED BY <1>1, <1>2, <1>3, ExchangeOfCall

LEMMA ExchangeConnect == ASSUME Exchanges, NEW w \in Workers, Connect(w) PROVE Exchange'
<1>1. PICK f \in Fds : /\ sock[f].host = NoHost
                       /\ sock' = [sock EXCEPT ![f] = Fresh(call[w].host)]
                       /\ call' = [call EXCEPT ![w].at = "connecting", ![w].fd = f]
  BY DEF Connect, FreeFds
<1> DEFINE c == [call[w] EXCEPT !.at = "connecting", !.fd = f]
<1>2. call[w] \in Call /\ call[w].at = "connect" /\ Clean(call[w]) /\ UNCHANGED idle
  BY DEF Connect, Exchanges, Exchange, Shape, TypeOK
<1>3. c \in Call /\ Clean(c) /\ c.fd = f /\ c.at = "connecting" /\ c.got = {}
  BY <1>2 DEF Call, Stage, Clean
<1>4. call' = [call EXCEPT ![w] = c]
  BY <1>1
<1>5. /\ sock'[f].inbox = <<>> /\ sock'[f].pending = <<>>
      /\ \A g \in Fds : g # f => sock'[g] = sock[g]
  BY <1>1 DEF Exchanges, Shape, TypeOK, Fresh, Closed
<1>6. \A v \in Workers : v # w /\ call[v].fd # NoFd => sock'[call[v].fd] = sock[call[v].fd]
  BY <1>1, <1>5, HeldApart DEF Exchanges
<1>7. \A h \in Hosts : \A g \in FdsOf(idle[h])' : Settled(sock'[g])
  <2>1. \A h \in Hosts : FdsOf(idle[h])' = FdsOf(idle[h]) /\ FdsOf(idle[h]) \subseteq Fds
    BY <1>2, PooledFds DEF FdsOf, Exchanges, Shape
  <2>2. Settled(sock'[f])
    BY <1>5 DEF Settled
  <2> QED BY <1>5, <2>1, <2>2 DEF Exchanges, Exchange
<1>9. Fine(c, sock'[f])
  BY <1>3, <1>5 DEF Fine
<1> HIDE DEF c
<1> QED BY <1>3, <1>4, <1>6, <1>7, <1>9, ExchangeOfCall

LEMMA ExchangeStage ==
  ASSUME Exchanges, NEW w \in Workers, CompleteConnect(w) \/ Send(w) PROVE Exchange'
<1> DEFINE at == IF call[w].at = "connecting" THEN "sending" ELSE "receiving"
           c == [call[w] EXCEPT !.at = at]
           f == call[w].fd
<1>1. /\ call[w] \in Call /\ call[w].at \in {"connecting", "sending"} /\ Clean(call[w])
      /\ f \in Fds /\ Fine(call[w], sock[f]) /\ call[w].got = {} /\ call[w].req \in Requests
      /\ sock \in [Fds -> Socket]
  BY CallTypes DEF CompleteConnect, Send, Exchanges, Exchange, Clean, Shape, TypeOK
<1>2. c \in Call /\ Clean(c) /\ c.fd = f /\ c.req = call[w].req /\ c.at = at /\ c.got = {}
  BY <1>1 DEF Call, Stage, Clean
<1>3. call' = [call EXCEPT ![w] = c] /\ UNCHANGED idle
  BY DEF CompleteConnect, Send
<1>4. sock[f].strayed \/ (sock[f].inbox = <<>> /\ sock[f].pending = <<>>)
  BY <1>1 DEF Fine
<1>5. /\ \A g \in Fds : g # f => sock'[g] = sock[g]
      /\ sock'[f].strayed = sock[f].strayed /\ sock'[f].inbox = sock[f].inbox
      /\ sock'[f].pending \in {sock[f].pending, Append(sock[f].pending, call[w].req)}
      /\ at = "sending" => sock'[f].pending = sock[f].pending
  <2>1. CASE sock' = sock
    BY <2>1
  <2>2. CASE sock' # sock
    <3>1. /\ sock' = [sock EXCEPT ![f].pending = Append(sock[f].pending, call[w].req)]
          /\ at = "receiving"
      BY <2>2 DEF CompleteConnect, Send
    <3> QED BY <1>1, <3>1 DEF Socket
  <2> QED BY <2>1, <2>2
<1>6. \A v \in Workers : v # w /\ call[v].fd # NoFd => sock'[call[v].fd] = sock[call[v].fd]
  BY <1>5, HeldApart DEF Exchanges
<1>7. \A h \in Hosts : \A g \in FdsOf(idle[h])' : Settled(sock'[g])
  <2>1. \A h \in Hosts : FdsOf(idle[h])' = FdsOf(idle[h]) /\ FdsOf(idle[h]) \subseteq Fds
    BY <1>3, PooledFds DEF FdsOf, Exchanges, Shape
  <2>2. \A h \in Hosts : f \notin FdsOf(idle[h])
    BY <1>1, UpstreamAssumption DEF Exchanges, Shape, Owners
  <2> QED BY <1>5, <2>1, <2>2 DEF Exchanges, Exchange
<1>9. Fine(c, sock'[f])
  <2>1. CASE sock[f].strayed
    BY <1>5, <2>1 DEF Fine
  <2>2. CASE sock[f].inbox = <<>> /\ sock[f].pending = <<>>
    <3>1. /\ sock'[f].inbox = <<>> /\ sock'[f].pending \in {<<>>, <<c.req>>}
          /\ at = "sending" => sock'[f].pending = <<>>
      BY <1>2, <1>5, <2>2
    <3>2. Len(<<>>) = 0 /\ \A i \in 1 .. 0 : FALSE
      OBVIOUS
    <3>3. at \in {"sending", "receiving"}
      OBVIOUS
    <3> HIDE DEF c, at
    <3> QED BY <1>2, <3>1, <3>2, <3>3 DEF Fine
  <2> QED BY <1>4, <2>1, <2>2
<1> HIDE DEF c
<1> QED BY <1>2, <1>3, <1>6, <1>7, <1>9, ExchangeOfCall

LEMMA ExchangeLease == ASSUME Exchanges, NEW w \in Workers, Lease(w) PROVE Exchange'
<1>0. PICK h0 \in Hosts : h0 = call[w].host
  BY CallTypes DEF Lease, Exchanges
<1> DEFINE s0 == idle[h0]
<1>1. /\ call[w] \in Call /\ call[w].at = "lease" /\ call[w].fd = NoFd /\ Clean(call[w])
      /\ s0 \in Seq(Pooled) /\ Tidy(s0, clock)
  BY CallTypes DEF Lease, Exchanges, Exchange, Shape, TypeOK, Pools
<1>2. PICK found \in 0 .. Len(s0) :
        /\ found # 0 => Healthy(s0[found].fd)
        /\ idle' = [idle EXCEPT ![h0] = SubSeq(s0, 1, found - 1)]
        /\ sock' = SocketsWithout({s0[i].fd : i \in found + 1 .. Len(s0)})
        /\ call' = IF found = 0 THEN [call EXCEPT ![w].at = "connect"]
                   ELSE [call EXCEPT ![w].at = "sending", ![w].fd = s0[found].fd]
        /\ UNCHANGED <<todo, clock, alive>>
  <2>1. PICK found \in 0 .. Len(idle[call[w].host]) :
          /\ found # 0 => Healthy(idle[call[w].host][found].fd)
          /\ idle' = [idle EXCEPT ![call[w].host] = SubSeq(idle[call[w].host], 1, found - 1)]
          /\ sock' = SocketsWithout({idle[call[w].host][i].fd : i \in found + 1 .. Len(idle[call[w].host])})
          /\ call' = IF found = 0 THEN [call EXCEPT ![w].at = "connect"]
                     ELSE [call EXCEPT ![w].at = "sending", ![w].fd = idle[call[w].host][found].fd]
          /\ UNCHANGED <<todo, clock, alive>>
    BY DEF Lease
  <2> QED BY <1>0, <2>1
<1> DEFINE shut == {s0[i].fd : i \in found + 1 .. Len(s0)}
           c == IF found = 0 THEN [call[w] EXCEPT !.at = "connect"]
                ELSE [call[w] EXCEPT !.at = "sending", !.fd = s0[found].fd]
<1>3. \A f \in Fds : sock'[f] = IF f \in shut THEN Closed ELSE sock[f]
  BY <1>2, WithoutSockets DEF Exchanges, Shape
<1>4. shut \subseteq FdsOf(s0)
  BY DEF FdsOf
<1>5. found # 0 => /\ s0[found].fd \in FdsOf(s0) /\ s0[found].fd \in Fds
                   /\ s0[found].fd \notin shut
  <2> SUFFICES ASSUME found # 0
               PROVE  s0[found].fd \in FdsOf(s0) /\ s0[found].fd \in Fds /\ s0[found].fd \notin shut
    OBVIOUS
  <2>1. found \in 1 .. Len(s0)
    OBVIOUS
  <2>2. \A i \in found + 1 .. Len(s0) : i \in 1 .. Len(s0) /\ i # found
    BY <2>1
  <2>3. s0[found].fd \notin shut
    BY <1>1, <2>1, <2>2 DEF Tidy
  <2>4. s0[found].fd \in FdsOf(s0)
    BY <2>1 DEF FdsOf
  <2> QED BY <2>3, <2>4, PooledFds DEF Exchanges, Shape
<1>6. \A h \in Hosts : FdsOf(idle[h])' \subseteq FdsOf(idle[h]) /\ FdsOf(idle[h]) \subseteq Fds
  <2>1. \A h \in Hosts : FdsOf(idle[h])' = FdsOf(idle'[h]) /\ FdsOf(idle[h]) \subseteq Fds
    BY PooledFds DEF FdsOf, Exchanges, Shape
  <2>2. FdsOf(SubSeq(s0, 1, found - 1)) \subseteq FdsOf(s0)
    BY <1>1, PrefixLeft
  <2>3. \A h \in Hosts : idle'[h] = IF h = h0 THEN SubSeq(s0, 1, found - 1) ELSE idle[h]
    BY <1>2 DEF Exchanges, Shape, TypeOK
  <2> QED BY <2>1, <2>2, <2>3
<1>7. \A h \in Hosts : \A f \in FdsOf(idle[h])' : Settled(sock'[f])
  <2>1. \A h \in Hosts : \A f \in FdsOf(idle[h])' : f \in Fds /\ Settled(sock[f])
    BY <1>6 DEF Exchanges, Exchange
  <2> QED BY <1>3, <2>1, ClosedIsSettled
<1>8. \A v \in Workers : v # w /\ call[v].fd # NoFd => sock'[call[v].fd] = sock[call[v].fd]
  BY <1>3, <1>4, HeldApart DEF Exchanges
<1>9. call' = [call EXCEPT ![w] = c]
  BY <1>2
<1>10. c \in Call /\ Clean(c) /\ c.got = {} /\ (found = 0 => c.fd = NoFd)
       /\ (found # 0 => c.fd = s0[found].fd /\ c.at = "sending")
  <2> HIDE DEF s0
  <2> QED BY <1>1, <1>5 DEF Call, Stage, Clean
<1>11. c.fd # NoFd => Fine(c, sock'[c.fd])
  <2> SUFFICES ASSUME c.fd # NoFd PROVE Fine(c, sock'[c.fd])
    OBVIOUS
  <2>1. found # 0
    BY <1>10
  <2>2. sock'[c.fd] = sock[c.fd] /\ sock[c.fd].inbox = <<>> /\ c.at = "sending" /\ c.fd \in FdsOf(s0)
    BY <1>2, <1>3, <1>5, <1>10, <2>1 DEF Healthy
  <2>3. Settled(sock[c.fd])
    BY <2>2 DEF Exchanges, Exchange
  <2> QED BY <1>10, <2>2, <2>3 DEF Fine, Settled
<1> HIDE DEF c
<1> QED BY <1>7, <1>8, <1>9, <1>10, <1>11, ExchangeOfCall

LEMMA ExchangeRelease == ASSUME Exchanges, NEW w \in Workers, Release(w) PROVE Exchange'
<1>1. PICK h0 \in Hosts, f0 \in Fds : h0 = call[w].host /\ f0 = call[w].fd /\ f0 # NoFd
  BY CallTypes, UpstreamAssumption DEF Release, Exchanges
<1> DEFINE s0 == idle[h0]
           e0 == [fd |-> f0, lastUsed |-> clock]
<1>2. /\ s0 \in Seq(Pooled) /\ Tidy(s0, clock) /\ DOMAIN s0 = 1 .. Len(s0)
      /\ Entry(w) = e0 /\ e0 \in Pooled /\ Settled(sock[f0])
  <2>1. s0 \in Seq(Pooled) /\ Tidy(s0, clock) /\ clock \in 0 .. MaxTime
    BY DEF Exchanges, Shape, TypeOK, Pools
  <2>2. Settled(sock[f0])
    BY <1>1 DEF Release, Exchanges, Exchange, Fine, Settled
  <2> QED BY <1>1, <2>1, <2>2, LenProperties DEF Entry, Pooled
<1>3. PICK S \in SUBSET FdsOf(s0), t0 \in Seq(Pooled) :
         /\ FdsOf(t0) \subseteq FdsOf(s0)
         /\ idle' = [idle EXCEPT ![h0] = Append(t0, e0)]
         /\ \A f \in Fds : sock'[f] = IF f \in S THEN Closed ELSE sock[f]
  <2>1. CASE Len(s0) < MaxIdle
    <3>1. idle' = [idle EXCEPT ![h0] = Append(s0, e0)] /\ sock' = sock
      <4>1. PutsInto(w, h0) /\ Len(s0) \in Nat /\ MaxIdle \in Nat
        BY <1>1, <1>2, ReleasePuts, LenProperties, UpstreamAssumption
      <4> HIDE DEF e0
      <4> QED BY <1>2, <2>1, <4>1 DEF PutsInto
    <3>2. {} \in SUBSET FdsOf(s0) /\ \A f \in Fds : sock'[f] = IF f \in {} THEN Closed ELSE sock[f]
      BY <3>1
    <3> HIDE DEF s0, e0
    <3> QED BY <1>2, <3>1, <3>2 DEF s0
  <2>2. CASE ~(Len(s0) < MaxIdle)
    <3>1. PICK i \in 1 .. Len(s0) : /\ idle' = [idle EXCEPT ![h0] = Append(RemoveAt(s0, i), e0)]
                                    /\ sock' = SocketsWithout({s0[i].fd})
      <4>1. PutsInto(w, h0) /\ DOMAIN s0 = 1 .. Len(s0)
        BY <1>1, <1>2, ReleasePuts
      <4> HIDE DEF e0
      <4> QED BY <1>2, <2>2, <4>1 DEF PutsInto
    <3>2. RemoveAt(s0, i) \in Seq(Pooled) /\ FdsOf(RemoveAt(s0, i)) \subseteq FdsOf(s0)
      BY <1>2, RemovedLeft
    <3>3. {s0[i].fd} \in SUBSET FdsOf(s0)
      BY DEF FdsOf
    <3>4. \A f \in Fds : sock'[f] = IF f \in {s0[i].fd} THEN Closed ELSE sock[f]
      BY <3>1, WithoutSockets DEF Exchanges, Shape
    <3> QED BY <3>1, <3>2, <3>3, <3>4
  <2> QED BY <2>1, <2>2
<1>4. \A g \in FdsOf(Append(t0, e0)) : g \in FdsOf(t0) \/ g = f0
  <2>1. /\ Len(Append(t0, e0)) = Len(t0) + 1 /\ Append(t0, e0)[Len(t0) + 1] = e0
        /\ \A i \in 1 .. Len(t0) : Append(t0, e0)[i] = t0[i]
    BY <1>2, AppendProperties
  <2>2. \A i \in 1 .. Len(t0) + 1 : i \in 1 .. Len(t0) \/ i = Len(t0) + 1
    BY LenProperties
  <2> QED BY <2>1, <2>2 DEF FdsOf
<1> HIDE DEF e0
<1>5. \A h \in Hosts : \A g \in FdsOf(idle[h])' : g \in Fds /\ Settled(sock[g])
  <2>1. \A h \in Hosts : FdsOf(idle[h])' = FdsOf(idle'[h]) /\ FdsOf(idle[h]) \subseteq Fds
    BY PooledFds DEF FdsOf, Exchanges, Shape
  <2>2. \A h \in Hosts : idle'[h] = IF h = h0 THEN Append(t0, e0) ELSE idle[h]
    BY <1>3 DEF Exchanges, Shape, TypeOK
  <2>3. \A h \in Hosts : \A g \in FdsOf(idle[h]) : g \in Fds /\ Settled(sock[g])
    BY <2>1 DEF Exchanges, Exchange
  <2>4. \A g \in FdsOf(Append(t0, e0)) : g \in Fds /\ Settled(sock[g])
    BY <1>2, <1>3, <1>4, <2>3
  <2> QED BY <2>1, <2>2, <2>3, <2>4
<1>6. \A h \in Hosts : \A g \in FdsOf(idle[h])' : Settled(sock'[g])
  BY <1>3, <1>5, ClosedIsSettled
<1>7. \A v \in Workers : v # w /\ call[v].fd # NoFd => sock'[call[v].fd] = sock[call[v].fd]
  BY <1>3, HeldApart DEF Exchanges
<1>8. call' = [call EXCEPT ![w] = NoCall]
  BY DEF Release
<1> QED BY <1>6, <1>7, <1>8, NoCallIsClean, ExchangeOfCall

(* An inbox whose first k pieces, parts all of them, have been read.       *)
LEMMA RestOfInbox ==
  ASSUME NEW inbox \in Seq(Item), NEW k \in 1 .. Len(inbox), NEW r,
         \A i \in 1 .. k : inbox[i].kind = "part",
         \A i \in 1 .. Len(inbox) : Leads(inbox, i) => inbox[i].req = r
  PROVE  LET b == SubSeq(inbox, k + 1, Len(inbox))
         IN /\ \A i \in 1 .. Len(b) : Leads(b, i) => b[i].req = r
            /\ \A i \in 1 .. Len(b) : \E j \in 1 .. Len(inbox) : b[i] = inbox[j]
<1> DEFINE b == SubSeq(inbox, k + 1, Len(inbox))
<1>1. PICK n \in Nat : n = Len(inbox)
  OBVIOUS
<1>2. k \in 1 .. n
  BY <1>1
<1>3. Len(b) = n - k /\ \A i \in 1 .. n - k : b[i] = inbox[i + k] /\ i + k \in 1 .. n
  <2>1. k + 1 \in Int /\ n \in Int /\ \A i \in k + 1 .. n : inbox[i] \in Item
    BY <1>1, <1>2, ElementOfSeq
  <2>2. b = SubSeq(inbox, k + 1, n)
    BY <1>1
  <2>3. /\ Len(b) = IF k + 1 <= n THEN n - (k + 1) + 1 ELSE 0
        /\ \A i \in 1 .. n - (k + 1) + 1 : b[i] = inbox[k + 1 + i - 1]
    <3> HIDE DEF b
    <3> QED BY <2>1, <2>2, SubSeqProperties, SMTT(20)
  <2>4. /\ n - (k + 1) + 1 = n - k /\ (k + 1 <= n \/ n - k = 0)
        /\ \A i \in 1 .. n - k : k + 1 + i - 1 = i + k /\ i + k \in 1 .. n
    BY <1>2
  <2> HIDE DEF b
  <2>5. Len(b) = n - k
    BY <2>3, <2>4
  <2> QED BY <2>3, <2>4, <2>5
<1> HIDE DEF b
<1>4. ASSUME NEW i \in 1 .. Len(b), Leads(b, i) PROVE b[i].req = r
  <2>1. i \in 1 .. n - k /\ i + k \in 1 .. n /\ b[i] = inbox[i + k]
    BY <1>3, <1>4
  <2>2. ASSUME NEW j \in 1 .. n, j < i + k PROVE inbox[j].kind = "part"
    <3>1. CASE j <= k
      <4>1. j \in 1 .. k
        BY <1>2, <2>2, <3>1
      <4> QED BY <4>1
    <3>2. CASE ~(j <= k)
      <4>1. j - k \in 1 .. n - k /\ j - k < i /\ (j - k) + k = j
        BY <1>2, <2>1, <2>2, <3>2
      <4>2. b[j - k].kind = "part"
        BY <1>3, <1>4, <4>1 DEF Leads
      <4> QED BY <1>3, <4>1, <4>2
    <3> QED BY <3>1, <3>2
  <2>3. Leads(inbox, i + k)
    BY <1>1, <2>2 DEF Leads
  <2> QED BY <1>1, <2>1, <2>3
<1>5. \A i \in 1 .. Len(b) : \E j \in 1 .. Len(inbox) : b[i] = inbox[j]
  BY <1>1, <1>3
<1> QED BY <1>4, <1>5 DEF b

LEMMA ExchangeReceive == ASSUME Exchanges, NEW w \in Workers, Receive(w) PROVE Exchange'
<1> DEFINE f == call[w].fd
           inbox == sock[f].inbox
           rest(k) == [sock EXCEPT ![f].inbox = SubSeq(inbox, k + 1, Len(inbox))]
           r == call[w].req
<1>1. /\ f \in Fds /\ f # NoFd /\ inbox \in Seq(Item) /\ call[w] \in Call
      /\ call[w].at = "receiving" /\ r \in Requests /\ sock[f] \in Socket
      /\ sock \in [Fds -> Socket] /\ UNCHANGED idle
  BY CallTypes, UpstreamAssumption DEF Receive, Socket, Exchanges, Shape, TypeOK
<1>2. sock[f].strayed \/
      /\ sock[f].pending \in {<<>>, <<r>>} /\ call[w].got \subseteq {r}
      /\ \A i \in 1 .. Len(inbox) : Leads(inbox, i) => inbox[i].req = r
      /\ sock[f].pending # <<>> => \A i \in 1 .. Len(inbox) : inbox[i].kind = "part"
  BY <1>1 DEF Exchanges, Exchange, Fine
<1>3. PICK k \in 1 .. Len(inbox), used \in SUBSET (1 .. Len(inbox)),
           got \in SUBSET (Requests \cup {NoRequest}) :
        /\ got = call[w].got \cup {inbox[i].req : i \in used}
        /\ \A i \in used : Leads(inbox, i)
        /\ \/ TookParts(w, k, got) /\ sock' = rest(k)
           \/ TookLast(w, got) /\ sock' = rest(k)
           \/ End(w)
  BY WhatReceiveDoes DEF Exchanges
<1>4. sock[f].strayed \/ got \subseteq {r}
  BY <1>2, <1>3
<1> DEFINE b == SubSeq(inbox, k + 1, Len(inbox))
<1>9. /\ rest(k)[f].inbox = b /\ rest(k)[f].pending = sock[f].pending
      /\ rest(k)[f].strayed = sock[f].strayed
      /\ \A g \in Fds : g # f => rest(k)[g] = sock[g]
  BY <1>1 DEF Socket
<1> HIDE DEF rest, b
<1>10. ASSUME sock' = rest(k)
       PROVE  /\ \A v \in Workers : v # w /\ call[v].fd # NoFd => sock'[call[v].fd] = sock[call[v].fd]
              /\ \A h \in Hosts : \A g \in FdsOf(idle[h])' : Settled(sock'[g])
  <2>1. \A h \in Hosts : FdsOf(idle[h])' = FdsOf(idle[h]) /\ FdsOf(idle[h]) \subseteq Fds
    BY <1>1, PooledFds DEF FdsOf, Exchanges, Shape
  <2>2. \A h \in Hosts : \A g \in FdsOf(idle[h])' : g \in Fds /\ g # f /\ Settled(sock[g])
    BY <1>1, <2>1 DEF Exchanges, Exchange, Shape, Owners
  <2>3. \A v \in Workers : v # w /\ call[v].fd # NoFd => call[v].fd \in Fds /\ call[v].fd # f
    BY HeldApart DEF Exchanges
  <2> QED BY <1>9, <1>10, <2>2, <2>3
<1>11. CASE TookParts(w, k, got) /\ sock' = rest(k)
  <2> DEFINE c == [call[w] EXCEPT !.got = got]
  <2>1. c \in Call /\ Clean(c) /\ c.fd = f /\ c.req = r /\ c.at = "receiving" /\ c.got = got
    BY <1>1 DEF Call, Clean
  <2>2. call' = [call EXCEPT ![w] = c] /\ \A i \in 1 .. k : inbox[i].kind = "part"
    BY <1>11 DEF TookParts
  <2> HIDE DEF c
  <2>3. Fine(c, sock'[f])
    <3>1. sock'[f].inbox = b /\ sock'[f].pending = sock[f].pending /\ sock'[f].strayed = sock[f].strayed
      BY <1>9, <1>11
    <3>2. CASE sock[f].strayed
      BY <3>1, <3>2 DEF Fine
    <3>3. CASE ~sock[f].strayed
      <4>1. /\ sock[f].pending \in {<<>>, <<r>>} /\ got \subseteq {r}
            /\ \A i \in 1 .. Len(inbox) : Leads(inbox, i) => inbox[i].req = r
            /\ sock[f].pending # <<>> => \A i \in 1 .. Len(inbox) : inbox[i].kind = "part"
        BY <1>2, <1>4, <3>3
      <4> HIDE DEF inbox, r, f
      <4>2. /\ \A i \in 1 .. Len(b) : Leads(b, i) => b[i].req = r
            /\ \A i \in 1 .. Len(b) : \E j \in 1 .. Len(inbox) : b[i] = inbox[j]
        BY <1>1, <2>2, <4>1, RestOfInbox DEF b
      <4>3. sock[f].pending # <<>> => \A i \in 1 .. Len(b) : b[i].kind = "part"
        BY <4>1, <4>2
      <4> QED BY <2>1, <3>1, <4>1, <4>2, <4>3 DEF Fine
    <3> QED BY <3>2, <3>3
  <2> QED BY <1>10, <1>11, <2>1, <2>2, <2>3, ExchangeOfCall
<1>12. CASE TookLast(w, got) /\ sock' = rest(k)
  <2>0. PICK at \in {"release", "return"} : call' = [call EXCEPT ![w].at = at, ![w].got = got]
    BY <1>12 DEF TookLast
  <2> DEFINE c == [call[w] EXCEPT !.at = at, !.got = got]
  <2>1. c \in Call /\ Clean(c) /\ c.fd = f /\ c.req = r /\ c.got = got /\ c.at \in {"release", "return"}
    BY <1>1 DEF Call, Stage, Clean
  <2>2. call' = [call EXCEPT ![w] = c]
    BY <2>0
  <2> HIDE DEF c
  <2>3. sock[f].strayed \/ sock[f].pending = <<>>
    BY <1>2, <1>12 DEF TookLast
  <2>4. Fine(c, sock'[f])
    BY <1>4, <1>9, <1>12, <2>1, <2>3 DEF Fine
  <2> QED BY <1>10, <1>12, <2>1, <2>2, <2>4, ExchangeOfCall
<1>13. CASE End(w)
  BY <1>13, ExchangeEnds
<1> QED BY <1>3, <1>11, <1>12, <1>13

(* Upstream hosts change what is on one connection.                        *)
LEMMA ExchangeOfUpstream ==
  ASSUME Exchanges, NEW f \in Fds, NEW s \in Socket, sock' = [sock EXCEPT ![f] = s],
         UNCHANGED <<call, idle>>,
         \A w \in Workers : call[w].fd = f /\ Fine(call[w], sock[f]) => Fine(call[w], s),
         Settled(sock[f]) => Settled(s)
  PROVE  Exchange'
<1>1. sock'[f] = s /\ \A g \in Fds : g # f => sock'[g] = sock[g]
  BY DEF Exchanges, Shape, TypeOK
<1>2. \A w \in Workers : Clean(call[w])' <=> Clean(call[w])
  BY DEF Clean
<1>3. \A w \in Workers : call[w].fd # NoFd => Fine(call[w], sock'[call[w].fd])
  <2> SUFFICES ASSUME NEW w \in Workers, call[w].fd # NoFd PROVE Fine(call[w], sock'[call[w].fd])
    OBVIOUS
  <2>1. call[w].fd \in Fds /\ Fine(call[w], sock[call[w].fd])
    BY CallTypes DEF Exchanges, Exchange
  <2>2. CASE call[w].fd = f
    BY <1>1, <2>1, <2>2
  <2>3. CASE call[w].fd # f
    BY <1>1, <2>1, <2>3
  <2> QED BY <2>2, <2>3
<1>4. \A w \in Workers : Fine(call[w], sock[call[w].fd])' <=> Fine(call[w], sock'[call[w].fd])
  BY DEF Fine, Leads
<1>5. \A h \in Hosts : \A g \in FdsOf(idle[h])' : Settled(sock'[g])
  <2>1. \A h \in Hosts : FdsOf(idle[h])' = FdsOf(idle[h]) /\ FdsOf(idle[h]) \subseteq Fds
    BY PooledFds DEF FdsOf, Exchanges, Shape
  <2>2. \A h \in Hosts : \A g \in FdsOf(idle[h])' : g \in Fds /\ Settled(sock[g])
    BY <2>1 DEF Exchanges, Exchange
  <2> QED BY <1>1, <2>2
<1>6. \A g : Settled(sock[g])' <=> Settled(sock'[g])
  BY DEF Settled
<1> QED BY <1>2, <1>3, <1>4, <1>5, <1>6 DEF Exchanges, Exchange

(* One more item at the end of an inbox.                                   *)
LEMMA LongerInbox ==
  ASSUME NEW inbox \in Seq(Item), NEW item \in Item
  PROVE  LET b == Append(inbox, item)
         IN /\ b \in Seq(Item)
            /\ \A i \in 1 .. Len(b) : \/ i \in 1 .. Len(inbox) /\ b[i] = inbox[i]
                                         /\ (Leads(b, i) => Leads(inbox, i))
                                      \/ b[i] = item /\ (Leads(b, i) =>
                                            \A j \in 1 .. Len(inbox) : inbox[j].kind = "part")
<1> DEFINE b == Append(inbox, item)
<1>1. PICK n \in Nat : n = Len(inbox)
  OBVIOUS
<1>2. /\ b \in Seq(Item) /\ Len(b) = n + 1 /\ b[n + 1] = item
      /\ \A i \in 1 .. n : b[i] = inbox[i]
  BY <1>1, AppendProperties
<1>3. \A i \in 1 .. n + 1 : i \in 1 .. n \/ i = n + 1
  BY <1>1
<1>4. \A j \in 1 .. n : j \in 1 .. n + 1 /\ j < n + 1
  BY <1>1
<1> HIDE DEF b
<1>5. \A i \in 1 .. n : Leads(b, i) => Leads(inbox, i)
  BY <1>1, <1>2, <1>4 DEF Leads
<1>6. Leads(b, n + 1) => \A j \in 1 .. n : inbox[j].kind = "part"
  BY <1>1, <1>2, <1>4 DEF Leads
<1> QED BY <1>1, <1>2, <1>3, <1>5, <1>6 DEF b

(* What is outstanding on a connection that has not strayed is the request of *)
(* the call that waits on it, and only parts of its answer are on their way.  *)
LEMMA Outstanding ==
  ASSUME NEW c, NEW s, Fine(c, s), ~s.strayed, s.pending # <<>>,
         c.at \notin {"none", "lease", "connect"}, c.at \in Stage
  PROVE  /\ c.at = "receiving" /\ s.pending = <<c.req>> /\ c.got \subseteq {c.req}
         /\ Head(s.pending) = c.req /\ Tail(s.pending) = <<>>
         /\ \A i \in 1 .. Len(s.inbox) : s.inbox[i].kind = "part" /\ s.inbox[i].req = c.req
<1>1. /\ c.at = "receiving" /\ s.pending = <<c.req>> /\ c.got \subseteq {c.req}
      /\ \A i \in 1 .. Len(s.inbox) : s.inbox[i].kind = "part"
      /\ \A i \in 1 .. Len(s.inbox) : Leads(s.inbox, i) => s.inbox[i].req = c.req
  BY DEF Fine, Stage
<1>2. \A i \in 1 .. Len(s.inbox) : Leads(s.inbox, i)
  BY <1>1 DEF Leads
<1>3. Head(<<c.req>>) = c.req /\ Tail(<<c.req>>) = <<>>
  OBVIOUS
<1> QED BY <1>1, <1>2, <1>3

(* The answer to the oldest request: a part of it, or its end.             *)
LEMMA ExchangeReply ==
  ASSUME Exchanges, NEW f \in Fds, sock[f].pending # <<>>,
         NEW item \in Item, item.req = Head(sock[f].pending), NEW s \in Socket,
         s.inbox = Append(sock[f].inbox, item), s.strayed = sock[f].strayed,
         \/ s.pending = Tail(sock[f].pending)
         \/ s.pending = sock[f].pending /\ item.kind = "part",
         sock' = [sock EXCEPT ![f] = s], UNCHANGED <<call, idle>>
  PROVE  Exchange'
<1>1. sock[f].inbox \in Seq(Item)
  BY DEF Exchanges, Shape, TypeOK, Socket
<1>2. Settled(sock[f]) => Settled(s)
  BY DEF Settled
<1>3. ASSUME NEW w \in Workers, call[w].fd = f, Fine(call[w], sock[f]) PROVE Fine(call[w], s)
  <2>1. CASE sock[f].strayed
    BY <2>1 DEF Fine
  <2>2. CASE ~sock[f].strayed
    <3> DEFINE c == call[w]
    <3>1. c.at \notin {"none", "lease", "connect"} /\ c.at \in Stage
      BY <1>3, UpstreamAssumption DEF Exchanges, Shape, TypeOK, Call
    <3>2. /\ c.at = "receiving" /\ sock[f].pending = <<c.req>> /\ c.got \subseteq {c.req}
          /\ Head(sock[f].pending) = c.req /\ Tail(sock[f].pending) = <<>>
          /\ \A i \in 1 .. Len(sock[f].inbox) :
               sock[f].inbox[i].kind = "part" /\ sock[f].inbox[i].req = c.req
      BY <1>3, <2>2, <3>1, Outstanding
    <3>3. \A i \in 1 .. Len(s.inbox) : s.inbox[i].req = c.req
                                      /\ (s.inbox[i].kind = "part" \/ s.inbox[i] = item)
      BY <1>1, <3>2, LongerInbox
    <3>4. s.pending # <<>> => \A i \in 1 .. Len(s.inbox) : s.inbox[i].kind = "part"
      BY <3>2, <3>3
    <3>5. s.pending \in {<<>>, <<c.req>>}
      BY <3>2
    <3> HIDE DEF c
    <3> QED BY <3>2, <3>3, <3>4, <3>5 DEF Fine, c
  <2> QED BY <2>1, <2>2
<1> QED BY <1>2, <1>3, ExchangeOfUpstream

(* What nobody asked for spoils the connection of a call that waits, and is  *)
(* behind the end of the response otherwise.                               *)
LEMMA ExchangeStray ==
  ASSUME Exchanges, NEW f \in Fds, NEW kind \in Unasked, Stray(f, kind) PROVE Exchange'
<1> DEFINE item == [req |-> NoRequest, kind |-> kind]
           a == Awaited(f)
           s == [sock[f] EXCEPT !.strayed = a, !.inbox = Append(@, item)]
<1>1. /\ sock[f] \in Socket /\ sock[f].inbox \in Seq(Item) /\ ~sock[f].strayed
      /\ item \in Item /\ a \in BOOLEAN
  BY UpstreamAssumption DEF Exchanges, Shape, TypeOK, Socket, Item, Awaited, Stray
<1>2. Append(sock[f].inbox, item) \in Seq(Item)
  BY <1>1
<1> HIDE DEF a
<1>3. sock' = [sock EXCEPT ![f] = s] /\ UNCHANGED <<call, idle>>
  BY <1>1 DEF Stray, a, Exchanges, Shape, TypeOK
<1>4. /\ s \in Socket /\ s.inbox = Append(sock[f].inbox, item)
      /\ s.pending = sock[f].pending /\ s.strayed = a
  BY <1>1, <1>2 DEF Socket
<1> HIDE DEF s, item
<1>5. Settled(sock[f]) => Settled(s)
  BY <1>1, <1>4 DEF Settled
<1>6. ASSUME NEW w \in Workers, call[w].fd = f, Fine(call[w], sock[f]) PROVE Fine(call[w], s)
  <2>1. CASE a
    BY <1>4, <2>1 DEF Fine
  <2>2. CASE ~a
    <3>1. call[w].at \in {"connecting", "sending", "receiving"} =>
             \E i \in 1 .. Len(sock[f].inbox) : sock[f].inbox[i].kind # "part"
      <4>1. DOMAIN sock[f].inbox = 1 .. Len(sock[f].inbox)
        BY <1>1, LenProperties
      <4> QED BY <1>6, <2>2, <4>1 DEF a, Awaited
    <3>2. call[w].at \notin {"connecting", "sending"}
      <4>1. call[w].at \in {"connecting", "sending"} => sock[f].inbox = <<>>
        BY <1>1, <1>6 DEF Fine
      <4>2. \A i \in 1 .. Len(<<>>) : FALSE
        OBVIOUS
      <4> QED BY <3>1, <4>1, <4>2
    <3>3. CASE call[w].at = "receiving"
      <4>1. sock[f].pending = <<>> /\ call[w].got \subseteq {call[w].req}
        BY <1>1, <1>6, <3>1, <3>3 DEF Fine
      <4>2. \A i \in 1 .. Len(s.inbox) : Leads(s.inbox, i) =>
               i \in 1 .. Len(sock[f].inbox) /\ s.inbox[i] = sock[f].inbox[i] /\ Leads(sock[f].inbox, i)
        BY <1>1, <1>4, <3>1, <3>3, LongerInbox
      <4>3. \A i \in 1 .. Len(sock[f].inbox) : Leads(sock[f].inbox, i) => sock[f].inbox[i].req = call[w].req
        BY <1>1, <1>6, <3>3 DEF Fine
      <4>4. \A i \in 1 .. Len(s.inbox) : Leads(s.inbox, i) => s.inbox[i].req = call[w].req
        BY <4>2, <4>3
      <4> QED BY <1>4, <3>3, <4>1, <4>4 DEF Fine
    <3>4. CASE call[w].at # "receiving"
      BY <1>1, <1>4, <1>6, <3>2, <3>4 DEF Fine
    <3> QED BY <3>3, <3>4
  <2> QED BY <2>1, <2>2
<1> QED BY <1>3, <1>4, <1>5, <1>6, ExchangeOfUpstream

LEMMA ExchangeUpstream ==
  ASSUME Exchanges, NEW f \in Fds,
         AnswerPart(f) \/ UpstreamCloses(f) \/ \E kind \in Replies : Answer(f, kind)
  PROVE  Exchange'
<1>1. /\ sock[f] \in Socket /\ sock[f].inbox \in Seq(Item) /\ sock[f].pending \in Seq(Requests)
      /\ sock \in [Fds -> Socket]
  BY DEF Exchanges, Shape, TypeOK, Socket
<1>2. sock[f].pending # <<>> => Head(sock[f].pending) \in Requests /\ Tail(sock[f].pending) \in Seq(Requests)
  BY <1>1, HeadTailProperties
<1>3. CASE AnswerPart(f)
  <2> DEFINE item == [req |-> Head(sock[f].pending), kind |-> "part"]
             s == [sock[f] EXCEPT !.begun = TRUE, !.inbox = Append(@, item)]
  <2>1. item \in Item /\ sock[f].pending # <<>> /\ item.kind = "part" /\ item.req = Head(sock[f].pending)
    BY <1>2, <1>3 DEF AnswerPart, Item
  <2>2. Append(sock[f].inbox, item) \in Seq(Item)
    BY <1>1, <2>1
  <2>3. sock' = [sock EXCEPT ![f] = s] /\ UNCHANGED <<call, idle>>
    BY <1>1, <1>3 DEF AnswerPart
  <2>4. /\ s \in Socket /\ s.inbox = Append(sock[f].inbox, item)
        /\ s.pending = sock[f].pending /\ s.strayed = sock[f].strayed
    BY <1>1, <2>2 DEF Socket
  <2> HIDE DEF s, item
  <2> QED BY <2>1, <2>3, <2>4, ExchangeReply
<1>4. CASE UpstreamCloses(f)
  <2>1. PICK unread \in {<<>>, sock[f].inbox} :
          sock' = [sock EXCEPT ![f].eof = TRUE, ![f].inbox = unread,
                               ![f].pending = <<>>, ![f].begun = FALSE]
    BY <1>4 DEF UpstreamCloses
  <2> DEFINE s == [sock[f] EXCEPT !.eof = TRUE, !.inbox = unread, !.pending = <<>>, !.begun = FALSE]
  <2>2. unread \in Seq(Item) /\ <<>> \in Seq(Requests)
    <3>1. <<>> \in Seq(Item) /\ <<>> \in Seq(Requests)
      BY EmptySeq
    <3> QED BY <1>1, <3>1
  <2>3. sock' = [sock EXCEPT ![f] = s] /\ UNCHANGED <<call, idle>>
    BY <1>1, <1>4, <2>1 DEF UpstreamCloses
  <2>4. s \in Socket /\ s.inbox = unread /\ s.pending = <<>> /\ s.strayed = sock[f].strayed
    BY <1>1, <2>2 DEF Socket
  <2> HIDE DEF s
  <2>5. ASSUME NEW w \in Workers, call[w].fd = f, Fine(call[w], sock[f]) PROVE Fine(call[w], s)
    <3>1. CASE unread = <<>>
      <4>1. \A i \in 1 .. Len(<<>>) : FALSE
        OBVIOUS
      <4> QED BY <2>4, <2>5, <3>1, <4>1 DEF Fine
    <3>2. CASE unread = sock[f].inbox
      BY <2>4, <2>5, <3>2 DEF Fine
    <3> QED BY <3>1, <3>2
  <2>6. Settled(s)
    BY <2>4 DEF Settled
  <2> QED BY <2>3, <2>4, <2>5, <2>6, ExchangeOfUpstream
<1>5. ASSUME NEW kind \in Replies, Answer(f, kind) PROVE Exchange'
  <2> DEFINE item == [req |-> Head(sock[f].pending), kind |-> kind]
             s == [sock[f] EXCEPT !.begun = FALSE, !.pending = Tail(@),
                                  !.eof = (kind = "endClose"), !.inbox = Append(@, item)]
  <2>1. item \in Item /\ sock[f].pending # <<>> /\ item.req = Head(sock[f].pending)
    BY <1>2, <1>5, UpstreamAssumption DEF Answer, Item
  <2>2. Append(sock[f].inbox, item) \in Seq(Item)
    BY <1>1, <2>1
  <2>3. sock' = [sock EXCEPT ![f] = s] /\ UNCHANGED <<call, idle>>
    BY <1>1, <1>5 DEF Answer
  <2>4. /\ s \in Socket /\ s.inbox = Append(sock[f].inbox, item)
        /\ s.pending = Tail(sock[f].pending) /\ s.strayed = sock[f].strayed
    BY <1>1, <1>2, <2>1, <2>2 DEF Socket
  <2> HIDE DEF s, item
  <2> QED BY <2>1, <2>3, <2>4, ExchangeReply
<1> QED BY <1>3, <1>4, <1>5

(* Entries that leave the pool take nothing of anybody's with them.        *)
LEMMA ExchangeSheds == ASSUME Exchanges, Sheds PROVE Exchange'
<1>1. PICK S : ShedsFds(S)
  BY DEF Sheds
<1>2. \A f \in Fds : sock'[f] = IF f \in S THEN Closed ELSE sock[f]
  BY <1>1, WithoutSockets DEF Exchanges, Shape, ShedsFds
<1>3. \A w \in Workers : call[w].fd # NoFd => sock'[call[w].fd] = sock[call[w].fd]
  BY <1>1, <1>2, CallTypes DEF Exchanges, Shape, Owners, ShedsFds
<1>4. \A h \in Hosts : \A g \in FdsOf(idle[h])' : Settled(sock'[g])
  <2>1. \A h \in Hosts : FdsOf(idle[h])' = FdsOf(idle'[h])
    BY DEF FdsOf
  <2>2. \A h \in Hosts : \A g \in FdsOf(idle[h])' : g \in Fds /\ Settled(sock[g])
    BY <1>1, <2>1, PooledFds DEF Exchanges, Exchange, Shape, ShedsFds
  <2> QED BY <1>2, <2>2, ClosedIsSettled
<1>5. UNCHANGED call
  BY DEF Sheds
<1>6. \A w \in Workers : /\ Clean(call[w])' <=> Clean(call[w])
                         /\ Fine(call[w], sock[call[w].fd])' <=> Fine(call[w], sock'[call[w].fd])
  BY <1>5 DEF Clean, Fine, Leads
<1>7. \A g : Settled(sock[g])' <=> Settled(sock'[g])
  BY DEF Settled
<1> QED BY <1>3, <1>4, <1>5, <1>6, <1>7 DEF Exchanges, Exchange

LEMMA StepExchange == Exchanges /\ [Next]_vars => Exchange'
<1> SUFFICES ASSUME Exchanges, [Next]_vars PROVE Exchange'
  OBVIOUS
<1>1. ASSUME NEW w \in Workers, NEW h \in Hosts, NEW r \in Requests, Forward(w, h, r)
      PROVE  Exchange'
  BY <1>1, ExchangeForward
<1>2. ASSUME NEW w \in Workers, CallStep(w) PROVE Exchange'
  <2>1. CASE End(w)
    BY <2>1, ExchangeEnds
  <2>2. ~End(w) => \/ Lease(w) \/ Connect(w) \/ CompleteConnect(w) \/ Send(w)
                   \/ Receive(w) \/ Release(w)
    BY <1>2 DEF CallStep, ConnectFails, ConnectionNotMade, SendFails, ReceiveEnd, ReceiveTimesOut, Return
  <2> QED
    BY <2>1, <2>2, ExchangeLease, ExchangeConnect, ExchangeStage, ExchangeReceive, ExchangeRelease
<1>3. CASE ReapStale \/ CloseAll
  BY <1>3, ReapSheds, CloseAllSheds, ExchangeSheds DEF Exchanges
<1>4. ASSUME NEW f \in Fds, AnswerPart(f) \/ UpstreamCloses(f) \/ \E kind \in Replies : Answer(f, kind)
      PROVE  Exchange'
  BY <1>4, ExchangeUpstream
<1>5. ASSUME NEW f \in Fds, NEW kind \in Unasked, Stray(f, kind) PROVE Exchange'
  BY <1>5, ExchangeStray
<1>6. CASE Tick \/ UNCHANGED vars
  <2>1. UNCHANGED <<call, idle, sock>>
    BY <1>6 DEF Tick, vars
  <2> QED BY <2>1 DEF Exchanges, Exchange, Clean, Fine, Leads, Settled, FdsOf
<1> QED BY <1>1, <1>2, <1>3, <1>4, <1>5, <1>6 DEF Next

LEMMA ExchangesAlways == Spec => []Exchanges
<1>1. Init => Exchanges
  BY InitShape, InitExchange DEF Exchanges
<1>2. Exchanges /\ [Next]_vars => Exchanges'
  BY StepShape, StepExchange DEF Exchanges
<1> QED BY <1>1, <1>2, PTL DEF Spec

\* The pool of a host is bounded and ordered, and none of its connections, nor one on
\* its way into the pool or out of it, has a request outstanding, whatever upstreams
\* send and when; unless the upstream sent something unasked on that very connection
\* while a call was waiting there, which HttpClient took for the response.
THEOREM PoolStaysSound == Spec => []PoolIsSound
<1>1. Exchanges => PoolIsSound
  <2> SUFFICES ASSUME Exchanges PROVE PoolIsBounded /\ PooledIsFinished
    BY DEF PoolIsSound
  <2>1. \A h \in Hosts : DOMAIN idle[h] = 1 .. Len(idle[h])
    BY LenProperties DEF Exchanges, Shape, TypeOK
  <2>2. PoolIsBounded
    BY <2>1 DEF PoolIsBounded, Exchanges, Shape, Pools, Tidy
  <2>3. \A f \in Fds : InPool(f) # {} => \E h \in Hosts : f \in FdsOf(idle[h])
    BY <2>1 DEF InPool, FdsOf
  <2>4. \A f \in Fds : \A w \in InUse(f) :
          call[w].at \in {"release", "sending"} => sock[f].pending = <<>> \/ sock[f].strayed
    BY UpstreamAssumption DEF InUse, Exchanges, Exchange, Fine
  <2> QED BY <2>2, <2>3, <2>4 DEF PooledIsFinished, Exchanges, Exchange, Settled
<1> QED BY <1>1, ExchangesAlways, PTL

\* What forward() returns was sent for that very request: nothing that was on the
\* connection when lease() probed it, and no answer that came late, is in it, whatever
\* upstreams send and when.  What comes unasked after the probe spoils the response on
\* the connection it came on, and no other.
THEOREM ResponsesMatch == Spec => []ResponsesMatchRequests
<1>1. Exchanges => ResponsesMatchRequests
  <2> SUFFICES ASSUME Exchanges, NEW w \in Workers, call[w].at \in {"release", "return"}
               PROVE  call[w].got \subseteq {call[w].req} \/ sock[call[w].fd].strayed
    BY DEF ResponsesMatchRequests
  <2>1. call[w].fd # NoFd
    BY CallTypes DEF Exchanges
  <2> QED BY <2>1 DEF Exchanges, Exchange, Fine
<1> QED BY <1>1, ExchangesAlways, PTL
=============================================================================
