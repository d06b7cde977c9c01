------------------------- MODULE RateLimiterProofs -------------------------
(***************************************************************************)
(* Proofs about RateLimiter.                                               *)
(***************************************************************************)
EXTENDS RateLimiter, FiniteSetTheorems, TLAPS

-----------------------------------------------------------------------------
(* Division, which the prover only knows by its defining inequalities.     *)

LEMMA Quotient ==
    ASSUME NEW a \in Nat, NEW b \in Nat \ {0}
    PROVE  /\ a \div b \in Nat
           /\ (a \div b) * b <= a
           /\ a < (a \div b) * b + b
  OBVIOUS

LEMMA Remainder ==
    ASSUME NEW a \in Nat, NEW b \in Nat \ {0}
    PROVE  a % b \in Nat /\ a % b <= a /\ a % b < b /\ (a < b => a % b = a)
  OBVIOUS

\* A factor common to both sides of an inequality.
LEMMA Cancel ==
    ASSUME NEW a \in Nat, NEW b \in Nat, NEW c \in Nat \ {0}, a * c < b * c + c
    PROVE  a <= b
  OBVIOUS

LEMMA Scaled ==
    ASSUME NEW a \in Nat, NEW b \in Nat, NEW c \in Nat, a <= b
    PROVE  c * a <= c * b
  OBVIOUS

\* What a refill that claims something claims: a stretch of time that has passed, worth
\* at least its tokens, and all of what passed but a token and a rounding error.
LEMMA Worth ==
    ASSUME NEW t \in Threads, call \in [Threads -> Call], Elapsed(t) > 0, TokensToAdd(t) > 0
    PROVE  /\ Rate > 0
           /\ TokensToAdd(t) \in Nat \ {0}
           /\ NsConsumed(t) \in Nat
           /\ NsConsumed(t) <= Elapsed(t)
           /\ TokensToAdd(t) * Price <= NsConsumed(t)
           /\ Elapsed(t) * Rate < Word => (Elapsed(t) - NsConsumed(t)) * Rate < Second + Rate
<1> DEFINE e == Elapsed(t)
           m == (e * Rate) % Word
           n == TokensToAdd(t)
           q == NsConsumed(t)
<1>1. /\ e \in Nat \ {0} /\ Rate \in Nat /\ Word \in Nat \ {0} /\ Second \in Nat \ {0}
      /\ e * Rate \in Nat
  BY RateLimiterAssumption DEF Elapsed, Call
<1>2. m \in Nat /\ m <= e * Rate /\ (e * Rate < Word => m = e * Rate)
  BY <1>1, Remainder
<1>3. n \in Nat /\ n * Second <= m /\ m < n * Second + Second
  BY <1>1, <1>2, Quotient DEF TokensToAdd
<1>4. n \in Nat \ {0} /\ Rate \in Nat \ {0} /\ n * Second \in Nat
  <2>1. n \in Nat \ {0} /\ n * Second \in Nat /\ n * Second > 0
    BY <1>1, <1>3
  <2>2. Rate # 0
    BY <1>1, <1>2, <1>3, <2>1
  <2> QED
    BY <1>1, <2>1, <2>2
<1>5. q \in Nat /\ q * Rate <= n * Second /\ n * Second < q * Rate + Rate
  BY <1>4, Quotient DEF NsConsumed
<1>6. q <= e
  <2>1. q * Rate < e * Rate + Rate
    BY <1>1, <1>2, <1>3, <1>4, <1>5
  <2> QED
    BY <1>1, <1>4, <1>5, <2>1, Cancel
<1>7. n * Price <= q
  <2>1. Price \in Nat /\ Price * Rate <= Second
    BY <1>1, <1>4, Quotient DEF Price
  <2>2. n * (Price * Rate) <= n * Second
    BY <1>1, <1>4, <2>1, Scaled
  <2>3. n * Price \in Nat /\ (n * Price) * Rate = n * (Price * Rate)
    BY <1>4, <2>1
  <2>4. (n * Price) * Rate < q * Rate + Rate
    BY <1>1, <1>4, <1>5, <2>1, <2>2, <2>3
  <2> QED
    BY <1>4, <1>5, <2>3, <2>4, Cancel
<1>8. e * Rate < Word => (e - q) * Rate < Second + Rate
  <2> SUFFICES ASSUME e * Rate < Word PROVE (e - q) * Rate < Second + Rate
    OBVIOUS
  <2>1. e * Rate < q * Rate + Rate + Second
    BY <1>1, <1>2, <1>3, <1>4, <1>5
  <2>2. (e - q) * Rate = e * Rate - q * Rate
    BY <1>1, <1>4, <1>5
  <2> QED
    BY <1>1, <1>4, <1>5, <2>1, <2>2
<1> QED
  BY <1>4, <1>5, <1>6, <1>7, <1>8

-----------------------------------------------------------------------------
(* Types.                                                                  *)

LEMMA TypeInit == Init => TypeOK
  BY RateLimiterAssumption DEF Init, TypeOK, Call, NoCall

LEMMA TypeStep == TypeOK /\ [Next]_vars => TypeOK'
<1> SUFFICES ASSUME TypeOK, [Next]_vars PROVE TypeOK'
  OBVIOUS
<1> USE RateLimiterAssumption DEF TypeOK, Call
<1>1. ASSUME NEW t \in Threads, NEW cost \in Costs, TryAcquire(t, cost) PROVE TypeOK'
  BY <1>1 DEF TryAcquire, NoCall
<1>2. ASSUME NEW t \in Threads, RefillStep(t) PROVE TypeOK'
  <2>1. CASE ReadClock(t)
    <3>1. now \in Nat
      OBVIOUS
    <3>2. call' \in [Threads -> Call]
      BY <2>1, <3>1 DEF ReadClock
    <3> QED
      BY <2>1, <3>2 DEF ReadClock
  <2>2. CASE LoadStamp(t)
    <3>1. PICK v \in 0 .. lastRefillTimeNs :
            call' = [call EXCEPT ![t].at = "claim", ![t].prev = v]
      BY <2>2 DEF LoadStamp
    <3>2. call' \in [Threads -> Call]
      <4>1. v \in Nat /\ [call[t] EXCEPT !.at = "claim", !.prev = v] \in Call
        <5>1. v \in Nat
          OBVIOUS
        <5>2. call[t] \in Call
          OBVIOUS
        <5> QED
          BY <5>1, <5>2
      <4>2. call' = [call EXCEPT ![t] = [call[t] EXCEPT !.at = "claim", !.prev = v]]
        BY <3>1
      <4> QED
        BY <4>1, <4>2
    <3> QED
      BY <2>2, <3>2 DEF LoadStamp
  <2>3. CASE NothingToAdd(t)
    BY <2>3 DEF NothingToAdd
  <2>4. CASE Claim(t)
    <3>1. TokensToAdd(t) \in Nat /\ NsConsumed(t) \in Nat
      BY <2>4, Worth DEF Claim
    <3>2. call[t].prev + NsConsumed(t) \in Nat /\ made + TokensToAdd(t) \in Nat
      BY <3>1
    <3>3. NextTokens(TokensToAdd(t)) \in SUBSET Nat
      BY <3>1 DEF NextTokens
    <3>4. call' \in [Threads -> Call]
      <4>1. [call[t] EXCEPT !.at = "load", !.toAdd = TokensToAdd(t),
                            !.claimed = NextTokens(TokensToAdd(t))] \in Call
        BY <3>1, <3>3
      <4>2. call' = [call EXCEPT ![t] = [call[t] EXCEPT !.at = "load",
                                             !.toAdd = TokensToAdd(t),
                                             !.claimed = NextTokens(TokensToAdd(t))]]
        BY <2>4 DEF Claim
      <4> QED
        BY <4>1, <4>2
    <3> QED
      BY <2>4, <3>2, <3>4 DEF Claim
  <2>5. CASE ClaimFails(t)
    BY <2>5 DEF ClaimFails
  <2>6. CASE LoadForCredit(t)
    <3>1. PICK v \in 0 .. Capacity :
            call' = [call EXCEPT ![t].at = "credit", ![t].seen = v]
      BY <2>6 DEF LoadForCredit
    <3>2. call' \in [Threads -> Call]
      <4>1. v \in Nat /\ [call[t] EXCEPT !.at = "credit", !.seen = v] \in Call
        <5>1. v \in Nat
          OBVIOUS
        <5>2. call[t] \in Call
          OBVIOUS
        <5> QED
          BY <5>1, <5>2
      <4>2. call' = [call EXCEPT ![t] = [call[t] EXCEPT !.at = "credit", !.seen = v]]
        BY <3>1
      <4> QED
        BY <4>1, <4>2
    <3> QED
      BY <2>6, <3>2 DEF LoadForCredit
  <2>7. CASE Credit(t)
    <3>1. /\ Filled(t) \in 0 .. Capacity
          /\ spilled + (call[t].seen + call[t].toAdd - Filled(t)) \in Nat
      BY DEF Filled
    <3>2. call' \in [Threads -> Call]
      <4>1. [call[t] EXCEPT !.at = "look", !.toAdd = 0, !.seen = 0, !.claimed = {}] \in Call
        OBVIOUS
      <4>2. call' = [call EXCEPT ![t] = [call[t] EXCEPT !.at = "look", !.toAdd = 0,
                                             !.seen = 0, !.claimed = {}]]
        BY <2>7 DEF Credit
      <4> QED
        BY <4>1, <4>2
    <3> QED
      BY <2>7, <3>1, <3>2 DEF Credit
  <2>8. CASE CreditFails(t)
    BY <2>8 DEF CreditFails
  <2> QED
    BY <1>2, <2>1, <2>2, <2>3, <2>4, <2>5, <2>6, <2>7, <2>8 DEF RefillStep
<1>3. ASSUME NEW t \in Threads, LookAtTokens(t) \/ Refuse(t) \/ TakeFails(t) PROVE TypeOK'
  BY <1>3 DEF LookAtTokens, Refuse, TakeFails, NoCall
<1>4. ASSUME NEW t \in Threads, Take(t) PROVE TypeOK'
  BY <1>4 DEF Take, NoCall
<1>5. CASE Tick
  BY <1>5 DEF Tick
<1>6. CASE UNCHANGED vars
  BY <1>6 DEF vars
<1> QED
  BY <1>1, <1>2, <1>3, <1>4, <1>5, <1>6 DEF Next

\* The bucket stays between empty and full, in every interleaving of the threads'
\* compare-and-swaps.
THEOREM TypeCorrect == Spec => []TypeOK
BY TypeInit, TypeStep, PTL DEF Spec

-----------------------------------------------------------------------------
(* Tokens.                                                                 *)

\* The tokens a refill has claimed and not put into the bucket are its own: no other
\* has claimed them, and they have been made.
Batches ==
    /\ \A t \in Threads : call[t].claimed \subseteq 1 .. made
    /\ \A t, u \in Threads : t # u => call[t].claimed \cap call[u].claimed = {}
    /\ \A t \in Threads : Cardinality(call[t].claimed) = call[t].toAdd
    /\ \A t \in Threads : call[t].at \notin {"load", "credit"} => call[t].claimed = {}

LEMMA NoneClaimed ==
    ASSUME TypeOK, Batches, NEW t \in Threads, call[t].at \notin {"load", "credit"}
    PROVE  call[t].claimed = {} /\ call[t].toAdd = 0
  BY FS_EmptySet DEF Batches

\* Steps other than the two compare-and-swaps of a refill leave all batches alone.
LEMMA Quiet ==
    ASSUME TypeOK, Batches, [Next]_vars, ~ \E t \in Threads : Claim(t) \/ Credit(t)
    PROVE  /\ \A u \in Threads :
                /\ call'[u].claimed = call[u].claimed /\ call'[u].toAdd = call[u].toAdd
                /\ call'[u].at \in {"load", "credit"} <=> call[u].at \in {"load", "credit"}
           /\ made' = made /\ spilled' = spilled /\ granted' + tokens' = granted + tokens
<1> DEFINE Same == \A u \in Threads :
                     /\ call'[u].claimed = call[u].claimed /\ call'[u].toAdd = call[u].toAdd
                     /\ call'[u].at \in {"load", "credit"} <=> call[u].at \in {"load", "credit"}
<1> USE DEF TypeOK, Call
<1>1. ASSUME NEW t \in Threads, NEW cost \in Costs, TryAcquire(t, cost) PROVE Same
  BY <1>1, NoneClaimed DEF TryAcquire, NoCall
<1>2. ASSUME NEW t \in Threads, RefillStep(t) PROVE Same
  <2>1. CASE ReadClock(t) \/ LoadStamp(t) \/ NothingToAdd(t)
    BY <2>1 DEF ReadClock, LoadStamp, NothingToAdd
  <2>2. CASE ClaimFails(t) \/ LoadForCredit(t) \/ CreditFails(t)
    BY <2>2 DEF ClaimFails, LoadForCredit, CreditFails
  <2> QED
    BY <1>2, <2>1, <2>2 DEF RefillStep
<1>3. ASSUME NEW t \in Threads, LookAtTokens(t) \/ TakeFails(t) PROVE Same
  BY <1>3 DEF LookAtTokens, TakeFails
<1>4. ASSUME NEW t \in Threads, Refuse(t) \/ Take(t) PROVE Same
  <2>1. call[t].claimed = {} /\ call[t].toAdd = 0 /\ call[t].at = "take"
    BY <1>4, NoneClaimed DEF Refuse, Take
  <2>2. call'[t] = NoCall /\ \A u \in Threads \ {t} : call'[u] = call[u]
    BY <1>4 DEF Refuse, Take
  <2> QED
    BY <2>1, <2>2 DEF NoCall
<1>5. CASE Tick \/ UNCHANGED vars
  BY <1>5 DEF Tick, vars
<1>6. Same
  BY <1>1, <1>2, <1>3, <1>4, <1>5 DEF Next
<1>7. made' = made /\ spilled' = spilled /\ granted' + tokens' = granted + tokens
  <2>1. ASSUME NEW t \in Threads, Take(t) PROVE granted' + tokens' = granted + tokens
    BY <2>1 DEF Take
  <2> QED
    BY <2>1 DEF Next, vars, TryAcquire, RefillStep, ReadClock, LoadStamp, NothingToAdd, ClaimFails,
       LoadForCredit, CreditFails, LookAtTokens, Refuse, Take, TakeFails, Tick
<1> QED
  BY <1>6, <1>7

\* What a claim and a credit do to the batches.
LEMMA ClaimEffect ==
    ASSUME TypeOK, NEW t \in Threads, Claim(t)
    PROVE  /\ TokensToAdd(t) \in Nat \ {0} /\ made' = made + TokensToAdd(t)
           /\ call'[t].claimed = made + 1 .. made + TokensToAdd(t)
           /\ call'[t].toAdd = TokensToAdd(t) /\ call'[t].at = "load" /\ call[t].at = "claim"
           /\ \A u \in Threads \ {t} : call'[u] = call[u]
           /\ UNCHANGED <<tokens, granted, spilled>>
  BY Worth DEF TypeOK, Call, Claim, NextTokens

LEMMA CreditEffect ==
    ASSUME TypeOK, NEW t \in Threads, Credit(t)
    PROVE  /\ call'[t].claimed = {} /\ call'[t].toAdd = 0 /\ call'[t].at = "look"
           /\ \A u \in Threads \ {t} : call'[u] = call[u]
           /\ tokens' + spilled' = tokens + spilled + call[t].toAdd
           /\ UNCHANGED <<granted, made>>
<1> USE DEF TypeOK, Call, Credit
<1>1. tokens' = Filled(t) /\ Filled(t) \in Nat /\ tokens = call[t].seen
  BY RateLimiterAssumption DEF Filled
<1>2. tokens' + spilled' = tokens + spilled + call[t].toAdd
  BY <1>1
<1> QED
  BY <1>2

LEMMA BatchesStep == TypeOK /\ Batches /\ [Next]_vars => Batches'
<1> SUFFICES ASSUME TypeOK, Batches, [Next]_vars PROVE Batches'
  OBVIOUS
<1>1. ASSUME NEW t \in Threads, Claim(t) PROVE Batches'
  <2> DEFINE n == TokensToAdd(t)
  <2>0. PICK m \in Nat : m = made
    BY DEF TypeOK
  <2>1. PICK k \in Nat \ {0} :
          /\ made' = m + k /\ call'[t].claimed = m + 1 .. m + k
          /\ call'[t].toAdd = k /\ call'[t].at = "load"
    BY <1>1, <2>0, ClaimEffect
  <2>2. \A u \in Threads \ {t} : call'[u] = call[u]
    BY <1>1, ClaimEffect
  <2>3. \A u \in Threads : call'[u].claimed \subseteq 1 .. made'
    BY <2>0, <2>1, <2>2 DEF Batches
  <2>4. \A u, v \in Threads : u # v => call'[u].claimed \cap call'[v].claimed = {}
    <3>1. \A u \in Threads \ {t} : call'[u].claimed \cap call'[t].claimed = {}
      BY <2>0, <2>1, <2>2 DEF Batches
    <3> QED
      BY <2>2, <3>1 DEF Batches
  <2>5. \A u \in Threads : Cardinality(call'[u].claimed) = call'[u].toAdd
    <3>1. Cardinality(m + 1 .. m + k) = k
      BY FS_Interval
    <3> QED
      BY <2>1, <2>2, <3>1 DEF Batches
  <2>6. \A u \in Threads : call'[u].at \notin {"load", "credit"} => call'[u].claimed = {}
    BY <2>1, <2>2 DEF Batches
  <2> QED
    BY <2>3, <2>4, <2>5, <2>6 DEF Batches
<1>2. ASSUME NEW t \in Threads, Credit(t) PROVE Batches'
  <2>1. /\ call'[t].claimed = {} /\ call'[t].toAdd = 0 /\ call'[t].at = "look" /\ made' = made
        /\ \A u \in Threads \ {t} : call'[u] = call[u]
    BY <1>2, CreditEffect
  <2> QED
    BY <2>1, FS_EmptySet DEF Batches
<1>3. CASE ~ \E t \in Threads : Claim(t) \/ Credit(t)
  BY <1>3, Quiet DEF Batches
<1> QED
  BY <1>1, <1>2, <1>3

LEMMA BatchesFinite ==
    ASSUME TypeOK, Batches
    PROVE  /\ OnTheirWay \subseteq 1 .. made /\ IsFiniteSet(OnTheirWay)
           /\ Cardinality(OnTheirWay) \in Nat
           /\ \A t \in Threads : IsFiniteSet(call[t].claimed)
<1>1. IsFiniteSet(1 .. made)
  BY FS_Interval DEF TypeOK
<1>2. OnTheirWay \subseteq 1 .. made
  BY DEF Batches, OnTheirWay
<1> QED
  BY <1>1, <1>2, FS_Subset, FS_CardinalityType DEF Batches

LEMMA AccountedStep == TypeOK /\ Batches /\ TokensAreAccounted /\ [Next]_vars => TokensAreAccounted'
<1> SUFFICES ASSUME TypeOK, Batches, TokensAreAccounted, [Next]_vars PROVE TokensAreAccounted'
  OBVIOUS
<1>0. PICK c \in Nat : c = Cardinality(OnTheirWay)
  BY BatchesFinite
<1>1. ASSUME NEW t \in Threads, Claim(t) PROVE TokensAreAccounted'
  <2>1. PICK k \in Nat \ {0}, m \in Nat :
          /\ m = made /\ made' = m + k /\ call'[t].claimed = m + 1 .. m + k
          /\ call[t].at = "claim"
    BY <1>1, ClaimEffect DEF TypeOK
  <2>2. /\ \A u \in Threads \ {t} : call'[u] = call[u]
        /\ UNCHANGED <<tokens, granted, spilled>>
    BY <1>1, ClaimEffect
  <2>3. OnTheirWay' = OnTheirWay \cup (m + 1 .. m + k)
    BY <2>1, <2>2 DEF OnTheirWay, Batches
  <2>4. OnTheirWay \cap (m + 1 .. m + k) = {}
    BY <2>1, BatchesFinite
  <2>5. Cardinality(OnTheirWay') = c + k
    <3>1. IsFiniteSet(m + 1 .. m + k) /\ Cardinality(m + 1 .. m + k) = k
      BY FS_Interval
    <3>2. IsFiniteSet(OnTheirWay)
      BY BatchesFinite
    <3>3. Cardinality(OnTheirWay \cup (m + 1 .. m + k)) = c + k - Cardinality({})
      BY <1>0, <2>4, <3>1, <3>2, FS_Union
    <3> QED
      BY <2>3, <3>3, FS_EmptySet
  <2>6. granted \in Nat /\ tokens \in Nat /\ spilled \in Nat
    BY RateLimiterAssumption DEF TypeOK
  <2>7. granted + tokens + c + spilled = Capacity + m
    BY <1>0, <2>1 DEF TokensAreAccounted
  <2>8. granted' + tokens' + (c + k) + spilled' = Capacity + (m + k)
    BY <2>2, <2>6, <2>7, RateLimiterAssumption
  <2> QED
    BY <2>1, <2>5, <2>8 DEF TokensAreAccounted
<1>2. ASSUME NEW t \in Threads, Credit(t) PROVE TokensAreAccounted'
  <2>1. PICK k \in Nat : k = call[t].toAdd
    BY DEF TypeOK, Call
  <2>2. /\ call'[t].claimed = {} /\ UNCHANGED <<granted, made>>
        /\ \A u \in Threads \ {t} : call'[u] = call[u]
        /\ tokens' + spilled' = tokens + spilled + k
    BY <1>2, <2>1, CreditEffect
  <2>3. OnTheirWay' = OnTheirWay \ call[t].claimed
    BY <2>2 DEF OnTheirWay, Batches
  <2>4. Cardinality(OnTheirWay') = c - k
    <3>1. call[t].claimed \subseteq OnTheirWay /\ Cardinality(call[t].claimed) = k
      BY <2>1 DEF OnTheirWay, Batches
    <3>2. OnTheirWay \cap call[t].claimed = call[t].claimed
      BY <3>1
    <3>3. IsFiniteSet(OnTheirWay)
      BY BatchesFinite
    <3>4. Cardinality(OnTheirWay \ call[t].claimed)
              = Cardinality(OnTheirWay) - Cardinality(OnTheirWay \cap call[t].claimed)
      BY <3>3, FS_Difference
    <3> QED
      BY <1>0, <2>3, <3>1, <3>2, <3>4
  <2>5. tokens' \in Nat /\ spilled' \in Nat
    BY TypeStep, RateLimiterAssumption DEF TypeOK
  <2>6. granted \in Nat /\ tokens \in Nat /\ spilled \in Nat /\ made \in Nat
    BY RateLimiterAssumption DEF TypeOK
  <2>7. granted + tokens + c + spilled = Capacity + made
    BY <1>0 DEF TokensAreAccounted
  <2>8. granted' + tokens' + (c - k) + spilled' = Capacity + made'
    BY <2>1, <2>2, <2>5, <2>6, <2>7, RateLimiterAssumption
  <2> QED
    BY <2>4, <2>8 DEF TokensAreAccounted
<1>3. CASE ~ \E t \in Threads : Claim(t) \/ Credit(t)
  <2>1. /\ OnTheirWay' = OnTheirWay /\ made' = made /\ spilled' = spilled
        /\ granted' + tokens' = granted + tokens
    BY <1>3, Quiet DEF OnTheirWay
  <2>2. /\ tokens' \in Nat /\ spilled' \in Nat /\ granted' \in Nat /\ tokens \in Nat
        /\ spilled \in Nat /\ granted \in Nat
    BY TypeStep, RateLimiterAssumption DEF TypeOK
  <2> QED
    BY <1>0, <2>1, <2>2 DEF TokensAreAccounted
<1> QED
  BY <1>1, <1>2, <1>3

\* Tokens are neither lost nor made up, whatever the interleaving of the threads.
THEOREM TokensAreConserved == Spec => []TokensAreAccounted
<1>1. Init => Batches /\ TokensAreAccounted
  <2> SUFFICES ASSUME Init PROVE Batches /\ TokensAreAccounted
    OBVIOUS
  <2>1. \A t \in Threads : call[t] = NoCall
    BY DEF Init
  <2>2. OnTheirWay = {}
    BY <2>1 DEF OnTheirWay, NoCall
  <2>3. Batches
    BY <2>1, FS_EmptySet DEF Batches, NoCall
  <2> QED
    BY <2>2, <2>3, FS_EmptySet, RateLimiterAssumption DEF Init, TokensAreAccounted
<1> QED
  BY <1>1, TypeCorrect, BatchesStep, AccountedStep, PTL DEF Spec

-----------------------------------------------------------------------------
(* Time.                                                                   *)

\* A call has read the clock and the timestamp some time before.
Readings == \A t \in Threads : call[t].clock <= now /\ call[t].prev <= lastRefillTimeNs

LEMMA ReadingsStep == TypeOK /\ Readings /\ [Next]_vars => Readings'
<1> SUFFICES ASSUME TypeOK, Readings, [Next]_vars PROVE Readings'
  OBVIOUS
<1> USE RateLimiterAssumption DEF TypeOK, Call, Readings
<1>1. ASSUME NEW t \in Threads, NEW cost \in Costs, TryAcquire(t, cost) PROVE Readings'
  BY <1>1 DEF TryAcquire, NoCall
<1>2. ASSUME NEW t \in Threads, RefillStep(t) PROVE Readings'
  <2>1. CASE ReadClock(t) \/ NothingToAdd(t)
    BY <2>1 DEF ReadClock, NothingToAdd
  <2>2. CASE LoadStamp(t)
    BY <2>2 DEF LoadStamp
  <2>3. CASE Claim(t)
    <3>1. NsConsumed(t) \in Nat /\ lastRefillTimeNs' = lastRefillTimeNs + NsConsumed(t)
      BY <2>3, Worth DEF Claim
    <3>2. \A u \in Threads : call'[u].clock = call[u].clock /\ call'[u].prev = call[u].prev
      BY <2>3 DEF Claim
    <3>3. now' = now
      BY <2>3 DEF Claim
    <3> QED
      BY <3>1, <3>2, <3>3
  <2>4. CASE ClaimFails(t)
    BY <2>4 DEF ClaimFails
  <2>5. CASE LoadForCredit(t) \/ CreditFails(t)
    BY <2>5 DEF LoadForCredit, CreditFails
  <2>6. CASE Credit(t)
    BY <2>6 DEF Credit
  <2> QED
    BY <1>2, <2>1, <2>2, <2>3, <2>4, <2>5, <2>6 DEF RefillStep
<1>3. ASSUME NEW t \in Threads, LookAtTokens(t) \/ TakeFails(t) PROVE Readings'
  BY <1>3 DEF LookAtTokens, TakeFails
<1>4. ASSUME NEW t \in Threads, Refuse(t) \/ Take(t) PROVE Readings'
  BY <1>4 DEF Refuse, Take, NoCall
<1>5. CASE Tick
  BY <1>5 DEF Tick
<1>6. CASE UNCHANGED vars
  BY <1>6 DEF vars
<1> QED
  BY <1>1, <1>2, <1>3, <1>4, <1>5, <1>6 DEF Next

LEMMA PriceType == Price \in Nat
  BY RateLimiterAssumption, Quotient DEF Price

LEMMA ClaimedOnceStep ==
    TypeOK /\ Readings /\ TimeIsClaimedOnce /\ [Next]_vars => TimeIsClaimedOnce'
<1> SUFFICES ASSUME TypeOK, Readings, TimeIsClaimedOnce, [Next]_vars PROVE TimeIsClaimedOnce'
  OBVIOUS
<1>1. ASSUME NEW t \in Threads, Claim(t) PROVE TimeIsClaimedOnce'
  <2>0. call \in [Threads -> Call] /\ Elapsed(t) > 0 /\ TokensToAdd(t) > 0
    BY <1>1 DEF Claim, TypeOK
  <2>1. PICK n \in Nat, q \in Nat : n = TokensToAdd(t) /\ q = NsConsumed(t)
    BY <2>0, Worth
  <2>2. /\ lastRefillTimeNs = call[t].prev /\ lastRefillTimeNs' = lastRefillTimeNs + q
        /\ made' = made + n /\ now' = now
    BY <1>1, <2>1 DEF Claim
  <2>3. q <= Elapsed(t) /\ n * Price <= q /\ Rate > 0
    BY <2>0, <2>1, Worth
  <2>4. lastRefillTimeNs' <= now'
    BY <2>0, <2>1, <2>2, <2>3, RateLimiterAssumption DEF Elapsed, Readings, Call, TypeOK
  <2>5. made' * Price <= lastRefillTimeNs'
    <3>1. (made + n) * Price = made * Price + n * Price
      BY <2>1, PriceType DEF TypeOK
    <3>2. made * Price <= lastRefillTimeNs
      BY DEF TimeIsClaimedOnce
    <3>3. made * Price \in Nat /\ n * Price \in Nat /\ lastRefillTimeNs \in Nat
      BY <2>1, PriceType DEF TypeOK
    <3>4. made' * Price = made * Price + n * Price
      BY <2>2, <3>1
    <3> QED
      BY <2>1, <2>2, <2>3, <3>2, <3>3, <3>4
  <2>6. Price' = Price
    BY DEF Price
  <2> QED
    BY <2>3, <2>4, <2>5, <2>6, RateLimiterAssumption DEF TimeIsClaimedOnce
<1>2. CASE Tick
  BY <1>2, RateLimiterAssumption DEF Tick, TimeIsClaimedOnce, TypeOK, Price
<1>3. CASE ~Tick /\ ~ \E t \in Threads : Claim(t)
  <2>1. UNCHANGED <<now, lastRefillTimeNs, made>>
    BY <1>3 DEF Next, vars, TryAcquire, RefillStep, ReadClock, LoadStamp, NothingToAdd, ClaimFails,
       LoadForCredit, Credit, CreditFails, LookAtTokens, Refuse, Take, TakeFails
  <2> QED
    BY <2>1 DEF TimeIsClaimedOnce, Price
<1> QED
  BY <1>1, <1>2, <1>3

LEMMA TimeInit == Init => Readings /\ TimeIsClaimedOnce
  BY PriceType, RateLimiterAssumption DEF Init, Readings, NoCall, TimeIsClaimedOnce

\* The timestamp never outruns the clock, and the tokens made never outrun the timestamp,
\* although refills race for it and products wrap around.
THEOREM ClaimsAreDisjoint == Spec => []TimeIsClaimedOnce
BY TimeInit, TypeCorrect, ReadingsStep, ClaimedOnceStep, PTL DEF Spec

\* The limit: what has been handed out is a full bucket and the tokens made in the time
\* that has passed at most.
THEOREM LimitHolds == Spec => []NeverAboveTheLimit
<1>1. TypeOK /\ Batches /\ TokensAreAccounted /\ TimeIsClaimedOnce => NeverAboveTheLimit
  <2> SUFFICES ASSUME TypeOK, Batches, TokensAreAccounted, TimeIsClaimedOnce
               PROVE  NeverAboveTheLimit
    OBVIOUS
  <2>1. granted \in Nat /\ made \in Nat /\ granted <= Capacity + made
    BY BatchesFinite, RateLimiterAssumption DEF TypeOK, TokensAreAccounted
  <2>2. ASSUME ~(granted <= Capacity) PROVE (granted - Capacity) * Price <= now
    <3>1. granted - Capacity \in Nat /\ granted - Capacity <= made
      BY <2>1, <2>2, RateLimiterAssumption
    <3>2. Price * (granted - Capacity) <= Price * made
      BY <2>1, <3>1, PriceType, Scaled
    <3>3. made * Price <= now
      BY <2>1, PriceType, RateLimiterAssumption DEF TimeIsClaimedOnce, TypeOK
    <3>4. Price * made = made * Price /\ Price * (granted - Capacity) = (granted - Capacity) * Price
      BY <2>1, <3>1, PriceType
    <3> QED
      BY <2>1, <3>1, <3>2, <3>3, <3>4, PriceType, RateLimiterAssumption DEF TypeOK
  <2>3. Rate = 0 => granted <= Capacity
    BY <2>1, RateLimiterAssumption DEF TimeIsClaimedOnce
  <2> QED
    BY <2>2, <2>3 DEF NeverAboveTheLimit
<1>2. Init => Batches
  BY FS_EmptySet DEF Init, Batches, NoCall
<1> QED
  BY <1>1, <1>2, TypeCorrect, BatchesStep, TokensAreConserved, ClaimsAreDisjoint, PTL DEF Spec

-----------------------------------------------------------------------------
(* No time is wasted.                                                      *)

\* What is left of the time a refill saw, once it has claimed what it could.
Left(t) == (call[t].clock - lastRefillTimeNs) * Rate

Converted ==
    \A t \in Threads :
        (call[t].at \in {"load", "credit", "look"} /\ Rate > 0 /\ Elapsed(t) * Rate < Word)
            => Left(t) < Second + Rate

LEMMA Monotone ==
    ASSUME NEW a \in Int, NEW b \in Int, NEW c \in Nat, a <= b
    PROVE  a * c <= b * c
  OBVIOUS

\* The timestamp only moves forward, so that what is left only shrinks.
LEMMA LeftShrinks ==
    ASSUME TypeOK, TypeOK', NEW u \in Threads, lastRefillTimeNs <= lastRefillTimeNs',
           call'[u] = call[u], Left(u) < Second + Rate
    PROVE  Left(u)' < Second + Rate
<1>1. PICK k \in Nat : k = call[u].clock
  BY DEF TypeOK, Call
<1>2. k - lastRefillTimeNs' <= k - lastRefillTimeNs /\ k - lastRefillTimeNs' \in Int
      /\ k - lastRefillTimeNs \in Int
  BY <1>1 DEF TypeOK
<1>3. (k - lastRefillTimeNs') * Rate <= (k - lastRefillTimeNs) * Rate
  BY <1>2, Monotone, RateLimiterAssumption
<1>4. Left(u)' = (k - lastRefillTimeNs') * Rate /\ Left(u) = (k - lastRefillTimeNs) * Rate
  BY <1>1 DEF Left
<1>5. Left(u)' \in Int /\ Left(u) \in Int
  BY <1>2, <1>4, RateLimiterAssumption
<1> QED
  BY <1>3, <1>4, <1>5, RateLimiterAssumption

\* A refill that gives up has nothing to claim: the time is gone, or too short.
LEMMA NothingLeft ==
    ASSUME TypeOK, Readings, NEW t \in Threads, Rate > 0, Elapsed(t) * Rate < Word,
           Elapsed(t) <= 0 \/ TokensToAdd(t) = 0
    PROVE  Left(t) < Second + Rate
<1> DEFINE e == Elapsed(t)
<1>1. /\ call[t].clock \in Nat /\ call[t].prev \in Nat /\ lastRefillTimeNs \in Nat
      /\ call[t].prev <= lastRefillTimeNs /\ Rate \in Nat /\ Second \in Nat \ {0}
      /\ Word \in Nat \ {0}
  BY RateLimiterAssumption DEF TypeOK, Call, Readings
<1>2. e \in Int /\ call[t].clock - lastRefillTimeNs <= e
  BY <1>1 DEF Elapsed
<1>3. Left(t) <= e * Rate
  BY <1>1, <1>2, Monotone DEF Left
<1>4. e * Rate < Second + Rate
  <2>1. CASE e <= 0
    <3>1. e * Rate <= 0 * Rate
      BY <1>1, <1>2, <2>1, Monotone
    <3> QED
      BY <1>1, <1>2, <3>1
  <2>2. CASE e > 0 /\ TokensToAdd(t) = 0
    <3>1. e * Rate \in Nat
      BY <1>1, <1>2, <2>2
    <3>2. (e * Rate) % Word = e * Rate
      BY <1>1, <3>1, Remainder
    <3>3. e * Rate < ((e * Rate) \div Second) * Second + Second
      BY <1>1, <3>1, Quotient
    <3>4. (e * Rate) \div Second = 0
      BY <2>2, <3>2 DEF TokensToAdd
    <3> QED
      BY <1>1, <3>1, <3>3, <3>4
  <2> QED
    BY <1>2, <2>1, <2>2
<1> QED
  BY <1>1, <1>2, <1>3, <1>4 DEF Left

LEMMA ConvertedStep == TypeOK /\ Readings /\ Converted /\ [Next]_vars => Converted'
<1> SUFFICES ASSUME TypeOK, Readings, Converted, [Next]_vars PROVE Converted'
  OBVIOUS
<1>0. TypeOK'
  BY TypeStep
<1>1. ASSUME NEW t \in Threads, Claim(t) PROVE Converted'
  <2>0. call \in [Threads -> Call] /\ Elapsed(t) > 0 /\ TokensToAdd(t) > 0
    BY <1>1 DEF Claim, TypeOK
  <2>1. PICK q \in Nat, k \in Nat, p \in Nat :
          q = NsConsumed(t) /\ k = call[t].clock /\ p = call[t].prev
    BY <2>0, Worth DEF Call
  <2>2. /\ lastRefillTimeNs = p /\ lastRefillTimeNs' = p + q
        /\ call'[t].clock = k /\ call'[t].prev = p
        /\ \A u \in Threads \ {t} : call'[u] = call[u]
    BY <1>1, <2>1, <2>0 DEF Claim
  <2>3. (k - p) * Rate < Word => ((k - p) - q) * Rate < Second + Rate
    BY <2>0, <2>1, Worth DEF Elapsed
  <2>4. Elapsed(t)' = k - p /\ Left(t)' = ((k - p) - q) * Rate
    <3>1. k - (p + q) = (k - p) - q
      BY <2>1
    <3> QED
      BY <2>2, <3>1 DEF Elapsed, Left
  <2>5. Elapsed(t)' * Rate < Word => Left(t)' < Second + Rate
    BY <2>3, <2>4
  <2>6. ASSUME NEW u \in Threads \ {t}, call'[u].at \in {"load", "credit", "look"}, Rate > 0,
               Elapsed(u)' * Rate < Word
        PROVE  Left(u)' < Second + Rate
    <3>1. call'[u] = call[u] /\ Elapsed(u)' = Elapsed(u)
      BY <2>2 DEF Elapsed
    <3>2. Left(u) < Second + Rate
      BY <2>6, <3>1 DEF Converted
    <3>3. lastRefillTimeNs <= lastRefillTimeNs'
      BY <2>1, <2>2
    <3> QED
      BY <1>0, <3>1, <3>2, <3>3, LeftShrinks
  <2> QED
    BY <2>5, <2>6 DEF Converted
<1>2. ASSUME NEW t \in Threads, NothingToAdd(t) PROVE Converted'
  <2>1. /\ lastRefillTimeNs' = lastRefillTimeNs
        /\ call'[t].clock = call[t].clock /\ call'[t].prev = call[t].prev
        /\ \A u \in Threads \ {t} : call'[u] = call[u]
    BY <1>2 DEF NothingToAdd, TypeOK, Call
  <2>2. \A u \in Threads : Elapsed(u)' = Elapsed(u) /\ Left(u)' = Left(u)
    BY <2>1 DEF Elapsed, Left
  <2>3. (Rate > 0 /\ Elapsed(t) * Rate < Word) => Left(t) < Second + Rate
    BY <1>2, NothingLeft DEF NothingToAdd
  <2> QED
    BY <2>1, <2>2, <2>3 DEF Converted
<1>3. CASE ~ \E t \in Threads : Claim(t) \/ NothingToAdd(t)
  <2>1. lastRefillTimeNs' = lastRefillTimeNs
    BY <1>3 DEF Next, vars, TryAcquire, RefillStep, ReadClock, LoadStamp, ClaimFails,
       LoadForCredit, Credit, CreditFails, LookAtTokens, Refuse, Take, TakeFails, Tick
  <2>2. ASSUME NEW u \in Threads, call'[u].at \in {"load", "credit", "look"}, Rate > 0
        PROVE  /\ call[u].at \in {"load", "credit", "look"}
               /\ call'[u].clock = call[u].clock /\ call'[u].prev = call[u].prev
    <3> DEFINE Same == /\ call[u].at \in {"load", "credit", "look"}
                       /\ call'[u].clock = call[u].clock /\ call'[u].prev = call[u].prev
    <3> USE DEF TypeOK, Call
    <3>1. ASSUME NEW t \in Threads, NEW cost \in Costs, TryAcquire(t, cost) PROVE Same
      BY <2>2, <3>1, RateLimiterAssumption DEF TryAcquire, NoCall
    <3>2. ASSUME NEW t \in Threads, RefillStep(t) PROVE Same
      BY <1>3, <2>2, <3>2 DEF RefillStep, ReadClock, LoadStamp, ClaimFails, LoadForCredit, Credit,
         CreditFails
    <3>3. ASSUME NEW t \in Threads, LookAtTokens(t) \/ Refuse(t) \/ Take(t) \/ TakeFails(t)
          PROVE  Same
      BY <2>2, <3>3 DEF LookAtTokens, Refuse, Take, TakeFails, NoCall
    <3>4. CASE Tick \/ UNCHANGED vars
      BY <2>2, <3>4 DEF Tick, vars
    <3> QED
      BY <3>1, <3>2, <3>3, <3>4 DEF Next
  <2>3. ASSUME NEW u \in Threads, call'[u].at \in {"load", "credit", "look"}, Rate > 0,
               Elapsed(u)' * Rate < Word
        PROVE  Left(u)' < Second + Rate
    <3>1. Elapsed(u)' = Elapsed(u) /\ Left(u)' = Left(u)
      BY <2>1, <2>2, <2>3 DEF Elapsed, Left
    <3> QED
      BY <2>2, <2>3, <3>1 DEF Converted
  <2> QED
    BY <2>3 DEF Converted
<1> QED
  BY <1>1, <1>2, <1>3

\* When refill() returns, what is left unclaimed of the time it saw is less than a token
\* and a rounding error, whoever claimed the rest.
THEOREM NoTimeIsWasted == Spec => []TimeIsConverted
<1>1. Init => Converted
  BY DEF Init, NoCall, Converted
<1>2. Converted => TimeIsConverted
  BY DEF Converted, TimeIsConverted, Left
<1> QED
  BY <1>1, <1>2, TimeInit, TypeCorrect, ReadingsStep, ConvertedStep, PTL DEF Spec
=============================================================================
