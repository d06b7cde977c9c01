---------------------------- MODULE RateLimiter ----------------------------
(***************************************************************************)
(* The token bucket every request passes (RateLimiter::tryAcquire()),      *)
(* shared by the workers without a lock.  Tokens and the time up to which  *)
(* they have been made are two atomics: a refill claims a stretch of time  *)
(* with one compare-and-swap and puts the tokens it is worth into the      *)
(* bucket with another, so others run in between.                          *)
(*                                                                         *)
(* All operations are relaxed.  Read-modify-writes act on the latest value *)
(* of their variable; a plain load, or the load of a failed                *)
(* compare-and-swap, may lag behind (and does here, arbitrarily).          *)
(***************************************************************************)
EXTENDS Integers, FiniteSets

CONSTANTS
    Threads,     (* the workers                                              *)
    Costs,       (* what calls ask for; a cost of 0 returns true at once     *)
    Capacity,    (* capacity_                                                *)
    Rate,        (* refillRatePerSecond_                                     *)
    Second,      (* kNanosPerSecond                                          *)
    Word,        (* 2^64: products of uint64_t are taken modulo this         *)
    MaxTime      (* bound of the clock                                       *)

ASSUME RateLimiterAssumption ==
    /\ IsFiniteSet(Threads)
    /\ Costs \subseteq Nat \ {0}
    /\ Capacity \in Nat
    /\ Rate \in Nat
    /\ Second \in Nat \ {0}
    /\ Word \in Nat \ {0}
    /\ MaxTime \in Nat
    \* currentTokens + tokensToAdd does not wrap.
    /\ Capacity + Word \div Second < Word

VARIABLES
    now,              \* steady_clock
    tokens,           \* tokens_
    lastRefillTimeNs,
    call,             \* per thread, its call of tryAcquire()
    granted,          \* history: tokens handed out
    made,             \* history: tokens the stretches of time claimed are worth
    spilled           \* history: tokens a full bucket had no room for

vars == <<now, tokens, lastRefillTimeNs, call, granted, made, spilled>>

-----------------------------------------------------------------------------
\* at: where the call is; clock: currentTime; prev: previousTime; toAdd: tokens
\* claimed and not in the bucket yet; seen: currentTokens; claimed (history): which
\* of all the tokens ever made the toAdd ones are.
Call == [at : {"none", "clock", "stamp", "claim", "load", "credit", "look", "take"},
         cost : Nat, clock : Nat, prev : Nat, toAdd : Nat, seen : Nat,
         claimed : SUBSET Nat]
NoCall == [at |-> "none", cost |-> 0, clock |-> 0, prev |-> 0, toAdd |-> 0, seen |-> 0,
           claimed |-> {}]

\* What refill() works out from the two times it has read.
Elapsed(t)     == call[t].clock - call[t].prev
TokensToAdd(t) == ((Elapsed(t) * Rate) % Word) \div Second
NsConsumed(t)  == (TokensToAdd(t) * Second) \div Rate

\* The numbers of the next n tokens made.
NextTokens(n) == made + 1 .. made + n

Filled(t) == IF call[t].seen + call[t].toAdd > Capacity
             THEN Capacity ELSE call[t].seen + call[t].toAdd

-----------------------------------------------------------------------------
TryAcquire(t, cost) ==
    /\ call[t].at = "none"
    /\ call' = [call EXCEPT ![t] = [NoCall EXCEPT !.at = IF Rate = 0 THEN "look" ELSE "clock",
                                                  !.cost = cost]]
    /\ UNCHANGED <<now, tokens, lastRefillTimeNs, granted, made, spilled>>

\* refill(): nowNanos().
ReadClock(t) ==
    /\ call[t].at = "clock"
    /\ call' = [call EXCEPT ![t].at = "stamp", ![t].clock = now]
    /\ UNCHANGED <<now, tokens, lastRefillTimeNs, granted, made, spilled>>

LoadStamp(t) ==
    /\ call[t].at = "stamp"
    /\ \E v \in 0 .. lastRefillTimeNs :
         call' = [call EXCEPT ![t].at = "claim", ![t].prev = v]
    /\ UNCHANGED <<now, tokens, lastRefillTimeNs, granted, made, spilled>>

\* No time has passed, or not enough for a token.
NothingToAdd(t) ==
    /\ call[t].at = "claim"
    /\ Elapsed(t) <= 0 \/ TokensToAdd(t) = 0
    /\ call' = [call EXCEPT ![t].at = "look"]
    /\ UNCHANGED <<now, tokens, lastRefillTimeNs, granted, made, spilled>>

\* Seeded faults: the timestamp is stored without comparing; it is set to the clock
\* read, dropping the time that was not worth a token.
ClaimWithStore(t) ==
    /\ call[t].at = "claim"
    /\ Elapsed(t) > 0 /\ TokensToAdd(t) > 0
    /\ lastRefillTimeNs' = call[t].prev + NsConsumed(t)
    /\ call' = [call EXCEPT ![t].at = "load", ![t].toAdd = TokensToAdd(t),
                               ![t].claimed = NextTokens(TokensToAdd(t))]
    /\ made' = made + TokensToAdd(t)
    /\ UNCHANGED <<now, tokens, granted, spilled>>
ClaimWithoutMinimum(t) ==
    /\ call[t].at = "claim"
    /\ Elapsed(t) > 0 /\ TokensToAdd(t) > 0
    /\ lastRefillTimeNs = call[t].prev
    /\ lastRefillTimeNs' = call[t].clock + NsConsumed(t)
    /\ call' = [call EXCEPT ![t].at = "load", ![t].toAdd = TokensToAdd(t),
                               ![t].claimed = NextTokens(TokensToAdd(t))]
    /\ made' = made + TokensToAdd(t)
    /\ UNCHANGED <<now, tokens, granted, spilled>>

\* The compare-and-swap of lastRefillTimeNs_ succeeds: this stretch of time is ours.
Claim(t) ==
    /\ call[t].at = "claim"
    /\ Elapsed(t) > 0 /\ TokensToAdd(t) > 0
    /\ lastRefillTimeNs = call[t].prev
    /\ lastRefillTimeNs' = call[t].prev + NsConsumed(t)
    /\ call' = [call EXCEPT ![t].at = "load", ![t].toAdd = TokensToAdd(t),
                               ![t].claimed = NextTokens(TokensToAdd(t))]
    /\ made' = made + TokensToAdd(t)
    /\ UNCHANGED <<now, tokens, granted, spilled>>

\* Seeded fault: refill() does not try again.
ClaimGivesUp(t) ==
    /\ call[t].at = "claim"
    /\ Elapsed(t) > 0 /\ TokensToAdd(t) > 0
    /\ call' = [call EXCEPT ![t].at = "look"]
    /\ UNCHANGED <<now, tokens, lastRefillTimeNs, granted, made, spilled>>

\* It fails, for a reason or spuriously, and previousTime is reloaded.
ClaimFails(t) ==
    /\ call[t].at = "claim"
    /\ Elapsed(t) > 0 /\ TokensToAdd(t) > 0
    /\ \E v \in 0 .. lastRefillTimeNs : call' = [call EXCEPT ![t].prev = v]
    /\ UNCHANGED <<now, tokens, lastRefillTimeNs, granted, made, spilled>>

LoadForCredit(t) ==
    /\ call[t].at = "load"
    /\ \E v \in 0 .. Capacity : call' = [call EXCEPT ![t].at = "credit", ![t].seen = v]
    /\ UNCHANGED <<now, tokens, lastRefillTimeNs, granted, made, spilled>>

\* Seeded faults: the sum is stored whatever the bucket holds by now; it is not
\* capped.
CreditWithStore(t) ==
    /\ call[t].at = "credit"
    /\ tokens' = Filled(t)
    /\ spilled' = spilled + (call[t].seen + call[t].toAdd - Filled(t))
    /\ call' = [call EXCEPT ![t].at = "look", ![t].toAdd = 0, ![t].seen = 0,
                               ![t].claimed = {}]
    /\ UNCHANGED <<now, lastRefillTimeNs, granted, made>>
CreditUncapped(t) ==
    /\ call[t].at = "credit" /\ tokens = call[t].seen
    /\ tokens' = call[t].seen + call[t].toAdd
    /\ call' = [call EXCEPT ![t].at = "look", ![t].toAdd = 0, ![t].seen = 0,
                               ![t].claimed = {}]
    /\ UNCHANGED <<now, lastRefillTimeNs, granted, made, spilled>>

\* The compare-and-swap of tokens_ in refill().
Credit(t) ==
    /\ call[t].at = "credit" /\ tokens = call[t].seen
    /\ tokens' = Filled(t)
    /\ spilled' = spilled + (call[t].seen + call[t].toAdd - Filled(t))
    /\ call' = [call EXCEPT ![t].at = "look", ![t].toAdd = 0, ![t].seen = 0,
                               ![t].claimed = {}]
    /\ UNCHANGED <<now, lastRefillTimeNs, granted, made>>

CreditFails(t) ==
    /\ call[t].at = "credit"
    /\ \E v \in 0 .. Capacity : call' = [call EXCEPT ![t].seen = v]
    /\ UNCHANGED <<now, tokens, lastRefillTimeNs, granted, made, spilled>>

\* tryAcquire() after the refill.
LookAtTokens(t) ==
    /\ call[t].at = "look"
    /\ \E v \in 0 .. Capacity : call' = [call EXCEPT ![t].at = "take", ![t].seen = v]
    /\ UNCHANGED <<now, tokens, lastRefillTimeNs, granted, made, spilled>>

Refuse(t) ==
    /\ call[t].at = "take" /\ call[t].seen < call[t].cost
    /\ call' = [call EXCEPT ![t] = NoCall]
    /\ UNCHANGED <<now, tokens, lastRefillTimeNs, granted, made, spilled>>

\* Seeded fault: the tokens are subtracted without comparing.
TakeWithFetchSub(t) ==
    /\ call[t].at = "take" /\ call[t].seen >= call[t].cost
    /\ tokens' = tokens - call[t].cost
    /\ granted' = granted + call[t].cost
    /\ call' = [call EXCEPT ![t] = NoCall]
    /\ UNCHANGED <<now, lastRefillTimeNs, made, spilled>>

\* The compare-and-swap of tokens_ in tryAcquire().
Take(t) ==
    /\ call[t].at = "take" /\ call[t].seen >= call[t].cost
    /\ tokens = call[t].seen
    /\ tokens' = tokens - call[t].cost
    /\ granted' = granted + call[t].cost
    /\ call' = [call EXCEPT ![t] = NoCall]
    /\ UNCHANGED <<now, lastRefillTimeNs, made, spilled>>

TakeFails(t) ==
    /\ call[t].at = "take" /\ call[t].seen >= call[t].cost
    /\ \E v \in 0 .. Capacity : call' = [call EXCEPT ![t].seen = v]
    /\ UNCHANGED <<now, tokens, lastRefillTimeNs, granted, made, spilled>>

Tick ==
    /\ now < MaxTime
    /\ now' = now + 1
    /\ UNCHANGED <<tokens, lastRefillTimeNs, call, granted, made, spilled>>

-----------------------------------------------------------------------------
\* The constructor reads the clock; its reading is time 0.
Init ==
    /\ now = 0 /\ tokens = Capacity /\ lastRefillTimeNs = 0
    /\ call = [t \in Threads |-> NoCall]
    /\ granted = 0 /\ made = 0 /\ spilled = 0

RefillStep(t) ==
    \/ ReadClock(t) \/ LoadStamp(t) \/ NothingToAdd(t)
    \/ Claim(t) \/ ClaimFails(t)
    \/ LoadForCredit(t) \/ Credit(t) \/ CreditFails(t)

Next ==
    \/ \E t \in Threads, cost \in Costs : TryAcquire(t, cost)
    \/ \E t \in Threads :
         RefillStep(t) \/ LookAtTokens(t) \/ Refuse(t) \/ Take(t) \/ TakeFails(t)
    \/ Tick

Spec == Init /\ [][Next]_vars

-----------------------------------------------------------------------------
(* Properties.                                                             *)

\* Types; the bucket never holds more than its capacity, nor less than nothing
\* (tokens_ is unsigned: below zero it would be enormous).
TypeOK ==
    /\ now \in 0 .. MaxTime
    /\ tokens \in 0 .. Capacity
    /\ lastRefillTimeNs \in Nat
    /\ call \in [Threads -> Call]
    /\ granted \in Nat /\ made \in Nat /\ spilled \in Nat

OnTheirWay == UNION {call[t].claimed : t \in Threads}

\* Every token is accounted for, whatever interleaves: what has been handed out, is in
\* the bucket, is on its way there or did not fit is what the bucket began with and
\* what the time claimed was worth.  No refill is lost or put in twice.
TokensAreAccounted == granted + tokens + Cardinality(OnTheirWay) + spilled = Capacity + made

\* The nanoseconds a token costs at least (refill() rounds them down).
Price == IF Rate = 0 THEN 0 ELSE Second \div Rate

\* No stretch of time is turned into tokens twice, and none that has not passed: the
\* tokens made never outrun the clock, even when the product of elapsed time and rate
\* wraps around.
TimeIsClaimedOnce ==
    /\ lastRefillTimeNs <= now
    /\ made * Price <= lastRefillTimeNs
    /\ Rate = 0 => made = 0

\* The limit itself: in the time that has passed no more than a full bucket and the
\* tokens made since have been handed out.
NeverAboveTheLimit ==
    /\ granted <= Capacity \/ (granted - Capacity) * Price <= now
    /\ Rate = 0 => granted <= Capacity

\* Time is not wasted either: when refill() returns, what is left unclaimed of the
\* time it saw is less than a token and a rounding error, unless the product wrapped.
TimeIsConverted ==
    \A t \in Threads :
        (call[t].at = "look" /\ Rate > 0 /\ Elapsed(t) * Rate < Word) =>
            (call[t].clock - lastRefillTimeNs) * Rate < Second + Rate
=============================================================================
