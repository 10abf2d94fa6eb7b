---------------------------- MODULE RailRateLimit ----------------------------
(* The token bucket of one rail (resilience/rate-limiter.ts). Tokens are   *)
(* counted in parts, PartsPerToken of them a token, so that a tick of the  *)
(* clock (a millisecond: PartsPerToken is 1000) refills MaxTokens parts    *)
(* and PartsPerToken ticks the whole bucket; the code does the same with   *)
(* floating-point numbers. canAcquire and getStatus refill and look.       *)
EXTENDS Integers, FiniteSetsExt

CONSTANTS
    MaxTokens,      \* maxTokens, and the refill per tick in parts
    PartsPerToken,  \* ticks of a second
    MaxSetBack      \* bound: ticks by which the clock may be set back

ASSUME BucketSizes ==
    MaxTokens \in Nat \ {0} /\ PartsPerToken \in Nat \ {0} /\ MaxSetBack \in Nat

Capacity == MaxTokens * PartsPerToken

VARIABLES
    tokens,   \* bucket.tokens, in parts
    elapsed,  \* Date.now() - bucket.lastRefillAt
    taken,    \* history: tokens acquired in the last 0, 1, ... PartsPerToken ticks
              \* and in this one
    waiting   \* history: ticks until the retryAfterMs of the last refusal is over;
              \* not kept across a clock set back

bucketVars == <<tokens, elapsed, taken, waiting>>

NotWaiting == -1

BucketInit ==
    /\ tokens = Capacity
    /\ elapsed = 0
    /\ taken = [t \in 0 .. PartsPerToken |-> 0]
    /\ waiting = NotWaiting

(* Wrong variant: nothing bounds what a long pause brings.                 *)
UncappedRefilled == IF elapsed > 0 THEN tokens + elapsed * MaxTokens ELSE tokens

(* refill: what the bucket holds now. With a clock behind lastRefillAt     *)
(* nothing is refilled, and lastRefillAt stays.                            *)
Refilled ==
    IF elapsed > 0 THEN Min({Capacity, tokens + elapsed * MaxTokens}) ELSE tokens

Refill(used) ==
    /\ tokens' = Refilled - used
    /\ elapsed' = IF elapsed > 0 THEN 0 ELSE elapsed

(* canAcquire, getStatus.                                                  *)
Look == Refill(0) /\ UNCHANGED <<taken, waiting>>

Acquire ==
    /\ Refilled >= PartsPerToken
    /\ Refill(PartsPerToken)
    /\ taken' = [t \in 0 .. PartsPerToken |-> taken[t] + 1]
    /\ waiting' = NotWaiting

(* Math.ceil((1 - tokens) / refillRatePerMs)                               *)
RetryAfter == (PartsPerToken - Refilled + MaxTokens - 1) \div MaxTokens

(* RateLimitExceededError                                                  *)
Refuse ==
    /\ Refilled < PartsPerToken
    /\ Refill(0)
    /\ waiting' = IF elapsed < 0 THEN NotWaiting ELSE RetryAfter
    /\ UNCHANGED taken

BucketTick ==
    /\ elapsed' = IF elapsed < PartsPerToken THEN elapsed + 1 ELSE elapsed
    /\ taken' = [t \in 0 .. PartsPerToken |-> IF t = 0 THEN 0 ELSE taken[t - 1]]
    /\ waiting' = IF waiting > 0 THEN waiting - 1 ELSE waiting
    /\ UNCHANGED tokens

(* The clock of the machine is set back.                                   *)
SetBack ==
    /\ \E ticks \in 1 .. MaxSetBack : elapsed - ticks >= -MaxSetBack /\ elapsed' = elapsed - ticks
    /\ waiting' = NotWaiting
    /\ UNCHANGED <<tokens, taken>>

BucketNext == Look \/ Acquire \/ Refuse \/ BucketTick \/ SetBack

BucketSpec == BucketInit /\ [][BucketNext]_bucketVars
-----------------------------------------------------------------------------
(* A rail is sent a burst of maxPerSecond payments and, from then on, what *)
(* is refilled: in any stretch of time no more, whether the bucket has     *)
(* been full for long, is looked at by the dashboard, or the clock is set  *)
(* back (rate-limiter.ts:108-114).                                         *)
BurstsAreBounded ==
    \A span \in 0 .. PartsPerToken :
        PartsPerToken * taken[span] <= Capacity + span * MaxTokens

(* Who is refused and comes back after retryAfterMs is served, if nobody   *)
(* else has come before him (rate-limiter.ts:66).                          *)
RetryAfterIsTrue == waiting = 0 => Refilled >= PartsPerToken
=============================================================================
