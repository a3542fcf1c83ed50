---------------------------- MODULE RateLimiters ----------------------------
(***************************************************************************)
(* internal/ratelimit: a gateway limits the requests of a virtual key with *)
(* the sorted set in Redis that all instances share, or, without Redis,    *)
(* with a token bucket of its own.  The two share no state.                *)
(***************************************************************************)
EXTENDS SlidingWindow

CONSTANTS BucketLimit, BucketWindow, IdleMax

\* The limiter refills a bucket within a minute and drops it after ten.
ASSUME BucketAssumption ==
    /\ BucketLimit \in Nat \ {0} /\ BucketWindow \in Nat \ {0}
    /\ IdleMax \in Nat /\ IdleMax >= BucketWindow

VARIABLES present, tokens, sinceRefill, sinceAccess, admitted, answer

bucketVars == <<present, tokens, sinceRefill, sinceAccess, admitted, answer>>

Bucket == INSTANCE TokenBucket WITH Limit <- BucketLimit, Window <- BucketWindow

\* Bucket.Allow: what is admitted in one window is bounded, evictions included.
BurstIsBounded == Bucket!BurstIsBounded

\* Bucket.Allow: a call is refused only if half the limit was admitted before it.
RefusalIsEarned == Bucket!RefusalIsEarned
=============================================================================
