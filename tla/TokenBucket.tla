----------------------------- MODULE TokenBucket -----------------------------
(***************************************************************************)
(* internal/ratelimit/bucket.go and limiter.go: the request limit of one   *)
(* virtual key on one gateway without Redis.  Bucket.Allow runs under the  *)
(* bucket's mutex, so a call is one step.  Time is counted from the last   *)
(* refill and the last access, as the code only ever takes differences.    *)
(***************************************************************************)
EXTENDS Integers, Sequences

CONSTANTS
    Limit,      \* requests per window
    Window,     \* ticks
    IdleMax     \* ticks after which evictStale drops a bucket, at least Window

VARIABLES
    present,    \* the limiter's map holds the bucket
    tokens,
    sinceRefill,    \* now - lastRefill, saturating at Window
    sinceAccess,    \* now - lastAccess, saturating past IdleMax
    admitted,   \* history: the ages of the calls admitted in the last window, oldest first
    answer      \* history: what the last step answered

vars == <<present, tokens, sinceRefill, sinceAccess, admitted, answer>>

Capped(n, cap) == IF n > cap THEN cap ELSE n

TypeOK ==
    /\ present \in BOOLEAN
    /\ tokens \in 0 .. Limit
    /\ sinceRefill \in 0 .. Window
    /\ sinceAccess \in 0 .. IdleMax + 1
    /\ admitted \in Seq(0 .. Window - 1)
    /\ answer \in {"none", "yes", "no"}

Init ==
    /\ present = FALSE
    /\ tokens = Limit
    /\ sinceRefill = 0
    /\ sinceAccess = 0
    /\ admitted = <<>>
    /\ answer = "none"

\* int(elapsed * limit / window): the floating-point quotient may fall just
\* short of a whole number.
Refills ==
    LET q == (sinceRefill * Limit) \div Window
    IN  {q} \cup {n \in {q - 1} : n >= 0 /\ (sinceRefill * Limit) % Window = 0}

\* All tokens come back after a window, before that in proportion.
Refilled(n) == IF sinceRefill >= Window THEN Limit ELSE Capped(tokens + n, Limit)

\* (variant: every call restarts the clock of the refill)
RestartsAlways(n) == TRUE

\* The clock of the refill restarts when a token came in, and only then.
Restarts(n) == sinceRefill >= Window \/ n > 0

\* Take a token if there is one.
Take(tok) ==
    \/ tok > 0 /\ tokens' = tok - 1 /\ answer' = "yes" /\ admitted' = Append(admitted, 0)
    \/ tok = 0 /\ tokens' = 0 /\ answer' = "no" /\ UNCHANGED admitted

\* CheckRPM: getBucket (a new bucket is full), then Allow.
CheckRPM ==
    /\ present' = TRUE
    /\ sinceAccess' = 0
    /\ \/ ~present /\ sinceRefill' = 0 /\ Take(Limit)
       \/ /\ present
          /\ \E n \in Refills :
                /\ sinceRefill' = IF Restarts(n) THEN 0 ELSE sinceRefill
                /\ Take(Refilled(n))

\* (variant: a bucket is dropped at any age)
StaleAlways == TRUE

Stale == sinceAccess > IdleMax

\* evictStale drops a bucket not used for ten minutes.
EvictStale ==
    /\ present /\ Stale
    /\ present' = FALSE
    /\ tokens' = Limit
    /\ sinceRefill' = 0
    /\ sinceAccess' = 0
    /\ answer' = "none"
    /\ UNCHANGED admitted

\* The calls admitted in the window that ends a tick later; the oldest come first.
Aged ==
    LET older == [i \in 1 .. Len(admitted) |-> admitted[i] + 1]
        gone == CHOOSE n \in 0 .. Len(admitted) :
                   \A i \in 1 .. Len(admitted) : older[i] < Window <=> i > n
    IN  [i \in 1 .. Len(admitted) - gone |-> older[gone + i]]

Tick ==
    /\ sinceRefill' = Capped(sinceRefill + 1, Window)
    /\ sinceAccess' = Capped(sinceAccess + 1, IdleMax + 1)
    /\ admitted' = Aged
    /\ answer' = "none"
    /\ UNCHANGED <<present, tokens>>

Next == CheckRPM \/ EvictStale \/ Tick

Spec == Init /\ [][Next]_vars

-----------------------------------------------------------------------------
(* Properties *)

\* Bucket.Allow with proportional refill: a full bucket and one window of
\* refills, no more, are admitted in any window, evictions included.
BurstIsBounded == Len(admitted) <= 2 * Limit - 1

\* Bucket.Allow rounds the refill down and forgets the remainder, yet a call is
\* refused only if half the limit (rounded down) was admitted in the window before it:
\* a client that retries at every moment is not starved.
RefusalIsEarned == answer = "no" => Len(admitted) >= Limit \div 2

=============================================================================
