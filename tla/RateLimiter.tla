---------------------------- MODULE RateLimiter -----------------------------
(***************************************************************************)
(* internal/httpapi/ratelimit.go: the token buckets that limit mutating     *)
(* requests of the dashboard per remote address.  A bucket is created full  *)
(* by the first request of its address, refilled only when the next request *)
(* arrives, and dropped by a sweep that runs about once a minute when it    *)
(* has been idle long enough to be full again.  allow holds the limiter's   *)
(* mutex throughout, so one request is one step.                            *)
(*                                                                         *)
(* The clock is the monotonic clock of time.Now; MaxTime bounds it.         *)
(* admitted and refusedAt are history variables of the properties.          *)
(***************************************************************************)
EXTENDS Integers

CONSTANTS Keys,      \* remote addresses
          Rate,      \* tokens added per second
          Burst,     \* maximum tokens
          Second,    \* ticks per second
          Minute,    \* ticks per minute
          MaxTime    \* bound on the clock

VARIABLES now,       \* the clock
          buckets,   \* a function from the addresses that have a bucket
          lastTick,  \* when the last sweep ran, or Never
          verdict,   \* the last answer
          admitted,  \* history: requests of each address let through
          refusedAt  \* history: when the last answer was given

limiterVars == <<now, buckets, lastTick, verdict, admitted, refusedAt>>

\* A full bucket and one token, in units of 1 / Second token.
Full == Burst * Second
One  == Second

\* The smaller and the larger of two numbers.
Least(m, n)    == IF m <= n THEN m ELSE n
Greatest(m, n) == IF m <= n THEN n ELSE m

\* lastTick of a limiter that never swept: the zero time.
Never == -1

\* How long a bucket must be idle to be dropped.  The quotient loses its
\* fraction in the conversion to a duration.
IdleThreshold == Greatest((Burst \div Rate) * Second, Minute)

\* The limiter's parameters are positive.
ASSUME LimiterAssumption ==
    /\ Rate \in Nat \ {0} /\ Burst \in Nat \ {0} /\ Second \in Nat \ {0}
    /\ Minute \in Nat \ {0} /\ MaxTime \in Nat

\* Within the idle threshold an empty bucket refills.  It holds of the
\* defaults (rate 5, burst 15), of every burst up to 60 times the rate, and of
\* every burst that is a multiple of the rate.
ASSUME ThresholdAssumption == Rate * IdleThreshold >= Full

LimiterTypeOK ==
    /\ now \in 0..MaxTime
    /\ DOMAIN buckets \subseteq Keys
    /\ \A k \in DOMAIN buckets : buckets[k] \in [tokens : 0..Full, last : 0..now]
    /\ lastTick \in {Never} \cup 0..now
    /\ verdict \in [key : {{}} \cup {{k} : k \in Keys}, ok : BOOLEAN]
    /\ admitted \in [Keys -> Nat]
    /\ refusedAt \in 0..now

LimiterInit ==
    /\ now = 0
    /\ buckets = [k \in {} |-> {}]
    /\ lastTick = Never
    /\ verdict = [key |-> {}, ok |-> TRUE]
    /\ admitted = [k \in Keys |-> 0]
    /\ refusedAt = 0

\* Mutant: idle time adds tokens beyond the burst.
RefilledUncapped(b) == b.tokens + (now - b.last) * Rate

\* The units in a bucket at the time of the next request.
Refilled(b) == Least(Full, b.tokens + (now - b.last) * Rate)

\* Whether this request sweeps first.
SweepDue == lastTick = Never \/ now - lastTick > Minute

\* Mutant: a bucket is dropped as soon as a minute-long sweep finds it idle for a tick.
KeptEager(k) == k \in DOMAIN buckets /\ now - buckets[k].last <= 0

\* The buckets a sweep keeps.
Kept(k) == k \in DOMAIN buckets /\ now - buckets[k].last <= IdleThreshold

\* The addresses that have a bucket after the sweep.
Swept == IF SweepDue THEN {k \in Keys : Kept(k)} ELSE DOMAIN buckets

\* Mutant: a refused request still refills its bucket, but the time of the refill is not noted.
AtRequestStale(k) == IF k \in Swept THEN [tokens |-> Refilled(buckets[k]), last |-> buckets[k].last]
                                    ELSE [tokens |-> Full, last |-> now]

\* The bucket of k when its request is judged: refilled, or new and full.
AtRequest(k) == IF k \in Swept THEN [tokens |-> Refilled(buckets[k]), last |-> now]
                               ELSE [tokens |-> Full, last |-> now]

\* allow: sweep, refill, and take a token if there is one.
Allow(k) ==
    LET b  == AtRequest(k)
        ok == b.tokens >= One
        c  == IF ok THEN [b EXCEPT !.tokens = @ - One] ELSE b
    IN /\ buckets' = [j \in Swept \cup {k} |-> IF j = k THEN c ELSE buckets[j]]
       /\ lastTick' = IF SweepDue THEN now ELSE lastTick
       /\ verdict' = [key |-> {k}, ok |-> ok]
       /\ admitted' = [admitted EXCEPT ![k] = IF ok THEN @ + 1 ELSE @]
       /\ refusedAt' = now
       /\ UNCHANGED now

\* The clock advances.
Tick == /\ now < MaxTime
        /\ now' = now + 1
        /\ UNCHANGED <<buckets, lastTick, verdict, admitted, refusedAt>>

LimiterNext == Tick \/ \E k \in Keys : Allow(k)

LimiterSpec == LimiterInit /\ [][LimiterNext]_limiterVars

-----------------------------------------------------------------------------
\* Retry-After of a refusal, in ticks.  The rate is an integer, so the code's
\* case for less than one token a second never applies.
RetryAfter == Second

\* The tokens the abstract bucket of k holds: those of its stored bucket after
\* the refill that the next request will make, and a full one if none is stored.
Level(k) == IF k \in DOMAIN buckets THEN Refilled(buckets[k]) ELSE Full

Bucket == INSTANCE TokenBucket WITH level <- [k \in Keys |-> Level(k)]

\* The limiter answers every request as a full-size bucket per address would:
\* storing buckets lazily and sweeping them is never visible (ratelimit.go:44-90).
BucketPerAddress == Bucket!Spec

\* However its requests are spread and whatever was swept, an address is never
\* let through more often than a burst and the rate allow (ratelimit.go:10-17).
AdmissionsBounded == \A k \in Keys : admitted[k] * One + Level(k) <= Full + now * Rate

\* A client that was refused and waits for the Retry-After it was told is let
\* through next time, "conservative" as its comment says (ratelimit.go:92-103).
RetrySuffices ==
    \A k \in Keys : verdict = [key |-> {k}, ok |-> FALSE] /\ now - refusedAt >= RetryAfter => Level(k) >= One

\* Both promises about the budget of an address.
BudgetHonoured == AdmissionsBounded /\ RetrySuffices
=============================================================================
