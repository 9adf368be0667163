-------------------------- MODULE RateLimiterProofs -------------------------
(***************************************************************************)
(* Theorems about the rate limiter, for every rate, burst and set of         *)
(* addresses: its state is well typed, it implements one token bucket per    *)
(* address, and it keeps the budget it promises.                            *)
(***************************************************************************)
EXTENDS RateLimiter, TLAPS

-----------------------------------------------------------------------------
(* Arithmetic.  The products are nonlinear, so each fact the proofs need of   *)
(* them is stated once here.                                                 *)

\* A full bucket holds at least one token.
LEMMA Units == Full \in Nat /\ One \in Nat /\ One > 0 /\ Full >= One
<1>1. Burst \in Nat /\ Burst > 0 /\ Second \in Nat /\ Second > 0
  BY LimiterAssumption
<1>2. Burst * Second \in Nat
  BY <1>1
<1>3. (Burst - 1) * Second >= 0
  BY <1>1
<1>4. Burst * Second = (Burst - 1) * Second + Second
  BY <1>1
<1> QED
  BY <1>1, <1>2, <1>3, <1>4 DEF Full, One

\* What n ticks add is a number of units that grows with n.
LEMMA Products ==
    /\ Rate \in Nat /\ Rate > 0
    /\ \A n \in Nat : n * Rate \in Nat /\ (n + 1) * Rate = n * Rate + Rate
    /\ \A m, n \in Nat : m <= n => m * Rate <= n * Rate
    /\ \A n \in Nat : n <= n * Rate
<1>1. Rate \in Nat /\ Rate > 0
  BY LimiterAssumption
<1>2. ASSUME NEW n \in Nat
      PROVE  n * Rate \in Nat /\ (n + 1) * Rate = n * Rate + Rate
  BY <1>1, <1>2
<1>3. ASSUME NEW m \in Nat, NEW n \in Nat, m <= n
      PROVE  m * Rate <= n * Rate
  <2>1. (n - m) * Rate >= 0
    BY <1>1, <1>3
  <2>2. n * Rate = m * Rate + (n - m) * Rate
    BY <1>1, <1>3
  <2>3. m * Rate \in Int /\ n * Rate \in Int /\ (n - m) * Rate \in Int
    BY <1>1, <1>3
  <2> QED
    BY <2>1, <2>2, <2>3
<1>4. ASSUME NEW n \in Nat
      PROVE  n <= n * Rate
  <2>1. n * (Rate - 1) >= 0
    BY <1>1, <1>4
  <2>2. n * Rate = n * (Rate - 1) + n
    BY <1>1, <1>4
  <2>3. n * Rate \in Int /\ n * (Rate - 1) \in Int
    BY <1>1, <1>4
  <2> QED
    BY <2>1, <2>2, <2>3
<1> QED
  BY <1>1, <1>2, <1>3, <1>4

\* A bucket that was idle for longer than the threshold is full again.
LEMMA IdleIsFull == IdleThreshold \in Nat /\ \A n \in Nat : n > IdleThreshold => n * Rate >= Full
<1>1. Burst \div Rate \in Nat
  BY LimiterAssumption
<1>2. (Burst \div Rate) * Second \in Nat
  BY <1>1, LimiterAssumption
<1>3. IdleThreshold \in Nat
  BY <1>2, LimiterAssumption DEF IdleThreshold, Greatest
<1>4. IdleThreshold * Rate >= Full
  BY <1>3, Products, ThresholdAssumption
<1> QED
  BY <1>3, <1>4, Products, Units

-----------------------------------------------------------------------------
(* Type correctness.                                                         *)

\* The refilled contents of a bucket, whatever the time, are within a full bucket.
LEMMA RefilledTyped ==
  ASSUME NEW b \in [tokens : 0..Full, last : 0..now], now \in Nat
  PROVE  /\ Refilled(b) \in 0..Full
         /\ Refilled(b) >= b.tokens
<1>1. now - b.last \in Nat
  OBVIOUS
<1>2. (now - b.last) * Rate \in Nat
  BY <1>1, Products
<1> QED
  BY <1>2, Units DEF Refilled, Least

\* The bucket a request is judged by is well typed, and no sweep adds one.
LEMMA AtRequestTyped ==
  ASSUME LimiterTypeOK, NEW k \in Keys
  PROVE  /\ Swept \subseteq DOMAIN buckets
         /\ AtRequest(k) \in [tokens : 0..Full, last : 0..now]
<1>1. Swept \subseteq DOMAIN buckets
  BY DEF LimiterTypeOK, Swept, Kept
<1>2. CASE k \in Swept
  <2>1. buckets[k] \in [tokens : 0..Full, last : 0..now] /\ now \in Nat
    BY <1>1, <1>2 DEF LimiterTypeOK
  <2>2. Refilled(buckets[k]) \in 0..Full
    BY <2>1, RefilledTyped
  <2> QED
    BY <1>1, <1>2, <2>1, <2>2 DEF AtRequest
<1>3. CASE k \notin Swept
  BY <1>1, <1>3, Units DEF AtRequest, LimiterTypeOK
<1> QED
  BY <1>2, <1>3

\* What a request leaves behind, in the terms every later proof uses.
LEMMA AllowLeaves ==
  ASSUME LimiterTypeOK, NEW k \in Keys, Allow(k)
  PROVE  /\ DOMAIN buckets' = Swept \cup {k}
         /\ \A j \in Swept : j # k => buckets'[j] = buckets[j]
         /\ buckets'[k].last = AtRequest(k).last
         /\ buckets'[k] \in [tokens : 0..Full, last : 0..now]
         /\ \/ /\ AtRequest(k).tokens >= One
               /\ buckets'[k].tokens = AtRequest(k).tokens - One
               /\ verdict' = [key |-> {k}, ok |-> TRUE]
               /\ admitted' = [admitted EXCEPT ![k] = @ + 1]
            \/ /\ AtRequest(k).tokens < One
               /\ buckets'[k].tokens = AtRequest(k).tokens
               /\ verdict' = [key |-> {k}, ok |-> FALSE]
               /\ admitted' = admitted
         /\ refusedAt' = now
         /\ now' = now
<1> DEFINE b == AtRequest(k)
           ok == b.tokens >= One
           c  == IF ok THEN [b EXCEPT !.tokens = @ - One] ELSE b
<1>1. Swept \subseteq DOMAIN buckets /\ b \in [tokens : 0..Full, last : 0..now]
  BY AtRequestTyped
<1>2. buckets' = [j \in Swept \cup {k} |-> IF j = k THEN c ELSE buckets[j]]
  BY DEF Allow
<1>3. buckets'[k] = c /\ DOMAIN buckets' = Swept \cup {k}
  BY <1>2
<1>4. \A j \in Swept : j # k => buckets'[j] = buckets[j]
  BY <1>2
<1>5. verdict' = [key |-> {k}, ok |-> ok] /\ refusedAt' = now /\ now' = now
  BY DEF Allow
<1>6. admitted' = [admitted EXCEPT ![k] = IF ok THEN @ + 1 ELSE @]
  BY DEF Allow
<1>7. CASE ok
  <2>1. c = [b EXCEPT !.tokens = b.tokens - One]
    BY <1>7
  <2>2. c.tokens = b.tokens - One /\ c.last = b.last /\ c \in [tokens : 0..Full, last : 0..now]
    BY <1>1, <1>7, <2>1, Units
  <2>3. verdict' = [key |-> {k}, ok |-> TRUE]
    <3>1. ok = TRUE
      BY <1>7
    <3> QED
      BY <1>5, <3>1
  <2>4. admitted' = [admitted EXCEPT ![k] = @ + 1]
    BY <1>6, <1>7
  <2> QED
    BY <1>3, <1>4, <1>5, <1>7, <2>2, <2>3, <2>4
<1>8. CASE ~ok
  <2>1. c = b
    BY <1>8
  <2>2. verdict' = [key |-> {k}, ok |-> FALSE]
    <3>1. ok = FALSE
      BY <1>8
    <3> HIDE DEF ok
    <3> QED
      BY <1>5, <3>1
  <2>3. admitted' = admitted
    BY <1>6, <1>8 DEF LimiterTypeOK
  <2>4. b.tokens < One
    BY <1>1, <1>8, Units
  <2> QED
    BY <1>1, <1>3, <1>4, <1>5, <2>1, <2>2, <2>3, <2>4
<1> QED
  BY <1>7, <1>8

\* The limiter starts well typed.
LEMMA LimiterTypeInit == LimiterInit => LimiterTypeOK
BY LimiterAssumption DEF LimiterInit, LimiterTypeOK

\* No request and no tick leaves a bucket overfull, overdrawn or dated in the future.
LEMMA LimiterTypeStep == LimiterTypeOK /\ [LimiterNext]_limiterVars => LimiterTypeOK'
<1> SUFFICES ASSUME LimiterTypeOK, [LimiterNext]_limiterVars
             PROVE  LimiterTypeOK'
  OBVIOUS
<1>1. CASE Tick
  <2>1. now' \in 0..MaxTime /\ 0..now \subseteq 0..now'
    BY <1>1, LimiterAssumption DEF Tick, LimiterTypeOK
  <2> QED
    BY <1>1, <2>1 DEF Tick, LimiterTypeOK
<1>2. ASSUME NEW k \in Keys, Allow(k)
      PROVE  LimiterTypeOK'
  <2>1. Swept \subseteq DOMAIN buckets
    BY AtRequestTyped
  <2>2. now' = now /\ now \in 0..MaxTime /\ refusedAt' = now
    BY <1>2, AllowLeaves DEF LimiterTypeOK
  <2>3. \A j \in DOMAIN buckets' : buckets'[j] \in [tokens : 0..Full, last : 0..now]
    BY <1>2, <2>1, AllowLeaves DEF LimiterTypeOK
  <2>4. lastTick' \in {Never} \cup 0..now
    BY <1>2 DEF Allow, LimiterTypeOK
  <2>5. verdict' \in [key : {{}} \cup {{j} : j \in Keys}, ok : BOOLEAN]
    BY <1>2 DEF Allow
  <2>6. admitted' \in [Keys -> Nat]
    <3>1. admitted \in [Keys -> Nat]
      BY DEF LimiterTypeOK
    <3>2. admitted' = admitted \/ admitted' = [admitted EXCEPT ![k] = @ + 1]
      BY <1>2, AllowLeaves
    <3> QED
      BY <3>1, <3>2
  <2>7. DOMAIN buckets' \subseteq Keys
    BY <1>2, <2>1, AllowLeaves, ZenonT(40) DEF LimiterTypeOK
  <2>8. refusedAt' \in 0..now'
    BY <2>2
  <2> QED
    BY <2>2, <2>3, <2>4, <2>5, <2>6, <2>7, <2>8 DEF LimiterTypeOK
<1>3. CASE UNCHANGED limiterVars
  BY <1>3 DEF limiterVars, LimiterTypeOK
<1> QED
  BY <1>1, <1>2, <1>3 DEF LimiterNext

\* Every state of the limiter is well typed: no bucket overflows, none is
\* overdrawn, and none is dated in the future.
THEOREM LimiterTypeCorrect == LimiterSpec => []LimiterTypeOK
BY LimiterTypeInit, LimiterTypeStep, PTL DEF LimiterSpec

-----------------------------------------------------------------------------
(* The abstract tokens of an address, and what each step does to them.       *)

\* The level of an address is within its bucket.
LEMMA LevelTyped ==
  ASSUME LimiterTypeOK, NEW k \in Keys
  PROVE  Level(k) \in 0..Full
<1>1. CASE k \in DOMAIN buckets
  BY <1>1, RefilledTyped DEF Level, LimiterTypeOK
<1>2. CASE k \notin DOMAIN buckets
  BY <1>2, Units DEF Level
<1> QED
  BY <1>1, <1>2

\* A bucket the sweep drops was full, so a request is judged by the level of
\* its address whether or not its bucket survives.
LEMMA DroppedIsFull ==
  ASSUME LimiterTypeOK, NEW k \in DOMAIN buckets, k \notin Swept
  PROVE  Level(k) = Full
<1>1. k \in Keys /\ buckets[k] \in [tokens : 0..Full, last : 0..now] /\ now \in Nat
  BY DEF LimiterTypeOK
<1>2. ~ Kept(k)
  BY <1>1 DEF Swept
<1>3. now - buckets[k].last \in Nat /\ now - buckets[k].last > IdleThreshold
  BY <1>1, <1>2, IdleIsFull DEF Kept
<1>4. (now - buckets[k].last) * Rate >= Full
  BY <1>3, IdleIsFull
<1>5. (now - buckets[k].last) * Rate \in Nat
  BY <1>3, Products
<1>6. Refilled(buckets[k]) = Full
  BY <1>1, <1>4, <1>5, Units DEF Refilled, Least
<1> QED
  BY <1>6 DEF Level

LEMMA JudgedByLevel ==
  ASSUME LimiterTypeOK, NEW k \in Keys
  PROVE  AtRequest(k).tokens = Level(k) /\ AtRequest(k).last = now
<1>1. Swept \subseteq DOMAIN buckets
  BY AtRequestTyped
<1>2. CASE k \in Swept
  BY <1>1, <1>2 DEF AtRequest, Level
<1>3. CASE k \notin Swept /\ k \in DOMAIN buckets
  BY <1>3, DroppedIsFull DEF AtRequest
<1>4. CASE k \notin DOMAIN buckets
  BY <1>1, <1>4 DEF AtRequest, Level
<1> QED
  BY <1>2, <1>3, <1>4

\* A request changes the level of its own address only: by the token it takes.
LEMMA LevelsAfterRequest ==
  ASSUME LimiterTypeOK, NEW k \in Keys, Allow(k)
  PROVE  /\ Level(k)' = buckets'[k].tokens
         /\ \A j \in Keys : j # k => Level(j)' = Level(j)
<1>0. now \in Nat
  BY DEF LimiterTypeOK
<1>1. now' = now /\ now \in Nat /\ DOMAIN buckets' = Swept \cup {k} /\ Swept \subseteq DOMAIN buckets
  BY <1>0, AllowLeaves, AtRequestTyped
<1>2. Level(k)' = buckets'[k].tokens
  <2>1. buckets'[k] \in [tokens : 0..Full, last : 0..now] /\ buckets'[k].last = now
    BY AllowLeaves, JudgedByLevel
  <2>2. (now - buckets'[k].last) * Rate = 0
    BY <1>1, <2>1, Products
  <2>3. Level(k)' = Least(Full, buckets'[k].tokens + (now - buckets'[k].last) * Rate)
    BY <1>1 DEF Level, Refilled
  <2> QED
    BY <2>1, <2>2, <2>3, Units DEF Least
<1>3. ASSUME NEW j \in Keys, j # k
      PROVE  Level(j)' = Level(j)
  <2>1. CASE j \in Swept
    <3>1. buckets'[j] = buckets[j]
      BY <1>3, <2>1, AllowLeaves
    <3> QED
      BY <1>1, <2>1, <3>1 DEF Level, Refilled
  <2>2. CASE j \notin Swept
    <3>1. Level(j)' = Full
      BY <1>1, <1>3, <2>2 DEF Level, Full
    <3>2. CASE j \in DOMAIN buckets
      BY <2>2, <3>1, <3>2, DroppedIsFull
    <3>3. CASE j \notin DOMAIN buckets
      BY <3>1, <3>3 DEF Level
    <3> QED
      BY <3>2, <3>3
  <2> QED
    BY <2>1, <2>2
<1> QED
  BY <1>2, <1>3

\* A tick adds Rate units to every address, up to a full bucket.
LEMMA LevelsAfterTick ==
  ASSUME LimiterTypeOK, NEW k \in Keys, Tick
  PROVE  Level(k)' = Least(Full, Level(k) + Rate)
<1>1. now' = now + 1 /\ buckets' = buckets /\ now \in Nat
  BY DEF Tick, LimiterTypeOK
<1>2. CASE k \in DOMAIN buckets
  <2> DEFINE n == now - buckets[k].last
  <2>1. buckets[k] \in [tokens : 0..Full, last : 0..now]
    BY <1>2 DEF LimiterTypeOK
  <2>2. n \in Nat /\ now' - buckets[k].last = n + 1
    BY <1>1, <2>1
  <2>3. n * Rate \in Nat /\ (n + 1) * Rate = n * Rate + Rate /\ Rate \in Nat
    BY <2>2, Products
  <2>4. Level(k) = Least(Full, buckets[k].tokens + n * Rate)
    BY <1>2 DEF Level, Refilled
  <2>5. Level(k)' = Least(Full, buckets[k].tokens + (n * Rate + Rate))
    <3>1. Level(k)' = Refilled(buckets[k])'
      BY <1>1, <1>2 DEF Level
    <3>2. Refilled(buckets[k])' = Least(Full, buckets[k].tokens + (now' - buckets[k].last) * Rate)
      BY <1>1 DEF Refilled
    <3>3. (now' - buckets[k].last) * Rate = n * Rate + Rate
      <4> HIDE DEF n
      <4> QED
        BY <2>2, <2>3
    <3> QED
      BY <3>1, <3>2, <3>3
  <2> HIDE DEF n
  <2> QED
    BY <2>1, <2>3, <2>4, <2>5, Units DEF Least
<1>3. CASE k \notin DOMAIN buckets
  BY <1>1, <1>3, Units, Products DEF Level, Least
<1> QED
  BY <1>2, <1>3

-----------------------------------------------------------------------------
(* The limiter implements one token bucket per address.                      *)

\* A new limiter is a full bucket for every address.
LEMMA BucketInit == LimiterInit => Bucket!Init
BY DEF LimiterInit, Level, Bucket!Init, Bucket!Full, Full

\* Every step of the limiter is a step of the token buckets.
LEMMA BucketStep ==
  LimiterTypeOK /\ [LimiterNext]_limiterVars
    => [Bucket!Next]_<<[k \in Keys |-> Level(k)], verdict>>
<1> DEFINE level == [k \in Keys |-> Level(k)]
<1> SUFFICES ASSUME LimiterTypeOK, [LimiterNext]_limiterVars
             PROVE  [Bucket!Next]_<<level, verdict>>
  OBVIOUS
<1>1. CASE Tick
  <2>1. level' = [k \in Keys |-> Least(Full, level[k] + Rate)]
    BY <1>1, LevelsAfterTick
  <2>2. Bucket!Tick
    BY <1>1, <2>1 DEF Tick, Bucket!Tick, Bucket!Full, Bucket!Least, Full, Least
  <2> QED
    BY <2>2 DEF Bucket!Next
<1>2. ASSUME NEW k \in Keys, Allow(k)
      PROVE  Bucket!Request(k)
  <2>1. \A j \in Keys : j # k => Level(j)' = Level(j)
    BY <1>2, LevelsAfterRequest
  <2>2. CASE /\ Level(k) >= One
             /\ Level(k)' = Level(k) - One
             /\ verdict' = [key |-> {k}, ok |-> TRUE]
    <3>1. level' = [level EXCEPT ![k] = level[k] - One]
      BY <2>1, <2>2
    <3> QED
      BY <2>2, <3>1 DEF Bucket!Request, Bucket!One, One
  <2>3. CASE /\ Level(k) < One
             /\ Level(k)' = Level(k)
             /\ verdict' = [key |-> {k}, ok |-> FALSE]
    <3>1. level' = level
      BY <2>1, <2>3
    <3> QED
      BY <2>3, <3>1 DEF Bucket!Request, Bucket!One, One
  <2> QED
    BY <1>2, <2>2, <2>3, AllowLeaves, JudgedByLevel, LevelsAfterRequest
<1>3. CASE UNCHANGED limiterVars
  <2>1. level' = level /\ verdict' = verdict
    BY <1>3 DEF limiterVars, Level, Refilled
  <2> QED
    BY <2>1
<1> QED
  BY <1>1, <1>2, <1>3 DEF LimiterNext, Bucket!Next

\* The limiter implements one full-size token bucket per address, for every
\* rate, burst and number of addresses that satisfy the threshold assumption:
\* neither the lazy refill nor the sweep is ever visible in an answer.
THEOREM LimiterImplementsBuckets == LimiterSpec => BucketPerAddress
<1>1. LimiterInit => Bucket!Init
  BY BucketInit
<1>2. LimiterTypeOK /\ [LimiterNext]_limiterVars
        => [Bucket!Next]_<<[k \in Keys |-> Level(k)], verdict>>
  BY BucketStep
<1> QED
  BY <1>1, <1>2, LimiterTypeCorrect, PTL DEF LimiterSpec, BucketPerAddress, Bucket!Spec

-----------------------------------------------------------------------------
(* The budget.                                                               *)

\* Whatever is refused leaves less than a token, and the time since then has
\* refilled what a Retry-After adds; the stronger form of RetrySuffices that
\* its induction needs says how much there is at every moment.
RefillsAfterRefusal ==
    \A k \in Keys : verdict = [key |-> {k}, ok |-> FALSE]
                        => Level(k) >= Least(One, now - refusedAt)

\* Waiting as long as the Retry-After says is enough.
LEMMA RefillIsEnough == LimiterTypeOK /\ RefillsAfterRefusal => RetrySuffices
BY LevelTyped, Units DEF LimiterTypeOK, RefillsAfterRefusal, RetrySuffices, RetryAfter, Least, One

\* The inductive invariant of the budget.
BudgetInv == AdmissionsBounded /\ RefillsAfterRefusal

LEMMA BudgetInit == LimiterInit => BudgetInv
<1> SUFFICES ASSUME LimiterInit PROVE BudgetInv
  OBVIOUS
<1>1. now = 0 /\ \A k \in Keys : admitted[k] = 0 /\ Level(k) = Full
  BY DEF LimiterInit, Level
<1>2. AdmissionsBounded
  <2>1. 0 * One = 0 /\ 0 * Rate = 0
    BY Units, Products
  <2>2. ASSUME NEW k \in Keys
        PROVE  admitted[k] * One + Level(k) <= Full + now * Rate
    <3>1. admitted[k] * One = 0 /\ now * Rate = 0
      BY <1>1, <2>1
    <3> QED
      BY <1>1, <3>1, Units
  <2> QED
    BY <2>2 DEF AdmissionsBounded
<1>3. RefillsAfterRefusal
  BY DEF LimiterInit, RefillsAfterRefusal
<1> QED
  BY <1>2, <1>3 DEF BudgetInv

LEMMA BudgetStep == LimiterTypeOK /\ BudgetInv /\ [LimiterNext]_limiterVars => BudgetInv'
<1> SUFFICES ASSUME LimiterTypeOK, BudgetInv, [LimiterNext]_limiterVars
             PROVE  BudgetInv'
  OBVIOUS
<1>1. CASE Tick
  <2>1. now' = now + 1 /\ admitted' = admitted /\ verdict' = verdict /\ refusedAt' = refusedAt
    BY <1>1 DEF Tick
  <2>2. now \in Nat /\ refusedAt \in 0..now
    BY DEF LimiterTypeOK
  <2>3. ASSUME NEW k \in Keys
        PROVE  admitted'[k] * One + Level(k)' <= Full + now' * Rate
    <3>1. admitted[k] * One + Level(k) <= Full + now * Rate
      BY DEF BudgetInv, AdmissionsBounded
    <3>2. admitted[k] \in Nat
      BY DEF LimiterTypeOK
    <3>3. admitted[k] * One \in Nat
      BY <3>2, Units
    <3>4. now * Rate \in Nat /\ now' * Rate = now * Rate + Rate /\ Rate \in Nat
      BY <2>1, <2>2, Products
    <3>5. Level(k)' <= Level(k) + Rate /\ Level(k) \in 0..Full /\ Level(k)' \in Int
      BY <1>1, <3>4, LevelsAfterTick, LevelTyped, Units DEF Least
    <3> QED
      BY <2>1, <3>1, <3>3, <3>4, <3>5, Units
  <2>4. ASSUME NEW k \in Keys, verdict = [key |-> {k}, ok |-> FALSE]
        PROVE  Level(k)' >= Least(One, now' - refusedAt)
    <3>1. Level(k) >= Least(One, now - refusedAt) /\ Level(k) \in 0..Full
      BY <2>4, LevelTyped DEF BudgetInv, RefillsAfterRefusal
    <3>2. Level(k)' = Least(Full, Level(k) + Rate)
      BY <1>1, LevelsAfterTick
    <3> QED
      BY <2>1, <2>2, <3>1, <3>2, Units, Products DEF Least
  <2> QED
    BY <2>1, <2>3, <2>4 DEF BudgetInv, AdmissionsBounded, RefillsAfterRefusal, One, Full, Least
<1>2. ASSUME NEW k \in Keys, Allow(k)
      PROVE  BudgetInv'
  <2>0. now \in Nat
    BY DEF LimiterTypeOK
  <2>1. now' = now /\ refusedAt' = now /\ now \in Nat
    BY <1>2, <2>0 DEF Allow
  <2>2. ASSUME NEW j \in Keys
        PROVE  admitted'[j] * One + Level(j)' <= Full + now * Rate
    <3>1. admitted[j] * One + Level(j) <= Full + now * Rate
      BY DEF BudgetInv, AdmissionsBounded
    <3>2. admitted[j] \in Nat
      BY DEF LimiterTypeOK
    <3>3. admitted[j] * One \in Nat /\ (admitted[j] + 1) * One = admitted[j] * One + One
      BY <3>2, Units
    <3>4. Level(j) \in 0..Full /\ Level(k) \in 0..Full
      BY LevelTyped
    <3>5. CASE j # k
      <4>1. admitted'[j] = admitted[j]
        BY <1>2, <3>5, AllowLeaves DEF LimiterTypeOK
      <4>2. Level(j)' = Level(j)
        BY <1>2, <3>5, LevelsAfterRequest
      <4> QED
        BY <3>1, <4>1, <4>2
    <3>6. CASE j = k
      <4>1. \/ admitted'[k] = admitted[k] + 1 /\ Level(k)' = Level(k) - One
            \/ admitted'[k] = admitted[k] /\ Level(k)' = Level(k)
        BY <1>2, AllowLeaves, JudgedByLevel, LevelsAfterRequest DEF LimiterTypeOK
      <4>2. now * Rate \in Nat
        BY <2>1, Products
      <4> QED
        BY <3>1, <3>3, <3>4, <3>6, <4>1, <4>2, Units
    <3> QED
      BY <3>5, <3>6
  <2>3. ASSUME NEW j \in Keys
        PROVE  Level(j)' >= Least(One, now - now)
    <3>1. CASE j # k
      <4>1. Level(j)' = Level(j) /\ Level(j) \in 0..Full
        BY <1>2, <3>1, LevelsAfterRequest, LevelTyped
      <4> QED
        BY <2>1, <4>1, Units DEF Least
    <3>2. CASE j = k
      <4>1. Level(k)' \in 0..Full
        BY <1>2, AllowLeaves, LevelsAfterRequest
      <4> QED
        BY <2>1, <3>2, <4>1, Units DEF Least
    <3> QED
      BY <3>1, <3>2
  <2> QED
    BY <2>1, <2>2, <2>3 DEF BudgetInv, AdmissionsBounded, RefillsAfterRefusal, One, Full, Least
<1>3. CASE UNCHANGED limiterVars
  BY <1>3 DEF limiterVars, BudgetInv, AdmissionsBounded, RefillsAfterRefusal, Level, Refilled
<1> QED
  BY <1>1, <1>2, <1>3 DEF LimiterNext

\* For every rate and burst, no address is ever let through more often than
\* its burst and the elapsed time allow, and a refused client that waits for
\* its Retry-After is let through.
THEOREM LimiterKeepsBudget == LimiterSpec => []BudgetHonoured
<1>1. LimiterInit => BudgetInv
  BY BudgetInit
<1>2. LimiterTypeOK /\ BudgetInv /\ [LimiterNext]_limiterVars => BudgetInv'
  BY BudgetStep
<1>3. LimiterTypeOK /\ BudgetInv => BudgetHonoured
  BY RefillIsEnough DEF BudgetInv, BudgetHonoured
<1> QED
  BY <1>1, <1>2, <1>3, LimiterTypeCorrect, PTL DEF LimiterSpec
=============================================================================
