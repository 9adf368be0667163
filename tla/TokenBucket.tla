---------------------------- MODULE TokenBucket -----------------------------
(***************************************************************************)
(* What the rate limiter of the dashboard promises: every source address   *)
(* owns a bucket of Burst tokens that is full at the start, gains Rate      *)
(* tokens a second up to Burst, and pays one token for each request that is *)
(* let through.  Nothing is stored lazily and nothing is ever forgotten.    *)
(*                                                                         *)
(* Time is counted in ticks, Second of them to the second, and tokens in    *)
(* fractions of 1 / Second, so that a tick adds Rate units and a token is   *)
(* Second units.                                                           *)
(***************************************************************************)
EXTENDS Integers

CONSTANTS Keys,     \* remote addresses
          Rate,     \* tokens added per second
          Burst,    \* maximum tokens
          Second    \* ticks per second

VARIABLES level,    \* level[k]: the units in the bucket of k
          verdict   \* the last answer: whom it was given to, and whether it let the request through

\* A full bucket, and one token, in units.
Full == Burst * Second
One  == Second

\* The smaller of two numbers.
Least(m, n) == IF m <= n THEN m ELSE n

Init == /\ level = [k \in Keys |-> Full]
        /\ verdict = [key |-> {}, ok |-> TRUE]

\* Time passes for every bucket at once.
Tick == /\ level' = [k \in Keys |-> Least(Full, level[k] + Rate)]
        /\ UNCHANGED verdict

\* A request of k costs one token, and is refused when there is none.
Request(k) ==
    \/ /\ level[k] >= One
       /\ level' = [level EXCEPT ![k] = @ - One]
       /\ verdict' = [key |-> {k}, ok |-> TRUE]
    \/ /\ level[k] < One
       /\ verdict' = [key |-> {k}, ok |-> FALSE]
       /\ UNCHANGED level

Next == Tick \/ \E k \in Keys : Request(k)

Spec == Init /\ [][Next]_<<level, verdict>>
=============================================================================
