---------------------------- MODULE TokenBucket -----------------------------
(***************************************************************************)
(* The token bucket of rate_limiter_token_bucket.cpp.  Time passes in      *)
(* ticks and tokens come in units: a tick brings Rate units, a token is    *)
(* Token units.  try_consume runs under the mutex; refill is public and    *)
(* takes no lock, so that a thread calling it interleaves with the others. *)
(***************************************************************************)
EXTENDS Integers, FiniteSetsExt

CONSTANTS Rate, Token, capacity_, MaxAge   \* MaxAge bounds how long a refill call takes

VARIABLES tokens_, since,   \* since: now - last_refill_
          rp, age, sum,     \* a thread in refill: where, now - t, what it will write
          raced,            \* a call of try_consume fell into a call of refill
          meter             \* the load of the last requests: a token's worth for each one
                            \* accepted, leaking at Rate; not kept after a race

vars == <<tokens_, since, rp, age, sum, meter, raced>>

Longest == capacity_ \div Rate + 1         \* a longer wait fills the bucket as well
RefilledUncapped(elapsed) == tokens_ + elapsed * Rate
Refilled(elapsed) == Min({capacity_, tokens_ + elapsed * Rate})

Init ==
  /\ tokens_ = capacity_ /\ since = 0 /\ rp = "idle" /\ age = 0 /\ sum = 0
  /\ meter = 0 /\ raced = FALSE

Tick ==
  /\ rp # "idle" => age < MaxAge
  /\ since' = Min({since + 1, Longest + MaxAge})
  /\ age' = IF rp = "idle" THEN 0 ELSE age + 1
  /\ meter' = Max({meter - Rate, 0})
  /\ UNCHANGED <<tokens_, rp, sum, raced>>

\* refill and the test, under the mutex
try_consume ==
  /\ raced' = (raced \/ rp # "idle")
  /\ LET t == Refilled(since)  ok == t >= Token IN
       /\ tokens_' = IF ok THEN t - Token ELSE t
       /\ meter' = IF raced' THEN 0 ELSE IF ok THEN meter + Token ELSE meter
  /\ since' = 0
  /\ UNCHANGED <<rp, age, sum>>

\* refill from another thread: reads the clock, reads the bucket, writes tokens_, writes last_refill_
RefillNow == rp = "idle" /\ rp' = "read" /\ UNCHANGED <<tokens_, since, age, sum, meter, raced>>
RefillRead ==
  /\ rp = "read" /\ rp' = "write" /\ sum' = Refilled(since - age)
  /\ UNCHANGED <<tokens_, since, age, meter, raced>>
RefillTokens ==
  /\ rp = "write" /\ rp' = "stamp" /\ tokens_' = sum /\ sum' = 0
  /\ UNCHANGED <<since, age, meter, raced>>
RefillStamp ==
  /\ rp = "stamp" /\ rp' = "idle" /\ since' = age /\ age' = 0
  /\ UNCHANGED <<tokens_, sum, meter, raced>>
refill == RefillNow \/ RefillRead \/ RefillTokens \/ RefillStamp

Next == Tick \/ try_consume \/ refill

----------------------------------------------------------------------------
(* In every stretch of time, however long, the requests accepted cost at   *)
(* most the burst and what was refilled meanwhile, and no request within   *)
(* that is refused: what the bucket holds after a refill is exactly what   *)
(* the meter leaves.  Calls of refill in between change nothing, unless    *)
(* one overlaps a try_consume: refill takes no lock.                       *)
RateIsExact ==
  /\ ~raced /\ rp = "idle" => Refilled(since) = capacity_ - meter
  /\ ~raced => meter <= capacity_
=============================================================================
