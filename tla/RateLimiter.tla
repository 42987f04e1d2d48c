---------------------------- MODULE RateLimiter ----------------------------
(***************************************************************************)
(* keepersRateLimit: the keeper keeps buckets only for the addresses it    *)
(* has heard from, refills a bucket when its owner asks again, and forgets *)
(* the buckets left idle.  tokens are counted in the time they took to     *)
(* come back, as in TokenBucket: the code's fractions of a token times     *)
(* Cost.                                                                   *)
(***************************************************************************)
EXTENDS Integers

CONSTANTS
  Sources,    \* source addresses
  Rate,       \* KEEPERS_RATE_PER_MIN
  Cost,       \* 60 s / KEEPERS_RATE_PER_MIN
  BucketTtl,  \* BUCKET_TTL_MS
  MaxTime,    \* bound on the clock
  NoAnswer

Capacity == Rate * Cost

\* A bucket idle for BucketTtl is full: one hour against one minute.
ASSUME LimiterAssumption ==
  /\ Rate \in Nat \ {0} /\ Cost \in Nat \ {0}
  /\ BucketTtl \in Nat /\ Capacity <= BucketTtl + 1
  /\ MaxTime \in Nat

VARIABLES
  now,     \* Date.now()
  buckets, \* keepersBuckets: a function on the addresses remembered
  answer   \* the last address answered and the status it got

limiterVars == <<now, buckets, answer>>

Bucket == [tokens : 0..Capacity, updated : 0..MaxTime]

LimiterTypeOK ==
  /\ now \in 0..MaxTime
  /\ DOMAIN buckets \subseteq Sources
  /\ \A s \in DOMAIN buckets : buckets[s] \in Bucket /\ buckets[s].updated <= now
  /\ answer \in (Sources \X {200, 429}) \cup {NoAnswer}

LimiterInit == now = 0 /\ buckets = <<>> /\ answer = NoAnswer

Least(a, b) == IF a <= b THEN a ELSE b

\* The refill a request of s would find.
Refilled(s) ==
  IF s \in DOMAIN buckets
  THEN Least(Capacity, buckets[s].tokens + (now - buckets[s].updated))
  ELSE Capacity

Put(s, tokens) ==
  buckets' = [t \in DOMAIN buckets \cup {s} |->
                IF t = s THEN [tokens |-> tokens, updated |-> now] ELSE buckets[t]]

Served(s) == /\ Refilled(s) >= Cost
             /\ Put(s, Refilled(s) - Cost)
             /\ answer' = <<s, 200>>
             /\ UNCHANGED now

Refused(s) == /\ Refilled(s) < Cost
              /\ Put(s, Refilled(s))
              /\ answer' = <<s, 429>>
              /\ UNCHANGED now

Tick == now < MaxTime /\ now' = now + 1 /\ UNCHANGED <<buckets, answer>>

\* Variant with a fault: buckets are forgotten however recent they are.
ForgetAny == {s \in DOMAIN buckets : buckets[s].updated < now}

\* The addresses idle since before the cutoff.
Idle == {s \in DOMAIN buckets : buckets[s].updated < now - BucketTtl}

Sweep == /\ Idle # {}
         /\ buckets' = [s \in DOMAIN buckets \ Idle |-> buckets[s]]
         /\ UNCHANGED <<now, answer>>

\* A restart: the map is in memory only.
Forget == buckets' = <<>> /\ answer' = NoAnswer

LimiterNext == \/ Tick \/ Sweep
               \/ Forget /\ UNCHANGED now
               \/ \E s \in Sources : Served(s) \/ Refused(s)

LimiterSpec == LimiterInit /\ [][LimiterNext]_limiterVars

-----------------------------------------------------------------------------
(* Forgetting is safe: the limiter lets through exactly the requests that  *)
(* a limiter which keeps every bucket for ever would.                      *)

Level == [s \in Sources |-> Refilled(s)]

Promised == INSTANCE TokenBucket WITH level <- Level

(***************************************************************************)
(* The limiter, sweeping and restarting at any time, is a token bucket per *)
(* address.                                                                *)
(***************************************************************************)
ImplementsBucket == Promised!Spec
=============================================================================
