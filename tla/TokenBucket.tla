---------------------------- MODULE TokenBucket ----------------------------
(***************************************************************************)
(* What the rate limit of GET /api/keepers promises.  Every source address *)
(* has a bucket of Rate tokens that refills steadily, one token in Cost    *)
(* units of time, and is never forgotten; a request takes a token or is    *)
(* refused.  Levels are counted in units of time, so they are integers.    *)
(***************************************************************************)
EXTENDS Integers

CONSTANTS
  Sources,  \* source addresses
  Rate,     \* tokens a full bucket holds
  Cost,     \* time in which one token comes back
  NoAnswer

VARIABLES
  now,    \* the clock
  level,  \* level[s]: the content of a source's bucket
  answer  \* the source last answered and the status it got

bucketVars == <<now, level, answer>>

Capacity == Rate * Cost
Least(a, b) == IF a <= b THEN a ELSE b

Init == now = 0 /\ level = [s \in Sources |-> Capacity] /\ answer = NoAnswer

\* A unit of time passes.
Pass == /\ now' = now + 1
        /\ level' = [s \in Sources |-> Least(Capacity, level[s] + 1)]
        /\ UNCHANGED answer

Serve(s) == /\ level[s] >= Cost
            /\ level' = [level EXCEPT ![s] = @ - Cost]
            /\ answer' = <<s, 200>>
            /\ UNCHANGED now

Refuse(s) == /\ level[s] < Cost
             /\ answer' = <<s, 429>>
             /\ UNCHANGED <<now, level>>

\* The keeper starts again, with full buckets.
Refill == /\ level' = [s \in Sources |-> Capacity] /\ answer' = NoAnswer
          /\ UNCHANGED now

Next == Pass \/ Refill \/ \E s \in Sources : Serve(s) \/ Refuse(s)

Spec == Init /\ [][Next]_bucketVars
=============================================================================
