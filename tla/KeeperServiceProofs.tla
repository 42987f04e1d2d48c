------------------------ MODULE KeeperServiceProofs ------------------------
(***************************************************************************)
(* Proofs about the keeper, for every set of orders, settings, jobs and    *)
(* feeds, and either verifier.  The first part is about the rate limiter   *)
(* alone.  The invariant of the second adds to the type invariant where    *)
(* the keys are at each stage of the process, and of each job that it runs *)
(* in a process that is up and what its witness and its proof are worth;   *)
(* the copies of the pair price agree whatever the state.  The last part   *)
(* adds what a waiting job waits for, and shows that the jobs are those of *)
(* KeeperJobs.                                                             *)
(***************************************************************************)
EXTENDS KeeperService, TLAPS

-----------------------------------------------------------------------------
(* The rate limiter, for every rate, cost, time to live and set of         *)
(* addresses: the limiter, which forgets idle buckets, implements the      *)
(* token bucket that never forgets.                                        *)

\* The capacity of a bucket is a natural number.
LEMMA CapacityType == Capacity \in Nat
BY LimiterAssumption DEF Capacity

\* The content of a bucket is between empty and full.
LEMMA RefilledType ==
  ASSUME LimiterTypeOK, NEW s \in Sources
  PROVE  Refilled(s) \in 0..Capacity
<1>1. CASE s \in DOMAIN buckets
  <2>1. buckets[s] \in Bucket /\ buckets[s].updated <= now /\ now \in Nat
    BY <1>1, LimiterAssumption DEF LimiterTypeOK
  <2> QED BY <1>1, <2>1, CapacityType DEF Refilled, Least, Bucket
<1>2. CASE s \notin DOMAIN buckets
  BY <1>2, CapacityType DEF Refilled
<1> QED BY <1>1, <1>2

\* Putting a bucket keeps the map well typed.
LEMMA PutType ==
  ASSUME LimiterTypeOK, NEW s \in Sources, NEW t \in 0..Capacity, Put(s, t), UNCHANGED now
  PROVE  /\ DOMAIN buckets' \subseteq Sources
         /\ \A r \in DOMAIN buckets' : buckets'[r] \in Bucket /\ buckets'[r].updated <= now'
BY LimiterAssumption DEF LimiterTypeOK, Put, Bucket

\* Every step of the limiter keeps its type invariant.
LEMMA LimiterStepKeepsType ==
  ASSUME LimiterTypeOK, [LimiterNext]_limiterVars
  PROVE  LimiterTypeOK'
<1>1. CASE Tick
  BY <1>1, LimiterAssumption DEF Tick, LimiterTypeOK, Bucket
<1>2. CASE Sweep
  BY <1>2 DEF Sweep, LimiterTypeOK, Idle
<1>3. CASE Forget /\ UNCHANGED now
  BY <1>3 DEF Forget, LimiterTypeOK
<1>4. ASSUME NEW s \in Sources, Served(s) PROVE LimiterTypeOK'
  <2>1. Refilled(s) - Cost \in 0..Capacity
    BY <1>4, RefilledType, CapacityType, LimiterAssumption DEF Served
  <2> QED BY <1>4, <2>1, PutType DEF Served, LimiterTypeOK
<1>5. ASSUME NEW s \in Sources, Refused(s) PROVE LimiterTypeOK'
  BY <1>5, RefilledType, PutType DEF Refused, LimiterTypeOK
<1>6. CASE UNCHANGED limiterVars
  BY <1>6 DEF limiterVars, LimiterTypeOK
<1> QED BY <1>1, <1>2, <1>3, <1>4, <1>5, <1>6 DEF LimiterNext

\* The invariant of the limiter.
THEOREM LimiterTypeCorrect == LimiterSpec => []LimiterTypeOK
<1>1. LimiterInit => LimiterTypeOK
  BY LimiterAssumption DEF LimiterInit, LimiterTypeOK
<1>2. LimiterTypeOK /\ [LimiterNext]_limiterVars => LimiterTypeOK'
  BY LimiterStepKeepsType
<1> QED BY <1>1, <1>2, PTL DEF LimiterSpec

\* A bucket just put has the content it was put with, and no other changes.
LEMMA PutLevel ==
  ASSUME LimiterTypeOK, NEW s \in Sources, NEW t \in 0..Capacity, Put(s, t), UNCHANGED now
  PROVE  Level' = [Level EXCEPT ![s] = t]
<1>1. ASSUME NEW r \in Sources
      PROVE  Refilled(r)' = IF r = s THEN t ELSE Refilled(r)
  <2>1. CASE r = s
    <3>1. buckets'[s] = [tokens |-> t, updated |-> now] /\ s \in DOMAIN buckets'
      BY DEF Put
    <3>2. Refilled(s)' = Least(Capacity, t + (now - now))
      BY <3>1 DEF Refilled
    <3>3. now \in Int /\ t \in Int /\ t <= Capacity
      BY CapacityType, LimiterAssumption DEF LimiterTypeOK
    <3> QED BY <2>1, <3>2, <3>3, CapacityType DEF Least
  <2>2. CASE r # s
    BY <2>2 DEF Put, Refilled
  <2> QED BY <2>1, <2>2
<1> QED BY <1>1 DEF Level

\* An idle bucket is full.
LEMMA IdleIsFull ==
  ASSUME LimiterTypeOK, NEW s \in Idle
  PROVE  Refilled(s) = Capacity
<1>1. /\ s \in DOMAIN buckets /\ buckets[s] \in Bucket
      /\ buckets[s].updated < now - BucketTtl /\ now \in Nat
  BY LimiterAssumption DEF Idle, LimiterTypeOK
<1>2. buckets[s].tokens + (now - buckets[s].updated) >= Capacity
  BY <1>1, CapacityType, LimiterAssumption DEF Bucket
<1> QED BY <1>1, <1>2, CapacityType DEF Refilled, Least, Bucket

\* A unit of time refills every bucket by one, up to its capacity.
LEMMA TickLevel ==
  ASSUME LimiterTypeOK, Tick
  PROVE  Level' = [s \in Sources |-> Least(Capacity, Level[s] + 1)]
<1>1. ASSUME NEW s \in Sources
      PROVE  Refilled(s)' = Least(Capacity, Refilled(s) + 1)
  <2>1. CASE s \in DOMAIN buckets
    <3>1. buckets[s] \in Bucket /\ buckets[s].updated <= now /\ now \in Nat /\ now' = now + 1
      BY <2>1, LimiterAssumption DEF LimiterTypeOK, Tick
    <3>2. Refilled(s)' = Least(Capacity, buckets[s].tokens + ((now + 1) - buckets[s].updated))
      <4>1. buckets' = buckets /\ now' = now + 1
        BY DEF Tick
      <4> QED BY <2>1, <4>1 DEF Refilled
    <3>3. Refilled(s) = Least(Capacity, buckets[s].tokens + (now - buckets[s].updated))
      BY <2>1 DEF Refilled
    <3> QED BY <3>1, <3>2, <3>3, CapacityType DEF Least, Bucket
  <2>2. CASE s \notin DOMAIN buckets
    BY <2>2, CapacityType DEF Refilled, Tick, Least
  <2> QED BY <2>1, <2>2
<1> QED BY <1>1 DEF Level

-----------------------------------------------------------------------------
(* Every step of the limiter is a step of the token bucket, or changes     *)
(* nothing that the token bucket has.                                      *)

LEMMA LimiterRefines ==
  ASSUME LimiterTypeOK, [LimiterNext]_limiterVars
  PROVE  [Promised!Next]_Promised!bucketVars
<1>1. Promised!Capacity = Capacity
  BY DEF Promised!Capacity, Capacity
<1>2. CASE Tick
  <2>1. Promised!Pass
    BY <1>1, <1>2, TickLevel DEF Promised!Pass, Promised!Least, Least, Tick
  <2> QED BY <2>1 DEF Promised!Next
<1>3. CASE Sweep
  <2>1. ASSUME NEW s \in Sources PROVE Refilled(s)' = Refilled(s)
    <3>1. CASE s \in Idle
      BY <1>3, <3>1, IdleIsFull DEF Sweep, Refilled
    <3>2. CASE s \notin Idle
      BY <1>3, <3>2 DEF Sweep, Refilled
    <3> QED BY <3>1, <3>2
  <2>2. Level' = Level
    BY <2>1 DEF Level
  <2> QED BY <1>3, <2>2 DEF Sweep, Promised!bucketVars
<1>4. CASE Forget /\ UNCHANGED now
  <2>1. Level' = [s \in Sources |-> Capacity]
    BY <1>4 DEF Forget, Level, Refilled
  <2>2. Promised!Refill
    BY <1>1, <1>4, <2>1 DEF Promised!Refill, Forget
  <2> QED BY <2>2 DEF Promised!Next
<1>5. ASSUME NEW s \in Sources, Served(s) PROVE Promised!Next
  <2>1. Level[s] = Refilled(s)
    BY DEF Level
  <2>2. Refilled(s) - Cost \in 0..Capacity
    BY <1>5, RefilledType, CapacityType, LimiterAssumption DEF Served
  <2>3. Level' = [Level EXCEPT ![s] = Level[s] - Cost]
    BY <1>5, <2>1, <2>2, PutLevel DEF Served
  <2>4. Promised!Serve(s)
    BY <1>5, <2>1, <2>3 DEF Served, Promised!Serve
  <2> QED BY <2>4 DEF Promised!Next
<1>6. ASSUME NEW s \in Sources, Refused(s) PROVE Promised!Next
  <2>1. Level[s] = Refilled(s)
    BY DEF Level
  <2>2. Level' = Level
    BY <1>6, <2>1, RefilledType, PutLevel DEF Refused, Level
  <2>3. Promised!Refuse(s)
    BY <1>6, <2>1, <2>2 DEF Refused, Promised!Refuse
  <2> QED BY <2>3 DEF Promised!Next
<1>7. CASE UNCHANGED limiterVars
  BY <1>7 DEF limiterVars, Promised!bucketVars, Level, Refilled
<1> QED BY <1>2, <1>3, <1>4, <1>5, <1>6, <1>7 DEF LimiterNext

\* The limiter implements the token bucket: forgetting idle buckets, and
\* refilling only when asked, neither grants nor denies a request more.
THEOREM LimiterImplementsBucket == LimiterSpec => ImplementsBucket
<1>1. LimiterInit => Promised!Init
  BY DEF LimiterInit, Promised!Init, Level, Refilled, Promised!Capacity, Capacity
<1>2. LimiterTypeOK /\ [LimiterNext]_limiterVars => [Promised!Next]_Promised!bucketVars
  BY LimiterRefines
<1> QED BY <1>1, <1>2, LimiterTypeCorrect, PTL
     DEF LimiterSpec, ImplementsBucket, Promised!Spec

-----------------------------------------------------------------------------
(* The keys, the handlers and the jobs. *)

\* The keys in memory are those of the key file, once it is written.
KeysPlaced ==
  /\ process = "down" => keys = 0
  /\ process = "writing" => keyFile = TornFile /\ keys # 0
  /\ process = "up" => keyFile \in KeyFiles /\ keyFile.gen = keys

\* Handlers run in a process that is up.
HandlersUp == process # "up" => checking = {}

\* A job runs in a process that is up, for an order; its secret is right if
\* K allows, and what it is about to send or has sent carries a sound proof.
RunOK(j) ==
  run[j].pc # "off" =>
    /\ process = "up" /\ run[j].order \in Orders
    /\ setting.k >= PageK => run[j].right
    /\ run[j].pc \in {"send", "wait"} => run[j].sound

RunsOK == \A j \in Jobs : RunOK(j)

SentProved == \A tx \in mempool : tx.sound

IInv == TypeOK /\ KeysPlaced /\ HandlersUp /\ RunsOK /\ SentProved /\ FillsProved

-----------------------------------------------------------------------------
(* Lemmas. *)

\* The rows of an order come from a page, so their K is the pages'.
LEMMA RightSecret ==
  ASSUME IInv, NEW o \in Orders, Reconstructs(o), setting.k >= PageK
  PROVE  SecretIsRight(o)
<1>1. rows[o] \in Sealed
  BY DEF IInv, TypeOK
<1>2. rows[o].split \in {0, PageK} /\ PageK \in Nat /\ PageK >= 0
  BY <1>1, ServiceAssumption DEF Sealed
<1>3. setting.k \in Nat
  BY KeysAssumption DEF IInv, TypeOK, KeysTypeOK
<1> QED BY <1>2, <1>3 DEF Reconstructs, SecretIsRight

\* The keeper's price is a natural number.
LEMMA PriceType == Price \in Nat
BY PriceAssumption DEF Price, KeeperPrice

\* An error ends a job or sends it back to its first step, as it was.
LEMMA FailRun ==
  ASSUME IInv, NEW j \in Jobs, NEW why, run[j].pc # "off", Fail(j, why)
  PROVE  /\ run' \in [Jobs -> RunRecord] /\ notices' \subseteq Orders
         /\ \A i \in Jobs : i # j => run'[i] = run[i]
         /\ run'[j].pc \in {"off", "read"}
         /\ run'[j].pc = "read" => run'[j].right = run[j].right /\ run'[j].order = run[j].order
<1>1. run \in [Jobs -> RunRecord] /\ run[j] \in RunRecord /\ run[j].order \in Orders
      /\ notices \subseteq Orders
  BY DEF IInv, TypeOK, RunsOK, RunOK
<1>2. NoRun \in RunRecord /\ NoRun.pc = "off"
  BY LimiterAssumption, ServiceAssumption DEF NoRun, RunRecord, Reasons, Definitive
<1>3. CASE GiveUp(j)
  BY <1>1, <1>2, <1>3 DEF GiveUp
<1>4. CASE Silently(j)
  BY <1>1, <1>2, <1>4 DEF Silently
<1>5. CASE TryAgain(j)
  <2>1. CASE run[j].attempt < MaxRetries
    <3> DEFINE r == NextAttempt(run[j])
    <3>1. r \in RunRecord /\ r.pc = "read" /\ r.right = run[j].right
          /\ r.order = run[j].order
      <4>1. /\ run[j].order \in Orders /\ run[j].attempt + 1 \in 0..MaxRetries
            /\ run[j].stamp \in 0..MaxTime /\ run[j].right \in BOOLEAN
        BY <1>1, <2>1, ServiceAssumption DEF RunRecord
      <4> QED BY <4>1 DEF RunRecord, Reasons, NextAttempt, Attempt
    <3>2. run' = [run EXCEPT ![j] = r] /\ notices' = notices
      BY <1>5, <2>1 DEF TryAgain
    <3> HIDE DEF r
    <3> QED BY <1>1, <3>1, <3>2
  <2>2. CASE ~(run[j].attempt < MaxRetries)
    BY <1>3, <1>5, <2>2 DEF TryAgain
  <2> QED BY <2>1, <2>2
<1> QED BY <1>3, <1>4, <1>5 DEF Fail

\* A step that does nothing but end or restart a job keeps the invariant.
LEMMA FailInv ==
  ASSUME IInv, NEW j \in Jobs, NEW why, run[j].pc # "off", Fail(j, why),
         UNCHANGED <<keyVars, limiterVars, tableVars, checking, kind, market, verifier,
                     paused, chain, fills, callbacks>>,
         mempool' \subseteq Transaction, \A tx \in mempool' : tx.sound
  PROVE  IInv'
<1>1. /\ run' \in [Jobs -> RunRecord] /\ notices' \subseteq Orders
      /\ \A i \in Jobs : i # j => run'[i] = run[i]
      /\ run'[j].pc \in {"off", "read"}
      /\ run'[j].pc = "read" => run'[j].right = run[j].right /\ run'[j].order = run[j].order
  BY FailRun
<1>2. TypeOK'
  BY <1>1 DEF IInv, TypeOK, KeysTypeOK, LimiterTypeOK, keyVars, limiterVars, tableVars
<1>3. RunsOK'
  BY <1>1 DEF IInv, RunsOK, RunOK, keyVars
<1>4. KeysPlaced' /\ HandlersUp' /\ SentProved' /\ FillsProved'
  BY DEF IInv, KeysPlaced, HandlersUp, SentProved, FillsProved, keyVars
<1> QED BY <1>2, <1>3, <1>4 DEF IInv

\* A step that leaves the process, its work and the chain's fills alone.
LEMMA KeepInv ==
  ASSUME IInv, TypeOK', UNCHANGED <<keyVars, checking, run, mempool, fills>>
  PROVE  IInv'
BY DEF IInv, KeysPlaced, HandlersUp, RunsOK, RunOK, SentProved, FillsProved, keyVars

-----------------------------------------------------------------------------
(* The steps. *)

LEMMA StartInv == ASSUME IInv, NEW s \in Settings, Start(s) PROVE IInv'
<1>1. process = "down" /\ checking = {} /\ \A j \in Jobs : run[j].pc = "off"
  <2>1. process = "down"
    BY DEF Start, LoadKeys, DrawKeys
  <2> QED BY <2>1 DEF IInv, HandlersUp, RunsOK, RunOK
<1>2. TypeOK' /\ KeysPlaced'
  <2>1. CASE LoadKeys(s)
    BY <2>1 DEF LoadKeys, Start, IInv, TypeOK, KeysTypeOK, KeysPlaced, KeyFiles, LimiterTypeOK,
                limiterVars, tableVars, workVars, worldVars
  <2>2. CASE DrawKeys(s)
    BY <2>2, KeysAssumption DEF DrawKeys, Start, IInv, TypeOK, KeysTypeOK, KeysPlaced,
                LimiterTypeOK, limiterVars, tableVars, workVars, worldVars
  <2> QED BY <2>1, <2>2 DEF Start
<1>3. HandlersUp' /\ RunsOK' /\ SentProved' /\ FillsProved'
  BY <1>1 DEF Start, IInv, HandlersUp, RunsOK, RunOK, SentProved, FillsProved, workVars, worldVars
<1> QED BY <1>2, <1>3 DEF IInv

LEMMA ListenInv == ASSUME IInv, Listen PROVE IInv'
<1>1. checking = {} /\ \A j \in Jobs : run[j].pc = "off"
  BY DEF Listen, WriteKeys, IInv, HandlersUp, RunsOK, RunOK
<1>2. TypeOK' /\ KeysPlaced'
  BY KeysAssumption DEF Listen, WriteKeys, IInv, TypeOK, KeysTypeOK, KeysPlaced, KeyFiles,
     LimiterTypeOK, limiterVars, tableVars, workVars, worldVars
<1>3. HandlersUp' /\ RunsOK' /\ SentProved' /\ FillsProved'
  BY <1>1 DEF Listen, IInv, HandlersUp, RunsOK, RunOK, SentProved, FillsProved, workVars, worldVars
<1> QED BY <1>2, <1>3 DEF IInv

LEMMA CrashInv == ASSUME IInv, Crash PROVE IInv'
<1>1. LimiterTypeOK'
  BY LimiterStepKeepsType DEF Crash, LimiterNext, IInv, TypeOK
<1>2. NoRun \in RunRecord /\ NoRun.pc = "off"
  BY LimiterAssumption, ServiceAssumption DEF NoRun, RunRecord, Reasons, Definitive
<1>3. mempool' \subseteq Transaction /\ \A tx \in mempool' : tx.sound
  <2>1. ASSUME NEW tx \in mempool PROVE [tx EXCEPT !.by = 0] \in Transaction
                                        /\ [tx EXCEPT !.by = 0].sound
    BY <2>1 DEF IInv, TypeOK, SentProved, Transaction
  <2> QED BY <2>1 DEF Crash
<1>4. TypeOK'
  BY <1>1, <1>2, <1>3, KeysAssumption DEF Crash, Stop, IInv, TypeOK, KeysTypeOK, tableVars
<1> QED BY <1>2, <1>3, <1>4 DEF Crash, Stop, IInv, KeysPlaced, HandlersUp, RunsOK, RunOK,
                                SentProved, FillsProved

LEMMA LoseKeyFileInv == ASSUME IInv, LoseKeyFile PROVE IInv'
<1>1. TypeOK'
  BY DEF LoseKeyFile, DeleteKeyFile, IInv, TypeOK, KeysTypeOK, LimiterTypeOK, limiterVars,
         tableVars, workVars, worldVars
<1> QED BY <1>1 DEF LoseKeyFile, DeleteKeyFile, IInv, KeysPlaced, HandlersUp, RunsOK, RunOK,
                    SentProved, FillsProved, workVars, worldVars

LEMMA ListKeepersInv ==
  ASSUME IInv, NEW b \in Batches, NEW s \in Sources, ListKeepers(b, s) PROVE IInv'
<1>1. LimiterTypeOK'
  BY LimiterStepKeepsType DEF ListKeepers, LimiterNext, IInv, TypeOK
<1>2. sealed' \in [Batches -> Sealed]
  BY ServiceAssumption DEF ListKeepers, IInv, TypeOK, KeysTypeOK, Sealed
<1>3. TypeOK'
  BY <1>1, <1>2 DEF ListKeepers, IInv, TypeOK, KeysTypeOK, keyVars, workVars, worldVars
<1> QED BY <1>3, KeepInv DEF ListKeepers, keyVars, workVars, worldVars

LEMMA RefuseToListInv ==
  ASSUME IInv, NEW b \in Batches, NEW s \in Sources, RefuseToList(b, s) PROVE IInv'
<1>1. LimiterTypeOK'
  BY LimiterStepKeepsType DEF RefuseToList, LimiterNext, IInv, TypeOK
<1>2. TypeOK'
  BY <1>1 DEF RefuseToList, IInv, TypeOK, KeysTypeOK, keyVars, tableVars, workVars, worldVars
<1> QED BY <1>2, KeepInv DEF RefuseToList, keyVars, workVars, worldVars

LEMMA PostSharesInv == ASSUME IInv, NEW b \in Batches, PostShares(b) PROVE IInv'
<1>1. ASSUME NEW o \in Orders
      PROVE  [sealed[b] EXCEPT !.count = Most(rows[o].count, Least(setting.n, sealed[b].count))]
               \in Sealed
  <2>1. /\ sealed[b] \in Sealed /\ rows[o].count \in 0..PageN /\ sealed[b].count \in 0..PageN
        /\ setting.n \in Nat /\ PageN \in Nat
    BY KeysAssumption, ServiceAssumption DEF IInv, TypeOK, KeysTypeOK, Sealed
  <2>2. Most(rows[o].count, Least(setting.n, sealed[b].count)) \in 0..PageN
    BY <2>1 DEF Most, Least
  <2> QED BY <2>1, <2>2 DEF Sealed
<1>2. rows' \in [Orders -> Sealed]
  BY <1>1 DEF PostShares, IInv, TypeOK
<1>3. TypeOK'
  BY <1>2 DEF PostShares, IInv, TypeOK, KeysTypeOK, LimiterTypeOK, keyVars, limiterVars,
              workVars, worldVars
<1> QED BY <1>3, KeepInv DEF PostShares, keyVars, workVars, worldVars

LEMMA DeleteSharesInv == ASSUME IInv, NEW o \in Orders, DeleteShares(o) PROVE IInv'
<1>1. Nothing \in Sealed
  BY KeysAssumption, ServiceAssumption DEF Nothing, Sealed
<1>2. TypeOK'
  BY <1>1 DEF DeleteShares, IInv, TypeOK, KeysTypeOK, LimiterTypeOK, keyVars, limiterVars,
              workVars, worldVars
<1> QED BY <1>2, KeepInv DEF DeleteShares, keyVars, workVars, worldVars

\* An accepted trigger starts a job with the secret it is entitled to.
LEMMA AcceptInv ==
  ASSUME IInv, NEW j \in Jobs, NEW o \in Orders, NEW stamp \in 0..MaxTime, process = "up",
         Reconstructs(o), Accept(j, o, stamp), checking' \subseteq checking,
         UNCHANGED <<keyVars, limiterVars, tableVars, notices, worldVars>>
  PROVE  IInv'
<1> DEFINE r == Attempt(o, 1, stamp, SecretIsRight(o))
<1>1. r \in RunRecord /\ r.pc = "read" /\ r.order = o /\ r.right = SecretIsRight(o)
  <2>1. 1 \in 0..MaxRetries /\ SecretIsRight(o) \in BOOLEAN /\ 0 \in Nat
    BY ServiceAssumption DEF SecretIsRight
  <2> QED BY <2>1 DEF Attempt, RunRecord, Reasons
<1>2. run' = [run EXCEPT ![j] = r]
  BY DEF Accept
<1>3. setting.k >= PageK => SecretIsRight(o)
  BY RightSecret
<1> HIDE DEF r
<1>4. TypeOK'
  BY <1>1, <1>2 DEF IInv, TypeOK, KeysTypeOK, LimiterTypeOK, keyVars, limiterVars, tableVars,
                    worldVars
<1>5. RunsOK'
  BY <1>1, <1>2, <1>3 DEF IInv, TypeOK, RunsOK, RunOK, keyVars
<1> QED BY <1>4, <1>5 DEF IInv, KeysPlaced, HandlersUp, SentProved, FillsProved, keyVars,
                          worldVars

LEMMA ExecuteRoundInv ==
  ASSUME IInv, NEW j \in Jobs, NEW o \in Orders, ExecuteRound(j, o) PROVE IInv'
<1>1. now \in 0..MaxTime
  BY DEF IInv, TypeOK, LimiterTypeOK
<1> QED BY <1>1, AcceptInv DEF ExecuteRound

LEMMA AskOracleInv == ASSUME IInv, NEW o \in Orders, AskOracle(o) PROVE IInv'
<1>1. TypeOK'
  BY DEF AskOracle, IInv, TypeOK, KeysTypeOK, LimiterTypeOK, keyVars, limiterVars, tableVars,
         worldVars
<1> QED BY <1>1 DEF AskOracle, IInv, KeysPlaced, HandlersUp, RunsOK, RunOK, SentProved,
                    FillsProved, keyVars, worldVars

LEMMA ExecuteOrderInv ==
  ASSUME IInv, NEW j \in Jobs, NEW o \in Orders, ExecuteOrder(j, o) PROVE IInv'
<1>1. process = "up" /\ 0 \in 0..MaxTime
  BY LimiterAssumption DEF ExecuteOrder, IInv, HandlersUp
<1> QED BY <1>1, AcceptInv DEF ExecuteOrder

LEMMA RefuseOrderInv == ASSUME IInv, NEW o \in Orders, RefuseOrder(o) PROVE IInv'
<1>1. TypeOK'
  BY DEF RefuseOrder, IInv, TypeOK, KeysTypeOK, LimiterTypeOK, keyVars, limiterVars, tableVars,
         worldVars
<1> QED BY <1>1 DEF RefuseOrder, IInv, KeysPlaced, HandlersUp, RunsOK, RunOK, SentProved,
                    FillsProved, keyVars, worldVars

\* A step that only changes the record of one job, without ending it.
LEMMA AdvanceInv ==
  ASSUME IInv, NEW j \in Jobs, NEW r \in RunRecord, run[j].pc # "off",
         run' = [run EXCEPT ![j] = r], r.right = run[j].right, r.order = run[j].order,
         r.pc \in {"send", "wait"} => r.sound,
         mempool' \subseteq Transaction, \A tx \in mempool' : tx.sound,
         UNCHANGED <<keyVars, limiterVars, tableVars, checking, notices, kind, market, verifier,
                     paused, chain, fills, callbacks>>
  PROVE  IInv'
<1>1. TypeOK'
  BY DEF IInv, TypeOK, KeysTypeOK, LimiterTypeOK, keyVars, limiterVars, tableVars
<1>2. RunsOK'
  BY DEF IInv, TypeOK, RunsOK, RunOK, keyVars
<1> QED BY <1>1, <1>2 DEF IInv, KeysPlaced, HandlersUp, SentProved, FillsProved, keyVars

LEMMA RunFacts ==
  ASSUME IInv, NEW j \in Jobs
  PROVE  /\ run[j] \in RunRecord
         /\ mempool \subseteq Transaction /\ \A tx \in mempool : tx.sound
         /\ run[j].pc # "off" => run[j].order \in Orders
BY DEF IInv, TypeOK, SentProved, RunsOK, RunOK

LEMMA ReadReferenceInv == ASSUME IInv, NEW j \in Jobs, ReadReference(j) PROVE IInv'
<1>1. run[j].pc # "off"
  BY DEF ReadReference
<1>2. CASE kind[run[j].order] = "ORDER_FILL" /\ Price = 0
  <2>1. Fail(j, "oracle")
    BY <1>2 DEF ReadReference
  <2> QED BY <1>1, <2>1, FailInv, RunFacts DEF ReadReference, worldVars
<1>3. CASE ~(kind[run[j].order] = "ORDER_FILL" /\ Price = 0)
  <2> DEFINE ref == IF kind[run[j].order] = "DCA" THEN run[j].stamp ELSE Price
             r == [run[j] EXCEPT !.pc = "prove", !.ref = ref]
  <2>1. run' = [run EXCEPT ![j] = r] /\ notices' = notices
    BY <1>3 DEF ReadReference, IInv, TypeOK
  <2>2. ref \in Nat
    BY PriceType, RunFacts, LimiterAssumption DEF RunRecord
  <2>3. r \in RunRecord /\ r.right = run[j].right /\ r.order = run[j].order /\ r.pc = "prove"
    BY <2>2, RunFacts DEF RunRecord
  <2> HIDE DEF r, ref
  <2> QED BY <1>1, <2>1, <2>3, AdvanceInv, RunFacts DEF ReadReference, worldVars
<1> QED BY <1>2, <1>3

LEMMA ProveInv == ASSUME IInv, NEW j \in Jobs, Prove(j) PROVE IInv'
<1>1. run[j].pc # "off"
  BY DEF Prove
<1>2. PICK sound \in BOOLEAN :
        IF Passes(run[j], sound)
        THEN /\ run' = [run EXCEPT ![j].pc = "send", ![j].sound = sound /\ Satisfied(run[j])]
             /\ UNCHANGED notices
        ELSE Fail(j, "proof")
  BY DEF Prove
<1>3. CASE Passes(run[j], sound)
  <2> DEFINE worth == sound /\ Satisfied(run[j])
             r == [run[j] EXCEPT !.pc = "send", !.sound = worth]
  <2>1. run' = [run EXCEPT ![j] = r] /\ notices' = notices
    BY <1>2, <1>3 DEF IInv, TypeOK
  <2>2. worth = TRUE
    BY <1>3 DEF Passes
  <2>3. r \in RunRecord /\ r.right = run[j].right /\ r.order = run[j].order /\ r.sound
    BY <2>2, RunFacts DEF RunRecord
  <2> HIDE DEF r, worth
  <2> QED BY <1>1, <2>1, <2>3, AdvanceInv, RunFacts DEF Prove, worldVars
<1>4. CASE ~Passes(run[j], sound)
  BY <1>1, <1>2, <1>4, FailInv, RunFacts DEF Prove, worldVars
<1> QED BY <1>3, <1>4

LEMMA SubmitInv == ASSUME IInv, NEW j \in Jobs, Submit(j) PROVE IInv'
<1>1. run[j].pc # "off" /\ run[j].pc = "send"
  BY DEF Submit
<1>2. PICK obstacle \in Obstacles :
        LET why == Estimate(run[j], obstacle)
        IN  IF why = "none"
            THEN /\ run' = [run EXCEPT ![j].pc = "wait"]
                 /\ mempool' = mempool \cup {[order |-> run[j].order, ref |-> run[j].ref,
                                              sound |-> run[j].sound, by |-> j]}
                 /\ UNCHANGED notices
            ELSE Fail(j, why) /\ UNCHANGED mempool
  BY DEF Submit
<1>3. CASE Estimate(run[j], obstacle) = "none"
  <2> DEFINE r == [run[j] EXCEPT !.pc = "wait"]
             tx == [order |-> run[j].order, ref |-> run[j].ref, sound |-> run[j].sound, by |-> j]
  <2>1. run' = [run EXCEPT ![j] = r] /\ notices' = notices /\ mempool' = mempool \cup {tx}
    BY <1>2, <1>3 DEF IInv, TypeOK
  <2>2. run[j].sound
    BY <1>1 DEF IInv, RunsOK, RunOK
  <2>3. r \in RunRecord /\ r.right = run[j].right /\ r.order = run[j].order /\ r.sound
    BY <2>2, RunFacts DEF RunRecord
  <2>4. tx \in Transaction /\ tx.sound
    BY <1>1, <2>2, RunFacts DEF RunRecord, Transaction
  <2> HIDE DEF r, tx
  <2> QED BY <1>1, <2>1, <2>3, <2>4, AdvanceInv, RunFacts DEF Submit
<1>4. CASE Estimate(run[j], obstacle) # "none"
  <2>1. Fail(j, Estimate(run[j], obstacle)) /\ mempool' = mempool
    BY <1>2, <1>4
  <2> QED BY <1>1, <2>1, FailInv, RunFacts DEF Submit
<1> QED BY <1>3, <1>4

LEMMA SucceedInv == ASSUME IInv, NEW j \in Jobs, Succeed(j) PROVE IInv'
<1>1. run[j].pc # "off"
  BY DEF Succeed, Waits
<1>2. PICK why : Fail(j, why)
  <2>1. Fail(j, "no gas")
    BY DEF Succeed, Fail, Definitive
  <2> QED BY <2>1
<1> QED BY <1>1, <1>2, FailInv, RunFacts DEF Succeed, worldVars

LEMMA SeeRevertInv == ASSUME IInv, NEW j \in Jobs, SeeRevert(j) PROVE IInv'
<1>1. run[j].pc # "off"
  BY DEF SeeRevert, Waits
<1> QED BY <1>1, FailInv, RunFacts DEF SeeRevert, worldVars

LEMMA RpcFailsInv == ASSUME IInv, NEW j \in Jobs, RpcFails(j) PROVE IInv'
<1>1. ASSUME NEW tx \in mempool
      PROVE  LET t == IF tx.by = j THEN [tx EXCEPT !.by = 0] ELSE tx
             IN  t \in Transaction /\ t.sound
  BY RunFacts DEF Transaction
<1>2. mempool' \subseteq Transaction /\ \A tx \in mempool' : tx.sound
  BY <1>1 DEF RpcFails, Abandon
<1> QED BY <1>2, FailInv DEF RpcFails

LEMMA MineInv == ASSUME IInv, NEW tx \in mempool, Mine(tx) PROVE IInv'
<1>1. tx \in Transaction /\ tx.sound
  BY DEF IInv, TypeOK, SentProved
<1>2. PICK obstacle \in Obstacles :
        LET why == Revert(tx.order, tx.ref, tx.sound, obstacle)
        IN  /\ IF why = "none"
               THEN chain' = [chain EXCEPT ![tx.order] = "EXECUTED"] /\ fills' = fills \cup {tx}
               ELSE UNCHANGED <<chain, fills>>
            /\ run' = [j \in Jobs |-> IF tx.by = j THEN [run[j] EXCEPT !.receipt = why]
                                      ELSE run[j]]
  BY DEF Mine
<1> DEFINE why == Revert(tx.order, tx.ref, tx.sound, obstacle)
<1>3. why \in Reasons
  BY DEF Revert, Reasons, Definitive, Obstacles
<1>4. run' = [j \in Jobs |-> IF tx.by = j THEN [run[j] EXCEPT !.receipt = why] ELSE run[j]]
  BY <1>2
<1>5. /\ chain' \in [Orders -> {"PENDING", "EXECUTED", "CANCELLED", "EXPIRED"}]
      /\ fills' \subseteq Transaction /\ \A t \in fills' : t.sound
  <2>1. tx.order \in Orders
    BY <1>1 DEF Transaction
  <2> QED BY <1>1, <1>2, <2>1 DEF IInv, TypeOK, FillsProved
<1> HIDE DEF why
<1>6. ASSUME NEW j \in Jobs
      PROVE  /\ run'[j] \in RunRecord /\ run'[j].pc = run[j].pc /\ run'[j].order = run[j].order
             /\ run'[j].right = run[j].right /\ run'[j].sound = run[j].sound
  <2>1. run[j] \in RunRecord
    BY RunFacts
  <2> QED BY <1>3, <1>4, <2>1 DEF RunRecord
<1>7. TypeOK'
  BY <1>4, <1>5, <1>6 DEF Mine, IInv, TypeOK, KeysTypeOK, LimiterTypeOK, keyVars, limiterVars,
                          tableVars
<1>8. RunsOK'
  BY <1>6 DEF Mine, IInv, RunsOK, RunOK, keyVars
<1> QED BY <1>5, <1>7, <1>8 DEF Mine, IInv, KeysPlaced, HandlersUp, SentProved, FillsProved,
                                keyVars

LEMMA FinishElsewhereInv == ASSUME IInv, NEW o \in Orders, FinishElsewhere(o) PROVE IInv'
<1>1. TypeOK'
  BY DEF FinishElsewhere, IInv, TypeOK, KeysTypeOK, LimiterTypeOK, keyVars, limiterVars,
         tableVars, workVars
<1> QED BY <1>1, KeepInv DEF FinishElsewhere, workVars

LEMMA TheWorldMovesInv == ASSUME IInv, TheWorldMoves PROVE IInv'
<1>1. TypeOK'
  BY DEF TheWorldMoves, IInv, TypeOK, KeysTypeOK, LimiterTypeOK, keyVars, limiterVars,
         tableVars, workVars
<1> QED BY <1>1, KeepInv DEF TheWorldMoves, workVars

LEMMA TimePassesInv == ASSUME IInv, TimePasses \/ SweepBuckets PROVE IInv'
<1>1. LimiterTypeOK'
  BY LimiterStepKeepsType DEF TimePasses, SweepBuckets, LimiterNext, IInv, TypeOK
<1>2. TypeOK'
  BY <1>1 DEF TimePasses, SweepBuckets, IInv, TypeOK, KeysTypeOK, keyVars, tableVars, workVars,
              worldVars
<1> QED BY <1>2, KeepInv DEF TimePasses, SweepBuckets, keyVars, workVars, worldVars

-----------------------------------------------------------------------------
(* The invariant. *)

LEMMA InitInv == Init => IInv
<1> SUFFICES ASSUME Init PROVE IInv
  OBVIOUS
<1>1. KeysTypeOK /\ LimiterTypeOK
  BY KeysAssumption, LimiterAssumption DEF Init, KeysInit, KeysTypeOK, LimiterInit, LimiterTypeOK
<1>2. NoRun \in RunRecord /\ NoRun.pc = "off"
  BY LimiterAssumption, ServiceAssumption DEF NoRun, RunRecord, Reasons, Definitive
<1>3. Nothing \in Sealed
  BY KeysAssumption, ServiceAssumption DEF Nothing, Sealed
<1>4. TypeOK
  BY <1>1, <1>2, <1>3 DEF Init, TypeOK
<1>5. RunsOK
  BY <1>2 DEF Init, RunsOK, RunOK
<1> QED BY <1>4, <1>5 DEF Init, KeysInit, IInv, KeysPlaced, HandlersUp, SentProved, FillsProved

LEMMA NextInv == IInv /\ [Next]_vars => IInv'
<1> SUFFICES ASSUME IInv, [Next]_vars PROVE IInv'
  OBVIOUS
<1>1. CASE Process
  BY <1>1, StartInv, ListenInv, CrashInv, LoseKeyFileInv DEF Process
<1>2. CASE Pages
  BY <1>2, PostSharesInv, ListKeepersInv, RefuseToListInv, DeleteSharesInv DEF Pages
<1>3. CASE Triggers
  BY <1>3, AskOracleInv, RefuseOrderInv, ExecuteRoundInv, ExecuteOrderInv DEF Triggers
<1>4. CASE JobSteps
  BY <1>4, ReadReferenceInv, ProveInv, SubmitInv, SucceedInv, SeeRevertInv, RpcFailsInv
     DEF JobSteps
<1>5. CASE Outside
  BY <1>5, MineInv, FinishElsewhereInv, TheWorldMovesInv, TimePassesInv DEF Outside
<1>6. CASE UNCHANGED vars
  <2>1. TypeOK'
    BY <1>6 DEF vars, IInv, TypeOK, KeysTypeOK, LimiterTypeOK, keyVars, limiterVars, tableVars,
                workVars, worldVars
  <2> QED BY <1>6, <2>1, KeepInv DEF vars, workVars, worldVars
<1> QED BY <1>1, <1>2, <1>3, <1>4, <1>5, <1>6 DEF Next

THEOREM Invariant == Spec => []IInv
BY InitInv, NextInv, PTL DEF Spec

\* The keeper keeps its types.
THEOREM KeeperTypeCorrect == Spec => []TypeOK
<1>1. IInv => TypeOK
  BY DEF IInv
<1> QED BY <1>1, Invariant, PTL

\* A trigger the keeper accepts works with the owner's own secret, unless the
\* keeper's K is below the pages'.
THEOREM AcceptedAreRight == Spec => []AcceptedHasSecret
<1>1. IInv => AcceptedHasSecret
  BY DEF IInv, RunsOK, RunOK, AcceptedHasSecret
<1> QED BY <1>1, Invariant, PTL

\* The keeper fills with sound proofs only, whatever the verifier accepts.
THEOREM FillsAreProved == Spec => []FillsProved
<1>1. IInv => FillsProved
  BY DEF IInv
<1> QED BY <1>1, Invariant, PTL

\* The four copies of the pair price, for any two feeds: KeeperPrice is the
\* registry's, the monitor's is the registry's where that is not 0, and so is
\* the page's where the feed of tokenOut has the places that the page quotes.
LEMMA SamePrice ==
  ASSUME NEW in, NEW out
  PROVE  /\ KeeperPrice(in, out) = ContractPrice(in, out)
         /\ ContractPrice(in, out) # 0 =>
              /\ MonitorPrice(in, out) = ContractPrice(in, out)
              /\ out.decimals = OracleDecimals => PagePrice(in, out) = ContractPrice(in, out)
<1> DEFINE normIn == in.answer * 10 ^ (NormDecimals - in.decimals)
           normOut == out.answer * 10 ^ (NormDecimals - out.decimals)
           quotient == (normIn * 10 ^ out.decimals) \div normOut
<1>1. /\ ContractPrice(in, out) = IF Usable(in) /\ Usable(out) /\ quotient \in 1..MaxPrice
                                 THEN quotient ELSE 0
      /\ KeeperPrice(in, out) = IF Usable(in) /\ Usable(out) /\ quotient \in 1..MaxPrice
                               THEN quotient ELSE 0
  BY Zenon DEF ContractPrice, KeeperPrice, Scaled
<1>2. MonitorPrice(in, out) = IF Usable(in) /\ Usable(out) THEN quotient ELSE 0
  BY Zenon DEF MonitorPrice
<1>3. out.decimals = OracleDecimals =>
        PagePrice(in, out) = IF Usable(in) /\ Usable(out) THEN quotient ELSE 0
  BY Zenon DEF PagePrice
<1> HIDE DEF quotient
<1> QED BY <1>1, <1>2, <1>3, Zenon

\* The keeper, the monitor and the page price every pair of feeds as the
\* registry does.
THEOREM PricesCorrect == Spec => []PricesAgree
<1>1. PricesAgree
  BY SamePrice DEF PricesAgree
<1> QED BY <1>1, PTL

-----------------------------------------------------------------------------
(* The key file. *)

\* A step keeps shares within reach of the keeper, or the operator deletes
\* the key file.
LEMMA StepKeepsKeys ==
  ASSUME IInv, [Next]_vars, NEW b \in Batches, sealed'[b] # Nothing, ~Openable(b)'
  PROVE  \/ sealed[b] # Nothing /\ ~Openable(b)
         \/ keys = 0 /\ keyFile' = NoFile
<1>1. CASE UNCHANGED <<keyFile, sealed>>
  BY <1>1 DEF Openable
<1>2. ASSUME NEW s \in Settings, Start(s)
      PROVE  (sealed' = sealed /\ ~Openable(b)) \/ UNCHANGED <<keyFile, sealed>>
  BY <1>2, KeysAssumption DEF Start, LoadKeys, DrawKeys, Openable, tableVars
<1>3. CASE Listen
  BY <1>3, KeysAssumption DEF Listen, WriteKeys, IInv, KeysPlaced, Openable, tableVars
<1>4. CASE LoseKeyFile
  BY <1>4 DEF LoseKeyFile, DeleteKeyFile, IInv, KeysPlaced
<1>5. ASSUME NEW c \in Batches, NEW s \in Sources, ListKeepers(c, s)
      PROVE  UNCHANGED <<keyFile, sealed>> \/ (sealed[b] = sealed'[b] /\ keyFile' = keyFile)
  <2>1. CASE b = c
    <3>1. process = "up" /\ keyFile' = keyFile
      BY <1>5 DEF ListKeepers, keyVars
    <3>2. keyFile \in KeyFiles /\ keyFile.gen = keys
      BY <3>1 DEF IInv, KeysPlaced
    <3>3. sealed' = sealed \/ sealed'[b].gen = keys
      BY <1>5, <2>1 DEF ListKeepers, IInv, TypeOK
    <3> QED BY <3>1, <3>2, <3>3 DEF Openable
  <2>2. CASE b # c
    BY <1>5, <2>2 DEF ListKeepers, keyVars, IInv, TypeOK
  <2> QED BY <2>1, <2>2
<1>6. Process \/ Pages \/ Triggers \/ JobSteps \/ Outside \/ UNCHANGED vars
  BY DEF Next
<1>7. CASE Process
  BY <1>1, <1>2, <1>3, <1>4, <1>7 DEF Process, Crash, Stop, tableVars, Openable
<1>8. CASE Pages
  BY <1>1, <1>5, <1>8 DEF Pages, PostShares, RefuseToList, DeleteShares, keyVars, tableVars,
                          Openable
<1>9. CASE Triggers
  BY <1>1, <1>9 DEF Triggers, AskOracle, RefuseOrder, ExecuteRound, ExecuteOrder, keyVars,
                    tableVars
<1>10. CASE JobSteps
  BY <1>1, <1>10 DEF JobSteps, ReadReference, Prove, Submit, Succeed, SeeRevert, RpcFails,
                     keyVars, tableVars
<1>11. CASE Outside
  BY <1>1, <1>11 DEF Outside, Mine, FinishElsewhere, TheWorldMoves, TimePasses, SweepBuckets,
                     keyVars, tableVars
<1>12. CASE UNCHANGED vars
  BY <1>1, <1>12 DEF vars, keyVars, tableVars
<1> QED BY <1>6, <1>7, <1>8, <1>9, <1>10, <1>11, <1>12

\* Shares sealed to published keys stay within reach of the keeper until the
\* operator deletes the key file.
THEOREM KeysSurvive == Spec => KeysOutliveProcess
<1>1. IInv /\ [Next]_vars =>
        [\A b \in Batches : sealed'[b] # Nothing /\ ~Openable(b)' =>
           \/ sealed[b] # Nothing /\ ~Openable(b)
           \/ keys = 0 /\ keyFile' = NoFile]_vars
  BY StepKeepsKeys
<1> QED BY <1>1, Invariant, PTL DEF Spec, KeysOutliveProcess

-----------------------------------------------------------------------------
(* The limiter inside the keeper. *)

LEMMA NextLimits == [Next]_vars => [LimiterNext]_limiterVars
<1> SUFFICES ASSUME [Next]_vars PROVE [LimiterNext]_limiterVars
  OBVIOUS
<1>1. CASE Process
  BY <1>1 DEF Process, Start, Listen, Crash, LoseKeyFile, LimiterNext
<1>2. CASE Pages
  BY <1>2 DEF Pages, PostShares, ListKeepers, RefuseToList, DeleteShares, LimiterNext
<1>3. CASE Triggers
  BY <1>3 DEF Triggers, AskOracle, RefuseOrder, ExecuteRound, ExecuteOrder
<1>4. CASE JobSteps
  BY <1>4 DEF JobSteps, ReadReference, Prove, Submit, Succeed, SeeRevert, RpcFails
<1>5. CASE Outside
  BY <1>5 DEF Outside, Mine, FinishElsewhere, TheWorldMoves, TimePasses, SweepBuckets,
              LimiterNext
<1>6. CASE UNCHANGED vars
  BY <1>6 DEF vars
<1> QED BY <1>1, <1>2, <1>3, <1>4, <1>5, <1>6 DEF Next

\* The keeper's list of public keys is limited as by a token bucket per
\* address that is never forgotten, through sweeps and restarts.
THEOREM KeeperLimits == Spec => ImplementsBucket
<1>1. Init => LimiterInit
  BY DEF Init
<1> QED BY <1>1, NextLimits, LimiterImplementsBucket, PTL DEF Spec, LimiterSpec

-----------------------------------------------------------------------------
(* The jobs inside the keeper.  What a job waits for is its one            *)
(* transaction in flight, or its receipt; a receipt of success is only     *)
(* given to a job whose order is executed, and stays true.                 *)

Own(j) == {tx \in mempool : tx.by = j}

ReceiptOK(j) ==
  /\ run[j].pc # "wait" => Own(j) = {} /\ run[j].receipt = "none"
  /\ \A tx \in Own(j) : tx.order = run[j].order /\ run[j].receipt = "none"
  /\ \A tx, other \in Own(j) : tx = other
  /\ run[j].pc = "wait" /\ run[j].receipt = "none" /\ Own(j) = {}
       => chain[run[j].order] = "EXECUTED"

ReceiptsOK == \A j \in Jobs : ReceiptOK(j)

JInv == IInv /\ ReceiptsOK

\* The orders in flight and the jobs, as KeeperJobs sees them.
Flying == {tx.order : tx \in mempool}
Working == [j \in Jobs |-> JobOf(run[j])]

\* A step that leaves the jobs, the transactions and the chain alone.
LEMMA KeepReceipts ==
  ASSUME ReceiptsOK, UNCHANGED <<run, mempool, chain>>
  PROVE  ReceiptsOK'
BY DEF ReceiptsOK, ReceiptOK, Own

\* A step of one job that leaves the others, their transactions and the
\* chain alone.
LEMMA OneJobReceipts ==
  ASSUME JInv, NEW j \in Jobs, ReceiptOK(j)', chain' = chain,
         \A i \in Jobs : i # j => run'[i] = run[i] /\ Own(i)' = Own(i)
  PROVE  ReceiptsOK'
BY DEF JInv, ReceiptsOK, ReceiptOK

\* After an error a job has neither a receipt nor a transaction.
LEMMA FailReceipts ==
  ASSUME JInv, NEW j \in Jobs, NEW why, run[j].pc # "off", Fail(j, why), chain' = chain,
         Own(j)' = {}, \A i \in Jobs : i # j => Own(i)' = Own(i)
  PROVE  ReceiptsOK'
<1>1. /\ \A i \in Jobs : i # j => run'[i] = run[i]
      /\ run'[j].pc \in {"off", "read"}
  BY FailRun DEF JInv
<1>2. run'[j].receipt = "none"
  <2>1. run' = [run EXCEPT ![j] = NoRun] \/ run' = [run EXCEPT ![j] = NextAttempt(run[j])]
    BY DEF Fail, Silently, GiveUp, TryAgain
  <2>2. run \in [Jobs -> RunRecord]
    BY DEF JInv, IInv, TypeOK
  <2> QED BY <2>1, <2>2 DEF NoRun, NextAttempt, Attempt
<1> QED BY <1>1, <1>2, OneJobReceipts DEF ReceiptOK

LEMMA AcceptReceipts ==
  ASSUME JInv, NEW j \in Jobs, NEW o, NEW stamp, Accept(j, o, stamp),
         UNCHANGED <<mempool, chain>>
  PROVE  ReceiptsOK'
<1>1. run \in [Jobs -> RunRecord]
  BY DEF JInv, IInv, TypeOK
<1>2. run'[j].pc = "read" /\ run'[j].receipt = "none"
  BY <1>1 DEF Accept, Attempt
<1>3. Own(j)' = {}
  BY DEF Accept, JInv, ReceiptsOK, ReceiptOK, Own
<1> QED BY <1>1, <1>2, <1>3, OneJobReceipts DEF Accept, ReceiptOK, Own

LEMMA CrashReceipts == ASSUME JInv, Crash PROVE ReceiptsOK'
<1>1. \A tx \in mempool' : tx.by = 0
  BY DEF Crash, JInv, IInv, TypeOK, Transaction
<1>2. \A j \in Jobs : Own(j)' = {}
  BY <1>1, ServiceAssumption DEF Own
<1> QED BY <1>2 DEF Crash, NoRun, ReceiptsOK, ReceiptOK

LEMMA ReadReceipts == ASSUME JInv, NEW j \in Jobs, ReadReference(j) PROVE ReceiptsOK'
<1>1. run[j].pc = "read" /\ UNCHANGED <<mempool, chain>>
  BY DEF ReadReference, worldVars
<1>2. \A i \in Jobs : Own(i)' = Own(i)
  BY <1>1 DEF Own
<1>3. Own(j)' = {} /\ run[j].receipt = "none"
  BY <1>1, <1>2 DEF JInv, ReceiptsOK, ReceiptOK
<1>4. CASE kind[run[j].order] = "ORDER_FILL" /\ Price = 0
  <2>1. Fail(j, "oracle")
    BY <1>4 DEF ReadReference
  <2> QED BY <1>1, <1>2, <1>3, <2>1, FailReceipts
<1>5. CASE ~(kind[run[j].order] = "ORDER_FILL" /\ Price = 0)
  <2>1. run \in [Jobs -> RunRecord]
    BY DEF JInv, IInv, TypeOK
  <2>2. /\ run'[j].pc = "prove" /\ run'[j].receipt = run[j].receipt
        /\ \A i \in Jobs : i # j => run'[i] = run[i]
    BY <1>5, <2>1 DEF ReadReference, RunRecord
  <2> QED BY <1>1, <1>2, <1>3, <2>2, OneJobReceipts DEF ReceiptOK
<1> QED BY <1>4, <1>5

LEMMA ProveReceipts == ASSUME JInv, NEW j \in Jobs, Prove(j) PROVE ReceiptsOK'
<1>1. run[j].pc = "prove" /\ UNCHANGED <<mempool, chain>>
  BY DEF Prove, worldVars
<1>2. \A i \in Jobs : Own(i)' = Own(i)
  BY <1>1 DEF Own
<1>3. Own(j)' = {} /\ run[j].receipt = "none"
  BY <1>1, <1>2 DEF JInv, ReceiptsOK, ReceiptOK
<1>4. CASE Fail(j, "proof")
  BY <1>1, <1>2, <1>3, <1>4, FailReceipts
<1>5. CASE ~Fail(j, "proof")
  <2>1. PICK worth : run' = [run EXCEPT ![j].pc = "send", ![j].sound = worth]
    BY <1>5 DEF Prove
  <2>2. run \in [Jobs -> RunRecord]
    BY DEF JInv, IInv, TypeOK
  <2>3. /\ run'[j].pc = "send" /\ run'[j].receipt = run[j].receipt
        /\ \A i \in Jobs : i # j => run'[i] = run[i]
    BY <2>1, <2>2 DEF RunRecord
  <2> QED BY <1>1, <1>2, <1>3, <2>3, OneJobReceipts DEF ReceiptOK
<1> QED BY <1>4, <1>5

LEMMA SubmitReceipts == ASSUME JInv, NEW j \in Jobs, Submit(j) PROVE ReceiptsOK'
<1>1. run[j].pc = "send" /\ chain' = chain
  BY DEF Submit
<1>2. PICK obstacle \in Obstacles :
        LET why == Estimate(run[j], obstacle)
        IN  IF why = "none"
            THEN /\ run' = [run EXCEPT ![j].pc = "wait"]
                 /\ mempool' = mempool \cup {[order |-> run[j].order, ref |-> run[j].ref,
                                              sound |-> run[j].sound, by |-> j]}
                 /\ UNCHANGED notices
            ELSE Fail(j, why) /\ UNCHANGED mempool
  BY DEF Submit
<1>3. Own(j) = {} /\ run[j].receipt = "none"
  BY <1>1 DEF JInv, ReceiptsOK, ReceiptOK
<1>4. CASE Estimate(run[j], obstacle) = "none"
  <2> DEFINE tx == [order |-> run[j].order, ref |-> run[j].ref, sound |-> run[j].sound,
                    by |-> j]
  <2>1. run' = [run EXCEPT ![j].pc = "wait"] /\ mempool' = mempool \cup {tx}
    BY <1>2, <1>4
  <2>2. tx.order = run[j].order /\ tx.by = j
    OBVIOUS
  <2>3. run \in [Jobs -> RunRecord]
    BY DEF JInv, IInv, TypeOK
  <2>4. /\ run'[j].pc = "wait" /\ run'[j].receipt = "none" /\ run'[j].order = run[j].order
        /\ \A i \in Jobs : i # j => run'[i] = run[i]
    BY <1>3, <2>1, <2>3 DEF RunRecord
  <2> HIDE DEF tx
  <2>5. Own(j)' = {tx}
    BY <1>3, <2>1, <2>2 DEF Own
  <2>6. \A i \in Jobs : i # j => Own(i)' = Own(i)
    BY <2>1, <2>2 DEF Own
  <2>7. ReceiptOK(j)'
    BY <2>2, <2>4, <2>5 DEF ReceiptOK
  <2> QED BY <1>1, <2>4, <2>6, <2>7, OneJobReceipts
<1>5. CASE Estimate(run[j], obstacle) # "none"
  <2>1. Fail(j, Estimate(run[j], obstacle)) /\ mempool' = mempool
    BY <1>2, <1>5
  <2> QED BY <1>1, <1>3, <2>1, FailReceipts DEF Own
<1> QED BY <1>4, <1>5

\* A job that stops waiting leaves nothing in flight.
LEMMA WaitedReceipts ==
  ASSUME JInv, NEW j \in Jobs, NEW why, Waits(j), Fail(j, why), UNCHANGED <<mempool, chain>>
  PROVE  ReceiptsOK'
BY FailReceipts DEF Waits, Own

LEMMA SucceedReceipts == ASSUME JInv, NEW j \in Jobs, Succeed(j) PROVE ReceiptsOK'
<1>1. Fail(j, "no gas")
  BY DEF Succeed, Fail, Definitive
<1> QED BY <1>1, WaitedReceipts DEF Succeed, worldVars

LEMMA SeeRevertReceipts == ASSUME JInv, NEW j \in Jobs, SeeRevert(j) PROVE ReceiptsOK'
BY WaitedReceipts DEF SeeRevert, worldVars

LEMMA RpcFailsReceipts == ASSUME JInv, NEW j \in Jobs, RpcFails(j) PROVE ReceiptsOK'
<1>1. \A tx \in mempool : tx \in Transaction
  BY DEF JInv, IInv, TypeOK
<1>2. 0 \notin Jobs
  BY ServiceAssumption
<1>3. mempool' = {IF tx.by = j THEN [tx EXCEPT !.by = 0] ELSE tx : tx \in mempool}
  BY DEF RpcFails, Abandon
<1>4. \A tx \in mempool : tx.by = j => [tx EXCEPT !.by = 0].by = 0
  BY <1>1 DEF Transaction
<1>5. Own(j)' = {}
  BY <1>2, <1>3, <1>4 DEF Own
<1>6. ASSUME NEW i \in Jobs, i # j PROVE Own(i)' = Own(i)
  <2> DEFINE Kept(tx) == IF tx.by = j THEN [tx EXCEPT !.by = 0] ELSE tx
  <2>1. \A tx \in mempool : tx.by = i => Kept(tx) = tx
    BY <1>6
  <2>2. \A tx \in mempool : Kept(tx).by = i => Kept(tx) = tx
    BY <1>2, <1>4, <1>6
  <2>3. mempool' = {Kept(tx) : tx \in mempool}
    BY <1>3
  <2> HIDE DEF Kept
  <2> QED BY <2>1, <2>2, <2>3 DEF Own
<1> QED BY <1>5, <1>6, FailReceipts DEF RpcFails

\* A mined transaction gives its own job a receipt, which is true.
LEMMA MineReceipts == ASSUME JInv, NEW tx \in mempool, Mine(tx) PROVE ReceiptsOK'
<1>1. tx \in Transaction /\ tx.order \in Orders
  BY DEF JInv, IInv, TypeOK, Transaction
<1>2. PICK obstacle \in Obstacles :
        LET why == Revert(tx.order, tx.ref, tx.sound, obstacle)
        IN  /\ IF why = "none"
               THEN chain' = [chain EXCEPT ![tx.order] = "EXECUTED"] /\ fills' = fills \cup {tx}
               ELSE UNCHANGED <<chain, fills>>
            /\ run' = [j \in Jobs |-> IF tx.by = j THEN [run[j] EXCEPT !.receipt = why]
                                      ELSE run[j]]
  BY DEF Mine
<1> DEFINE why == Revert(tx.order, tx.ref, tx.sound, obstacle)
<1>3. /\ why = "none" => chain' = [chain EXCEPT ![tx.order] = "EXECUTED"]
      /\ why # "none" => chain' = chain
      /\ run' = [j \in Jobs |-> IF tx.by = j THEN [run[j] EXCEPT !.receipt = why] ELSE run[j]]
  BY <1>2
<1> HIDE DEF why
<1>4. mempool' = mempool \ {tx}
  BY DEF Mine
<1>5. chain \in [Orders -> {"PENDING", "EXECUTED", "CANCELLED", "EXPIRED"}]
      /\ run \in [Jobs -> RunRecord]
  BY DEF JInv, IInv, TypeOK
<1>6. /\ \A o \in Orders : chain[o] = "EXECUTED" => chain'[o] = "EXECUTED"
      /\ why = "none" => chain'[tx.order] = "EXECUTED"
  BY <1>1, <1>3, <1>5
<1>7. ASSUME NEW j \in Jobs PROVE ReceiptOK(j)'
  <2>1. ReceiptOK(j) /\ (run[j].pc = "wait" => run[j].order \in Orders)
    BY DEF JInv, ReceiptsOK, IInv, RunsOK, RunOK
  <2>2. CASE tx.by # j
    <3>1. run'[j] = run[j] /\ Own(j)' = Own(j)
      BY <1>3, <1>4, <2>2 DEF Own
    <3> QED BY <1>6, <2>1, <3>1 DEF ReceiptOK
  <2>3. CASE tx.by = j
    <3>1. tx \in Own(j)
      BY <2>3 DEF Own
    <3>2. run[j].pc = "wait" /\ tx.order = run[j].order /\ Own(j)' = {}
      BY <1>4, <2>1, <3>1 DEF ReceiptOK, Own
    <3>3. run'[j].pc = "wait" /\ run'[j].order = tx.order /\ run'[j].receipt = why
      BY <1>3, <1>5, <2>3, <3>2 DEF RunRecord
    <3> QED BY <1>6, <3>2, <3>3 DEF ReceiptOK
  <2> QED BY <2>2, <2>3
<1> QED BY <1>7 DEF ReceiptsOK

LEMMA FinishElsewhereReceipts ==
  ASSUME JInv, NEW o \in Orders, FinishElsewhere(o) PROVE ReceiptsOK'
<1>1. UNCHANGED <<run, mempool>>
  BY DEF FinishElsewhere, workVars
<1>2. \A x \in Orders : chain[x] = "EXECUTED" => chain'[x] = "EXECUTED"
  BY DEF FinishElsewhere, JInv, IInv, TypeOK
<1>3. \A j \in Jobs : run[j].pc = "wait" => run[j].order \in Orders
  BY DEF JInv, IInv, RunsOK, RunOK
<1> QED BY <1>1, <1>2, <1>3 DEF JInv, ReceiptsOK, ReceiptOK, Own

LEMMA InitReceipts == Init => ReceiptsOK
BY DEF Init, NoRun, ReceiptsOK, ReceiptOK, Own

LEMMA NextReceipts == JInv /\ [Next]_vars => ReceiptsOK'
<1> SUFFICES ASSUME JInv, [Next]_vars PROVE ReceiptsOK'
  OBVIOUS
<1>1. CASE UNCHANGED <<run, mempool, chain>>
  BY <1>1, KeepReceipts DEF JInv
<1>2. CASE Process
  BY <1>1, <1>2, CrashReceipts DEF Process, Start, Listen, LoseKeyFile, workVars, worldVars
<1>3. CASE Pages
  BY <1>1, <1>3 DEF Pages, PostShares, ListKeepers, RefuseToList, DeleteShares, workVars,
                    worldVars
<1>4. CASE Triggers
  BY <1>1, <1>4, AcceptReceipts DEF Triggers, AskOracle, RefuseOrder, ExecuteRound,
                                    ExecuteOrder, worldVars
<1>5. CASE JobSteps
  BY <1>5, ReadReceipts, ProveReceipts, SubmitReceipts, SucceedReceipts, SeeRevertReceipts,
     RpcFailsReceipts DEF JobSteps
<1>6. CASE Outside
  BY <1>1, <1>6, MineReceipts, FinishElsewhereReceipts
     DEF Outside, TheWorldMoves, TimePasses, SweepBuckets, workVars, worldVars
<1>7. CASE UNCHANGED vars
  BY <1>1, <1>7 DEF vars, workVars, worldVars
<1> QED BY <1>2, <1>3, <1>4, <1>5, <1>6, <1>7 DEF Next

LEMMA JobInvariant == Spec => []JInv
<1>1. Init => ReceiptsOK
  BY InitReceipts
<1>2. JInv /\ IInv' /\ [Next]_vars => JInv'
  BY NextReceipts DEF JInv
<1>3. IInv /\ ReceiptsOK <=> JInv
  BY DEF JInv
<1> QED BY <1>1, <1>2, <1>3, Invariant, PTL DEF Spec

-----------------------------------------------------------------------------
(* Each step of the keeper is one of KeeperJobs or leaves JobView alone.   *)

\* An error ends or repeats the job of KeeperJobs in the same way.
LEMMA FailMaps ==
  ASSUME JInv, NEW j \in Jobs, NEW why, run[j].pc # "off", Fail(j, why), Flying' = Flying,
         UNCHANGED <<chain, now, callbacks>>
  PROVE  Abstract!JobStep(j)
<1>1. run \in [Jobs -> RunRecord] /\ run[j] \in RunRecord
  BY DEF JInv, IInv, TypeOK
<1>2. Working[j].pc # "off" /\ Working[j].order = run[j].order
      /\ Working[j].attempt = run[j].attempt
  BY <1>1 DEF Working, JobOf
<1>3. Past' = Past /\ Done' = Done
  BY DEF Past, Done
<1>4. ASSUME run' = [run EXCEPT ![j] = NoRun]
      PROVE  Working' = [Working EXCEPT ![j] = Abstract!NoJob]
  <2>1. JobOf(NoRun) = Abstract!NoJob
    BY DEF JobOf, NoRun, Abstract!NoJob
  <2> QED BY <1>1, <1>4, <2>1 DEF Working
<1>5. CASE Silently(j)
  <2>1. Abstract!EndSilently(j)
    BY <1>2, <1>3, <1>4, <1>5 DEF Silently, Abstract!EndSilently, Working, Flying
  <2> QED BY <2>1 DEF Abstract!JobStep
<1>6. ASSUME GiveUp(j) PROVE Abstract!GiveUp(j)
  BY <1>2, <1>4, <1>6 DEF GiveUp, Abstract!GiveUp, Working
<1>7. CASE GiveUp(j)
  <2>1. Abstract!FailDefinitively(j)
    BY <1>2, <1>3, <1>6, <1>7 DEF Abstract!FailDefinitively, Working, Flying
  <2> QED BY <2>1 DEF Abstract!JobStep
<1>8. CASE TryAgain(j)
  <2>1. CASE run[j].attempt < MaxRetries
    <3> DEFINE r == NextAttempt(run[j])
    <3>1. run' = [run EXCEPT ![j] = r] /\ notices' = notices
      BY <1>8, <2>1 DEF TryAgain
    <3>2. r.pc = "read" /\ r.order = run[j].order /\ r.attempt = run[j].attempt + 1
      BY DEF NextAttempt, Attempt
    <3> HIDE DEF r
    <3>3. /\ run'[j].pc = "read" /\ run'[j].order = run[j].order
          /\ run'[j].attempt = run[j].attempt + 1
          /\ \A i \in Jobs : i # j => run'[i] = run[i]
      BY <1>1, <3>1, <3>2
    <3>4. Working' = [Working EXCEPT ![j].pc = "attempt", ![j].attempt = @ + 1]
      BY <3>3 DEF Working, JobOf
    <3>5. Abstract!FailTransiently(j)
      BY <1>2, <1>3, <2>1, <3>1, <3>4 DEF Abstract!FailTransiently, Working, Flying
    <3> QED BY <3>5 DEF Abstract!JobStep
  <2>2. CASE ~(run[j].attempt < MaxRetries)
    <3>1. GiveUp(j)
      BY <1>8, <2>2 DEF TryAgain
    <3> QED BY <1>7, <3>1
  <2> QED BY <2>1, <2>2
<1> QED BY <1>5, <1>7, <1>8 DEF Fail

\* A step that only changes what KeeperJobs leaves out of a job.
LEMMA StutterMaps ==
  ASSUME JInv, Working' = Working, Flying' = Flying, UNCHANGED <<chain, now, notices, callbacks>>
  PROVE  UNCHANGED JobView
BY DEF JobView, Working, Flying, Past

LEMMA AcceptMaps ==
  ASSUME JInv, NEW j \in Jobs, NEW o \in Orders, NEW stamp, Accept(j, o, stamp),
         UNCHANGED <<chain, now, mempool, notices, callbacks>>
  PROVE  Accepts
<1> DEFINE r == Attempt(o, 1, stamp, SecretIsRight(o))
<1>1. JobOf(r) = [pc |-> "attempt", order |-> o, attempt |-> 1]
  BY DEF JobOf, Attempt
<1>2. run' = [run EXCEPT ![j] = r] /\ run[j].pc = "off"
  BY DEF Accept
<1> HIDE DEF r
<1>3. run \in [Jobs -> RunRecord]
  BY DEF JInv, IInv, TypeOK
<1>4. Working[j].pc = "off"
  BY <1>2 DEF Working, JobOf
<1>5. Working' = [Working EXCEPT ![j] = [pc |-> "attempt", order |-> o, attempt |-> 1]]
  BY <1>1, <1>2, <1>3 DEF Working
<1>6. Abstract!Accept(j, o)
  BY <1>4, <1>5 DEF Abstract!Accept, Working
<1> QED BY <1>6 DEF Accepts

LEMMA CrashMaps == ASSUME JInv, Crash PROVE AllEndSilently
<1> DEFINE Freed(tx) == [tx EXCEPT !.by = 0]
<1>1. \A tx \in mempool : Freed(tx).order = tx.order
  BY DEF JInv, IInv, TypeOK, Transaction
<1>2. mempool' = {Freed(tx) : tx \in mempool}
  BY DEF Crash
<1> HIDE DEF Freed
<1>3. Flying' = Flying
  BY <1>1, <1>2 DEF Flying
<1> QED BY <1>3 DEF Crash, AllEndSilently, Flying

LEMMA ReadMaps ==
  ASSUME JInv, NEW j \in Jobs, ReadReference(j) PROVE Abstract!JobStep(j) \/ UNCHANGED JobView
<1>1. run[j].pc = "read" /\ UNCHANGED <<chain, now, mempool, callbacks>>
  BY DEF ReadReference, limiterVars, worldVars
<1>2. Flying' = Flying
  BY <1>1 DEF Flying
<1>3. CASE kind[run[j].order] = "ORDER_FILL" /\ Price = 0
  <2>1. Fail(j, "oracle")
    BY <1>3 DEF ReadReference
  <2> QED BY <1>1, <1>2, <2>1, FailMaps
<1>4. CASE ~(kind[run[j].order] = "ORDER_FILL" /\ Price = 0)
  <2>1. run \in [Jobs -> RunRecord]
    BY DEF JInv, IInv, TypeOK
  <2>2. /\ run'[j].pc = "prove" /\ run'[j].order = run[j].order
        /\ run'[j].attempt = run[j].attempt /\ notices' = notices
        /\ \A i \in Jobs : i # j => run'[i] = run[i]
    BY <1>4, <2>1 DEF ReadReference, RunRecord
  <2>3. Working' = Working
    BY <1>1, <2>2 DEF Working, JobOf
  <2> QED BY <1>1, <1>2, <2>2, <2>3, StutterMaps
<1> QED BY <1>3, <1>4

LEMMA ProveMaps ==
  ASSUME JInv, NEW j \in Jobs, Prove(j) PROVE Abstract!JobStep(j) \/ UNCHANGED JobView
<1>1. run[j].pc = "prove" /\ UNCHANGED <<chain, now, mempool, callbacks>>
  BY DEF Prove, limiterVars, worldVars
<1>2. Flying' = Flying
  BY <1>1 DEF Flying
<1>3. CASE Fail(j, "proof")
  BY <1>1, <1>2, <1>3, FailMaps
<1>4. CASE ~Fail(j, "proof")
  <2>1. PICK worth : run' = [run EXCEPT ![j].pc = "send", ![j].sound = worth]
                     /\ notices' = notices
    BY <1>4 DEF Prove
  <2>2. run \in [Jobs -> RunRecord]
    BY DEF JInv, IInv, TypeOK
  <2>3. /\ run'[j].pc = "send" /\ run'[j].order = run[j].order
        /\ run'[j].attempt = run[j].attempt
        /\ \A i \in Jobs : i # j => run'[i] = run[i]
    BY <2>1, <2>2 DEF RunRecord
  <2>4. Working' = Working
    BY <1>1, <2>3 DEF Working, JobOf
  <2> QED BY <1>1, <1>2, <2>1, <2>4, StutterMaps
<1> QED BY <1>3, <1>4

\* A call that does not revert is one of an order that is pending and has
\* not expired.
LEMMA NoRevert ==
  ASSUME JInv, NEW o \in Orders, NEW ref, NEW sound, NEW obstacle,
         Revert(o, ref, sound, obstacle) = "none"
  PROVE  Abstract!Executable(o)
BY DEF Revert, Abstract!Executable, Past

LEMMA SubmitMaps == ASSUME JInv, NEW j \in Jobs, Submit(j) PROVE Abstract!JobStep(j)
<1>1. run[j].pc = "send" /\ UNCHANGED <<chain, now, callbacks>>
  BY DEF Submit, limiterVars
<1>2. PICK obstacle \in Obstacles :
        LET why == Estimate(run[j], obstacle)
        IN  IF why = "none"
            THEN /\ run' = [run EXCEPT ![j].pc = "wait"]
                 /\ mempool' = mempool \cup {[order |-> run[j].order, ref |-> run[j].ref,
                                              sound |-> run[j].sound, by |-> j]}
                 /\ UNCHANGED notices
            ELSE Fail(j, why) /\ UNCHANGED mempool
  BY DEF Submit
<1>3. CASE Estimate(run[j], obstacle) = "none"
  <2>1. run \in [Jobs -> RunRecord] /\ run[j].order \in Orders
    BY <1>1 DEF JInv, IInv, TypeOK, RunsOK, RunOK
  <2>2. Abstract!Executable(run[j].order)
    BY <1>3, <2>1, NoRevert DEF Estimate
  <2>3. Flying' = Flying \cup {run[j].order}
    <3> DEFINE tx == [order |-> run[j].order, ref |-> run[j].ref, sound |-> run[j].sound,
                      by |-> j]
    <3>1. mempool' = mempool \cup {tx} /\ tx.order = run[j].order
      BY <1>2, <1>3
    <3> HIDE DEF tx
    <3> QED BY <3>1 DEF Flying
  <2>4. /\ run'[j].pc = "wait" /\ run'[j].order = run[j].order
        /\ run'[j].attempt = run[j].attempt /\ notices' = notices
        /\ \A i \in Jobs : i # j => run'[i] = run[i]
    BY <1>2, <1>3, <2>1 DEF RunRecord
  <2>5. Working[j].pc = "attempt" /\ Working[j].order = run[j].order
    BY <1>1 DEF Working, JobOf
  <2>6. Working' = [Working EXCEPT ![j].pc = "sent"]
    BY <1>1, <2>4 DEF Working, JobOf
  <2>7. Past' = Past /\ Done' = Done
    BY <1>1 DEF Past, Done
  <2>8. Abstract!SendTx(j)
    BY <1>1, <2>2, <2>3, <2>4, <2>5, <2>6, <2>7 DEF Abstract!SendTx, Working, Flying
  <2> QED BY <2>8 DEF Abstract!JobStep
<1>4. CASE Estimate(run[j], obstacle) # "none"
  <2>1. Fail(j, Estimate(run[j], obstacle)) /\ mempool' = mempool
    BY <1>2, <1>4
  <2> QED BY <1>1, <2>1, FailMaps DEF Flying
<1> QED BY <1>3, <1>4

\* A job that waited for nothing in flight and got a receipt of success.
LEMMA SucceedMaps == ASSUME JInv, NEW j \in Jobs, Succeed(j) PROVE Abstract!JobStep(j)
<1>1. run[j].pc = "wait" /\ run[j].receipt = "none" /\ Own(j) = {}
  BY DEF Succeed, Waits, Own
<1>2. chain[run[j].order] = "EXECUTED"
  BY <1>1 DEF JInv, ReceiptsOK, ReceiptOK
<1>3. UNCHANGED <<chain, now, mempool, notices, callbacks>> /\ run' = [run EXCEPT ![j] = NoRun]
  BY DEF Succeed, Silently, limiterVars, worldVars
<1>4. Working[j].pc = "sent" /\ Working[j].order = run[j].order
  BY <1>1 DEF Working, JobOf
<1>5. JobOf(NoRun) = Abstract!NoJob
  BY DEF JobOf, NoRun, Abstract!NoJob
<1>6. Working' = [Working EXCEPT ![j] = Abstract!NoJob]
  BY <1>3, <1>5 DEF Working, JInv, IInv, TypeOK
<1>7. Past' = Past /\ Done' = Done /\ Flying' = Flying
  BY <1>3 DEF Past, Done, Flying
<1>8. Abstract!Succeed(j)
  BY <1>2, <1>3, <1>4, <1>6, <1>7 DEF Abstract!Succeed, Working, Flying
<1> QED BY <1>8 DEF Abstract!JobStep

LEMMA SeeRevertMaps == ASSUME JInv, NEW j \in Jobs, SeeRevert(j) PROVE Abstract!JobStep(j)
BY FailMaps DEF SeeRevert, Waits, Flying, limiterVars, worldVars

LEMMA RpcFailsMaps == ASSUME JInv, NEW j \in Jobs, RpcFails(j) PROVE Abstract!JobStep(j)
<1> DEFINE Kept(tx) == IF tx.by = j THEN [tx EXCEPT !.by = 0] ELSE tx
<1>1. \A tx \in mempool : Kept(tx).order = tx.order
  BY DEF JInv, IInv, TypeOK, Transaction
<1>2. mempool' = {Kept(tx) : tx \in mempool}
  BY DEF RpcFails, Abandon
<1> HIDE DEF Kept
<1>3. Flying' = Flying
  BY <1>1, <1>2 DEF Flying
<1> QED BY <1>3, FailMaps DEF RpcFails, limiterVars

\* A call that succeeds finishes its order.
LEMMA FinishMaps ==
  ASSUME JInv, NEW o \in Orders, NEW s, s # "PENDING", chain' = [chain EXCEPT ![o] = s]
  PROVE  Done' = Done \cup {o}
BY DEF JInv, IInv, TypeOK, Done

\* A mined transaction is the last in flight of its order, or it is one of
\* several and finishes its order, if at all, as somebody else would.
LEMMA MineMaps ==
  ASSUME JInv, NEW tx \in mempool, Mine(tx)
  PROVE  (\E o \in Orders : Abstract!OutsideStep(o)) \/ UNCHANGED JobView
<1> DEFINE o == tx.order
<1>1. tx \in Transaction /\ o \in Orders
  BY DEF JInv, IInv, TypeOK, Transaction
<1>2. PICK obstacle \in Obstacles :
        LET why == Revert(o, tx.ref, tx.sound, obstacle)
        IN  /\ IF why = "none"
               THEN chain' = [chain EXCEPT ![o] = "EXECUTED"] /\ fills' = fills \cup {tx}
               ELSE UNCHANGED <<chain, fills>>
            /\ run' = [j \in Jobs |-> IF tx.by = j THEN [run[j] EXCEPT !.receipt = why]
                                      ELSE run[j]]
  BY DEF Mine
<1> DEFINE why == Revert(o, tx.ref, tx.sound, obstacle)
<1>3. /\ why = "none" => chain' = [chain EXCEPT ![o] = "EXECUTED"] /\ Abstract!Executable(o)
      /\ why # "none" => chain' = chain
      /\ run' = [j \in Jobs |-> IF tx.by = j THEN [run[j] EXCEPT !.receipt = why] ELSE run[j]]
  BY <1>1, <1>2, NoRevert
<1> HIDE DEF why
<1>4. UNCHANGED <<now, notices, callbacks>> /\ mempool' = mempool \ {tx} /\ Past' = Past
  BY DEF Mine, limiterVars, Past
<1>5. Working' = Working
  <2>1. run \in [Jobs -> RunRecord]
    BY DEF JInv, IInv, TypeOK
  <2>2. ASSUME NEW j \in Jobs
        PROVE  run'[j].pc = run[j].pc /\ run'[j].order = run[j].order
               /\ run'[j].attempt = run[j].attempt
    BY <1>3, <2>1 DEF RunRecord
  <2> QED BY <2>2 DEF Working, JobOf
<1>6. o \in Flying
  BY DEF Flying
<1> HIDE DEF o
<1>7. Flying' = Flying \/ Flying' = Flying \ {o}
  <2>1. CASE \E other \in mempool \ {tx} : other.order = o
    BY <1>4, <2>1 DEF Flying, o
  <2>2. CASE ~\E other \in mempool \ {tx} : other.order = o
    BY <1>4, <2>2 DEF Flying, o
  <2> QED BY <2>1, <2>2
<1>8. CASE why = "none"
  <2>1. /\ chain' = [chain EXCEPT ![o] = "EXECUTED"] /\ Done' = Done \cup {o}
        /\ chain[o] = "PENDING" /\ o \notin Past /\ Abstract!Executable(o)
    BY <1>1, <1>3, <1>8, FinishMaps DEF Abstract!Executable
  <2>2. Abstract!Finish(o, "EXECUTED")
    BY <2>1 DEF Abstract!Finish
  <2>3. CASE Flying' = Flying
    <3>1. Abstract!FinishElsewhere(o)
      BY <1>4, <1>5, <2>1, <2>2, <2>3 DEF Abstract!FinishElsewhere, Working, Flying
    <3> QED BY <1>1, <3>1 DEF Abstract!OutsideStep
  <2>4. CASE Flying' = Flying \ {o}
    <3>1. Abstract!MineTx(o)
      BY <1>4, <1>5, <1>6, <2>1, <2>2, <2>4 DEF Abstract!MineTx, Working, Flying
    <3> QED BY <1>1, <3>1 DEF Abstract!OutsideStep
  <2> QED BY <1>7, <2>3, <2>4
<1>9. CASE why # "none"
  <2>1. chain' = chain /\ Done' = Done
    BY <1>3, <1>9 DEF Done
  <2>2. CASE Flying' = Flying
    BY <1>4, <1>5, <2>1, <2>2, StutterMaps
  <2>3. CASE Flying' = Flying \ {o}
    <3>1. Abstract!MineTx(o)
      BY <1>4, <1>5, <1>6, <2>1, <2>3 DEF Abstract!MineTx, Working, Flying
    <3> QED BY <1>1, <3>1 DEF Abstract!OutsideStep
  <2> QED BY <1>7, <2>2, <2>3
<1> QED BY <1>8, <1>9

LEMMA FinishElsewhereMaps ==
  ASSUME JInv, NEW o \in Orders, FinishElsewhere(o) PROVE Abstract!OutsideStep(o)
<1>1. PICK s \in {"CANCELLED", IF now > Expiry[o] THEN "EXPIRED" ELSE "EXECUTED"} :
        chain' = [chain EXCEPT ![o] = s]
  BY DEF FinishElsewhere
<1>2. chain[o] = "PENDING" /\ UNCHANGED <<now, run, mempool, notices, callbacks>>
  BY DEF FinishElsewhere, limiterVars, workVars
<1>3. Done' = Done \cup {o}
  BY <1>1, FinishMaps
<1>4. Abstract!Finish(o, s)
  BY <1>1, <1>3 DEF Abstract!Finish
<1>5. s = "CANCELLED" \/ (s = "EXECUTED" /\ o \notin Past) \/ (s = "EXPIRED" /\ o \in Past)
  BY <1>1 DEF Past
<1>6. Past' = Past /\ Flying' = Flying /\ Working' = Working
  BY <1>2 DEF Past, Flying, Working
<1>7. Abstract!FinishElsewhere(o)
  BY <1>2, <1>4, <1>5, <1>6 DEF Abstract!FinishElsewhere, Flying, Working
<1> QED BY <1>7 DEF Abstract!OutsideStep

LEMMA TimeMaps == ASSUME JInv, TimePasses PROVE ExpiriesPass
<1>1. now \in Nat /\ now' = now + 1
  BY LimiterAssumption DEF TimePasses, Tick, JInv, IInv, TypeOK, LimiterTypeOK
<1>2. \A o \in Orders : now > Expiry[o] => now' > Expiry[o]
  BY <1>1, ServiceAssumption
<1> QED BY <1>2 DEF TimePasses, ExpiriesPass, Past, workVars, worldVars

\* The steps of the process, the pages and the world that no job sees.
LEMMA KeepMaps ==
  ASSUME UNCHANGED <<now, chain, mempool, run, notices, callbacks>> PROVE UNCHANGED JobView
BY DEF JobView, Past

LEMMA NextMaps == JInv /\ [Next]_vars => [JobsStep]_JobView
<1> SUFFICES ASSUME JInv, [Next]_vars PROVE JobsStep \/ UNCHANGED JobView
  OBVIOUS
<1>1. CASE UNCHANGED <<now, chain, mempool, run, notices, callbacks>>
  BY <1>1, KeepMaps
<1>2. CASE Process
  BY <1>1, <1>2, CrashMaps DEF Process, Start, Listen, LoseKeyFile, limiterVars, workVars,
                               worldVars, JobsStep
<1>3. CASE Pages
  BY <1>1, <1>3 DEF Pages, PostShares, ListKeepers, RefuseToList, Served, Refused, DeleteShares,
                    limiterVars, workVars, worldVars
<1>4. CASE Triggers
  BY <1>1, <1>4, AcceptMaps DEF Triggers, AskOracle, RefuseOrder, ExecuteRound, ExecuteOrder,
                                limiterVars, worldVars, JobsStep
<1>5. CASE JobSteps
  BY <1>5, ReadMaps, ProveMaps, SubmitMaps, SucceedMaps, SeeRevertMaps, RpcFailsMaps
     DEF JobSteps, JobsStep
<1>6. CASE Outside
  BY <1>1, <1>6, MineMaps, FinishElsewhereMaps, TimeMaps
     DEF Outside, TheWorldMoves, SweepBuckets, Sweep, limiterVars, workVars, worldVars, JobsStep
<1>7. CASE UNCHANGED vars
  BY <1>1, <1>7 DEF vars, limiterVars, workVars, worldVars
<1> QED BY <1>2, <1>3, <1>4, <1>5, <1>6, <1>7 DEF Next

LEMMA InitMaps == Init => Abstract!JobInit
<1> SUFFICES ASSUME Init PROVE Abstract!JobInit
  OBVIOUS
<1>1. JobOf(NoRun) = Abstract!NoJob
  BY DEF JobOf, NoRun, Abstract!NoJob
<1>2. Working = [j \in Jobs |-> Abstract!NoJob]
  BY <1>1 DEF Init, Working
<1>3. Past = {}
  BY ServiceAssumption DEF Init, LimiterInit, Past
<1>4. Done = {} /\ Flying = {}
  BY DEF Init, Done, Flying
<1> QED BY <1>2, <1>3, <1>4 DEF Init, Abstract!JobInit, Working, Flying

\* The keeper's jobs are those of KeeperJobs, which the monitor is checked
\* against: nothing is sent for an order that is finished or expired, success
\* is only believed of an executed one, and an error retries within the
\* budget or ends the job, at every interleaving with crashes, other jobs and
\* the chain.
THEOREM JobsAreAbstractJobs == Spec => ImplementsJobs
<1>1. Init => Abstract!JobInit
  BY InitMaps
<1>2. JInv /\ [Next]_vars => [JobsStep]_JobView
  BY NextMaps
<1> QED BY <1>1, <1>2, JobInvariant, PTL DEF Spec, ImplementsJobs
=============================================================================
