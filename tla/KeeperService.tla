--------------------------- MODULE KeeperService ---------------------------
(***************************************************************************)
(* The keeper: its HTTP handlers, the table of encrypted shares, the       *)
(* reconstruction of secrets and the jobs that prove and submit, over a    *)
(* key file, two price feeds, the registry and its verifier.  Handlers and *)
(* jobs interleave at every await; shares, requests and the process may    *)
(* come and go between any two steps.                                      *)
(***************************************************************************)
EXTENDS KeeperKeys, RateLimiter, PairPrices, FiniteSets

CONSTANTS
  Batches,     \* sets of orders whose shares travel together
  Kinds,       \* what the kinds of the orders may be
  Limit,       \* per order, its private limit
  Window,      \* per order, its private window
  Expiry,      \* per order
  MaxAge,      \* DCA_FILL_REF_MAX_AGE
  PageN, PageK, \* the pages' own N and K
  Markets,     \* what the pair's two feeds may be
  Verifiers,   \* "real", or "mock": accepts every proof
  Jobs, MaxRetries, Callbacks, NoOrder

Orders == UNION Batches

ASSUME ServiceAssumption ==
  /\ Kinds \subseteq [Orders -> {"ORDER_FILL", "DCA"}]
  /\ PageN \in Nat /\ PageK \in 1..PageN
  /\ MaxRetries \in Nat \ {0} /\ 0 \notin Jobs /\ NoOrder \notin Orders
  /\ \A m \in Markets : {m.in, m.out} \subseteq Feed \cup {NoFeed}
  /\ Expiry \in [Orders -> Nat]

VARIABLES
  sealed,   \* sealed[b]: the shares a page has sent on their way
  rows,     \* rows[o]: the rows of table shares, as far as they matter
  checking, \* orders in POST /api/execute, waiting for the oracle
  run,      \* run[j]: a submitExecution in progress
  kind,     \* kind[o]: what each order is
  market,   \* the two feeds
  verifier, \* the registry's verifier
  paused,   \* the registry is paused
  chain,    \* chain[o]: the commitment's status
  mempool,  \* transactions in flight
  fills,    \* the transactions that executed an order
  notices,  \* orders reported done to the backend
  callbacks

tableVars == <<sealed, rows>>
workVars == <<checking, run, notices>>
worldVars == <<kind, market, verifier, paused, chain, mempool, fills, callbacks>>
vars == <<keyVars, limiterVars, tableVars, workVars, worldVars>>

Nothing == [gen |-> 0, count |-> 0, split |-> 0]
Sealed == [gen : 0..MaxGenerations, count : 0..PageN, split : {0, PageK}]
NoRun == [pc |-> "off", order |-> NoOrder, attempt |-> 0, stamp |-> 0, ref |-> 0,
          right |-> FALSE, sound |-> FALSE, receipt |-> "none"]
\* Why a call of executeCommitment reverts; the definitive ones end a job for
\* good.
Definitive == {"paused", "not pending", "expired", "nullifier spent", "invalid proof"}
Reasons == Definitive \cup {"no verifier", "no price", "stale fillRef", "swap", "no gas", "none"}

\* What a call may meet in state this module does not keep: the nullifiers, the
\* kind's verifier, the vault and the pool, and the owner's gas tank, which has
\* to cover a fill at the gas price of the moment.
Obstacles == {"nullifier spent", "no verifier", "swap", "no gas", "none"}

RunRecord == [pc : {"off", "read", "prove", "send", "wait"}, order : Orders \cup {NoOrder},
              attempt : 0..MaxRetries, stamp : 0..MaxTime, ref : Nat, right : BOOLEAN,
              sound : BOOLEAN, receipt : Reasons]
\* An attempt of a job that accepted order o, when it starts.
Attempt(o, n, stamp, right) ==
  [pc |-> "read", order |-> o, attempt |-> n, stamp |-> stamp, ref |-> 0, right |-> right,
   sound |-> FALSE, receipt |-> "none"]

Transaction == [order : Orders, ref : Nat, sound : BOOLEAN, by : Jobs \cup {0}]
Price == KeeperPrice(market.in, market.out)
Most(a, b) == IF a >= b THEN a ELSE b

TypeOK ==
  /\ KeysTypeOK /\ LimiterTypeOK
  /\ sealed \in [Batches -> Sealed] /\ rows \in [Orders -> Sealed]
  /\ checking \subseteq Orders /\ run \in [Jobs -> RunRecord]
  /\ mempool \subseteq Transaction /\ fills \subseteq Transaction
  /\ kind \in Kinds /\ market \in Markets /\ verifier \in Verifiers
  /\ chain \in [Orders -> {"PENDING", "EXECUTED", "CANCELLED", "EXPIRED"}]
  /\ notices \subseteq Orders /\ callbacks \in Callbacks

Init ==
  /\ KeysInit /\ LimiterInit
  /\ sealed = [b \in Batches |-> Nothing] /\ rows = [o \in Orders |-> Nothing]
  /\ checking = {} /\ run = [j \in Jobs |-> NoRun] /\ notices = {}
  /\ kind \in Kinds /\ market \in Markets /\ verifier \in Verifiers
  /\ paused = FALSE
  /\ chain = [o \in Orders |-> "PENDING"] /\ mempool = {} /\ fills = {}
  /\ callbacks \in Callbacks

-----------------------------------------------------------------------------
(* Start and stop.  Buckets, handlers and jobs are only in memory. *)

Start(s) == /\ LoadKeys(s) \/ DrawKeys(s)
            /\ UNCHANGED <<limiterVars, tableVars, workVars, worldVars>>

Listen == WriteKeys /\ UNCHANGED <<limiterVars, tableVars, workVars, worldVars>>

Crash == /\ Stop /\ Forget
         /\ checking' = {} /\ run' = [j \in Jobs |-> NoRun]
         /\ mempool' = {[tx EXCEPT !.by = 0] : tx \in mempool}
         /\ UNCHANGED <<now, tableVars, notices, kind, market, verifier, paused, chain,
                        fills, callbacks>>

LoseKeyFile == /\ DeleteKeyFile
               /\ UNCHANGED <<limiterVars, tableVars, workVars, worldVars>>

-----------------------------------------------------------------------------
(* The pages' requests.  A page splits the secret among the keys it was    *)
(* given, which must be as many as it expects, and hands the shares to the *)
(* backend, which posts them; a payload may be posted more than once.      *)

ListKeepers(b, s) ==
  /\ process = "up" /\ sealed[b] = Nothing
  /\ Served(s)
  /\ sealed' = IF setting.n = PageN
               THEN [sealed EXCEPT ![b] = [gen |-> keys, count |-> PageN, split |-> PageK]]
               ELSE sealed
  /\ UNCHANGED <<keyVars, rows, workVars, worldVars>>

RefuseToList(b, s) == /\ process = "up" /\ sealed[b] = Nothing
                      /\ Refused(s)
                      /\ UNCHANGED <<keyVars, tableVars, workVars, worldVars>>

\* POST /api/shares: one row per commitment and key of this keeper, replacing
\* the row that is there.
PostShares(b) ==
  /\ process = "up" /\ sealed[b] # Nothing
  /\ rows' = [o \in Orders |->
       IF o \in b THEN [sealed[b] EXCEPT !.count = Most(rows[o].count, Least(setting.n, @))]
       ELSE rows[o]]
  /\ UNCHANGED <<keyVars, limiterVars, sealed, workVars, worldVars>>

\* DELETE /api/shares, on a terminal event.
DeleteShares(o) ==
  /\ process = "up" /\ chain[o] # "PENDING"
  /\ rows' = [rows EXCEPT ![o] = Nothing]
  /\ UNCHANGED <<keyVars, limiterVars, sealed, workVars, worldVars>>

-----------------------------------------------------------------------------
(* POST /api/execute. *)

\* Variant with a fault: rows are counted, not the shares they yield.
ReconstructsUndecrypted(o) == rows[o].count >= setting.k

\* The first K shares that decrypt are enough.
Reconstructs(o) ==
  /\ rows[o].count >= setting.k
  /\ rows[o].gen = keys

\* combine returns the owner's secret if it has as many shares as the page
\* asked for, and some other value if it has fewer.
SecretIsRight(o) == rows[o].gen = keys /\ setting.k >= rows[o].split

Condition(o, price) ==
  IF Limit[o].sell THEN price >= Limit[o].price ELSE price <= Limit[o].price

\* 202: the job starts.
Accept(j, o, stamp) ==
  /\ run[j].pc = "off"
  /\ run' = [run EXCEPT ![j] = Attempt(o, 1, stamp, SecretIsRight(o))]

\* A DCA round: the window is checked and the secret reconstructed at once.
ExecuteRound(j, o) ==
  /\ process = "up" /\ kind[o] = "DCA"
  /\ now \in Window[o].lo..Window[o].hi
  /\ Reconstructs(o)
  /\ Accept(j, o, now)
  /\ UNCHANGED <<keyVars, limiterVars, tableVars, checking, notices, worldVars>>

\* An order: the handler asks the oracle,
AskOracle(o) ==
  /\ process = "up" /\ kind[o] = "ORDER_FILL" /\ o \notin checking
  /\ checking' = checking \cup {o}
  /\ UNCHANGED <<keyVars, limiterVars, tableVars, run, notices, worldVars>>

\* and goes on with the price and the rows of then.
ExecuteOrder(j, o) ==
  /\ o \in checking /\ checking' = checking \ {o}
  /\ Price # 0 /\ Condition(o, Price)
  /\ Reconstructs(o)
  /\ Accept(j, o, 0)
  /\ UNCHANGED <<keyVars, limiterVars, tableVars, notices, worldVars>>

\* 422, 503 or 500.
RefuseOrder(o) ==
  /\ o \in checking /\ checking' = checking \ {o}
  /\ UNCHANGED <<keyVars, limiterVars, tableVars, run, notices, worldVars>>

-----------------------------------------------------------------------------
(* The registry. *)

\* Why executeCommitment reverts, in the order of its checks, or "none".
\* A real verifier accepts a sound proof of a statement about the registry's
\* own reference value.
Revert(o, ref, sound, obstacle) ==
  LET price == ContractPrice(market.in, market.out)
      order == kind[o] = "ORDER_FILL"
  IN  IF paused THEN "paused"
      ELSE IF chain[o] # "PENDING" THEN "not pending"
      ELSE IF now > Expiry[o] THEN "expired"
      ELSE IF obstacle \in {"nullifier spent", "no verifier"} THEN obstacle
      ELSE IF order /\ price = 0 THEN "no price"
      ELSE IF ~order /\ now - ref > MaxAge THEN "stale fillRef"
      ELSE IF verifier = "real" /\ ~(sound /\ (order => ref = price)) THEN "invalid proof"
      ELSE obstacle

\* A transaction is mined, and the job that waits for it gets the receipt.
Mine(tx) ==
  /\ tx \in mempool /\ mempool' = mempool \ {tx}
  /\ \E obstacle \in Obstacles :
       LET why == Revert(tx.order, tx.ref, tx.sound, obstacle)
       IN  /\ IF why = "none"
              THEN chain' = [chain EXCEPT ![tx.order] = "EXECUTED"] /\ fills' = fills \cup {tx}
              ELSE UNCHANGED <<chain, fills>>
           /\ run' = [j \in Jobs |-> IF tx.by = j THEN [run[j] EXCEPT !.receipt = why]
                                     ELSE run[j]]
  /\ UNCHANGED <<keyVars, limiterVars, tableVars, checking, notices, kind, market, verifier,
                 paused, callbacks>>

\* The owner cancels or executes himself, or somebody sweeps.
FinishElsewhere(o) ==
  /\ chain[o] = "PENDING"
  /\ \E s \in {"CANCELLED", IF now > Expiry[o] THEN "EXPIRED" ELSE "EXECUTED"} :
       chain' = [chain EXCEPT ![o] = s]
  /\ UNCHANGED <<keyVars, limiterVars, tableVars, workVars, kind, market, verifier, paused,
                 mempool, fills, callbacks>>

\* Feeds publish or are replaced, the guardian pauses and unpauses.
TheWorldMoves ==
  /\ \/ \E m \in Markets : market' = m /\ UNCHANGED paused
     \/ paused' = ~paused /\ UNCHANGED market
  /\ UNCHANGED <<keyVars, limiterVars, tableVars, workVars, kind, verifier, chain, mempool, fills,
                 callbacks>>

TimePasses == Tick /\ UNCHANGED <<keyVars, tableVars, workVars, worldVars>>

SweepBuckets == Sweep /\ UNCHANGED <<keyVars, tableVars, workVars, worldVars>>

-----------------------------------------------------------------------------
(* submitExecution: attempts of reading the reference value, proving and   *)
(* submitting, until one succeeds or an error ends them.                   *)

Silently(j) == /\ run' = [run EXCEPT ![j] = NoRun]
               /\ UNCHANGED notices

GiveUp(j) ==
  /\ run' = [run EXCEPT ![j] = NoRun]
  /\ notices' = IF callbacks THEN notices \cup {run[j].order} ELSE notices

NextAttempt(r) == Attempt(r.order, r.attempt + 1, r.stamp, r.right)

\* Variant with a fault: one attempt too many.
TryAgainOnceMore(j) ==
  IF run[j].attempt <= MaxRetries
  THEN run' = [run EXCEPT ![j] = NextAttempt(@)] /\ UNCHANGED notices
  ELSE GiveUp(j)

TryAgain(j) ==
  IF run[j].attempt < MaxRetries
  THEN run' = [run EXCEPT ![j] = NextAttempt(@)] /\ UNCHANGED notices
  ELSE GiveUp(j)

\* The catch clause: what becomes of the job after an error.
Fail(j, why) ==
  CASE why = "no gas" -> Silently(j)
    [] why \in Definitive -> GiveUp(j)
    [] OTHER -> TryAgain(j)

\* A transaction nobody waits for any more stays in flight.
Abandon(j) == mempool' = {IF tx.by = j THEN [tx EXCEPT !.by = 0] ELSE tx : tx \in mempool}

\* The reference value: the time the handler accepted, or the price of now.
ReadReference(j) ==
  /\ run[j].pc = "read"
  /\ IF kind[run[j].order] = "ORDER_FILL" /\ Price = 0 THEN Fail(j, "oracle")
     ELSE /\ run' = [run EXCEPT ![j].pc = "prove", ![j].ref =
                       IF kind[run[j].order] = "DCA" THEN run[j].stamp ELSE Price]
          /\ UNCHANGED notices
  /\ UNCHANGED <<keyVars, limiterVars, tableVars, checking, worldVars>>

\* What the circuit asks of the witness.
Satisfied(r) ==
  /\ r.right
  /\ IF kind[r.order] = "DCA"
     THEN r.ref \in Window[r.order].lo..Window[r.order].hi /\ r.ref < Expiry[r.order]
     ELSE Condition(r.order, r.ref)

\* Variant with a fault: the proof is not verified before it is sent.
PassesUnverified(r, sound) == Satisfied(r)

\* noir.execute finds a witness, and bb verifies the proof it made.
Passes(r, sound) == Satisfied(r) /\ sound

\* bb may make a proof that does not verify.
Prove(j) ==
  /\ run[j].pc = "prove"
  /\ \E sound \in BOOLEAN :
       IF Passes(run[j], sound)
       THEN /\ run' = [run EXCEPT ![j].pc = "send", ![j].sound = sound /\ Satisfied(run[j])]
            /\ UNCHANGED notices
       ELSE Fail(j, "proof")
  /\ UNCHANGED <<keyVars, limiterVars, tableVars, checking, worldVars>>

\* Variant with a fault: a fixed gas limit instead of an estimate.
EstimateNothing(r, obstacle) == "none"

\* estimateGas runs the call.
Estimate(r, obstacle) == Revert(r.order, r.ref, r.sound, obstacle)

Submit(j) ==
  /\ run[j].pc = "send"
  /\ \E obstacle \in Obstacles :
       LET why == Estimate(run[j], obstacle)
       IN  IF why = "none"
           THEN /\ run' = [run EXCEPT ![j].pc = "wait"]
                /\ mempool' = mempool \cup {[order |-> run[j].order, ref |-> run[j].ref,
                                             sound |-> run[j].sound, by |-> j]}
                /\ UNCHANGED notices
           ELSE Fail(j, why) /\ UNCHANGED mempool
  /\ UNCHANGED <<keyVars, limiterVars, tableVars, checking, kind, market, verifier, paused,
                     chain, fills, callbacks>>

Waits(j) == run[j].pc = "wait" /\ \A tx \in mempool : tx.by # j

Succeed(j) == /\ Waits(j) /\ run[j].receipt = "none"
              /\ Silently(j)
              /\ UNCHANGED <<keyVars, limiterVars, tableVars, checking, worldVars>>

\* The replay reproduces the revert, or it does not.
SeeRevert(j) == /\ Waits(j) /\ run[j].receipt # "none"
                /\ Fail(j, run[j].receipt) \/ Fail(j, "not reproduced")
                /\ UNCHANGED <<keyVars, limiterVars, tableVars, checking, worldVars>>

\* The RPC node fails during any await.
RpcFails(j) == /\ run[j].pc # "off"
               /\ Fail(j, "rpc") /\ Abandon(j)
               /\ UNCHANGED <<keyVars, limiterVars, tableVars, checking, kind, market, verifier,
                              paused, chain, fills, callbacks>>

-----------------------------------------------------------------------------
Process == \/ \E s \in Settings : Start(s)
           \/ Listen \/ Crash \/ LoseKeyFile
Pages == \/ \E b \in Batches : \/ PostShares(b)
                                \/ \E s \in Sources : ListKeepers(b, s) \/ RefuseToList(b, s)
         \/ \E o \in Orders : DeleteShares(o)
Triggers == \E o \in Orders : \/ AskOracle(o) \/ RefuseOrder(o)
                              \/ \E j \in Jobs : ExecuteRound(j, o) \/ ExecuteOrder(j, o)
JobSteps == \E j \in Jobs : \/ ReadReference(j) \/ Prove(j) \/ Submit(j) \/ Succeed(j)
                            \/ SeeRevert(j) \/ RpcFails(j)
Outside == \/ \E tx \in mempool : Mine(tx)
           \/ \E o \in Orders : FinishElsewhere(o)
           \/ TheWorldMoves \/ TimePasses \/ SweepBuckets

Next == Process \/ Pages \/ Triggers \/ JobSteps \/ Outside

Spec == Init /\ [][Next]_vars

-----------------------------------------------------------------------------
(* Properties. *)

(***************************************************************************)
(* The copies of the pair price agree: the keeper proves for the price the *)
(* registry will verify, or fails where the registry reverts; the monitor  *)
(* triggers on that price whenever there is one; and the page quotes it to *)
(* the seller of the base token (a buyer is quoted its inverse).           *)
(***************************************************************************)
PricesAgree ==
  LET price == ContractPrice(market.in, market.out)
  IN  /\ KeeperPrice(market.in, market.out) = price
      /\ price # 0 => /\ MonitorPrice(market.in, market.out) = price
                      /\ market.out.decimals = OracleDecimals =>
                           PagePrice(market.in, market.out) = price

(***************************************************************************)
(* However keys, settings and rows changed since the shares were sealed, a *)
(* trigger the keeper accepts works with the owner's own secret, unless    *)
(* the keeper's K is below the K of the pages.                             *)
(***************************************************************************)
AcceptedHasSecret ==
  \A j \in Jobs : run[j].pc # "off" /\ setting.k >= PageK => run[j].right

(***************************************************************************)
(* Whatever the verifier on chain accepts, the orders the keeper fills it  *)
(* fills with a sound proof of their condition ("this is the ONLY check    *)
(* that the proof actually proves the statement").                         *)
(***************************************************************************)
FillsProved == \A tx \in fills : tx.sound

Openable(b) == keyFile \in KeyFiles /\ keyFile.gen = sealed[b].gen

(***************************************************************************)
(* Shares sealed to published keys stay within reach of the keeper through *)
(* crashes, restarts and changes of its settings, until the operator       *)
(* deletes the key file: keys are published only when they are on disk,    *)
(* and a file that does not fit the settings is never replaced.            *)
(***************************************************************************)
KeysOutliveProcess ==
  [][\A b \in Batches : sealed'[b] # Nothing /\ ~Openable(b)' =>
       \/ sealed[b] # Nothing /\ ~Openable(b)
       \/ keys = 0 /\ keyFile' = NoFile]_vars

(***************************************************************************)
(* The jobs that KeeperJobs abstracts for the monitor, where proving is a  *)
(* step that may fail: the keeper's real ones are jobs of that kind.       *)
(***************************************************************************)
Past == {o \in Orders : now > Expiry[o]}
Done == {o \in Orders : chain[o] # "PENDING"}
JobOf(r) == [pc |-> CASE r.pc = "off" -> "off" [] r.pc = "wait" -> "sent" [] OTHER -> "attempt",
             order |-> r.order, attempt |-> r.attempt]

Abstract == INSTANCE KeeperJobs WITH
  past <- Past, logs <- Done, mempool <- {tx.order : tx \in mempool},
  job <- [j \in Jobs |-> JobOf(run[j])]

JobView == <<chain, Past, {tx.order : tx \in mempool}, [j \in Jobs |-> JobOf(run[j])],
             notices, callbacks>>

\* Time may pass several expiries, and a crash ends all jobs, at once.
ExpiriesPass == /\ Past \subseteq Past'
                /\ UNCHANGED <<chain, run, mempool, notices, callbacks>>

AllEndSilently == /\ run' = [j \in Jobs |-> NoRun]
                  /\ {tx.order : tx \in mempool}' = {tx.order : tx \in mempool}
                  /\ UNCHANGED <<chain, now, notices, callbacks>>

Accepts == /\ \E j \in Jobs, o \in Orders : Abstract!Accept(j, o)
           /\ UNCHANGED <<chain, now, mempool, notices, callbacks>>

JobsStep == \/ ExpiriesPass \/ AllEndSilently \/ Accepts
            \/ \E j \in Jobs : Abstract!JobStep(j)
            \/ \E o \in Orders : Abstract!OutsideStep(o)

ImplementsJobs == Abstract!JobInit /\ [][JobsStep]_JobView
=============================================================================
