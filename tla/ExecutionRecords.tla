-------------------------- MODULE ExecutionRecords --------------------------
(***************************************************************************)
(* How the backend learns what became of an order and tells the browser.   *)
(* The indexer reads the registry's log and keeps one execution record per *)
(* order; a POST of a market order stores the shares, saves the strategy   *)
(* and waits for the record to say EXECUTED; a POST of a limit order saves *)
(* and returns.  The two run side by side: one database statement or one   *)
(* critical section of the mutex is one step.  The monitor, which both of  *)
(* them call, is in module StrategyMonitor.                                *)
(***************************************************************************)
EXTENDS ShareStore, Integers, Sequences

CONSTANTS
  Market,      \* the orders posted as MARKET, to execute-sync
  MaxRestarts  \* bound on the backend's restarts

ASSUME RecordAssumption == Orders # {} /\ Market \subseteq Orders /\ MaxRestarts \in Nat

VARIABLES
  chain,    \* chain[o]: the commitment's status; "NONE" before registration
  log,      \* the registry's events, in order
  next,     \* the index in log of the event the indexer reads next
  record,   \* record[o]: the row of execution_records; NoRecord before Save
  strategies, \* the orders saved in pending_strategies
  indexer,  \* the indexer: its next statement, the order, what it has read
  post,     \* post[o]: where the POST of an order stands
  waiters,  \* the orders with a channel in executedWaiters
  channel,  \* the orders whose channel holds a record
  restarts

recordVars == <<chain, log, next, record, strategies, indexer, post, waiters, channel, restarts>>
vars == <<recordVars, shareVars>>

Terminal == {"EXECUTED", "CANCELLED", "EXPIRED"}
StrategyKind == {"LIMIT", "MARKET"}
NoRecord == [status |-> "NONE", kind |-> "LIMIT"]
Idle == [pc |-> "idle", type |-> "REGISTERED", order |-> CHOOSE o \in Orders : TRUE, kind |-> "LIMIT"]

\* Where a POST stands.  The last four are its answers.
PostPcs == {"none", "save", "kind", "upgrade", "check", "attach", "recheck", "select",
            "accepted", "executed", "timeout", "error"}

TypeOK ==
  /\ ShareTypeOK
  /\ chain \in [Orders -> {"NONE", "PENDING"} \cup Terminal]
  /\ log \in Seq([type : {"REGISTERED"} \cup Terminal, order : Orders])
  /\ next \in 1..(Len(log) + 1)
  /\ record \in [Orders -> [status : {"NONE", "REGISTERED"} \cup Terminal, kind : StrategyKind]]
  /\ strategies \subseteq Orders /\ waiters \subseteq Orders /\ channel \subseteq Orders
  /\ indexer \in [pc : {"idle", "lookup", "save", "update", "find", "notify"},
                  type : {"REGISTERED"} \cup Terminal, order : Orders, kind : StrategyKind]
  /\ post \in [Orders -> PostPcs]
  /\ restarts \in 0..MaxRestarts

Init ==
  /\ ShareInit
  /\ chain = [o \in Orders |-> "NONE"] /\ log = <<>> /\ next = 1
  /\ record = [o \in Orders |-> NoRecord] /\ strategies = {}
  /\ indexer = Idle
  /\ post = [o \in Orders |-> "none"] /\ waiters = {} /\ channel = {}
  /\ restarts = 0

KindOf(o) == IF o \in Market THEN "MARKET" ELSE "LIMIT"

-----------------------------------------------------------------------------
(* The chain. *)

Register(o) ==
  /\ chain[o] = "NONE"
  /\ chain' = [chain EXCEPT ![o] = "PENDING"]
  /\ log' = Append(log, [type |-> "REGISTERED", order |-> o])
  /\ UNCHANGED <<next, record, strategies, indexer, post, waiters, channel, restarts, shareVars>>

\* The keeper or the owner executes, the owner cancels, somebody sweeps.
Finish(o) ==
  /\ chain[o] = "PENDING"
  /\ \E status \in Terminal :
       /\ chain' = [chain EXCEPT ![o] = status]
       /\ log' = Append(log, [type |-> status, order |-> o])
  /\ UNCHANGED <<next, record, strategies, indexer, post, waiters, channel, restarts, shareVars>>

-----------------------------------------------------------------------------
(* The indexer: one event at a time. *)

Event == log[next]
Reading(type) == indexer.pc = "idle" /\ next <= Len(log) /\ Event.type = type

UpdateKindOf(o, kind) ==
  record' = [record EXCEPT ![o].kind = IF record[o] = NoRecord THEN @ ELSE kind]
UpdateStatusOf(o, status) ==
  record' = [record EXCEPT ![o].status = IF record[o] = NoRecord THEN @ ELSE status]

\* HandleRegistered: the record exists already, or look the kind up.
TakeRegistered ==
  /\ Reading("REGISTERED")
  /\ next' = next + 1
  /\ indexer' = IF record[Event.order] # NoRecord THEN indexer
                ELSE [Idle EXCEPT !.pc = "lookup", !.order = Event.order]
  /\ UNCHANGED <<chain, log, record, strategies, post, waiters, channel, restarts, shareVars>>

LookUpKind ==
  /\ indexer.pc = "lookup"
  /\ indexer' = [indexer EXCEPT !.pc = "save",
       !.kind = IF indexer.order \in strategies THEN KindOf(indexer.order) ELSE "LIMIT"]
  /\ UNCHANGED <<chain, log, next, record, strategies, post, waiters, channel, restarts, shareVars>>

SaveRecord ==
  /\ indexer.pc = "save"
  /\ record' = [record EXCEPT ![indexer.order] = [status |-> "REGISTERED", kind |-> indexer.kind]]
  /\ indexer' = Idle
  /\ UNCHANGED <<chain, log, next, strategies, post, waiters, channel, restarts, shareVars>>

\* HandleExecuted, HandleCancelled, HandleExpired: the kind for the labels,
\* the prune in the background.
TakeTerminal ==
  \E status \in Terminal :
    /\ Reading(status)
    /\ LET o == Event.order
       IN  /\ indexer' = [pc |-> "update", type |-> status, order |-> o,
                          kind |-> IF record[o] # NoRecord THEN record[o].kind
                                   ELSE IF o \in strategies THEN KindOf(o) ELSE "LIMIT"]
           /\ PruneInBackground(o)
    /\ next' = next + 1
    /\ UNCHANGED <<chain, log, record, strategies, post, waiters, channel, restarts>>

\* Variant with a fault: every terminal event goes on to wake the waiters.
UpdateAndNotify ==
  /\ indexer.pc = "update"
  /\ UpdateStatusOf(indexer.order, indexer.type)
  /\ indexer' = [indexer EXCEPT !.pc = "find"]
  /\ UNCHANGED <<chain, log, next, strategies, post, waiters, channel, restarts, shareVars>>

UpdateRecord ==
  /\ indexer.pc = "update"
  /\ UpdateStatusOf(indexer.order, indexer.type)
  /\ indexer' = IF indexer.type = "EXECUTED" THEN [indexer EXCEPT !.pc = "find"] ELSE Idle
  /\ UNCHANGED <<chain, log, next, strategies, post, waiters, channel, restarts, shareVars>>

\* The registration was never indexed: save a record now.
FindRecord ==
  /\ indexer.pc = "find"
  /\ record' = [record EXCEPT ![indexer.order] =
       IF @ = NoRecord THEN [status |-> "EXECUTED", kind |-> indexer.kind] ELSE @]
  /\ indexer' = [indexer EXCEPT !.pc = "notify"]
  /\ UNCHANGED <<chain, log, next, strategies, post, waiters, channel, restarts, shareVars>>

NotifyExecuted ==
  /\ indexer.pc = "notify"
  /\ channel' = channel \cup (waiters \cap {indexer.order})
  /\ waiters' = waiters \ {indexer.order}
  /\ indexer' = Idle
  /\ UNCHANGED <<chain, log, next, record, strategies, post, restarts, shareVars>>

\* A subscription that breaks misses the events until it is back.
MissEvents ==
  /\ indexer.pc = "idle" /\ next <= Len(log)
  /\ next' = Len(log) + 1
  /\ UNCHANGED <<chain, log, record, strategies, indexer, post, waiters, channel, restarts, shareVars>>

-----------------------------------------------------------------------------
(* registerStrategy.  The browser posts once, after its transaction. *)

Move(o, pc) == post' = [post EXCEPT ![o] = pc]

\* Variant with a fault: the answer of the keeper is not looked at.
PostMarketUnchecked(o) ==
  /\ o \in Market /\ post[o] = "none" /\ chain[o] # "NONE"
  /\ \E ok \in BOOLEAN : ForwardAndWait(o, ok)
  /\ Move(o, "save")
  /\ UNCHANGED <<chain, log, next, record, strategies, indexer, waiters, channel, restarts>>

\* execute-sync: the shares first, and 502 when the keeper does not take them.
PostMarket(o) ==
  /\ o \in Market /\ post[o] = "none" /\ chain[o] # "NONE"
  /\ \E ok \in BOOLEAN : /\ ForwardAndWait(o, ok)
                         /\ Move(o, IF ok THEN "save" ELSE "error")
  /\ UNCHANGED <<chain, log, next, record, strategies, indexer, waiters, channel, restarts>>

PostLimit(o) ==
  /\ o \notin Market /\ post[o] = "none" /\ chain[o] # "NONE"
  /\ Move(o, "save")
  /\ UNCHANGED <<chain, log, next, record, strategies, indexer, waiters, channel, restarts, shareVars>>

SaveStrategy(o) ==
  /\ post[o] = "save"
  /\ strategies' = strategies \cup {o}
  /\ IF o \in Market
     THEN Move(o, "kind") /\ UNCHANGED shareVars
     ELSE Move(o, "accepted") /\ ForwardInBackground(o)
  /\ UNCHANGED <<chain, log, next, record, indexer, waiters, channel, restarts>>

\* UpdateExecutionStrategyKind, then StartMonitoring.
FindKind(o) ==
  /\ post[o] = "kind"
  /\ Move(o, IF record[o] = NoRecord \/ record[o].kind = "MARKET" THEN "check" ELSE "upgrade")
  /\ UNCHANGED <<chain, log, next, record, strategies, indexer, waiters, channel, restarts, shareVars>>

UpgradeKind(o) ==
  /\ post[o] = "upgrade"
  /\ UpdateKindOf(o, "MARKET")
  /\ Move(o, "check")
  /\ UNCHANGED <<chain, log, next, strategies, indexer, waiters, channel, restarts, shareVars>>

(* WaitForExecuted. *)
FirstCheck(o) ==
  /\ post[o] = "check"
  /\ Move(o, IF record[o].status = "EXECUTED" THEN "executed" ELSE "attach")
  /\ UNCHANGED <<chain, log, next, record, strategies, indexer, waiters, channel, restarts, shareVars>>

Attach(o) ==
  /\ post[o] = "attach"
  /\ waiters' = waiters \cup {o}
  /\ Move(o, "recheck")
  /\ UNCHANGED <<chain, log, next, record, strategies, indexer, channel, restarts, shareVars>>

\* Variant with a fault: no second look at the record.
SkipSecondCheck(o) ==
  /\ post[o] = "recheck"
  /\ Move(o, "select")
  /\ UNCHANGED <<chain, log, next, record, strategies, indexer, waiters, channel, restarts, shareVars>>

\* "Close the check/register race"
SecondCheck(o) ==
  /\ post[o] = "recheck"
  /\ IF record[o].status = "EXECUTED"
     THEN Move(o, "executed") /\ waiters' = waiters \ {o} /\ channel' = channel \ {o}
     ELSE Move(o, "select") /\ UNCHANGED <<waiters, channel>>
  /\ UNCHANGED <<chain, log, next, record, strategies, indexer, restarts, shareVars>>

Receive(o) ==
  /\ post[o] = "select" /\ o \in channel
  /\ Move(o, "executed")
  /\ channel' = channel \ {o}
  /\ UNCHANGED <<chain, log, next, record, strategies, indexer, waiters, restarts, shareVars>>

\* The timer fires or the client is gone.
GiveUpWaiting(o) ==
  /\ post[o] = "select"
  /\ Move(o, "timeout")
  /\ waiters' = waiters \ {o} /\ channel' = channel \ {o}
  /\ UNCHANGED <<chain, log, next, record, strategies, indexer, restarts, shareVars>>

-----------------------------------------------------------------------------
(* A restart drops every request; the tables stay, and a request to the    *)
(* keeper that was out may still do its work.  The indexer subscribes and  *)
(* sees new events only, or it polls and reads the last 1000 blocks again. *)

DropRequests ==
  /\ restarts < MaxRestarts /\ restarts' = restarts + 1
  /\ indexer' = Idle
  /\ post' = [o \in Orders |-> IF post[o] \in {"none", "accepted", "executed", "timeout"}
                               THEN post[o] ELSE "error"]
  /\ waiters' = {} /\ channel' = {}
  /\ UNCHANGED <<chain, log, record, strategies, shareVars>>

\* Variant with a fault: no look whether there are 1000 blocks to go back.
RestartPollUnderflow == DropRequests /\ next' \in 0..(Len(log) + 1)

Restart == DropRequests /\ next' \in 1..(Len(log) + 1)

-----------------------------------------------------------------------------
IndexerStep == \/ TakeRegistered \/ LookUpKind \/ SaveRecord \/ TakeTerminal
               \/ UpdateRecord \/ FindRecord \/ NotifyExecuted \/ MissEvents

PostStep(o) == \/ PostMarket(o) \/ PostLimit(o) \/ SaveStrategy(o) \/ FindKind(o)
               \/ UpgradeKind(o) \/ FirstCheck(o) \/ Attach(o) \/ SecondCheck(o)
               \/ Receive(o) \/ GiveUpWaiting(o)

Next == \/ IndexerStep \/ Restart
        \/ \E o \in Orders : \/ Register(o) \/ Finish(o) \/ PostStep(o)
                             \/ ShareStep(o) /\ UNCHANGED recordVars

Spec == Init /\ [][Next]_vars

-----------------------------------------------------------------------------
(* Properties. *)

(***************************************************************************)
(* No lost wakeup: a POST that waits in WaitForExecuted for a record that  *)
(* is EXECUTED has it in its channel, or the indexer is on its way to put  *)
(* it there.                                                               *)
(***************************************************************************)
NoLostWakeup ==
  \A o \in Orders : post[o] = "select" /\ record[o].status = "EXECUTED" =>
    \/ o \in channel
    \/ o \in waiters /\ indexer.order = o /\ indexer.pc \in {"find", "notify"}

(***************************************************************************)
(* A browser that is told "executed" was told the truth: the registry      *)
(* executed the order, and the record says so.  After a cancellation, an   *)
(* expiry, a replay of old events or a restart no waiter gets that answer. *)
(***************************************************************************)
SuccessIsReal ==
  \A o \in Orders : post[o] = "executed" \/ o \in channel =>
    chain[o] = "EXECUTED" /\ record[o].status = "EXECUTED"

(***************************************************************************)
(* A market order that may be triggered (saved, and pending on chain) has  *)
(* its shares at the keeper: execute-sync does not rely on a request in    *)
(* the background, and no prune takes the shares of a pending order.       *)
(***************************************************************************)
MarketSharesReady ==
  \A o \in strategies \cap Market : chain[o] = "PENDING" => o \in stored

(***************************************************************************)
(* The record of a saved market order says MARKET once both sides are done *)
(* with the registration, whichever of them came first ("upgrades existing *)
(* MARKET record").                                                        *)
(***************************************************************************)
MarketKindKept ==
  \A o \in strategies \cap Market :
    record[o] # NoRecord /\ post[o] \notin {"kind", "upgrade"}
      => record[o].kind = "MARKET"
=============================================================================
