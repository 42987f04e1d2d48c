--------------------------- MODULE StrategyMonitor ---------------------------
(***************************************************************************)
(* The backend's view of an order: its row in pending_strategies, the      *)
(* goroutine that watches its fill condition, the goroutine that triggers  *)
(* the keeper, the sweeper of stuck rows, the chain indexer and the HTTP   *)
(* handlers.  Each database statement and each critical section of the     *)
(* mutex is one step; between two steps any other goroutine may run.       *)
(* The database answers every statement issued under a live context.       *)
(***************************************************************************)
EXTENDS KeeperJobs

CONSTANTS
  Threads,     \* identities for monitor and trigger goroutines (a bound)
  NoThread,
  MaxCrashes   \* bound on the backend's crashes

ASSUME MonitorAssumption == NoThread \notin Threads /\ MaxCrashes \in Nat

VARIABLES
  row,        \* row[o]: the status column; "NONE" before the row is saved
  stopChans,  \* stopChans[o]: the goroutine registered as watching o
  thread,     \* thread[g]: what a goroutine is doing
  sweep,      \* the sweeper: its next statement and the rows it selected
  indexer,    \* the indexer: its next statement and the order of the event
  saving,     \* orders whose POST has saved the row, not yet started watching
  marking,    \* orders whose `done' callback has written the row
  up,         \* the backend process runs
  crashes

monitorVars == <<row, stopChans, thread, sweep, indexer, saving, marking, up, crashes>>
vars == <<monitorVars, jobVars>>

ThreadPcs == {"off",
              "wait",     \* monitorLoop: in its select
              "expire",   \* evaluateAndMaybeTrigger saw the expiry pass
              "expired",  \* ... and wrote DONE
              "met",      \* it saw the fill condition met
              "marked",   \* ... and wrote EXECUTING
              "post",     \* triggerKeeper: the request is out
              "reject",   \* it was refused
              "resume"}   \* the row is back to PENDING
NoWork == [pc |-> "off", order |-> NoOrder, cancelled |-> FALSE]
Work(pc, o) == [pc |-> pc, order |-> o, cancelled |-> FALSE]
Idle == [pc |-> "idle", order |-> NoOrder]
NoSweep == [pc |-> "idle", orders |-> {}]

TypeOK ==
  /\ JobTypeOK
  /\ row \in [Orders -> {"NONE", "PENDING", "EXECUTING", "DONE"}]
  /\ stopChans \in [Orders -> Threads \cup {NoThread}]
  /\ thread \in [Threads -> [pc : ThreadPcs, order : Orders \cup {NoOrder}, cancelled : BOOLEAN]]
  /\ sweep \in [pc : {"idle", "found", "start"}, orders : SUBSET Orders]
  /\ indexer \in [pc : {"idle", "stopped", "written"}, order : Orders \cup {NoOrder}]
  /\ saving \subseteq Orders /\ marking \subseteq Orders
  /\ up \in BOOLEAN /\ crashes \in 0..MaxCrashes

Init ==
  /\ JobInit
  /\ row = [o \in Orders |-> "NONE"]
  /\ stopChans = [o \in Orders |-> NoThread]
  /\ thread = [g \in Threads |-> NoWork]
  /\ sweep = NoSweep /\ indexer = Idle
  /\ saving = {} /\ marking = {}
  /\ up = TRUE /\ crashes = 0

-----------------------------------------------------------------------------
(* Critical sections.  "th" is what the goroutines are after the rest of   *)
(* the step.                                                               *)

\* Variant with a fault: the entry goes, the goroutine stays.
StopUncancelled(o, th) ==
  stopChans' = [stopChans EXCEPT ![o] = NoThread] /\ thread' = th

\* StopMonitoring: cancel the registered goroutine, whichever it is.
StopMonitoring(o, th) ==
  /\ stopChans' = [stopChans EXCEPT ![o] = NoThread]
  /\ thread' = IF stopChans[o] = NoThread THEN th
               ELSE [th EXCEPT ![stopChans[o]].cancelled = TRUE]

\* startMonitoring: nothing if somebody is watching, else a new goroutine.
StartMonitoring(o, th) ==
  \/ stopChans[o] # NoThread /\ thread' = th /\ UNCHANGED stopChans
  \/ /\ stopChans[o] = NoThread
     /\ \E g \in Threads :
          /\ th[g].pc = "off"
          /\ thread' = [th EXCEPT ![g] = Work("wait", o)]
          /\ stopChans' = [stopChans EXCEPT ![o] = g]

\* UPDATE pending_strategies SET status WHERE commitment_hash: no matter what
\* the status was.
WriteRow(o, newStatus) ==
  row' = [row EXCEPT ![o] = IF @ = "NONE" THEN @ ELSE newStatus]

Go(g, pc) == [thread EXCEPT ![g].pc = pc]

-----------------------------------------------------------------------------
(* A monitor goroutine.  Its statements run under its own context: once    *)
(* cancelled they fail and leave the row as it is.                         *)

\* On start and on each tick.  A cancelled goroutine may take more ticks, since
\* its select chooses at random between two ready channels; for the condition
\* that changes nothing, because its next statement fails.
SeeExpiry(g) ==
  /\ thread[g].pc = "wait" /\ thread[g].order \in past
  /\ thread' = Go(g, "expire")
  /\ UNCHANGED <<row, stopChans, sweep, indexer, saving, marking, up, crashes, jobVars>>

\* Variant with a fault: the expiry is not looked at.
SeeConditionEver(g) ==
  /\ thread[g].pc = "wait" /\ ~thread[g].cancelled
  /\ thread' = Go(g, "met")
  /\ UNCHANGED <<row, stopChans, sweep, indexer, saving, marking, up, crashes, jobVars>>

SeeCondition(g) ==
  /\ thread[g].pc = "wait" /\ thread[g].order \notin past /\ ~thread[g].cancelled
  /\ thread' = Go(g, "met")
  /\ UNCHANGED <<row, stopChans, sweep, indexer, saving, marking, up, crashes, jobVars>>

Exit(g) ==
  /\ thread[g].pc = "wait" /\ thread[g].cancelled
  /\ thread' = [thread EXCEPT ![g] = NoWork]
  /\ UNCHANGED <<row, stopChans, sweep, indexer, saving, marking, up, crashes, jobVars>>

WriteExpired(g) ==
  /\ thread[g].pc = "expire"
  /\ IF thread[g].cancelled THEN UNCHANGED row ELSE WriteRow(thread[g].order, "DONE")
  /\ thread' = Go(g, "expired")
  /\ UNCHANGED <<stopChans, sweep, indexer, saving, marking, up, crashes, jobVars>>

StopExpired(g) ==
  /\ thread[g].pc = "expired"
  /\ StopMonitoring(thread[g].order, Go(g, "wait"))
  /\ UNCHANGED <<row, sweep, indexer, saving, marking, up, crashes, jobVars>>

WriteExecuting(g) ==
  /\ thread[g].pc = "met"
  /\ IF thread[g].cancelled
     THEN thread' = Go(g, "wait") /\ UNCHANGED row
     ELSE thread' = Go(g, "marked") /\ WriteRow(thread[g].order, "EXECUTING")
  /\ UNCHANGED <<stopChans, sweep, indexer, saving, marking, up, crashes, jobVars>>

\* Variant with a fault: the monitor keeps watching after it fired.
FireAndWatch(g) ==
  /\ thread[g].pc = "marked"
  /\ \E t \in Threads :
       /\ thread[t].pc = "off"
       /\ thread' = [Go(g, "wait") EXCEPT ![t] = Work("post", thread[g].order)]
  /\ UNCHANGED <<row, stopChans, sweep, indexer, saving, marking, up, crashes, jobVars>>

\* Stop watching and start a trigger.
Fire(g) ==
  /\ thread[g].pc = "marked"
  /\ \E t \in Threads :
       /\ thread[t].pc = "off"
       /\ StopMonitoring(thread[g].order,
                         [Go(g, "wait") EXCEPT ![t] = Work("post", thread[g].order)])
  /\ UNCHANGED <<row, sweep, indexer, saving, marking, up, crashes, jobVars>>

-----------------------------------------------------------------------------
(* triggerKeeper.  Whether the keeper took the order and the answer was    *)
(* lost, or took it and said so, makes no difference to the backend.       *)

Accepted(t) ==
  /\ thread[t].pc = "post"
  /\ \E j \in Jobs : Accept(j, thread[t].order)
  /\ thread' = [thread EXCEPT ![t] = NoWork]
  /\ UNCHANGED <<row, stopChans, sweep, indexer, saving, marking, up, crashes,
                 chain, past, mempool, logs, notices, callbacks>>

\* The request never arrived: the row stays EXECUTING.
RequestLost(t) ==
  /\ thread[t].pc = "post"
  /\ thread' = [thread EXCEPT ![t] = NoWork]
  /\ UNCHANGED <<row, stopChans, sweep, indexer, saving, marking, up, crashes, jobVars>>

\* 422, 503, 500: condition, oracle or shares say no.
Rejected(t) ==
  /\ thread[t].pc = "post"
  /\ thread' = Go(t, "reject")
  /\ UNCHANGED <<row, stopChans, sweep, indexer, saving, marking, up, crashes, jobVars>>

RollBack(t) ==
  /\ thread[t].pc = "reject"
  /\ WriteRow(thread[t].order, "PENDING")
  /\ thread' = Go(t, "resume")
  /\ UNCHANGED <<stopChans, sweep, indexer, saving, marking, up, crashes, jobVars>>

Resume(t) ==
  /\ thread[t].pc = "resume"
  /\ StartMonitoring(thread[t].order, [thread EXCEPT ![t] = NoWork])
  /\ UNCHANGED <<row, sweep, indexer, saving, marking, up, crashes, jobVars>>

-----------------------------------------------------------------------------
(* The sweeper. *)

\* Variant with a fault: the age is compared the wrong way round.
StillFresh(o) == \E g \in Threads :
  thread[g].order = o /\ thread[g].pc \in {"marked", "post", "reject", "resume"}

\* The HTTP client gives up after 10 s and the row must have rested for 10
\* min, so no goroutine is still between writing EXECUTING and the answer.
Rested(o) == \A g \in Threads :
  thread[g].order = o => thread[g].pc \notin {"marked", "post", "reject", "resume"}

SweepSelect ==
  LET stuck == {o \in Orders : row[o] = "EXECUTING" /\ Rested(o)}
  IN  /\ up /\ sweep.pc = "idle" /\ stuck # {}
      /\ sweep' = [pc |-> "found", orders |-> stuck]
      /\ UNCHANGED <<row, stopChans, thread, indexer, saving, marking, up, crashes, jobVars>>

SweepReset ==
  /\ sweep.pc = "found"
  /\ row' = [o \in Orders |-> IF o \in sweep.orders THEN "PENDING" ELSE row[o]]
  /\ sweep' = [sweep EXCEPT !.pc = "start"]
  /\ UNCHANGED <<stopChans, thread, indexer, saving, marking, up, crashes, jobVars>>

\* Variant with a fault: the reset rows are not watched again.
SweepStartNone ==
  /\ sweep.pc = "start"
  /\ sweep' = NoSweep
  /\ UNCHANGED <<row, stopChans, thread, indexer, saving, marking, up, crashes, jobVars>>

SweepStart ==
  /\ sweep.pc = "start"
  /\ \E o \in sweep.orders :
       /\ StartMonitoring(o, thread)
       /\ sweep' = IF sweep.orders = {o} THEN NoSweep
                   ELSE [sweep EXCEPT !.orders = @ \ {o}]
  /\ UNCHANGED <<row, indexer, saving, marking, up, crashes, jobVars>>

-----------------------------------------------------------------------------
(* The indexer's terminal events and the HTTP handlers. *)

TakeEvent(o) ==
  /\ up /\ indexer.pc = "idle" /\ o \in logs
  /\ logs' = logs \ {o}
  /\ indexer' = [pc |-> "stopped", order |-> o]
  /\ StopMonitoring(o, thread)
  /\ UNCHANGED <<row, sweep, saving, marking, up, crashes, chain, past, mempool, job, notices, callbacks>>

WriteEvent ==
  /\ indexer.pc = "stopped"
  /\ WriteRow(indexer.order, "DONE")
  /\ indexer' = [indexer EXCEPT !.pc = "written"]
  /\ UNCHANGED <<stopChans, thread, sweep, saving, marking, up, crashes, jobVars>>

EndEvent ==
  /\ indexer.pc = "written"
  /\ StopMonitoring(indexer.order, thread)
  /\ indexer' = Idle
  /\ UNCHANGED <<row, sweep, saving, marking, up, crashes, jobVars>>

\* A subscription that breaks loses the events until it is back.
LoseEvent(o) ==
  /\ o \in logs
  /\ logs' = logs \ {o}
  /\ UNCHANGED <<monitorVars, chain, past, mempool, job, notices, callbacks>>

\* registerStrategy, or one round of RegisterDcaGroup.
Save(o) ==
  /\ up /\ row[o] = "NONE"
  /\ row' = [row EXCEPT ![o] = "PENDING"]
  /\ saving' = saving \cup {o}
  /\ UNCHANGED <<stopChans, thread, sweep, indexer, marking, up, crashes, jobVars>>

StartSaved(o) ==
  /\ o \in saving
  /\ StartMonitoring(o, thread)
  /\ saving' = saving \ {o}
  /\ UNCHANGED <<row, sweep, indexer, marking, up, crashes, jobVars>>

\* MarkStrategyDone: write the row, then stop the monitor.
MarkDone(o) ==
  /\ up /\ o \in notices
  /\ notices' = notices \ {o}
  /\ WriteRow(o, "DONE")
  /\ marking' = marking \cup {o}
  /\ UNCHANGED <<stopChans, thread, sweep, indexer, saving, up, crashes,
                 chain, past, mempool, job, logs, callbacks>>

StopMarked(o) ==
  /\ o \in marking
  /\ StopMonitoring(o, thread)
  /\ marking' = marking \ {o}
  /\ UNCHANGED <<row, sweep, indexer, saving, up, crashes, jobVars>>

-----------------------------------------------------------------------------
(* A crash takes every goroutine; only the rows survive. *)

Crash ==
  /\ up /\ crashes < MaxCrashes
  /\ up' = FALSE
  /\ crashes' = crashes + 1
  /\ thread' = [g \in Threads |-> NoWork]
  /\ stopChans' = [o \in Orders |-> NoThread]
  /\ sweep' = NoSweep /\ indexer' = Idle
  /\ saving' = {} /\ marking' = {}
  /\ UNCHANGED <<row, jobVars>>

\* RehydrateFromDB, before indexer and HTTP server start.  Rows left EXECUTING
\* go back to PENDING and every PENDING row is watched.
Rehydrate ==
  /\ ~up
  /\ up' = TRUE
  /\ row' = [o \in Orders |-> IF row[o] = "EXECUTING" THEN "PENDING" ELSE row[o]]
  /\ \E w \in [{o \in Orders : row'[o] = "PENDING"} -> Threads] :
       /\ \A o, p \in DOMAIN w : w[o] = w[p] => o = p
       /\ stopChans' = [o \in Orders |-> IF o \in DOMAIN w THEN w[o] ELSE NoThread]
       /\ thread' = [g \in Threads |-> IF \E o \in DOMAIN w : w[o] = g
                       THEN Work("wait", CHOOSE o \in DOMAIN w : w[o] = g) ELSE NoWork]
  /\ UNCHANGED <<sweep, indexer, saving, marking, crashes, jobVars>>

-----------------------------------------------------------------------------
Evaluation(g) == \/ SeeExpiry(g) \/ WriteExpired(g) \/ StopExpired(g)
                 \/ WriteExecuting(g) \/ Fire(g)
Trigger(t) == Accepted(t) \/ RequestLost(t) \/ Rejected(t) \/ RollBack(t) \/ Resume(t)
SweepStep == SweepSelect \/ SweepReset \/ SweepStart
IndexerStep == (\E o \in Orders : TakeEvent(o)) \/ WriteEvent \/ EndEvent
HandlerStep(o) == StartSaved(o) \/ StopMarked(o)

Next ==
  \/ \E g \in Threads : Evaluation(g) \/ SeeCondition(g) \/ Exit(g) \/ Trigger(g)
  \/ SweepStep \/ IndexerStep \/ Crash \/ Rehydrate
  \/ \E o \in Orders : HandlerStep(o) \/ Save(o) \/ MarkDone(o) \/ LoseEvent(o)
  \/ \E j \in Jobs : JobStep(j) /\ UNCHANGED monitorVars
  \/ \E o \in Orders : OutsideStep(o) /\ UNCHANGED monitorVars

Spec == Init /\ [][Next]_vars

(***************************************************************************)
(* Goroutines run, HTTP requests end (the client has a timeout), the       *)
(* sweeper ticks, a crashed backend is restarted (docker-compose: restart  *)
(* unless-stopped) and time passes.  A select that sees its context        *)
(* cancelled again and again takes that branch at last: it chooses at      *)
(* random.  Nothing is assumed of the keeper, of the delivery of events,   *)
(* of fill conditions or of what users do.                                 *)
(***************************************************************************)
FairSpec ==
  /\ Spec
  /\ \A g \in Threads : WF_vars(Evaluation(g)) /\ SF_vars(Exit(g)) /\ WF_vars(Trigger(g))
  /\ WF_vars(SweepStep) /\ WF_vars(WriteEvent \/ EndEvent) /\ WF_vars(Rehydrate)
  /\ \A o \in Orders : /\ WF_vars(HandlerStep(o))
                       /\ WF_vars(PassExpiry(o) /\ UNCHANGED monitorVars)

-----------------------------------------------------------------------------
(* Properties. *)

(***************************************************************************)
(* An order is triggered by one goroutine at a time: from the write of     *)
(* EXECUTING to the keeper's answer and the rollback, nobody else is on    *)
(* the way to the keeper with it ("so concurrent ticks don't re-trigger"). *)
(***************************************************************************)
Triggering(g, o) == /\ thread[g].order = o
                    /\ thread[g].pc \in {"marked", "post", "reject", "resume"}

OneTrigger == \A o \in Orders : \A g, t \in Threads :
                Triggering(g, o) /\ Triggering(t, o) => g = t

(***************************************************************************)
(* The registry of goroutines is exact: a registered goroutine watches its *)
(* order under a live context, and a goroutine with a live context that    *)
(* watches an order is the registered one.                                 *)
(***************************************************************************)
Watches(g, o) == /\ thread[g].order = o
                 /\ thread[g].pc \in {"wait", "expire", "expired", "met", "marked"}
                 /\ ~thread[g].cancelled

OneWatcher == \A o \in Orders, g \in Threads : Watches(g, o) <=> stopChans[o] = g

(***************************************************************************)
(* While the backend is up, an order whose row says PENDING and that has   *)
(* not expired is watched, or a goroutine is about to watch it or to end   *)
(* it.  This holds of a keeper that does not call back; MarkStrategyDone   *)
(* between the sweeper's two statements drops the order.                   *)
(***************************************************************************)
Attended(o) ==
  \/ stopChans[o] # NoThread
  \/ o \in saving \cup marking
  \/ indexer.order = o
  \/ sweep.pc = "start" /\ o \in sweep.orders
  \/ \E t \in Threads : thread[t] = Work("resume", o)

PendingAttended ==
  ~callbacks => \A o \in Orders : up /\ row[o] = "PENDING" /\ Executable(o) => Attended(o)

(***************************************************************************)
(* Whatever crashes, gets lost or never answers, no row stays EXECUTING.   *)
(***************************************************************************)
ExecutingResolves == \A o \in Orders : row[o] = "EXECUTING" ~> row[o] # "EXECUTING"

(***************************************************************************)
(* In the end the keeper is left alone: whatever it answers, and however   *)
(* often rejections restart a monitor that evaluates at once, no order is  *)
(* triggered for ever.  The expiry check is what ends it.                  *)
(***************************************************************************)
StopsTriggering == \A o \in Orders : <>[](~\E g \in Threads : Triggering(g, o))

(***************************************************************************)
(* A strategy marked DONE stays DONE: the monitor was stopped and nothing  *)
(* triggers it again.                                                      *)
(***************************************************************************)
DoneIsFinal == [][\A o \in Orders : row[o] = "DONE" => row'[o] = "DONE"]_vars
=============================================================================
