----------------------- MODULE StrategyMonitorProofs -----------------------
(***************************************************************************)
(* Proofs about the monitor, for every set of orders, goroutines and jobs  *)
(* and any number of crashes.  The invariant says who holds an order:      *)
(* a registered watcher, one trigger, the sweeper, or the handler that     *)
(* saved it; two of them never hold the same one.                          *)
(***************************************************************************)
EXTENDS StrategyMonitor, TLAPS

\* What runs works on an order.
OrdersNamed ==
  /\ \A g \in Threads : thread[g].pc # "off" => thread[g].order \in Orders
  /\ indexer.pc # "idle" => indexer.order \in Orders
  /\ \A j \in Jobs : job[j].pc # "off" => job[j].order \in Orders

\* A trigger goroutine runs under no monitor's context.
TriggersLive ==
  \A t \in Threads : thread[t].pc \in {"post", "reject", "resume"} => ~thread[t].cancelled

\* The sweeper, the indexer and the handlers hold nothing when idle or gone.
HoldersIdle == /\ sweep.pc = "idle" => sweep.orders = {}
               /\ indexer.pc = "idle" => indexer.order = NoOrder
               /\ ~up => sweep.pc = "idle" /\ saving = {}

\* The sweeper or a handler is going to start a watch on the order.
Held(o) == o \in saving \cup sweep.orders

Untriggered(o) == \A t \in Threads : ~Triggering(t, o)

\* An order has at most one holder: whoever watches it, triggers it, or is
\* going to watch it.
HeldOnce(o) ==
  /\ \A t \in Threads : Triggering(t, o) => stopChans[o] \in {t, NoThread}
  /\ Held(o) => stopChans[o] = NoThread /\ Untriggered(o)
  /\ ~(o \in saving /\ o \in sweep.orders)

OneHolder == \A o \in Orders : HeldOnce(o)

\* What the row says of who holds the order.
RowHeld(o) ==
  /\ row[o] = "NONE" => stopChans[o] = NoThread /\ Untriggered(o) /\ ~Held(o)
  /\ row[o] = "EXECUTING" =>
       /\ o \notin saving
       /\ sweep.pc = "start" => o \notin sweep.orders
       /\ stopChans[o] # NoThread => thread[stopChans[o]].pc = "marked"
       /\ \A t \in Threads : Triggering(t, o) => thread[t].pc # "resume"
  /\ row[o] = "PENDING" =>
       \A t \in Threads : Triggering(t, o) => thread[t].pc = "resume"

RowsHeld == \A o \in Orders : RowHeld(o)

\* Events and expiries are the chain's, and a keeper that does not call back
\* leaves nothing to mark.
Truthful ==
  /\ \A o \in logs : chain[o] # "PENDING"
  /\ indexer.pc # "idle" => chain[indexer.order] # "PENDING"
  /\ \A g \in Threads : thread[g].pc \in {"expire", "expired"} => thread[g].order \in past
  /\ ~callbacks => notices = {} /\ marking = {}

\* The inductive invariant.
IInv == /\ TypeOK /\ OrdersNamed /\ TriggersLive /\ HoldersIdle
        /\ OneWatcher /\ OneTrigger /\ OneHolder /\ RowsHeld
        /\ Truthful /\ PendingAttended

Goroutine == [pc : ThreadPcs, order : Orders \cup {NoOrder}, cancelled : BOOLEAN]

-----------------------------------------------------------------------------
(* What the critical sections and the kinds of steps keep. *)

\* StopMonitoring cancels the registered goroutine and changes no other.
LEMMA Stopped ==
  ASSUME stopChans \in [Orders -> Threads \cup {NoThread}], NEW o \in Orders,
         NEW th \in [Threads -> Goroutine], StopMonitoring(o, th)
  PROVE  /\ stopChans' = [stopChans EXCEPT ![o] = NoThread]
         /\ stopChans' \in [Orders -> Threads \cup {NoThread}]
         /\ thread' \in [Threads -> Goroutine]
         /\ \A g \in Threads : /\ thread'[g].pc = th[g].pc /\ thread'[g].order = th[g].order
                               /\ thread'[g].cancelled <=> th[g].cancelled \/ g = stopChans[o]
                               /\ g # stopChans[o] => thread'[g] = th[g]
<1>1. CASE stopChans[o] = NoThread
  BY <1>1, MonitorAssumption DEF StopMonitoring, Goroutine
<1>2. CASE stopChans[o] # NoThread
  <2>1. thread' = [th EXCEPT ![stopChans[o]].cancelled = TRUE]
    BY <1>2 DEF StopMonitoring
  <2>2. stopChans[o] \in Threads
    BY <1>2
  <2>3. \A g \in Threads : th[g] \in Goroutine
    OBVIOUS
  <2>4. thread'[stopChans[o]] = [th[stopChans[o]] EXCEPT !.cancelled = TRUE]
        /\ \A g \in Threads : g # stopChans[o] => thread'[g] = th[g]
    BY <2>1, <2>2
  <2>5. thread' \in [Threads -> Goroutine]
    BY <2>1, <2>2, <2>3 DEF Goroutine
  <2> QED BY <2>1, <2>2, <2>3, <2>5 DEF StopMonitoring, Goroutine
<1> QED BY <1>1, <1>2

\* startMonitoring registers one idle goroutine, or finds one registered.
LEMMA Started ==
  ASSUME stopChans \in [Orders -> Threads \cup {NoThread}], NEW o \in Orders,
         NEW th \in [Threads -> Goroutine], StartMonitoring(o, th)
  PROVE  /\ stopChans' \in [Orders -> Threads \cup {NoThread}] /\ stopChans'[o] # NoThread
         /\ thread' \in [Threads -> Goroutine]
         /\ \A p \in Orders : p # o => stopChans'[p] = stopChans[p]
         /\ stopChans[o] # NoThread => stopChans' = stopChans /\ thread' = th
         /\ stopChans[o] = NoThread =>
              /\ th[stopChans'[o]].pc = "off" /\ thread'[stopChans'[o]] = Work("wait", o)
              /\ \A g \in Threads : g # stopChans'[o] => thread'[g] = th[g]
<1>1. Work("wait", o) \in Goroutine
  BY DEF Work, Goroutine, ThreadPcs
<1>2. CASE stopChans[o] # NoThread
  BY <1>2 DEF StartMonitoring
<1>3. CASE stopChans[o] = NoThread
  <2>1. PICK g \in Threads : /\ th[g].pc = "off"
                             /\ thread' = [th EXCEPT ![g] = Work("wait", o)]
                             /\ stopChans' = [stopChans EXCEPT ![o] = g]
    BY <1>3 DEF StartMonitoring
  <2> QED BY <1>1, <1>3, <2>1, MonitorAssumption
<1> QED BY <1>2, <1>3

\* A watch starts on an order nobody else holds: the rest goes on as it was.
LEMMA WatchStarts ==
  ASSUME IInv, NEW o \in Orders, NEW w \in Threads,
         stopChans[o] = NoThread, stopChans' = [stopChans EXCEPT ![o] = w],
         thread[w].pc \in {"off", "resume"},
         thread'[w].pc = "wait", thread'[w].order = o, ~thread'[w].cancelled,
         \A h \in Threads \ {w} :
           thread'[h] = thread[h] \/ (thread[h].pc = "resume" /\ thread'[h].pc = "off"),
         \A h \in Threads : ~Triggering(h, o)',
         saving' \subseteq saving, sweep'.orders \subseteq sweep.orders, ~Held(o)',
         sweep'.pc = "start" => sweep.pc = "start",
         row' = row, row[o] \notin {"NONE", "EXECUTING"}
  PROVE  TriggersLive' /\ OneWatcher' /\ OneTrigger' /\ OneHolder' /\ RowsHeld'
<1>1. /\ \A p \in Orders : stopChans'[p] = (IF p = o THEN w ELSE stopChans[p])
      /\ \A p \in Orders : stopChans[p] \in Threads \cup {NoThread}
      /\ w # NoThread
  BY MonitorAssumption DEF IInv, TypeOK
<1>2. \A h \in Threads, p \in Orders :
        Triggering(h, p)' => Triggering(h, p) /\ p # o /\ h # w /\ thread'[h] = thread[h]
  BY DEF Triggering
<1>3. \A p \in Orders : Held(p)' => Held(p) /\ p # o
  BY DEF Held
<1>4. \A h \in Threads, p \in Orders : Watches(h, p) => h # w /\ thread'[h] = thread[h]
  BY DEF Watches
<1>5. \A h \in Threads, p \in Orders :
        Watches(h, p)' <=> IF h = w THEN p = o ELSE Watches(h, p)
  BY DEF Watches
<1>6. TriggersLive'
  BY DEF IInv, TriggersLive
<1>7. OneWatcher'
  <2> SUFFICES ASSUME NEW p \in Orders, NEW h \in Threads
               PROVE  Watches(h, p)' <=> stopChans'[p] = h
    BY DEF OneWatcher
  <2>1. Watches(h, p) <=> stopChans[p] = h
    BY DEF IInv, OneWatcher
  <2>2. CASE h = w
    BY <1>1, <1>4, <1>5, <2>1, <2>2
  <2>3. CASE h # w
    BY <1>1, <1>5, <2>1, <2>3, MonitorAssumption
  <2> QED BY <2>2, <2>3
<1>8. OneTrigger'
  BY <1>2 DEF IInv, OneTrigger
<1>9. OneHolder'
  <2> SUFFICES ASSUME NEW p \in Orders
               PROVE  HeldOnce(p)'
    BY DEF OneHolder
  <2>1. HeldOnce(p)
    BY DEF IInv, OneHolder
  <2> QED BY <1>1, <1>2, <1>3, <2>1 DEF HeldOnce, Untriggered
<1>10. RowsHeld'
  <2> SUFFICES ASSUME NEW p \in Orders
               PROVE  RowHeld(p)'
    BY DEF RowsHeld
  <2>1. RowHeld(p)
    BY DEF IInv, RowsHeld
  <2>2. CASE p = o
    BY <2>2 DEF RowHeld, Untriggered
  <2>3. CASE p # o
    <3>1. stopChans'[p] = stopChans[p]
          /\ (stopChans[p] # NoThread => thread'[stopChans[p]] = thread[stopChans[p]])
      BY <1>1, <1>4, <2>3, MonitorAssumption DEF IInv, OneWatcher
    <3> QED BY <1>1, <1>2, <1>3, <2>1, <2>3, <3>1 DEF RowHeld, Untriggered, Held
  <2> QED BY <2>2, <2>3
<1> QED BY <1>6, <1>7, <1>8, <1>9, <1>10

\* The order that is watched is attended, and no other is let go.
LEMMA StartAttends ==
  ASSUME IInv, NEW o \in Orders, NEW w \in Threads,
         stopChans' = [stopChans EXCEPT ![o] = w],
         \A h \in Threads :
           thread[h].pc = "resume" /\ thread[h].order # o => thread'[h] = thread[h],
         saving \subseteq saving' \cup {o}, sweep.orders \subseteq sweep'.orders \cup {o},
         sweep'.pc = sweep.pc \/ sweep.orders = {o},
         UNCHANGED <<row, up, callbacks, chain, past, marking, indexer>>
  PROVE  PendingAttended'
<1> SUFFICES ASSUME NEW p \in Orders, ~callbacks', up', row'[p] = "PENDING", Executable(p)'
             PROVE  Attended(p)'
  BY DEF PendingAttended
<1>1. /\ Attended(p) /\ stopChans' \in [Orders -> Threads \cup {NoThread}]
      /\ stopChans'[o] # NoThread /\ (p # o => stopChans'[p] = stopChans[p])
  BY MonitorAssumption DEF IInv, TypeOK, PendingAttended, Executable
<1>2. CASE p = o
  BY <1>1, <1>2 DEF Attended
<1>3. CASE p # o /\ \E t \in Threads : thread[t] = Work("resume", p)
  <2>1. PICK t \in Threads : thread[t] = Work("resume", p)
    BY <1>3
  <2>2. thread'[t] = thread[t]
    BY <1>3, <2>1 DEF Work
  <2> QED BY <2>1, <2>2 DEF Attended
<1>4. CASE p # o /\ ~\E t \in Threads : thread[t] = Work("resume", p)
  BY <1>1, <1>4 DEF Attended
<1> QED BY <1>2, <1>3, <1>4

\* An order is no longer watched: nobody gets hold of it, nothing else changes.
LEMMA WatchStops ==
  ASSUME IInv, NEW o \in Orders, StopMonitoring(o, thread), UNCHANGED <<row, saving, sweep>>
  PROVE  /\ stopChans' \in [Orders -> Threads \cup {NoThread}]
         /\ thread' \in [Threads -> Goroutine]
         /\ \A g \in Threads : thread'[g].pc = thread[g].pc /\ thread'[g].order = thread[g].order
         /\ TriggersLive' /\ OneWatcher' /\ OneTrigger' /\ OneHolder' /\ RowsHeld'
         /\ \A p \in Orders : p # o => stopChans'[p] = stopChans[p]
         /\ \A t \in Threads : thread[t].pc = "resume" => thread'[t] = thread[t]
<1>1. /\ stopChans' = [stopChans EXCEPT ![o] = NoThread]
      /\ stopChans' \in [Orders -> Threads \cup {NoThread}]
      /\ thread' \in [Threads -> Goroutine]
      /\ \A g \in Threads : /\ thread'[g].pc = thread[g].pc /\ thread'[g].order = thread[g].order
                            /\ thread'[g].cancelled <=> thread[g].cancelled \/ g = stopChans[o]
                            /\ g # stopChans[o] => thread'[g] = thread[g]
  BY Stopped DEF IInv, TypeOK, Goroutine
<1>2. \A p \in Orders : stopChans'[p] = (IF p = o THEN NoThread ELSE stopChans[p])
  BY <1>1 DEF IInv, TypeOK
<1>3. \A t \in Threads : t = stopChans[o] => Watches(t, o)
  BY DEF IInv, OneWatcher
<1>4. \A t \in Threads, p \in Orders : Triggering(t, p)' <=> Triggering(t, p)
  BY <1>1 DEF Triggering
<1>5. TriggersLive' /\ \A t \in Threads : thread[t].pc = "resume" => thread'[t] = thread[t]
  BY <1>1, <1>3 DEF IInv, TriggersLive, Watches
<1>6. OneWatcher'
  <2> SUFFICES ASSUME NEW p \in Orders, NEW h \in Threads
               PROVE  Watches(h, p)' <=> stopChans'[p] = h
    BY DEF OneWatcher
  <2>1. (Watches(h, p) <=> stopChans[p] = h) /\ (Watches(h, o) <=> stopChans[o] = h)
    BY DEF IInv, OneWatcher
  <2>2. Watches(h, p)' <=> Watches(h, p) /\ h # stopChans[o]
    BY <1>1 DEF Watches
  <2>3. Watches(h, p) /\ Watches(h, o) => p = o
    BY DEF Watches
  <2> QED BY <1>2, <2>1, <2>2, <2>3, MonitorAssumption
<1>7. OneTrigger' /\ OneHolder'
  BY <1>2, <1>4 DEF IInv, OneTrigger, OneHolder, HeldOnce, Untriggered, Held
<1>8. RowsHeld'
  <2> SUFFICES ASSUME NEW p \in Orders
               PROVE  RowHeld(p)'
    BY DEF RowsHeld
  <2>1. RowHeld(p) /\ stopChans[p] \in Threads \cup {NoThread}
    BY DEF IInv, RowsHeld, TypeOK
  <2> QED BY <1>1, <1>2, <1>4, <2>1 DEF RowHeld, Untriggered, Held
<1> QED BY <1>1, <1>2, <1>5, <1>6, <1>7, <1>8

\* Who attends to the other orders goes on when one is no longer watched.
LEMMA StopAttends ==
  ASSUME IInv, NEW o \in Orders, StopMonitoring(o, thread),
         UNCHANGED <<row, saving, sweep, up, callbacks, chain, past>>,
         ~callbacks => marking' = marking, indexer' = indexer \/ indexer.order \in {o, NoOrder},
         Executable(o) /\ ~callbacks => indexer'.order = o
  PROVE  PendingAttended'
<1> SUFFICES ASSUME NEW p \in Orders, ~callbacks', up', row'[p] = "PENDING", Executable(p)'
             PROVE  Attended(p)'
  BY DEF PendingAttended
<1>1. Executable(p) /\ Attended(p) /\ p \notin {NoOrder}
  BY JobAssumption DEF IInv, PendingAttended, Executable
<1>2. CASE p = o
  BY <1>1, <1>2 DEF Attended
<1>3. CASE p # o
  <2>1. stopChans'[p] = stopChans[p]
    BY <1>3, WatchStops
  <2>2. \A t \in Threads : thread[t] = Work("resume", p) => thread'[t] = thread[t]
    BY WatchStops DEF Work
  <2> QED BY <1>1, <1>3, <2>1, <2>2 DEF Attended
<1> QED BY <1>2, <1>3

\* What a holder keeps when goroutines, registry, sweeper and handlers rest.
LEMMA HoldersRest ==
  ASSUME IInv, UNCHANGED <<stopChans, thread, saving, sweep>>
  PROVE  TriggersLive' /\ OneWatcher' /\ OneTrigger' /\ OneHolder'
BY DEF IInv, TriggersLive, OneWatcher, Watches, OneTrigger, OneHolder, HeldOnce,
       Triggering, Untriggered, Held

\* A row that is marked DONE says nothing of a holder.
LEMMA RowDone ==
  ASSUME IInv, NEW o \in Orders, WriteRow(o, "DONE"),
         UNCHANGED <<stopChans, thread, saving, sweep>>
  PROVE  RowsHeld' /\ row' \in [Orders -> {"NONE", "PENDING", "EXECUTING", "DONE"}]
         /\ \A p \in Orders : row'[p] = "PENDING" => row[p] = "PENDING"
<1>1. /\ row' \in [Orders -> {"NONE", "PENDING", "EXECUTING", "DONE"}]
      /\ \A p \in Orders : row'[p] = row[p] \/ (row'[p] = "DONE" /\ row[p] # "NONE")
  BY DEF IInv, TypeOK, WriteRow
<1> QED BY <1>1 DEF IInv, RowsHeld, RowHeld, Triggering, Untriggered, Held

\* A goroutine moves on and keeps what it holds, or ends and held no order
\* that its context lets it watch.
Moves(g) ==
  /\ thread' \in [Threads -> Goroutine]
  /\ \A h \in Threads \ {g} : thread'[h] = thread[h]
  /\ \/ /\ thread'[g].order = thread[g].order
        /\ thread'[g].cancelled <=> thread[g].cancelled
        /\ \/ {thread[g].pc, thread'[g].pc} \subseteq {"wait", "expire", "expired", "met"}
           \/ {thread[g].pc, thread'[g].pc} \subseteq {"post", "reject", "resume"}
     \/ /\ thread'[g].pc = "off"
        /\ thread[g].cancelled \/ thread[g].pc = "post"

LEMMA HoldersMove ==
  ASSUME IInv, NEW g \in Threads, Moves(g), UNCHANGED <<stopChans, saving, sweep>>
  PROVE  /\ TriggersLive' /\ OneWatcher' /\ OneTrigger' /\ OneHolder'
         /\ \A h \in Threads, p \in Orders : Triggering(h, p)' => Triggering(h, p)
<1>1. \A h \in Threads, p \in Orders : Triggering(h, p)' => Triggering(h, p)
  BY DEF Moves, Triggering
<1>2. \A h \in Threads, p \in Orders : Watches(h, p)' <=> Watches(h, p)
  BY DEF Moves, Watches
<1>3. TriggersLive'
  BY DEF Moves, IInv, TriggersLive
<1>4. OneWatcher'
  BY <1>2 DEF IInv, OneWatcher
<1>5. OneTrigger' /\ OneHolder'
  BY <1>1 DEF IInv, OneTrigger, OneHolder, HeldOnce, Untriggered, Held
<1> QED BY <1>1, <1>3, <1>4, <1>5

\* Rows stay as they are while a goroutine moves, short of the resumption.
LEMMA RowsMove ==
  ASSUME IInv, NEW g \in Threads, Moves(g), thread[g].pc # "resume", thread'[g].pc # "resume",
         UNCHANGED <<row, stopChans, saving, sweep>>
  PROVE  RowsHeld'
<1> SUFFICES ASSUME NEW p \in Orders
             PROVE  RowHeld(p)'
  BY DEF RowsHeld
<1>1. RowHeld(p) /\ stopChans[p] \in Threads \cup {NoThread}
  BY DEF IInv, RowsHeld, TypeOK
<1>2. \A h \in Threads : Triggering(h, p)' => Triggering(h, p) /\ (h # g => thread'[h] = thread[h])
  BY HoldersMove DEF Moves
<1>3. stopChans[p] # NoThread => thread[stopChans[p]].pc # "marked" \/ stopChans[p] # g
  BY DEF Moves, IInv, OneWatcher, Watches
<1>4. row[p] = "PENDING" => ~Triggering(g, p)'
  BY <1>1, <1>2 DEF Moves, Triggering, RowHeld
<1> QED BY <1>1, <1>2, <1>3, <1>4 DEF Moves, RowHeld, Untriggered, Held

\* No order is let go when a goroutine moves, unless its row stops waiting.
LEMMA MovesAttend ==
  ASSUME IInv, NEW g \in Threads, Moves(g), thread[g].pc # "resume",
         UNCHANGED <<stopChans, saving, sweep, marking, indexer, up, callbacks, chain, past>>,
         \A p \in Orders : row'[p] = "PENDING" =>
           row[p] = "PENDING" \/ thread'[g] = Work("resume", p)
  PROVE  PendingAttended'
<1> SUFFICES ASSUME NEW p \in Orders, ~callbacks', up', row'[p] = "PENDING", Executable(p)'
             PROVE  Attended(p)'
  BY DEF PendingAttended
<1>1. CASE thread'[g] = Work("resume", p)
  BY <1>1 DEF Attended
<1>2. CASE row[p] = "PENDING"
  <2>1. Attended(p)
    BY <1>2 DEF IInv, PendingAttended, Executable
  <2>2. \A t \in Threads : thread[t] = Work("resume", p) => thread'[t] = thread[t]
    BY DEF Moves, Work
  <2> QED BY <2>1, <2>2 DEF Attended
<1> QED BY <1>1, <1>2

\* What happens outside the backend lets no order go.
LEMMA RestAttends ==
  ASSUME IInv, UNCHANGED <<stopChans, thread, saving, sweep, indexer, up, callbacks>>,
         marking \subseteq marking',
         \A p \in Orders : row'[p] = "PENDING" => row[p] = "PENDING",
         \A p \in Orders : Executable(p)' => Executable(p)
  PROVE  PendingAttended'
BY DEF IInv, PendingAttended, Attended

-----------------------------------------------------------------------------
(* The steps, one lemma each. *)

LEMMA SeeExpiryKeeps ==
  ASSUME IInv, NEW g \in Threads, SeeExpiry(g)
  PROVE  IInv'
<1>1. Moves(g) /\ thread'[g].pc = "expire" /\ thread'[g].order = thread[g].order
  BY DEF SeeExpiry, Go, Moves, IInv, TypeOK, Goroutine, ThreadPcs
<1>2. TypeOK' /\ OrdersNamed' /\ HoldersIdle' /\ Truthful'
  BY <1>1 DEF SeeExpiry, Moves, IInv, TypeOK, JobTypeOK, Goroutine, OrdersNamed, HoldersIdle,
              Truthful, jobVars
<1>3. TriggersLive' /\ OneWatcher' /\ OneTrigger' /\ OneHolder' /\ RowsHeld'
  BY <1>1, HoldersMove, RowsMove DEF SeeExpiry
<1>4. PendingAttended'
  BY <1>1, MovesAttend DEF SeeExpiry, jobVars
<1> QED BY <1>2, <1>3, <1>4 DEF IInv

LEMMA SeeConditionKeeps ==
  ASSUME IInv, NEW g \in Threads, SeeCondition(g)
  PROVE  IInv'
<1>1. Moves(g) /\ thread'[g].pc = "met" /\ thread'[g].order = thread[g].order
  BY DEF SeeCondition, Go, Moves, IInv, TypeOK, Goroutine, ThreadPcs
<1>2. TypeOK' /\ OrdersNamed' /\ HoldersIdle' /\ Truthful'
  BY <1>1 DEF SeeCondition, Moves, IInv, TypeOK, JobTypeOK, Goroutine, OrdersNamed,
              HoldersIdle, Truthful, jobVars
<1>3. TriggersLive' /\ OneWatcher' /\ OneTrigger' /\ OneHolder' /\ RowsHeld'
  BY <1>1, HoldersMove, RowsMove DEF SeeCondition
<1>4. PendingAttended'
  BY <1>1, MovesAttend DEF SeeCondition, jobVars
<1> QED BY <1>2, <1>3, <1>4 DEF IInv

LEMMA ExitKeeps ==
  ASSUME IInv, NEW g \in Threads, Exit(g)
  PROVE  IInv'
<1>1. Moves(g) /\ thread'[g].pc = "off"
  BY DEF Exit, NoWork, Moves, IInv, TypeOK, Goroutine, ThreadPcs
<1>2. TypeOK' /\ OrdersNamed' /\ HoldersIdle' /\ Truthful'
  BY <1>1 DEF Exit, Moves, IInv, TypeOK, JobTypeOK, Goroutine, OrdersNamed, HoldersIdle,
              Truthful, jobVars
<1>3. TriggersLive' /\ OneWatcher' /\ OneTrigger' /\ OneHolder' /\ RowsHeld'
  BY <1>1, HoldersMove, RowsMove DEF Exit
<1>4. PendingAttended'
  BY <1>1, MovesAttend DEF Exit, jobVars
<1> QED BY <1>2, <1>3, <1>4 DEF IInv

LEMMA WriteExpiredKeeps ==
  ASSUME IInv, NEW g \in Threads, WriteExpired(g)
  PROVE  IInv'
<1>1. /\ Moves(g) /\ thread[g].pc = "expire" /\ thread'[g].pc = "expired"
      /\ thread'[g].order = thread[g].order
  BY DEF WriteExpired, Go, Moves, IInv, TypeOK, Goroutine, ThreadPcs
<1>2. /\ row' \in [Orders -> {"NONE", "PENDING", "EXECUTING", "DONE"}]
      /\ \A p \in Orders : row'[p] = row[p] \/ (row'[p] = "DONE" /\ row[p] # "NONE")
  BY DEF WriteExpired, WriteRow, IInv, TypeOK
<1>3. TypeOK' /\ OrdersNamed' /\ HoldersIdle' /\ Truthful'
  BY <1>1, <1>2 DEF WriteExpired, Moves, IInv, TypeOK, JobTypeOK, Goroutine, OrdersNamed,
                    HoldersIdle, Truthful, jobVars
<1>4. TriggersLive' /\ OneWatcher' /\ OneTrigger' /\ OneHolder'
  BY <1>1, HoldersMove DEF WriteExpired
<1>5. RowsHeld'
  <2> SUFFICES ASSUME NEW p \in Orders
               PROVE  RowHeld(p)'
    BY DEF RowsHeld
  <2>1. RowHeld(p) /\ stopChans[p] \in Threads \cup {NoThread} /\ stopChans' = stopChans
        /\ (Held(p)' <=> Held(p)) /\ saving' = saving /\ sweep' = sweep
    BY DEF WriteExpired, IInv, RowsHeld, TypeOK, Held
  <2>2. \A h \in Threads : Triggering(h, p)' => Triggering(h, p) /\ h # g
    BY <1>1, HoldersMove DEF WriteExpired, Triggering
  <2> QED BY <1>1, <1>2, <2>1, <2>2 DEF Moves, RowHeld, Untriggered
<1>6. PendingAttended'
  BY <1>1, <1>2, MovesAttend DEF WriteExpired, jobVars
<1> QED BY <1>3, <1>4, <1>5, <1>6 DEF IInv

LEMMA StopExpiredKeeps ==
  ASSUME IInv, NEW g \in Threads, StopExpired(g)
  PROVE  IInv'
<1> DEFINE moved == Go(g, "wait")
<1>1. PICK o \in Orders : /\ o = thread[g].order /\ o \in past /\ thread[g].pc = "expired"
                          /\ StopMonitoring(o, moved)
                          /\ row' = row /\ saving' = saving /\ sweep' = sweep
  BY DEF StopExpired, IInv, OrdersNamed, Truthful
<1>2. /\ moved \in [Threads -> Goroutine]
      /\ \A h \in Threads : /\ moved[h].pc = (IF h = g THEN "wait" ELSE thread[h].pc)
                            /\ moved[h].order = thread[h].order
                            /\ moved[h].cancelled <=> thread[h].cancelled
                            /\ h # g => moved[h] = thread[h]
  BY DEF IInv, TypeOK, Goroutine, ThreadPcs, Go
<1> HIDE DEF moved
<1>3. /\ stopChans' = [stopChans EXCEPT ![o] = NoThread]
      /\ thread' \in [Threads -> Goroutine]
      /\ \A h \in Threads : /\ thread'[h].pc = moved[h].pc /\ thread'[h].order = thread[h].order
                            /\ thread'[h].cancelled <=> thread[h].cancelled \/ h = stopChans[o]
                            /\ h \notin {g, stopChans[o]} => thread'[h] = thread[h]
  BY <1>1, <1>2, Stopped DEF IInv, TypeOK
<1>4. /\ \A p \in Orders : stopChans[p] = g => p = o
      /\ \A p \in Orders : stopChans[p] \in Threads \cup {NoThread}
      /\ \A p \in Orders : stopChans'[p] = (IF p = o THEN NoThread ELSE stopChans[p])
  BY <1>1, <1>3 DEF IInv, TypeOK, OneWatcher, Watches
<1>5. \A h \in Threads, p \in Orders :
        Triggering(h, p)' => Triggering(h, p) /\ thread'[h].pc = thread[h].pc
  BY <1>2, <1>3 DEF Triggering
<1>6. TypeOK'
  BY <1>1, <1>3, <1>4 DEF StopExpired, IInv, TypeOK, JobTypeOK, Goroutine, jobVars
<1>7. OrdersNamed' /\ HoldersIdle' /\ Truthful'
  BY <1>1, <1>2, <1>3 DEF StopExpired, IInv, OrdersNamed, HoldersIdle, Truthful, jobVars
<1>8. TriggersLive'
  BY <1>1, <1>2, <1>3 DEF IInv, TriggersLive, OneWatcher, Watches
<1>9. OneWatcher'
  <2> SUFFICES ASSUME NEW p \in Orders, NEW h \in Threads
               PROVE  Watches(h, p)' <=> stopChans'[p] = h
    BY DEF OneWatcher
  <2>1. (Watches(h, p) <=> stopChans[p] = h) /\ (Watches(h, o) <=> stopChans[o] = h)
    BY DEF IInv, OneWatcher
  <2>2. Watches(h, p)' <=> Watches(h, p) /\ h # stopChans[o]
    BY <1>1, <1>2, <1>3 DEF Watches
  <2>3. Watches(h, p) /\ Watches(h, o) => p = o
    BY DEF Watches
  <2> QED BY <1>4, <2>1, <2>2, <2>3, MonitorAssumption
<1>10. OneTrigger' /\ OneHolder'
  BY <1>1, <1>4, <1>5 DEF IInv, OneTrigger, OneHolder, HeldOnce, Untriggered, Held
<1>11. RowsHeld'
  <2> SUFFICES ASSUME NEW p \in Orders
               PROVE  RowHeld(p)'
    BY DEF RowsHeld
  <2>1. RowHeld(p)
    BY DEF IInv, RowsHeld
  <2> QED BY <1>1, <1>2, <1>3, <1>4, <1>5, <2>1 DEF RowHeld, Untriggered, Held
<1>12. PendingAttended'
  <2> SUFFICES ASSUME NEW p \in Orders, ~callbacks', up', row'[p] = "PENDING", Executable(p)'
               PROVE  Attended(p)'
    BY DEF PendingAttended
  <2>1. Attended(p) /\ p # o
    BY <1>1 DEF StopExpired, IInv, PendingAttended, Executable, jobVars
  <2>2. \A t \in Threads : thread[t] = Work("resume", p) => thread'[t] = thread[t]
    BY <1>1, <1>3, MonitorAssumption DEF Work, IInv, OneWatcher, Watches
  <2> QED BY <1>1, <1>4, <2>1, <2>2 DEF StopExpired, Attended
<1> QED BY <1>6, <1>7, <1>8, <1>9, <1>10, <1>11, <1>12 DEF IInv

LEMMA WriteExecutingKeeps ==
  ASSUME IInv, NEW g \in Threads, WriteExecuting(g)
  PROVE  IInv'
<1>1. /\ thread[g].pc = "met"
      /\ UNCHANGED <<stopChans, sweep, indexer, saving, marking, up, crashes, jobVars>>
  BY DEF WriteExecuting
<1>2. CASE thread[g].cancelled
  <2>1. /\ Moves(g) /\ thread'[g].pc = "wait" /\ thread'[g].order = thread[g].order
        /\ row' = row
    BY <1>1, <1>2 DEF WriteExecuting, Go, Moves, IInv, TypeOK, Goroutine, ThreadPcs
  <2>2. TypeOK' /\ OrdersNamed' /\ HoldersIdle' /\ Truthful'
    BY <1>1, <2>1 DEF Moves, IInv, TypeOK, JobTypeOK, Goroutine, OrdersNamed, HoldersIdle,
                      Truthful, jobVars
  <2>3. TriggersLive' /\ OneWatcher' /\ OneTrigger' /\ OneHolder' /\ RowsHeld'
    BY <1>1, <2>1, HoldersMove, RowsMove
  <2>4. PendingAttended'
    BY <1>1, <2>1, MovesAttend DEF jobVars
  <2> QED BY <2>2, <2>3, <2>4 DEF IInv
<1>3. CASE ~thread[g].cancelled
  <2>1. PICK o \in Orders : o = thread[g].order
    BY <1>1 DEF IInv, OrdersNamed
  <2>2. /\ stopChans[o] = g /\ Untriggered(o) /\ ~Held(o) /\ row[o] # "NONE" /\ g # NoThread
        /\ \A p \in Orders : stopChans[p] = g => p = o
    BY <1>1, <1>3, <2>1, MonitorAssumption DEF IInv, OneWatcher, Watches, OneHolder, HeldOnce,
                  RowsHeld, RowHeld, Triggering, Untriggered
  <2>3. /\ row' \in [Orders -> {"NONE", "PENDING", "EXECUTING", "DONE"}]
        /\ \A p \in Orders : row'[p] = (IF p = o THEN "EXECUTING" ELSE row[p])
    BY <1>3, <2>1, <2>2 DEF WriteExecuting, WriteRow, IInv, TypeOK
  <2>4. /\ thread' \in [Threads -> Goroutine]
        /\ \A h \in Threads \ {g} : thread'[h] = thread[h]
        /\ thread'[g].pc = "marked" /\ thread'[g].order = o /\ ~thread'[g].cancelled
    BY <1>3, <2>1 DEF WriteExecuting, Go, IInv, TypeOK, Goroutine, ThreadPcs
  <2>5. \A h \in Threads, p \in Orders :
          Triggering(h, p)' <=> IF h = g THEN p = o ELSE Triggering(h, p)
    BY <2>4 DEF Triggering
  <2>6. TypeOK' /\ OrdersNamed' /\ TriggersLive' /\ HoldersIdle' /\ Truthful'
    BY <1>1, <2>3, <2>4 DEF IInv, TypeOK, JobTypeOK, Goroutine, OrdersNamed, TriggersLive,
                            HoldersIdle, Truthful, jobVars
  <2>7. OneWatcher'
    <3>1. \A h \in Threads, p \in Orders : Watches(h, p)' <=> Watches(h, p)
      BY <1>1, <1>3, <2>1, <2>4 DEF Watches
    <3> QED BY <1>1, <3>1 DEF IInv, OneWatcher
  <2>8. OneTrigger'
    BY <2>2, <2>5 DEF IInv, OneTrigger, Untriggered
  <2>9. OneHolder'
    <3> SUFFICES ASSUME NEW p \in Orders
                 PROVE  HeldOnce(p)'
      BY DEF OneHolder
    <3>1. HeldOnce(p)
      BY DEF IInv, OneHolder
    <3> QED BY <1>1, <2>2, <2>5, <3>1 DEF HeldOnce, Untriggered, Held
  <2>10. RowsHeld'
    <3> SUFFICES ASSUME NEW p \in Orders
                 PROVE  RowHeld(p)'
      BY DEF RowsHeld
    <3>1. RowHeld(p) /\ stopChans[p] \in Threads \cup {NoThread}
      BY DEF IInv, RowsHeld, TypeOK
    <3>2. CASE p = o
      BY <1>1, <2>2, <2>3, <2>4, <2>5, <3>2 DEF RowHeld, Untriggered, Held
    <3>3. CASE p # o
      BY <1>1, <2>2, <2>3, <2>4, <2>5, <3>1, <3>3 DEF RowHeld, Untriggered, Held
    <3> QED BY <3>2, <3>3
  <2>11. PendingAttended'
    <3> SUFFICES ASSUME NEW p \in Orders, ~callbacks', up', row'[p] = "PENDING", Executable(p)'
                 PROVE  Attended(p)'
      BY DEF PendingAttended
    <3>1. Attended(p)
      BY <1>1, <2>3 DEF IInv, PendingAttended, Executable, jobVars
    <3>2. \A t \in Threads : thread[t] = Work("resume", p) => thread'[t] = thread[t]
      BY <1>1, <2>4 DEF Work
    <3> QED BY <1>1, <3>1, <3>2 DEF Attended
  <2> QED BY <2>6, <2>7, <2>8, <2>9, <2>10, <2>11 DEF IInv
<1> QED BY <1>2, <1>3

LEMMA FireKeeps ==
  ASSUME IInv, NEW g \in Threads, Fire(g)
  PROVE  IInv'
<1>1. PICK o \in Orders :
        /\ o = thread[g].order /\ thread[g].pc = "marked" /\ Triggering(g, o)
        /\ row' = row /\ sweep' = sweep /\ saving' = saving
  BY DEF Fire, IInv, OrdersNamed, Triggering
<1>2. PICK t \in Threads : /\ thread[t].pc = "off"
                           /\ StopMonitoring(o, [Go(g, "wait") EXCEPT ![t] = Work("post", o)])
  BY <1>1 DEF Fire
<1> DEFINE moved == [Go(g, "wait") EXCEPT ![t] = Work("post", o)]
<1>3. /\ moved \in [Threads -> Goroutine] /\ t # g
      /\ moved[t].pc = "post" /\ moved[t].order = o /\ ~moved[t].cancelled
      /\ \A h \in Threads \ {t} : /\ moved[h].pc = (IF h = g THEN "wait" ELSE thread[h].pc)
                                  /\ moved[h].order = thread[h].order
                                  /\ moved[h].cancelled <=> thread[h].cancelled
                                  /\ h # g => moved[h] = thread[h]
  BY <1>1, <1>2 DEF IInv, TypeOK, Goroutine, ThreadPcs, Go, Work
<1> HIDE DEF moved
<1>4. /\ stopChans' = [stopChans EXCEPT ![o] = NoThread]
      /\ thread' \in [Threads -> Goroutine]
      /\ \A h \in Threads : /\ thread'[h].pc = moved[h].pc /\ thread'[h].order = moved[h].order
                            /\ thread'[h].cancelled <=> moved[h].cancelled \/ h = stopChans[o]
                            /\ h # stopChans[o] => thread'[h] = moved[h]
  BY <1>2, <1>3, Stopped DEF moved, IInv, TypeOK
<1>5. /\ \A p \in Orders : stopChans[p] # t /\ (stopChans[p] = g => p = o)
      /\ \A p \in Orders : stopChans[p] \in Threads \cup {NoThread}
      /\ \A p \in Orders : stopChans'[p] = (IF p = o THEN NoThread ELSE stopChans[p])
  BY <1>1, <1>2, <1>4 DEF IInv, TypeOK, OneWatcher, Watches
<1>6. ~Held(o) /\ row[o] \notin {"NONE", "PENDING"} /\ \A h \in Threads : Triggering(h, o) => h = g
  BY <1>1 DEF IInv, OneHolder, HeldOnce, OneTrigger, RowsHeld, RowHeld, Untriggered
<1>7. \A h \in Threads, p \in Orders : Triggering(h, p)' =>
        IF p = o THEN h = t ELSE Triggering(h, p) /\ thread'[h].pc = thread[h].pc
  BY <1>1, <1>3, <1>4, <1>6 DEF Triggering
<1>8. TypeOK'
  BY <1>1, <1>4, <1>5 DEF Fire, IInv, TypeOK, JobTypeOK, Goroutine, jobVars
<1>9. OrdersNamed' /\ HoldersIdle' /\ Truthful'
  BY <1>1, <1>2, <1>3, <1>4 DEF Fire, IInv, OrdersNamed, HoldersIdle, Truthful, jobVars
<1>10. TriggersLive'
  BY <1>1, <1>3, <1>4, <1>5, MonitorAssumption DEF IInv, TriggersLive, OneWatcher, Watches
<1>11. OneWatcher'
  <2> SUFFICES ASSUME NEW p \in Orders, NEW h \in Threads
               PROVE  Watches(h, p)' <=> stopChans'[p] = h
    BY DEF OneWatcher
  <2>1. Watches(h, p) <=> stopChans[p] = h
    BY DEF IInv, OneWatcher
  <2>2. Watches(h, o) <=> stopChans[o] = h
    BY DEF IInv, OneWatcher
  <2>3. CASE h = t
    BY <1>3, <1>4, <1>5, <2>3, MonitorAssumption DEF Watches
  <2>4. CASE h # t /\ p = o
    BY <1>1, <1>3, <1>4, <1>5, <2>2, <2>4, MonitorAssumption DEF Watches
  <2>5. CASE h # t /\ p # o
    BY <1>1, <1>3, <1>4, <1>5, <2>1, <2>2, <2>5 DEF Watches
  <2> QED BY <2>3, <2>4, <2>5
<1>12. OneTrigger'
  BY <1>7 DEF IInv, OneTrigger
<1>13. OneHolder'
  <2> SUFFICES ASSUME NEW p \in Orders
               PROVE  HeldOnce(p)'
    BY DEF OneHolder
  <2>1. HeldOnce(p) /\ (Held(p)' <=> Held(p))
    BY <1>1 DEF IInv, OneHolder, Held
  <2> QED BY <1>1, <1>5, <1>6, <1>7, <2>1 DEF HeldOnce, Untriggered
<1>14. RowsHeld'
  <2> SUFFICES ASSUME NEW p \in Orders
               PROVE  RowHeld(p)'
    BY DEF RowsHeld
  <2>1. RowHeld(p) /\ (Held(p)' <=> Held(p))
    BY <1>1 DEF IInv, RowsHeld, Held
  <2>2. CASE p = o
    BY <1>1, <1>3, <1>4, <1>5, <1>6, <1>7, <2>2 DEF RowHeld, Held
  <2>3. CASE p # o
    BY <1>1, <1>3, <1>4, <1>5, <1>7, <2>1, <2>3 DEF RowHeld, Untriggered
  <2> QED BY <2>2, <2>3
<1>15. PendingAttended'
  <2> SUFFICES ASSUME NEW p \in Orders, ~callbacks', up', row'[p] = "PENDING", Executable(p)'
               PROVE  Attended(p)'
    BY DEF PendingAttended
  <2>1. Attended(p) /\ p # o /\ stopChans'[p] = stopChans[p]
    BY <1>1, <1>5, <1>6 DEF Fire, IInv, PendingAttended, Executable, jobVars
  <2>2. CASE \E h \in Threads : thread[h] = Work("resume", p)
    <3>1. PICK h \in Threads : thread[h] = Work("resume", p)
      BY <2>2
    <3>2. thread'[h] = thread[h]
      BY <1>1, <1>2, <1>3, <1>4, <3>1, MonitorAssumption DEF Work, IInv, OneWatcher, Watches
    <3> QED BY <3>1, <3>2 DEF Attended
  <2>3. CASE ~\E h \in Threads : thread[h] = Work("resume", p)
    BY <1>1, <2>1, <2>3 DEF Fire, Attended
  <2> QED BY <2>2, <2>3
<1> QED BY <1>8, <1>9, <1>10, <1>11, <1>12, <1>13, <1>14, <1>15 DEF IInv

LEMMA AcceptedKeeps ==
  ASSUME IInv, NEW g \in Threads, Accepted(g)
  PROVE  IInv'
<1>1. Moves(g) /\ thread[g].pc = "post" /\ thread'[g].pc = "off" /\ thread[g].order \in Orders
  BY DEF Accepted, NoWork, Moves, IInv, TypeOK, OrdersNamed, Goroutine, ThreadPcs
<1>2. /\ job' \in [Jobs -> JobRecord]
      /\ \A j \in Jobs : job'[j].pc # "off" => job'[j].order \in Orders
  BY <1>1, JobAssumption DEF Accepted, Accept, IInv, TypeOK, JobTypeOK, JobRecord, OrdersNamed
<1>3. TypeOK' /\ OrdersNamed' /\ HoldersIdle' /\ Truthful'
  BY <1>1, <1>2 DEF Accepted, Moves, IInv, TypeOK, JobTypeOK, Goroutine, OrdersNamed,
                    HoldersIdle, Truthful
<1>4. TriggersLive' /\ OneWatcher' /\ OneTrigger' /\ OneHolder' /\ RowsHeld'
  BY <1>1, HoldersMove, RowsMove DEF Accepted
<1>5. PendingAttended'
  BY <1>1, MovesAttend DEF Accepted
<1> QED BY <1>3, <1>4, <1>5 DEF IInv

LEMMA RequestLostKeeps ==
  ASSUME IInv, NEW g \in Threads, RequestLost(g)
  PROVE  IInv'
<1>1. Moves(g) /\ thread[g].pc = "post" /\ thread'[g].pc = "off"
  BY DEF RequestLost, NoWork, Moves, IInv, TypeOK, Goroutine, ThreadPcs
<1>2. TypeOK' /\ OrdersNamed' /\ HoldersIdle' /\ Truthful'
  BY <1>1 DEF RequestLost, Moves, IInv, TypeOK, JobTypeOK, Goroutine, OrdersNamed,
              HoldersIdle, Truthful, jobVars
<1>3. TriggersLive' /\ OneWatcher' /\ OneTrigger' /\ OneHolder' /\ RowsHeld'
  BY <1>1, HoldersMove, RowsMove DEF RequestLost
<1>4. PendingAttended'
  BY <1>1, MovesAttend DEF RequestLost, jobVars
<1> QED BY <1>2, <1>3, <1>4 DEF IInv

LEMMA RejectedKeeps ==
  ASSUME IInv, NEW g \in Threads, Rejected(g)
  PROVE  IInv'
<1>1. /\ Moves(g) /\ thread[g].pc = "post" /\ thread'[g].pc = "reject"
      /\ thread'[g].order = thread[g].order
  BY DEF Rejected, Go, Moves, IInv, TypeOK, Goroutine, ThreadPcs
<1>2. TypeOK' /\ OrdersNamed' /\ HoldersIdle' /\ Truthful'
  BY <1>1 DEF Rejected, Moves, IInv, TypeOK, JobTypeOK, Goroutine, OrdersNamed, HoldersIdle,
              Truthful, jobVars
<1>3. TriggersLive' /\ OneWatcher' /\ OneTrigger' /\ OneHolder' /\ RowsHeld'
  BY <1>1, HoldersMove, RowsMove DEF Rejected
<1>4. PendingAttended'
  BY <1>1, MovesAttend DEF Rejected, jobVars
<1> QED BY <1>2, <1>3, <1>4 DEF IInv

LEMMA RollBackKeeps ==
  ASSUME IInv, NEW g \in Threads, RollBack(g)
  PROVE  IInv'
<1>1. PICK o \in Orders : o = thread[g].order /\ thread[g].pc = "reject" /\ Triggering(g, o)
  BY DEF RollBack, IInv, OrdersNamed, Triggering
<1>2. Moves(g) /\ thread'[g] = Work("resume", o)
  BY <1>1 DEF RollBack, Go, Moves, Work, IInv, TypeOK, TriggersLive, Goroutine, ThreadPcs
<1>3. /\ row' \in [Orders -> {"NONE", "PENDING", "EXECUTING", "DONE"}]
      /\ \A p \in Orders : p # o => row'[p] = row[p]
      /\ row[o] # "NONE" /\ row'[o] = "PENDING"
  BY <1>1 DEF RollBack, WriteRow, IInv, TypeOK, RowsHeld, RowHeld, Untriggered
<1>4. TypeOK' /\ OrdersNamed' /\ HoldersIdle' /\ Truthful'
  BY <1>2, <1>3 DEF RollBack, Moves, Work, IInv, TypeOK, JobTypeOK, Goroutine, OrdersNamed,
                    HoldersIdle, Truthful, jobVars
<1>5. TriggersLive' /\ OneWatcher' /\ OneTrigger' /\ OneHolder'
  BY <1>2, HoldersMove DEF RollBack
<1>6. RowsHeld'
  <2> SUFFICES ASSUME NEW p \in Orders
               PROVE  RowHeld(p)'
    BY DEF RowsHeld
  <2>1. RowHeld(p) /\ stopChans[p] \in Threads \cup {NoThread} /\ stopChans' = stopChans
        /\ (Held(p)' <=> Held(p)) /\ saving' = saving /\ sweep' = sweep
    BY DEF RollBack, IInv, RowsHeld, TypeOK, Held
  <2>2. \A h \in Threads : Triggering(h, p)' => Triggering(h, p)
    BY <1>2, HoldersMove DEF RollBack
  <2>3. CASE p = o
    <3>1. \A h \in Threads : Triggering(h, p)' => h = g
      BY <1>1, <2>2, <2>3 DEF IInv, OneTrigger
    <3> QED BY <1>2, <1>3, <2>3, <3>1 DEF RowHeld, Work
  <2>4. CASE p # o
    <3>1. ~Triggering(g, p)' /\ (row[p] = "EXECUTING" => stopChans[p] # g)
      BY <1>1, <1>2, <2>1, <2>4, MonitorAssumption DEF Triggering, Work, RowHeld
    <3> QED BY <1>2, <1>3, <2>1, <2>2, <2>4, <3>1 DEF Moves, RowHeld, Untriggered
  <2> QED BY <2>3, <2>4
<1>7. PendingAttended'
  BY <1>1, <1>2, <1>3, MovesAttend DEF RollBack, jobVars
<1> QED BY <1>4, <1>5, <1>6, <1>7 DEF IInv

LEMMA ResumeKeeps ==
  ASSUME IInv, NEW g \in Threads, Resume(g)
  PROVE  IInv'
<1> DEFINE moved == [thread EXCEPT ![g] = NoWork]
<1>1. /\ moved \in [Threads -> Goroutine] /\ moved[g].pc = "off"
      /\ \A h \in Threads \ {g} : moved[h] = thread[h]
  BY DEF IInv, TypeOK, Goroutine, NoWork, ThreadPcs
<1>2. PICK o \in Orders :
        /\ o = thread[g].order /\ thread[g].pc = "resume" /\ Triggering(g, o)
        /\ StartMonitoring(o, moved) /\ row' = row /\ sweep' = sweep /\ saving' = saving
  BY DEF Resume, IInv, OrdersNamed, Triggering
<1> HIDE DEF moved
<1>3. /\ stopChans[o] = NoThread /\ row[o] \notin {"NONE", "EXECUTING"} /\ ~Held(o)
      /\ \A h \in Threads \ {g} : ~Triggering(h, o)
  BY <1>2, MonitorAssumption
     DEF IInv, OneHolder, HeldOnce, RowsHeld, RowHeld, Untriggered, OneWatcher, Watches, OneTrigger
<1>4. PICK w \in Threads : /\ moved[w].pc = "off"
                           /\ thread' = [moved EXCEPT ![w] = Work("wait", o)]
                           /\ stopChans' = [stopChans EXCEPT ![o] = w]
  BY <1>2, <1>3 DEF StartMonitoring
<1>5. /\ thread' \in [Threads -> Goroutine] /\ thread[w].pc \in {"off", "resume"}
      /\ thread'[w].pc = "wait" /\ thread'[w].order = o /\ ~thread'[w].cancelled
      /\ \A h \in Threads \ {w} : thread'[h] = moved[h]
  BY <1>1, <1>2, <1>4 DEF Goroutine, Work, ThreadPcs
<1>6. TypeOK'
  BY <1>2, <1>4, <1>5 DEF Resume, IInv, TypeOK, JobTypeOK, Goroutine, jobVars
<1>7. OrdersNamed' /\ HoldersIdle' /\ Truthful'
  BY <1>1, <1>2, <1>5 DEF Resume, IInv, OrdersNamed, HoldersIdle, Truthful, jobVars
<1>8. \A h \in Threads \ {w} :
        IF h = g THEN thread[h].pc = "resume" /\ thread'[h].pc = "off" ELSE thread'[h] = thread[h]
  BY <1>1, <1>2, <1>5
<1>9. TriggersLive' /\ OneWatcher' /\ OneTrigger' /\ OneHolder' /\ RowsHeld'
  <2>1. \A h \in Threads : ~Triggering(h, o)'
    BY <1>3, <1>5, <1>8 DEF Triggering
  <2>2. ~Held(o)'
    BY <1>2, <1>3 DEF Held
  <2> QED BY <1>2, <1>3, <1>4, <1>5, <1>8, <2>1, <2>2, WatchStarts
<1>10. PendingAttended'
  <2>1. \A h \in Threads : thread[h].pc = "resume" /\ thread[h].order # o => thread'[h] = thread[h]
    BY <1>1, <1>2, <1>4, <1>8
  <2> QED BY <1>2, <1>3, <1>4, <2>1, StartAttends DEF Resume, jobVars
<1> QED BY <1>6, <1>7, <1>9, <1>10 DEF IInv

LEMMA SweepSelectKeeps ==
  ASSUME IInv, SweepSelect
  PROVE  IInv'
<1>1. /\ sweep.pc = "idle" /\ sweep.orders = {}
      /\ sweep'.pc = "found" /\ sweep' \in [pc : {"idle", "found", "start"}, orders : SUBSET Orders]
      /\ sweep'.orders = {o \in Orders : row[o] = "EXECUTING" /\ Rested(o)}
      /\ up /\ UNCHANGED <<row, stopChans, thread, saving>>
  BY DEF SweepSelect, IInv, HoldersIdle
<1>2. TypeOK' /\ OrdersNamed' /\ TriggersLive' /\ HoldersIdle' /\ Truthful'
  BY <1>1 DEF SweepSelect, IInv, TypeOK, JobTypeOK, OrdersNamed, TriggersLive, HoldersIdle,
              Truthful, jobVars
<1>3. OneWatcher' /\ OneTrigger'
  BY <1>1 DEF IInv, OneWatcher, Watches, OneTrigger, Triggering
<1>4. ASSUME NEW o \in sweep'.orders
      PROVE  o \notin saving /\ stopChans[o] = NoThread /\ Untriggered(o)
  <2>1. RowHeld(o) /\ row[o] = "EXECUTING" /\ Rested(o) /\ stopChans[o] \in Threads \cup {NoThread}
    BY <1>1 DEF IInv, RowsHeld, TypeOK
  <2>2. Untriggered(o)
    BY <2>1 DEF Rested, Untriggered, Triggering
  <2>3. stopChans[o] # NoThread => Triggering(stopChans[o], o)
    BY <1>1, <2>1 DEF IInv, RowHeld, OneWatcher, Watches, Triggering
  <2> QED BY <2>1, <2>2, <2>3 DEF RowHeld, Untriggered
<1>5. OneHolder' /\ RowsHeld'
  <2> SUFFICES ASSUME NEW o \in Orders
               PROVE  HeldOnce(o)' /\ RowHeld(o)'
    BY DEF OneHolder, RowsHeld
  <2>1. HeldOnce(o) /\ RowHeld(o)
    BY DEF IInv, OneHolder, RowsHeld
  <2>2. o \in sweep'.orders => row[o] = "EXECUTING"
    BY <1>1
  <2> QED BY <1>1, <1>4, <2>1, <2>2 DEF HeldOnce, RowHeld, Triggering, Untriggered, Held
<1>6. PendingAttended'
  BY <1>1 DEF SweepSelect, IInv, PendingAttended, Attended, Executable, jobVars
<1> QED BY <1>2, <1>3, <1>5, <1>6 DEF IInv

LEMMA SweepResetKeeps ==
  ASSUME IInv, SweepReset
  PROVE  IInv'
<1>1. /\ sweep.pc = "found" /\ sweep'.pc = "start" /\ sweep'.orders = sweep.orders
      /\ sweep' \in [pc : {"idle", "found", "start"}, orders : SUBSET Orders]
      /\ row' \in [Orders -> {"NONE", "PENDING", "EXECUTING", "DONE"}]
      /\ \A o \in Orders : row'[o] = (IF o \in sweep.orders THEN "PENDING" ELSE row[o])
      /\ UNCHANGED <<stopChans, thread, saving>>
  BY DEF SweepReset, IInv, TypeOK
<1>2. TypeOK' /\ OrdersNamed' /\ TriggersLive' /\ HoldersIdle' /\ Truthful'
  BY <1>1 DEF SweepReset, IInv, TypeOK, JobTypeOK, OrdersNamed, TriggersLive, HoldersIdle,
              Truthful, jobVars
<1>3. OneWatcher' /\ OneTrigger' /\ OneHolder'
  BY <1>1 DEF IInv, OneWatcher, Watches, OneTrigger, OneHolder, HeldOnce, Triggering,
              Untriggered, Held
<1>4. RowsHeld'
  <2> SUFFICES ASSUME NEW o \in Orders
               PROVE  RowHeld(o)'
    BY DEF RowsHeld
  <2>1. RowHeld(o) /\ HeldOnce(o)
    BY DEF IInv, RowsHeld, OneHolder
  <2> QED BY <1>1, <2>1 DEF HeldOnce, RowHeld, Triggering, Untriggered, Held
<1>5. PendingAttended'
  BY <1>1 DEF SweepReset, IInv, PendingAttended, Attended, Executable, jobVars
<1> QED BY <1>2, <1>3, <1>4, <1>5 DEF IInv

LEMMA SweepStartKeeps ==
  ASSUME IInv, SweepStart
  PROVE  IInv'
<1>1. PICK o \in sweep.orders :
        /\ StartMonitoring(o, thread)
        /\ sweep' = IF sweep.orders = {o} THEN NoSweep ELSE [sweep EXCEPT !.orders = @ \ {o}]
  BY DEF SweepStart
<1>2. /\ o \in Orders /\ sweep.pc = "start"
      /\ sweep' \in [pc : {"idle", "found", "start"}, orders : SUBSET Orders]
      /\ sweep'.orders = sweep.orders \ {o} /\ (sweep'.pc = "idle" => sweep'.orders = {})
  BY <1>1 DEF IInv, TypeOK, SweepStart, NoSweep
<1>3. /\ stopChans[o] = NoThread /\ row[o] \notin {"NONE", "EXECUTING"}
      /\ Untriggered(o) /\ ~Held(o)' /\ saving' = saving /\ row' = row
  BY <1>2 DEF SweepStart, IInv, OneHolder, HeldOnce, RowsHeld, RowHeld, Held
<1>4. PICK w \in Threads : /\ thread[w].pc = "off"
                           /\ thread' = [thread EXCEPT ![w] = Work("wait", o)]
                           /\ stopChans' = [stopChans EXCEPT ![o] = w]
  BY <1>1, <1>3 DEF StartMonitoring
<1>5. /\ thread' \in [Threads -> Goroutine]
      /\ thread'[w].pc = "wait" /\ thread'[w].order = o /\ ~thread'[w].cancelled
      /\ \A h \in Threads \ {w} : thread'[h] = thread[h]
  BY <1>2, <1>4 DEF IInv, TypeOK, Goroutine, Work, ThreadPcs
<1>6. TypeOK'
  BY <1>2, <1>3, <1>4, <1>5 DEF SweepStart, IInv, TypeOK, JobTypeOK, Goroutine, jobVars
<1>7. OrdersNamed' /\ HoldersIdle' /\ Truthful'
  BY <1>2, <1>3, <1>5 DEF SweepStart, IInv, OrdersNamed, HoldersIdle, Truthful, jobVars
<1>8. TriggersLive' /\ OneWatcher' /\ OneTrigger' /\ OneHolder' /\ RowsHeld'
  <2>1. \A h \in Threads : ~Triggering(h, o)'
    BY <1>3, <1>5 DEF Untriggered, Triggering
  <2> QED BY <1>2, <1>3, <1>4, <1>5, <2>1, WatchStarts
<1>9. PendingAttended'
  BY <1>2, <1>3, <1>4, <1>5, StartAttends DEF SweepStart, jobVars
<1> QED BY <1>6, <1>7, <1>8, <1>9 DEF IInv

LEMMA TakeEventKeeps ==
  ASSUME IInv, NEW o \in Orders, TakeEvent(o)
  PROVE  IInv'
<1>1. /\ StopMonitoring(o, thread) /\ UNCHANGED <<row, saving, sweep, up, callbacks, chain, past>>
      /\ indexer.pc = "idle" /\ indexer' = [pc |-> "stopped", order |-> o]
      /\ chain[o] # "PENDING" /\ logs' = logs \ {o}
  BY DEF TakeEvent, IInv, Truthful
<1>2. TypeOK' /\ OrdersNamed' /\ HoldersIdle' /\ Truthful'
  BY <1>1, WatchStops DEF TakeEvent, IInv, TypeOK, JobTypeOK, Goroutine, OrdersNamed,
                          HoldersIdle, Truthful
<1>3. TriggersLive' /\ OneWatcher' /\ OneTrigger' /\ OneHolder' /\ RowsHeld'
  BY <1>1, WatchStops
<1>4. PendingAttended'
  BY <1>1, StopAttends DEF TakeEvent, IInv, HoldersIdle
<1> QED BY <1>2, <1>3, <1>4 DEF IInv

LEMMA WriteEventKeeps ==
  ASSUME IInv, WriteEvent
  PROVE  IInv'
<1>1. /\ indexer.order \in Orders /\ WriteRow(indexer.order, "DONE")
      /\ UNCHANGED <<stopChans, thread, saving, sweep>>
  BY DEF WriteEvent, IInv, OrdersNamed
<1>2. TypeOK' /\ OrdersNamed' /\ HoldersIdle' /\ Truthful'
  BY <1>1, RowDone DEF WriteEvent, IInv, TypeOK, JobTypeOK, OrdersNamed, HoldersIdle,
                       Truthful, jobVars
<1>3. TriggersLive' /\ OneWatcher' /\ OneTrigger' /\ OneHolder' /\ RowsHeld'
  BY <1>1, HoldersRest, RowDone
<1>4. PendingAttended'
  <2>1. indexer'.order = indexer.order
    BY DEF WriteEvent, IInv, TypeOK
  <2> QED BY <1>1, <2>1, RowDone
          DEF WriteEvent, IInv, PendingAttended, Attended, Executable, jobVars
<1> QED BY <1>2, <1>3, <1>4 DEF IInv

LEMMA EndEventKeeps ==
  ASSUME IInv, EndEvent
  PROVE  IInv'
<1>1. PICK o \in Orders :
        /\ o = indexer.order /\ StopMonitoring(o, thread) /\ UNCHANGED <<row, saving, sweep, up>>
        /\ indexer' = Idle /\ chain[o] # "PENDING" /\ UNCHANGED <<callbacks, chain, past>>
  BY DEF EndEvent, IInv, OrdersNamed, Truthful, jobVars
<1>2. TypeOK' /\ OrdersNamed' /\ HoldersIdle' /\ Truthful'
  BY <1>1, WatchStops DEF EndEvent, Idle, IInv, TypeOK, JobTypeOK, Goroutine, OrdersNamed,
                          HoldersIdle, Truthful, jobVars
<1>3. TriggersLive' /\ OneWatcher' /\ OneTrigger' /\ OneHolder' /\ RowsHeld'
  BY <1>1, WatchStops
<1>4. PendingAttended'
  BY <1>1, StopAttends DEF EndEvent, Executable
<1> QED BY <1>2, <1>3, <1>4 DEF IInv

LEMMA SaveKeeps ==
  ASSUME IInv, NEW o \in Orders, Save(o)
  PROVE  IInv'
<1>1. /\ row[o] = "NONE" /\ row' \in [Orders -> {"NONE", "PENDING", "EXECUTING", "DONE"}]
      /\ \A p \in Orders : row'[p] = (IF p = o THEN "PENDING" ELSE row[p])
      /\ saving' = saving \cup {o} /\ UNCHANGED <<stopChans, thread, sweep>>
  BY DEF Save, IInv, TypeOK
<1>2. RowHeld(o)
  BY DEF IInv, RowsHeld
<1>3. TypeOK' /\ OrdersNamed' /\ TriggersLive' /\ HoldersIdle' /\ Truthful'
  BY <1>1 DEF Save, IInv, TypeOK, JobTypeOK, OrdersNamed, TriggersLive, HoldersIdle, Truthful,
              jobVars
<1>4. OneWatcher' /\ OneTrigger'
  BY <1>1 DEF IInv, OneWatcher, Watches, OneTrigger, Triggering
<1>5. OneHolder'
  BY <1>1, <1>2 DEF IInv, OneHolder, HeldOnce, RowHeld, Triggering, Untriggered, Held
<1>6. RowsHeld'
  <2> SUFFICES ASSUME NEW p \in Orders
               PROVE  RowHeld(p)'
    BY DEF RowsHeld
  <2>1. RowHeld(p)
    BY DEF IInv, RowsHeld
  <2> QED BY <1>1, <1>2, <2>1 DEF RowHeld, Triggering, Untriggered, Held
<1>7. PendingAttended'
  BY <1>1 DEF Save, IInv, PendingAttended, Attended, Executable, jobVars
<1> QED BY <1>3, <1>4, <1>5, <1>6, <1>7 DEF IInv

LEMMA StartSavedKeeps ==
  ASSUME IInv, NEW o \in Orders, StartSaved(o)
  PROVE  IInv'
<1>1. /\ stopChans[o] = NoThread /\ row[o] \notin {"NONE", "EXECUTING"}
      /\ Untriggered(o) /\ ~Held(o)' /\ saving' = saving \ {o} /\ sweep' = sweep /\ row' = row
  BY DEF StartSaved, IInv, OneHolder, HeldOnce, RowsHeld, RowHeld, Held
<1>2. PICK w \in Threads : /\ thread[w].pc = "off"
                           /\ thread' = [thread EXCEPT ![w] = Work("wait", o)]
                           /\ stopChans' = [stopChans EXCEPT ![o] = w]
  BY <1>1 DEF StartSaved, StartMonitoring
<1>3. /\ thread' \in [Threads -> Goroutine]
      /\ thread'[w].pc = "wait" /\ thread'[w].order = o /\ ~thread'[w].cancelled
      /\ \A h \in Threads \ {w} : thread'[h] = thread[h]
  BY <1>2 DEF IInv, TypeOK, Goroutine, Work, ThreadPcs
<1>4. TypeOK'
  BY <1>1, <1>2, <1>3 DEF StartSaved, IInv, TypeOK, JobTypeOK, Goroutine, jobVars
<1>5. OrdersNamed' /\ HoldersIdle' /\ Truthful'
  BY <1>1, <1>3 DEF StartSaved, IInv, OrdersNamed, HoldersIdle, Truthful, jobVars
<1>6. TriggersLive' /\ OneWatcher' /\ OneTrigger' /\ OneHolder' /\ RowsHeld'
  <2>1. \A h \in Threads : ~Triggering(h, o)'
    BY <1>1, <1>3 DEF Untriggered, Triggering
  <2> QED BY <1>1, <1>2, <1>3, <2>1, WatchStarts
<1>7. PendingAttended'
  BY <1>1, <1>2, <1>3, StartAttends DEF StartSaved, jobVars
<1> QED BY <1>4, <1>5, <1>6, <1>7 DEF IInv

LEMMA MarkDoneKeeps ==
  ASSUME IInv, NEW o \in Orders, MarkDone(o)
  PROVE  IInv'
<1>1. WriteRow(o, "DONE") /\ callbacks /\ UNCHANGED <<stopChans, thread, saving, sweep>>
  BY DEF MarkDone, IInv, Truthful
<1>2. TypeOK' /\ OrdersNamed' /\ HoldersIdle' /\ Truthful'
  BY <1>1, RowDone DEF MarkDone, IInv, TypeOK, JobTypeOK, OrdersNamed, HoldersIdle, Truthful
<1>3. TriggersLive' /\ OneWatcher' /\ OneTrigger' /\ OneHolder' /\ RowsHeld'
  BY <1>1, HoldersRest, RowDone
<1>4. PendingAttended'
  BY <1>1 DEF MarkDone, PendingAttended
<1> QED BY <1>2, <1>3, <1>4 DEF IInv

LEMMA StopMarkedKeeps ==
  ASSUME IInv, NEW o \in Orders, StopMarked(o)
  PROVE  IInv'
<1>1. /\ StopMonitoring(o, thread) /\ UNCHANGED <<row, saving, sweep, up, indexer, jobVars>>
      /\ o \in marking /\ marking' = marking \ {o}
  BY DEF StopMarked
<1>2. callbacks /\ callbacks' = callbacks
  BY <1>1 DEF IInv, Truthful, jobVars
<1>3. TypeOK' /\ OrdersNamed' /\ HoldersIdle' /\ Truthful'
  BY <1>1, WatchStops DEF StopMarked, IInv, TypeOK, JobTypeOK, Goroutine, OrdersNamed,
                          HoldersIdle, Truthful, jobVars
<1>4. TriggersLive' /\ OneWatcher' /\ OneTrigger' /\ OneHolder' /\ RowsHeld'
  BY <1>1, WatchStops
<1>5. PendingAttended'
  BY <1>2 DEF PendingAttended
<1> QED BY <1>3, <1>4, <1>5 DEF IInv

LEMMA CrashKeeps ==
  ASSUME IInv, Crash
  PROVE  IInv'
<1>1. /\ thread' \in [Threads -> Goroutine] /\ \A g \in Threads : thread'[g].pc = "off"
      /\ stopChans' = [o \in Orders |-> NoThread] /\ saving' = {}
      /\ sweep' = [pc |-> "idle", orders |-> {}] /\ indexer' = [pc |-> "idle", order |-> NoOrder]
  BY DEF Crash, Goroutine, NoWork, ThreadPcs, NoSweep, Idle
<1>2. up' = FALSE /\ marking' = {} /\ crashes' \in 0..MaxCrashes /\ UNCHANGED <<row, jobVars>>
  BY MonitorAssumption DEF Crash, IInv, TypeOK
<1>3. TypeOK'
  BY <1>1, <1>2 DEF IInv, TypeOK, JobTypeOK, Goroutine, jobVars
<1>4. OrdersNamed' /\ TriggersLive' /\ HoldersIdle' /\ Truthful'
  BY <1>1, <1>2 DEF IInv, OrdersNamed, TriggersLive, HoldersIdle, Truthful, jobVars
<1>5. OneWatcher'
  BY <1>1, MonitorAssumption DEF OneWatcher, Watches
<1>6. OneTrigger' /\ OneHolder' /\ RowsHeld'
  BY <1>1 DEF OneTrigger, OneHolder, HeldOnce, RowsHeld, RowHeld, Triggering, Untriggered, Held
<1>7. PendingAttended'
  BY <1>2 DEF PendingAttended
<1> QED BY <1>3, <1>4, <1>5, <1>6, <1>7 DEF IInv

LEMMA RehydrateKeeps ==
  ASSUME IInv, Rehydrate
  PROVE  IInv'
<1>1. /\ \A o \in Orders : row'[o] = (IF row[o] = "EXECUTING" THEN "PENDING" ELSE row[o])
      /\ row' \in [Orders -> {"NONE", "PENDING", "DONE"}]
      /\ sweep.orders = {} /\ saving = {}
      /\ UNCHANGED <<sweep, indexer, saving, marking, crashes, jobVars>>
  BY DEF Rehydrate, IInv, TypeOK, HoldersIdle
<1>2. PICK w \in [{o \in Orders : row'[o] = "PENDING"} -> Threads] :
        /\ \A o, p \in DOMAIN w : w[o] = w[p] => o = p
        /\ stopChans' = [o \in Orders |-> IF o \in DOMAIN w THEN w[o] ELSE NoThread]
        /\ thread' = [g \in Threads |-> IF \E o \in DOMAIN w : w[o] = g
                        THEN Work("wait", CHOOSE o \in DOMAIN w : w[o] = g) ELSE NoWork]
  BY DEF Rehydrate
<1>3. /\ DOMAIN w = {o \in Orders : row'[o] = "PENDING"} /\ \A o \in DOMAIN w : w[o] \in Threads
      /\ \A o \in Orders : stopChans'[o] = (IF row'[o] = "PENDING" THEN w[o] ELSE NoThread)
      /\ stopChans' \in [Orders -> Threads \cup {NoThread}]
  BY <1>2
<1>4. \A o \in DOMAIN w : thread'[w[o]] = Work("wait", o)
  <2> SUFFICES ASSUME NEW o \in DOMAIN w
               PROVE  thread'[w[o]] = Work("wait", o)
    OBVIOUS
  <2>1. (CHOOSE p \in DOMAIN w : w[p] = w[o]) = o
    BY <1>2
  <2> QED BY <1>2, <1>3, <2>1
<1>5. \A g \in Threads : (~\E o \in DOMAIN w : w[o] = g) => thread'[g] = NoWork
  BY <1>2
<1>6. /\ thread' \in [Threads -> Goroutine]
      /\ \A g \in Threads : \/ thread'[g].pc = "off"
                            \/ /\ thread'[g].pc = "wait" /\ ~thread'[g].cancelled
                               /\ thread'[g].order \in DOMAIN w /\ w[thread'[g].order] = g
  <2>1. ASSUME NEW g \in Threads
        PROVE  /\ thread'[g] \in Goroutine
               /\ \/ thread'[g].pc = "off"
                  \/ /\ thread'[g].pc = "wait" /\ ~thread'[g].cancelled
                     /\ thread'[g].order \in DOMAIN w /\ w[thread'[g].order] = g
    <3>1. CASE \E o \in DOMAIN w : w[o] = g
      <4>1. PICK o \in DOMAIN w : w[o] = g
        BY <3>1
      <4>2. thread'[g] = Work("wait", o) /\ o \in Orders
        BY <1>3, <1>4, <4>1
      <4> QED BY <4>1, <4>2 DEF Work, Goroutine, ThreadPcs
    <3>2. CASE ~\E o \in DOMAIN w : w[o] = g
      <4>1. thread'[g] = NoWork
        BY <1>5, <3>2
      <4> QED BY <4>1 DEF NoWork, Goroutine, ThreadPcs
    <3> QED BY <3>1, <3>2
  <2>2. thread' = [g \in Threads |-> thread'[g]]
    BY <1>2
  <2> QED BY <2>1, <2>2
<1>7. TypeOK'
  <2>1. up' = TRUE
    BY DEF Rehydrate
  <2> QED BY <1>1, <1>3, <1>6, <2>1 DEF IInv, TypeOK, JobTypeOK, Goroutine, jobVars
<1>8. OrdersNamed' /\ TriggersLive' /\ HoldersIdle' /\ Truthful'
  <2>1. \A g \in Threads : thread'[g].pc # "off" => thread'[g].order \in Orders
    BY <1>3, <1>6
  <2>2. up' = TRUE /\ \A g \in Threads : thread'[g].pc \in {"off", "wait"}
    BY <1>6 DEF Rehydrate
  <2> QED BY <1>1, <2>1, <2>2
          DEF IInv, OrdersNamed, TriggersLive, HoldersIdle, Truthful, jobVars
<1>9. OneWatcher'
  <2> SUFFICES ASSUME NEW p \in Orders, NEW h \in Threads
               PROVE  Watches(h, p)' <=> stopChans'[p] = h
    BY DEF OneWatcher
  <2>1. ASSUME Watches(h, p)'
        PROVE  stopChans'[p] = h
    BY <1>3, <1>6, <2>1 DEF Watches
  <2>2. ASSUME stopChans'[p] = h
        PROVE  Watches(h, p)'
    <3>1. p \in DOMAIN w /\ w[p] = h
      BY <1>3, <2>2, MonitorAssumption
    <3>2. thread'[h] = Work("wait", p)
      BY <1>4, <3>1
    <3> QED BY <3>2 DEF Watches, Work
  <2> QED BY <2>1, <2>2
<1>10. OneTrigger' /\ OneHolder' /\ RowsHeld'
  <2>1. \A g \in Threads, o \in Orders : ~Triggering(g, o)'
    BY <1>6 DEF Triggering
  <2>2. \A o \in Orders : ~Held(o)' /\ row'[o] # "EXECUTING"
    BY <1>1 DEF Held
  <2>3. \A o \in Orders : row'[o] = "NONE" => stopChans'[o] = NoThread
    BY <1>3
  <2> QED BY <2>1, <2>2, <2>3
      DEF OneTrigger, OneHolder, HeldOnce, RowsHeld, RowHeld, Untriggered, Held
<1>11. PendingAttended'
  BY <1>3, MonitorAssumption DEF PendingAttended, Attended
<1> QED BY <1>7, <1>8, <1>9, <1>10, <1>11 DEF IInv

LEMMA LoseEventKeeps ==
  ASSUME IInv, NEW o \in Orders, LoseEvent(o)
  PROVE  IInv'
<1>1. UNCHANGED monitorVars /\ UNCHANGED <<chain, past, mempool, job, notices, callbacks>>
      /\ logs' = logs \ {o}
  BY DEF LoseEvent
<1>2. TypeOK' /\ OrdersNamed' /\ HoldersIdle' /\ Truthful'
  BY <1>1 DEF monitorVars, IInv, TypeOK, JobTypeOK, OrdersNamed, HoldersIdle, Truthful
<1>3. RowsHeld'
  BY <1>1 DEF monitorVars, IInv, RowsHeld, RowHeld, Triggering, Untriggered, Held
<1>4. TriggersLive' /\ OneWatcher' /\ OneTrigger' /\ OneHolder' /\ PendingAttended'
  BY <1>1, HoldersRest, RestAttends DEF monitorVars, Executable
<1> QED BY <1>2, <1>3, <1>4 DEF IInv

LEMMA JobStepKeeps ==
  ASSUME IInv, NEW j \in Jobs, JobStep(j), UNCHANGED monitorVars
  PROVE  IInv'
<1>1. UNCHANGED <<chain, past, logs, callbacks>>
  BY DEF JobStep, SendTx, Succeed, FailTransiently, FailDefinitively, EndSilently
<1>2. job[j].pc # "off" /\ job[j].order \in Orders /\ job[j] \in JobRecord
  BY DEF JobStep, SendTx, Succeed, FailTransiently, FailDefinitively, EndSilently,
         IInv, TypeOK, JobTypeOK, OrdersNamed
<1>3. NoJob \in JobRecord /\ NoJob.pc = "off"
  BY JobAssumption DEF NoJob, JobRecord
<1>4. /\ job' \in [Jobs -> JobRecord] /\ \A i \in Jobs \ {j} : job'[i] = job[i]
      /\ job'[j].pc # "off" => job'[j].order \in Orders
      /\ mempool' \subseteq Orders /\ notices' \subseteq Orders
      /\ ~callbacks => notices' = notices
  <2>1. CASE SendTx(j)
    BY <1>2, <2>1 DEF SendTx, IInv, TypeOK, JobTypeOK, JobRecord
  <2>2. CASE Succeed(j) \/ EndSilently(j)
    BY <1>3, <2>2 DEF Succeed, EndSilently, IInv, TypeOK, JobTypeOK
  <2>3. CASE GiveUp(j) /\ mempool' = mempool
    BY <1>2, <1>3, <2>3 DEF GiveUp, IInv, TypeOK, JobTypeOK
  <2>4. CASE FailTransiently(j) /\ job[j].attempt < MaxRetries
    <3>1. job[j].attempt + 1 \in 0..MaxRetries
      BY <1>2, <2>4, JobAssumption DEF JobRecord
    <3> QED BY <1>2, <2>4, <3>1 DEF FailTransiently, IInv, TypeOK, JobTypeOK, JobRecord
  <2> QED BY <2>1, <2>2, <2>3, <2>4 DEF JobStep, FailTransiently, FailDefinitively
<1>5. TypeOK' /\ OrdersNamed' /\ HoldersIdle' /\ Truthful'
  BY <1>1, <1>4 DEF monitorVars, IInv, TypeOK, JobTypeOK, OrdersNamed, HoldersIdle, Truthful
<1>6. RowsHeld'
  BY DEF monitorVars, IInv, RowsHeld, RowHeld, Triggering, Untriggered, Held
<1>7. TriggersLive' /\ OneWatcher' /\ OneTrigger' /\ OneHolder' /\ PendingAttended'
  BY <1>1, HoldersRest, RestAttends DEF monitorVars, Executable
<1> QED BY <1>5, <1>6, <1>7 DEF IInv

LEMMA OutsideStepKeeps ==
  ASSUME IInv, NEW o \in Orders, OutsideStep(o), UNCHANGED monitorVars
  PROVE  IInv'
<1>1. /\ chain' \in [Orders -> ChainStatus] /\ job' = job /\ callbacks' = callbacks
      /\ \A p \in Orders : chain'[p] = "PENDING" => chain[p] = "PENDING"
      /\ past \subseteq past' /\ past' \subseteq Orders /\ mempool' \subseteq Orders
      /\ notices' \subseteq notices
      /\ logs' \subseteq Orders /\ \A p \in logs' : p \in logs \/ chain'[p] # "PENDING"
  <2>1. CASE PassExpiry(o) \/ LoseNotice(o)
    BY <2>1 DEF PassExpiry, LoseNotice, IInv, TypeOK, JobTypeOK
  <2>2. CASE FinishElsewhere(o)
    BY <2>2 DEF FinishElsewhere, Finish, ChainStatus, IInv, TypeOK, JobTypeOK
  <2>3. CASE MineTx(o)
    BY <2>3 DEF MineTx, Finish, ChainStatus, IInv, TypeOK, JobTypeOK
  <2> QED BY <2>1, <2>2, <2>3 DEF OutsideStep
<1>2. TypeOK' /\ OrdersNamed' /\ HoldersIdle' /\ Truthful'
  BY <1>1 DEF monitorVars, IInv, TypeOK, JobTypeOK, OrdersNamed, HoldersIdle, Truthful
<1>3. RowsHeld'
  BY DEF monitorVars, IInv, RowsHeld, RowHeld, Triggering, Untriggered, Held
<1>4. TriggersLive' /\ OneWatcher' /\ OneTrigger' /\ OneHolder' /\ PendingAttended'
  BY <1>1, HoldersRest, RestAttends DEF monitorVars, Executable
<1> QED BY <1>2, <1>3, <1>4 DEF IInv

LEMMA InitHolds == Init => IInv
<1> SUFFICES ASSUME Init PROVE IInv
  OBVIOUS
<1>1. /\ row = [o \in Orders |-> "NONE"] /\ stopChans = [o \in Orders |-> NoThread]
      /\ thread \in [Threads -> Goroutine] /\ \A g \in Threads : thread[g].pc = "off"
      /\ sweep = [pc |-> "idle", orders |-> {}] /\ indexer = [pc |-> "idle", order |-> NoOrder]
      /\ saving = {} /\ marking = {} /\ up = TRUE /\ crashes = 0
  BY DEF Init, NoWork, NoSweep, Idle, Goroutine, ThreadPcs
<1>2. /\ JobTypeOK /\ logs = {} /\ notices = {} /\ \A j \in Jobs : job[j].pc = "off"
  BY JobAssumption DEF Init, JobInit, JobTypeOK, NoJob, JobRecord, ChainStatus
<1>3. TypeOK
  BY <1>1, <1>2, MonitorAssumption DEF TypeOK, Goroutine
<1>4. OrdersNamed /\ TriggersLive /\ HoldersIdle /\ Truthful
  BY <1>1, <1>2 DEF OrdersNamed, TriggersLive, HoldersIdle, Truthful
<1>5. OneWatcher /\ OneTrigger /\ OneHolder /\ RowsHeld /\ PendingAttended
  BY <1>1, MonitorAssumption
     DEF OneWatcher, Watches, OneTrigger, OneHolder, HeldOnce, RowsHeld, RowHeld, Triggering,
         Untriggered, Held, PendingAttended
<1> QED BY <1>3, <1>4, <1>5 DEF IInv

LEMMA StepKeeps == IInv /\ [Next]_vars => IInv'
<1> SUFFICES ASSUME IInv, [Next]_vars PROVE IInv'
  OBVIOUS
<1>1. ASSUME NEW g \in Threads, Evaluation(g) \/ SeeCondition(g) \/ Exit(g)
      PROVE  IInv'
  BY <1>1, SeeExpiryKeeps, WriteExpiredKeeps, StopExpiredKeeps, WriteExecutingKeeps, FireKeeps,
     SeeConditionKeeps, ExitKeeps DEF Evaluation
<1>2. ASSUME NEW t \in Threads, Trigger(t)
      PROVE  IInv'
  BY <1>2, AcceptedKeeps, RequestLostKeeps, RejectedKeeps, RollBackKeeps, ResumeKeeps DEF Trigger
<1>3. ASSUME SweepStep \/ IndexerStep \/ Crash \/ Rehydrate
      PROVE  IInv'
  BY <1>3, SweepSelectKeeps, SweepResetKeeps, SweepStartKeeps, TakeEventKeeps, WriteEventKeeps,
     EndEventKeeps, CrashKeeps, RehydrateKeeps DEF SweepStep, IndexerStep
<1>4. ASSUME NEW o \in Orders, HandlerStep(o) \/ Save(o) \/ MarkDone(o) \/ LoseEvent(o)
      PROVE  IInv'
  BY <1>4, StartSavedKeeps, StopMarkedKeeps, SaveKeeps, MarkDoneKeeps, LoseEventKeeps
     DEF HandlerStep
<1>5. ASSUME NEW j \in Jobs, JobStep(j) /\ UNCHANGED monitorVars
      PROVE  IInv'
  BY <1>5, JobStepKeeps
<1>6. ASSUME NEW o \in Orders, OutsideStep(o) /\ UNCHANGED monitorVars
      PROVE  IInv'
  BY <1>6, OutsideStepKeeps
<1>7. CASE UNCHANGED vars
  <2>1. UNCHANGED monitorVars /\ UNCHANGED jobVars
    BY <1>7 DEF vars
  <2>2. TypeOK' /\ OrdersNamed' /\ HoldersIdle' /\ Truthful'
    BY <2>1 DEF monitorVars, jobVars, IInv, TypeOK, JobTypeOK, OrdersNamed, HoldersIdle, Truthful
  <2>3. RowsHeld'
    BY <2>1 DEF monitorVars, IInv, RowsHeld, RowHeld, Triggering, Untriggered, Held
  <2>4. TriggersLive' /\ OneWatcher' /\ OneTrigger' /\ OneHolder' /\ PendingAttended'
    BY <2>1, HoldersRest, RestAttends DEF monitorVars, jobVars, Executable
  <2> QED BY <2>2, <2>3, <2>4 DEF IInv
<1> QED BY <1>1, <1>2, <1>3, <1>4, <1>5, <1>6, <1>7 DEF Next

LEMMA Inductive == Spec => []IInv
BY InitHolds, StepKeeps, PTL DEF Spec

-----------------------------------------------------------------------------
(* Theorems. *)

\* The variables have their types.
THEOREM MonitorTyped == Spec => []TypeOK
<1>1. IInv => TypeOK
  BY DEF IInv
<1> QED BY <1>1, Inductive, PTL

\* However ticks, rollbacks, sweeps, events and restarts interleave, at most
\* one goroutine is on the way to the keeper with an order: monitor.go's "so
\* concurrent ticks don't re-trigger".
THEOREM NoSecondTrigger == Spec => []OneTrigger
<1>1. IInv => OneTrigger
  BY DEF IInv
<1> QED BY <1>1, Inductive, PTL

\* stopChans registers exactly the goroutines that watch under a live context,
\* so that StopMonitoring reaches whoever watches the order.
THEOREM RegistryExact == Spec => []OneWatcher
<1>1. IInv => OneWatcher
  BY DEF IInv
<1> QED BY <1>1, Inductive, PTL

\* Without the keeper's callback, no PENDING order that can still execute is
\* left unwatched, whatever crashes and whatever is lost.
THEOREM NoOrderDropped == Spec => []PendingAttended
<1>1. IInv => PendingAttended
  BY DEF IInv
<1> QED BY <1>1, Inductive, PTL
=============================================================================
