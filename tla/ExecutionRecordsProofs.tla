----------------------- MODULE ExecutionRecordsProofs -----------------------
(***************************************************************************)
(* Proofs about execution records and the POSTs that wait for them, for    *)
(* every set of orders, any registry log and any number of restarts, with  *)
(* missed and replayed events.  The invariant traces what a browser is     *)
(* told back to the chain: log, indexer, record, channel.                  *)
(***************************************************************************)
EXTENDS ExecutionRecords, TLAPS

Events == [type : {"REGISTERED"} \cup Terminal, order : Orders]

\* A terminal event in the log is what became of its order.
LogTrue == \A i \in 1..Len(log) : log[i].type \in Terminal => chain[log[i].order] = log[i].type

\* The indexer holds a true event; it writes a first record only where there
\* is none, and wakes waiters only after the record says EXECUTED.
IndexerTrue ==
  /\ indexer.pc \in {"lookup", "save"} => record[indexer.order] = NoRecord
  /\ indexer.pc = "update" => indexer.type \in Terminal /\ chain[indexer.order] = indexer.type
  /\ indexer.pc \in {"find", "notify"} => chain[indexer.order] = "EXECUTED"
  /\ indexer.pc = "find" => record[indexer.order].status \in {"NONE", "EXECUTED"}
  /\ indexer.pc = "notify" => record[indexer.order].status = "EXECUTED"

\* A row that says how an order ended is right, and one without a status is none.
RecordTrue ==
  \A o \in Orders : /\ record[o].status \in Terminal => chain[o] = record[o].status
                    /\ record[o].status = "NONE" => record[o] = NoRecord

\* Who waits can be woken.
WaitersAttached ==
  \A o \in Orders : post[o] \in {"recheck", "select"} => o \in waiters \cup channel

\* A POST comes after the registration, and a prune after the end.
AfterChain ==
  \A o \in Orders : /\ chain[o] = "NONE" => post[o] = "none" /\ o \notin strategies
                    /\ o \in prunes => chain[o] \in Terminal

\* A market POST that is to save its strategy has stored the shares.
SharesFirst == \A o \in Market : post[o] = "save" /\ chain[o] = "PENDING" => o \in stored

\* The inductive invariant.
IInv == /\ TypeOK /\ LogTrue /\ IndexerTrue /\ RecordTrue /\ WaitersAttached
        /\ AfterChain /\ SharesFirst /\ NoLostWakeup /\ SuccessIsReal /\ MarketSharesReady

-----------------------------------------------------------------------------
\* The event to read is one of the registry's.
LEMMA EventTyped ==
  ASSUME TypeOK, next <= Len(log)
  PROVE  /\ next \in 1..Len(log) /\ next + 1 \in 1..(Len(log) + 1)
         /\ Event \in Events /\ Event.order \in Orders
<1>1. log \in Seq(Events) /\ Len(log) \in Nat /\ next \in 1..(Len(log) + 1)
  BY DEF TypeOK, Events
<1>2. next \in 1..Len(log)
  BY <1>1
<1>3. log[next] \in Events
  BY <1>1, <1>2
<1> QED BY <1>1, <1>2, <1>3 DEF Event, Events

\* The idle indexer is well typed.
LEMMA IdleTyped ==
  /\ Idle.pc = "idle"
  /\ Idle \in [pc : {"idle", "lookup", "save", "update", "find", "notify"},
               type : {"REGISTERED"} \cup Terminal, order : Orders, kind : StrategyKind]
<1>1. (CHOOSE o \in Orders : TRUE) \in Orders
  BY RecordAssumption
<1> QED BY <1>1 DEF Idle, StrategyKind

LEMMA RegisterKeeps ==
  ASSUME IInv, NEW o \in Orders, Register(o)
  PROVE  IInv'
<1>1. TypeOK'
  BY DEF Register, IInv, TypeOK, ShareTypeOK, shareVars, Terminal
<1>2. LogTrue' /\ IndexerTrue' /\ RecordTrue'
  BY DEF Register, IInv, TypeOK, LogTrue, IndexerTrue, RecordTrue, Terminal
<1>3. WaitersAttached' /\ NoLostWakeup'
  BY DEF Register, IInv, TypeOK, WaitersAttached, NoLostWakeup, IndexerTrue, RecordTrue
<1>4. AfterChain'
  BY DEF Register, IInv, TypeOK, AfterChain, LogTrue, shareVars, Terminal
<1>5. SharesFirst' /\ MarketSharesReady'
  BY DEF Register, IInv, TypeOK, AfterChain, SharesFirst, MarketSharesReady, shareVars,
         Terminal
<1>6. SuccessIsReal'
  BY DEF Register, IInv, TypeOK, SuccessIsReal, IndexerTrue, RecordTrue
<1> QED BY <1>1, <1>2, <1>3, <1>4, <1>5, <1>6 DEF IInv

LEMMA FinishKeeps ==
  ASSUME IInv, NEW o \in Orders, Finish(o)
  PROVE  IInv'
<1>1. TypeOK'
  BY DEF Finish, IInv, TypeOK, ShareTypeOK, shareVars, Terminal
<1>2. LogTrue' /\ IndexerTrue' /\ RecordTrue'
  BY DEF Finish, IInv, TypeOK, LogTrue, IndexerTrue, RecordTrue, Terminal
<1>3. WaitersAttached' /\ NoLostWakeup'
  BY DEF Finish, IInv, TypeOK, WaitersAttached, NoLostWakeup, IndexerTrue, RecordTrue
<1>4. AfterChain'
  BY DEF Finish, IInv, TypeOK, AfterChain, LogTrue, shareVars, Terminal
<1>5. SharesFirst' /\ MarketSharesReady'
  BY DEF Finish, IInv, TypeOK, AfterChain, SharesFirst, MarketSharesReady, shareVars,
         Terminal
<1>6. SuccessIsReal'
  BY DEF Finish, IInv, TypeOK, SuccessIsReal, IndexerTrue, RecordTrue
<1> QED BY <1>1, <1>2, <1>3, <1>4, <1>5, <1>6 DEF IInv

LEMMA TakeRegisteredKeeps ==
  ASSUME IInv, TakeRegistered
  PROVE  IInv'
<1>1. /\ next \in 1..Len(log) /\ next' \in 1..(Len(log) + 1) /\ Event \in Events
      /\ indexer.pc = "idle" /\ UNCHANGED <<chain, log, record, strategies, post, waiters>>
      /\ UNCHANGED <<channel, restarts, shareVars>>
  BY EventTyped DEF TakeRegistered, Reading, IInv
<1>2. \/ indexer' = indexer
      \/ /\ record[Event.order] = NoRecord
         /\ indexer' = [Idle EXCEPT !.pc = "lookup", !.order = Event.order]
  BY DEF TakeRegistered
<1>3. TypeOK'
  BY <1>1, <1>2 DEF IInv, TypeOK, ShareTypeOK, Events, Idle, StrategyKind, shareVars
<1>4. LogTrue' /\ IndexerTrue' /\ RecordTrue'
  BY <1>1, <1>2 DEF IInv, TypeOK, Events, LogTrue, IndexerTrue, RecordTrue, Idle
<1>5. WaitersAttached' /\ NoLostWakeup' /\ AfterChain' /\ SharesFirst' /\ MarketSharesReady'
      /\ SuccessIsReal'
  BY <1>1, <1>2 DEF IInv, WaitersAttached, NoLostWakeup, AfterChain, SharesFirst,
                    MarketSharesReady, SuccessIsReal, shareVars
<1> QED BY <1>3, <1>4, <1>5 DEF IInv

LEMMA LookUpKindKeeps ==
  ASSUME IInv, LookUpKind
  PROVE  IInv'
<1>1. TypeOK'
  BY DEF LookUpKind, IInv, KindOf, TypeOK, ShareTypeOK, shareVars, StrategyKind
<1>2. LogTrue' /\ IndexerTrue' /\ RecordTrue'
  BY DEF LookUpKind, IInv, KindOf, TypeOK, LogTrue, IndexerTrue, RecordTrue
<1>3. WaitersAttached' /\ NoLostWakeup'
  BY DEF LookUpKind, IInv, KindOf, TypeOK, WaitersAttached, NoLostWakeup, IndexerTrue,
         RecordTrue
<1>4. AfterChain'
  BY DEF LookUpKind, IInv, KindOf, TypeOK, AfterChain, LogTrue, shareVars
<1>5. SharesFirst' /\ MarketSharesReady'
  BY DEF LookUpKind, IInv, KindOf, TypeOK, AfterChain, SharesFirst, MarketSharesReady,
         shareVars
<1>6. SuccessIsReal'
  BY DEF LookUpKind, IInv, KindOf, TypeOK, SuccessIsReal, IndexerTrue, RecordTrue
<1> QED BY <1>1, <1>2, <1>3, <1>4, <1>5, <1>6 DEF IInv

LEMMA SaveRecordKeeps ==
  ASSUME IInv, SaveRecord
  PROVE  IInv'
<1>1. TypeOK'
  BY IdleTyped DEF SaveRecord, IInv, TypeOK, ShareTypeOK, shareVars, StrategyKind
<1>2. LogTrue' /\ IndexerTrue' /\ RecordTrue'
  BY IdleTyped DEF SaveRecord, IInv, TypeOK, LogTrue, IndexerTrue, RecordTrue, Terminal,
                   NoRecord, Idle
<1>3. WaitersAttached' /\ NoLostWakeup'
  BY DEF SaveRecord, IInv, TypeOK, WaitersAttached, NoLostWakeup, IndexerTrue, RecordTrue
<1>4. AfterChain'
  BY DEF SaveRecord, IInv, TypeOK, AfterChain, LogTrue, shareVars
<1>5. SharesFirst' /\ MarketSharesReady'
  BY DEF SaveRecord, IInv, TypeOK, AfterChain, SharesFirst, MarketSharesReady, shareVars
<1>6. SuccessIsReal'
  BY DEF SaveRecord, IInv, TypeOK, SuccessIsReal, IndexerTrue, RecordTrue, NoRecord
<1> QED BY <1>1, <1>2, <1>3, <1>4, <1>5, <1>6 DEF IInv

LEMMA TakeTerminalKeeps ==
  ASSUME IInv, TakeTerminal
  PROVE  IInv'
<1>1. PICK status \in Terminal :
        /\ Reading(status) /\ PruneInBackground(Event.order) /\ next' = next + 1
        /\ indexer' = [pc |-> "update", type |-> status, order |-> Event.order,
                       kind |-> IF record[Event.order] # NoRecord THEN record[Event.order].kind
                                ELSE IF Event.order \in strategies THEN KindOf(Event.order)
                                ELSE "LIMIT"]
        /\ UNCHANGED <<chain, log, record, strategies, post, waiters, channel, restarts>>
  BY DEF TakeTerminal
<1>2. /\ next' \in 1..(Len(log) + 1) /\ Event \in Events /\ indexer.pc = "idle"
      /\ Event.order \in Orders /\ chain[Event.order] = status
  BY <1>1, EventTyped DEF Reading, Event, IInv, LogTrue
<1>3. indexer'.kind \in StrategyKind
  BY <1>1, <1>2 DEF IInv, TypeOK, KindOf, StrategyKind
<1>4. /\ indexer'.pc = "update" /\ indexer'.type = status /\ indexer'.order = Event.order
      /\ indexer' \in [pc : {"idle", "lookup", "save", "update", "find", "notify"},
                       type : {"REGISTERED"} \cup Terminal, order : Orders, kind : StrategyKind]
  BY <1>1, <1>2, <1>3
<1>5. TypeOK'
  BY <1>1, <1>2, <1>4 DEF PruneInBackground, IInv, TypeOK, ShareTypeOK
<1>6. LogTrue' /\ IndexerTrue' /\ RecordTrue'
  BY <1>1, <1>2, <1>4 DEF IInv, LogTrue, IndexerTrue, RecordTrue
<1>7. WaitersAttached' /\ NoLostWakeup' /\ SuccessIsReal'
  BY <1>1, <1>2 DEF IInv, WaitersAttached, NoLostWakeup, SuccessIsReal
<1>8. AfterChain' /\ SharesFirst' /\ MarketSharesReady'
  BY <1>1, <1>2 DEF PruneInBackground, IInv, AfterChain, SharesFirst, MarketSharesReady
<1> QED BY <1>5, <1>6, <1>7, <1>8 DEF IInv

LEMMA UpdateRecordKeeps ==
  ASSUME IInv, UpdateRecord
  PROVE  IInv'
<1>1. PICK o \in Orders :
        /\ o = indexer.order /\ indexer.type \in Terminal /\ chain[o] = indexer.type
        /\ record' = [record EXCEPT ![o].status = IF record[o] = NoRecord THEN @ ELSE indexer.type]
        /\ indexer' = IF indexer.type = "EXECUTED" THEN [indexer EXCEPT !.pc = "find"] ELSE Idle
        /\ UNCHANGED <<chain, log, next, strategies, post, waiters, channel, restarts, shareVars>>
  BY DEF UpdateRecord, UpdateStatusOf, IInv, TypeOK, IndexerTrue
<1>2. /\ record' \in [Orders -> [status : {"NONE", "REGISTERED"} \cup Terminal, kind : StrategyKind]]
      /\ \A p \in Orders \ {o} : record'[p] = record[p]
      /\ record[o] = NoRecord => record'[o] = record[o]
      /\ record[o] # NoRecord => record'[o].status = indexer.type
  BY <1>1 DEF IInv, TypeOK
<1>3. TypeOK'
  BY <1>1, <1>2, IdleTyped DEF IInv, TypeOK, ShareTypeOK, shareVars
<1>4. LogTrue' /\ IndexerTrue' /\ RecordTrue'
  BY <1>1, <1>2, IdleTyped
     DEF IInv, TypeOK, LogTrue, IndexerTrue, RecordTrue, NoRecord, Terminal
<1>5. WaitersAttached' /\ NoLostWakeup'
  BY <1>1, <1>2 DEF IInv, TypeOK, UpdateRecord, WaitersAttached, NoLostWakeup, NoRecord
<1>6. AfterChain' /\ SharesFirst' /\ MarketSharesReady'
  BY <1>1 DEF IInv, AfterChain, SharesFirst, MarketSharesReady, shareVars
<1>7. SuccessIsReal'
  BY <1>1, <1>2 DEF IInv, SuccessIsReal
<1> QED BY <1>3, <1>4, <1>5, <1>6, <1>7 DEF IInv

LEMMA FindRecordKeeps ==
  ASSUME IInv, FindRecord
  PROVE  IInv'
<1>1. TypeOK'
  BY DEF FindRecord, IInv, TypeOK, ShareTypeOK, shareVars, Terminal, StrategyKind
<1>2. LogTrue' /\ IndexerTrue' /\ RecordTrue'
  BY DEF FindRecord, IInv, TypeOK, LogTrue, IndexerTrue, RecordTrue
<1>3. WaitersAttached' /\ NoLostWakeup'
  BY DEF FindRecord, IInv, TypeOK, WaitersAttached, NoLostWakeup, IndexerTrue, RecordTrue
<1>4. AfterChain'
  BY DEF FindRecord, IInv, TypeOK, AfterChain, LogTrue, shareVars
<1>5. SharesFirst' /\ MarketSharesReady'
  BY DEF FindRecord, IInv, TypeOK, AfterChain, SharesFirst, MarketSharesReady, shareVars
<1>6. SuccessIsReal'
  BY DEF FindRecord, IInv, TypeOK, SuccessIsReal, IndexerTrue, RecordTrue
<1> QED BY <1>1, <1>2, <1>3, <1>4, <1>5, <1>6 DEF IInv

LEMMA NotifyExecutedKeeps ==
  ASSUME IInv, NotifyExecuted
  PROVE  IInv'
<1>1. TypeOK'
  BY IdleTyped DEF NotifyExecuted, IInv, TypeOK, ShareTypeOK, shareVars, StrategyKind
<1>2. LogTrue' /\ IndexerTrue' /\ RecordTrue'
  BY IdleTyped DEF NotifyExecuted, IInv, TypeOK, LogTrue, IndexerTrue, RecordTrue, Terminal
<1>3. WaitersAttached' /\ NoLostWakeup'
  BY DEF NotifyExecuted, IInv, TypeOK, WaitersAttached, NoLostWakeup, IndexerTrue,
         RecordTrue
<1>4. AfterChain'
  BY DEF NotifyExecuted, IInv, TypeOK, AfterChain, LogTrue, shareVars
<1>5. SharesFirst' /\ MarketSharesReady'
  BY DEF NotifyExecuted, IInv, TypeOK, AfterChain, SharesFirst, MarketSharesReady, shareVars
<1>6. SuccessIsReal'
  BY DEF NotifyExecuted, IInv, TypeOK, SuccessIsReal, IndexerTrue, RecordTrue
<1> QED BY <1>1, <1>2, <1>3, <1>4, <1>5, <1>6 DEF IInv

LEMMA MissEventsKeeps ==
  ASSUME IInv, MissEvents
  PROVE  IInv'
<1>1. TypeOK'
  BY DEF MissEvents, IInv, TypeOK, ShareTypeOK, shareVars
<1>2. LogTrue' /\ IndexerTrue' /\ RecordTrue'
  BY DEF MissEvents, IInv, TypeOK, LogTrue, IndexerTrue, RecordTrue
<1>3. WaitersAttached' /\ NoLostWakeup'
  BY DEF MissEvents, IInv, TypeOK, WaitersAttached, NoLostWakeup, IndexerTrue, RecordTrue
<1>4. AfterChain'
  BY DEF MissEvents, IInv, TypeOK, AfterChain, LogTrue, shareVars
<1>5. SharesFirst' /\ MarketSharesReady'
  BY DEF MissEvents, IInv, TypeOK, AfterChain, SharesFirst, MarketSharesReady, shareVars
<1>6. SuccessIsReal'
  BY DEF MissEvents, IInv, TypeOK, SuccessIsReal, IndexerTrue, RecordTrue
<1> QED BY <1>1, <1>2, <1>3, <1>4, <1>5, <1>6 DEF IInv

LEMMA PostMarketKeeps ==
  ASSUME IInv, NEW o \in Orders, PostMarket(o)
  PROVE  IInv'
<1>1. TypeOK'
  BY DEF PostMarket, IInv, ForwardAndWait, Move, TypeOK, ShareTypeOK, PostPcs
<1>2. LogTrue' /\ IndexerTrue' /\ RecordTrue'
  BY DEF PostMarket, IInv, ForwardAndWait, Move, TypeOK, LogTrue, IndexerTrue, RecordTrue
<1>3. WaitersAttached' /\ NoLostWakeup'
  BY DEF PostMarket, IInv, ForwardAndWait, Move, TypeOK, WaitersAttached, NoLostWakeup,
         IndexerTrue, RecordTrue
<1>4. AfterChain'
  BY DEF PostMarket, IInv, ForwardAndWait, Move, TypeOK, AfterChain, LogTrue
<1>5. SharesFirst' /\ MarketSharesReady'
  BY DEF PostMarket, IInv, ForwardAndWait, Move, TypeOK, AfterChain, SharesFirst,
         MarketSharesReady
<1>6. SuccessIsReal'
  BY DEF PostMarket, IInv, ForwardAndWait, Move, TypeOK, SuccessIsReal, IndexerTrue,
         RecordTrue
<1> QED BY <1>1, <1>2, <1>3, <1>4, <1>5, <1>6 DEF IInv

LEMMA PostLimitKeeps ==
  ASSUME IInv, NEW o \in Orders, PostLimit(o)
  PROVE  IInv'
<1>1. TypeOK'
  BY DEF PostLimit, IInv, Move, TypeOK, ShareTypeOK, shareVars, PostPcs
<1>2. LogTrue' /\ IndexerTrue' /\ RecordTrue'
  BY DEF PostLimit, IInv, Move, TypeOK, LogTrue, IndexerTrue, RecordTrue
<1>3. WaitersAttached' /\ NoLostWakeup'
  BY DEF PostLimit, IInv, Move, TypeOK, WaitersAttached, NoLostWakeup, IndexerTrue,
         RecordTrue
<1>4. AfterChain'
  BY DEF PostLimit, IInv, Move, TypeOK, AfterChain, LogTrue, shareVars
<1>5. SharesFirst' /\ MarketSharesReady'
  BY DEF PostLimit, IInv, Move, TypeOK, AfterChain, SharesFirst, MarketSharesReady,
         shareVars
<1>6. SuccessIsReal'
  BY DEF PostLimit, IInv, Move, TypeOK, SuccessIsReal, IndexerTrue, RecordTrue
<1> QED BY <1>1, <1>2, <1>3, <1>4, <1>5, <1>6 DEF IInv

LEMMA SaveStrategyKeeps ==
  ASSUME IInv, NEW o \in Orders, SaveStrategy(o)
  PROVE  IInv'
<1>1. TypeOK'
  BY DEF SaveStrategy, IInv, Move, ForwardInBackground, TypeOK, ShareTypeOK, PostPcs,
         shareVars
<1>2. LogTrue' /\ IndexerTrue' /\ RecordTrue'
  BY DEF SaveStrategy, IInv, Move, ForwardInBackground, TypeOK, LogTrue, IndexerTrue,
         RecordTrue
<1>3. WaitersAttached' /\ NoLostWakeup'
  BY DEF SaveStrategy, IInv, Move, ForwardInBackground, TypeOK, WaitersAttached,
         NoLostWakeup, IndexerTrue, RecordTrue
<1>4. AfterChain'
  BY DEF SaveStrategy, IInv, Move, ForwardInBackground, TypeOK, AfterChain, LogTrue,
         shareVars
<1>5. SharesFirst' /\ MarketSharesReady'
  BY RecordAssumption DEF SaveStrategy, IInv, Move, ForwardInBackground, TypeOK,
                          AfterChain, SharesFirst, MarketSharesReady, shareVars
<1>6. SuccessIsReal'
  BY DEF SaveStrategy, IInv, Move, ForwardInBackground, TypeOK, SuccessIsReal, IndexerTrue,
         RecordTrue
<1> QED BY <1>1, <1>2, <1>3, <1>4, <1>5, <1>6 DEF IInv

LEMMA FindKindKeeps ==
  ASSUME IInv, NEW o \in Orders, FindKind(o)
  PROVE  IInv'
<1>1. TypeOK'
  BY DEF FindKind, IInv, Move, TypeOK, ShareTypeOK, shareVars, PostPcs
<1>2. LogTrue' /\ IndexerTrue' /\ RecordTrue'
  BY DEF FindKind, IInv, Move, TypeOK, LogTrue, IndexerTrue, RecordTrue
<1>3. WaitersAttached' /\ NoLostWakeup'
  BY DEF FindKind, IInv, Move, TypeOK, WaitersAttached, NoLostWakeup, IndexerTrue,
         RecordTrue
<1>4. AfterChain'
  BY DEF FindKind, IInv, Move, TypeOK, AfterChain, LogTrue, shareVars
<1>5. SharesFirst' /\ MarketSharesReady'
  BY DEF FindKind, IInv, Move, TypeOK, AfterChain, SharesFirst, MarketSharesReady, shareVars
<1>6. SuccessIsReal'
  BY DEF FindKind, IInv, Move, TypeOK, SuccessIsReal, IndexerTrue, RecordTrue
<1> QED BY <1>1, <1>2, <1>3, <1>4, <1>5, <1>6 DEF IInv

LEMMA UpgradeKindKeeps ==
  ASSUME IInv, NEW o \in Orders, UpgradeKind(o)
  PROVE  IInv'
<1>1. TypeOK'
  BY DEF UpgradeKind, IInv, Move, UpdateKindOf, TypeOK, ShareTypeOK, shareVars, PostPcs,
         StrategyKind
<1>2. LogTrue' /\ IndexerTrue' /\ RecordTrue'
  BY DEF UpgradeKind, IInv, Move, UpdateKindOf, TypeOK, LogTrue, IndexerTrue, RecordTrue
<1>3. WaitersAttached' /\ NoLostWakeup'
  BY DEF UpgradeKind, IInv, Move, UpdateKindOf, TypeOK, WaitersAttached, NoLostWakeup,
         IndexerTrue, RecordTrue
<1>4. AfterChain'
  BY DEF UpgradeKind, IInv, Move, UpdateKindOf, TypeOK, AfterChain, LogTrue, shareVars
<1>5. SharesFirst' /\ MarketSharesReady'
  BY DEF UpgradeKind, IInv, Move, UpdateKindOf, TypeOK, AfterChain, SharesFirst,
         MarketSharesReady, shareVars
<1>6. SuccessIsReal'
  BY DEF UpgradeKind, IInv, Move, UpdateKindOf, TypeOK, SuccessIsReal, IndexerTrue,
         RecordTrue
<1> QED BY <1>1, <1>2, <1>3, <1>4, <1>5, <1>6 DEF IInv

LEMMA FirstCheckKeeps ==
  ASSUME IInv, NEW o \in Orders, FirstCheck(o)
  PROVE  IInv'
<1>1. TypeOK'
  BY DEF FirstCheck, IInv, Move, TypeOK, ShareTypeOK, shareVars, PostPcs
<1>2. LogTrue' /\ IndexerTrue' /\ RecordTrue'
  BY DEF FirstCheck, IInv, Move, TypeOK, LogTrue, IndexerTrue, RecordTrue
<1>3. WaitersAttached' /\ NoLostWakeup'
  BY DEF FirstCheck, IInv, Move, TypeOK, WaitersAttached, NoLostWakeup, IndexerTrue,
         RecordTrue
<1>4. AfterChain'
  BY DEF FirstCheck, IInv, Move, TypeOK, AfterChain, LogTrue, shareVars
<1>5. SharesFirst' /\ MarketSharesReady'
  BY DEF FirstCheck, IInv, Move, TypeOK, AfterChain, SharesFirst, MarketSharesReady,
         shareVars
<1>6. SuccessIsReal'
  BY DEF FirstCheck, IInv, Move, TypeOK, SuccessIsReal, IndexerTrue, RecordTrue
<1> QED BY <1>1, <1>2, <1>3, <1>4, <1>5, <1>6 DEF IInv

LEMMA AttachKeeps ==
  ASSUME IInv, NEW o \in Orders, Attach(o)
  PROVE  IInv'
<1>1. TypeOK'
  BY DEF Attach, IInv, Move, TypeOK, ShareTypeOK, shareVars, PostPcs
<1>2. LogTrue' /\ IndexerTrue' /\ RecordTrue'
  BY DEF Attach, IInv, Move, TypeOK, LogTrue, IndexerTrue, RecordTrue
<1>3. WaitersAttached' /\ NoLostWakeup'
  BY DEF Attach, IInv, Move, TypeOK, WaitersAttached, NoLostWakeup, IndexerTrue, RecordTrue
<1>4. AfterChain'
  BY DEF Attach, IInv, Move, TypeOK, AfterChain, LogTrue, shareVars
<1>5. SharesFirst' /\ MarketSharesReady'
  BY DEF Attach, IInv, Move, TypeOK, AfterChain, SharesFirst, MarketSharesReady, shareVars
<1>6. SuccessIsReal'
  BY DEF Attach, IInv, Move, TypeOK, SuccessIsReal, IndexerTrue, RecordTrue
<1> QED BY <1>1, <1>2, <1>3, <1>4, <1>5, <1>6 DEF IInv

LEMMA SecondCheckKeeps ==
  ASSUME IInv, NEW o \in Orders, SecondCheck(o)
  PROVE  IInv'
<1>1. TypeOK'
  BY DEF SecondCheck, IInv, Move, TypeOK, ShareTypeOK, shareVars, PostPcs
<1>2. LogTrue' /\ IndexerTrue' /\ RecordTrue'
  BY DEF SecondCheck, IInv, Move, TypeOK, LogTrue, IndexerTrue, RecordTrue
<1>3. WaitersAttached' /\ NoLostWakeup'
  BY DEF SecondCheck, IInv, Move, TypeOK, WaitersAttached, NoLostWakeup, IndexerTrue,
         RecordTrue
<1>4. AfterChain'
  BY DEF SecondCheck, IInv, Move, TypeOK, AfterChain, LogTrue, shareVars
<1>5. SharesFirst' /\ MarketSharesReady'
  BY RecordAssumption DEF SecondCheck, IInv, Move, TypeOK, AfterChain, SharesFirst,
                          MarketSharesReady, shareVars
<1>6. SuccessIsReal'
  BY DEF SecondCheck, IInv, Move, TypeOK, SuccessIsReal, IndexerTrue, RecordTrue
<1> QED BY <1>1, <1>2, <1>3, <1>4, <1>5, <1>6 DEF IInv

LEMMA ReceiveKeeps ==
  ASSUME IInv, NEW o \in Orders, Receive(o)
  PROVE  IInv'
<1>1. TypeOK'
  BY DEF Receive, IInv, Move, TypeOK, ShareTypeOK, shareVars, PostPcs
<1>2. LogTrue' /\ IndexerTrue' /\ RecordTrue'
  BY DEF Receive, IInv, Move, TypeOK, LogTrue, IndexerTrue, RecordTrue
<1>3. WaitersAttached' /\ NoLostWakeup'
  BY DEF Receive, IInv, Move, TypeOK, WaitersAttached, NoLostWakeup, IndexerTrue, RecordTrue
<1>4. AfterChain'
  BY DEF Receive, IInv, Move, TypeOK, AfterChain, LogTrue, shareVars
<1>5. SharesFirst' /\ MarketSharesReady'
  BY DEF Receive, IInv, Move, TypeOK, AfterChain, SharesFirst, MarketSharesReady, shareVars
<1>6. SuccessIsReal'
  BY DEF Receive, IInv, Move, TypeOK, SuccessIsReal, IndexerTrue, RecordTrue
<1> QED BY <1>1, <1>2, <1>3, <1>4, <1>5, <1>6 DEF IInv

LEMMA GiveUpWaitingKeeps ==
  ASSUME IInv, NEW o \in Orders, GiveUpWaiting(o)
  PROVE  IInv'
<1>1. TypeOK'
  BY DEF GiveUpWaiting, IInv, Move, TypeOK, ShareTypeOK, shareVars, PostPcs
<1>2. LogTrue' /\ IndexerTrue' /\ RecordTrue'
  BY DEF GiveUpWaiting, IInv, Move, TypeOK, LogTrue, IndexerTrue, RecordTrue
<1>3. WaitersAttached' /\ NoLostWakeup'
  BY DEF GiveUpWaiting, IInv, Move, TypeOK, WaitersAttached, NoLostWakeup, IndexerTrue,
         RecordTrue
<1>4. AfterChain'
  BY DEF GiveUpWaiting, IInv, Move, TypeOK, AfterChain, LogTrue, shareVars
<1>5. SharesFirst' /\ MarketSharesReady'
  BY DEF GiveUpWaiting, IInv, Move, TypeOK, AfterChain, SharesFirst, MarketSharesReady,
         shareVars
<1>6. SuccessIsReal'
  BY DEF GiveUpWaiting, IInv, Move, TypeOK, SuccessIsReal, IndexerTrue, RecordTrue
<1> QED BY <1>1, <1>2, <1>3, <1>4, <1>5, <1>6 DEF IInv

LEMMA RestartKeeps ==
  ASSUME IInv, Restart
  PROVE  IInv'
<1>1. TypeOK'
  BY IdleTyped, RecordAssumption DEF Restart, IInv, DropRequests, TypeOK, ShareTypeOK,
                                     shareVars, PostPcs, StrategyKind
<1>2. LogTrue' /\ IndexerTrue' /\ RecordTrue'
  BY IdleTyped DEF Restart, IInv, DropRequests, TypeOK, LogTrue, IndexerTrue, RecordTrue
<1>3. WaitersAttached' /\ NoLostWakeup'
  BY DEF Restart, IInv, DropRequests, TypeOK, WaitersAttached, NoLostWakeup, IndexerTrue,
         RecordTrue
<1>4. AfterChain'
  BY DEF Restart, IInv, DropRequests, TypeOK, AfterChain, LogTrue, shareVars
<1>5. SharesFirst' /\ MarketSharesReady'
  BY RecordAssumption DEF Restart, IInv, DropRequests, TypeOK, AfterChain, SharesFirst,
                          MarketSharesReady, shareVars
<1>6. SuccessIsReal'
  BY DEF Restart, IInv, DropRequests, TypeOK, SuccessIsReal, IndexerTrue, RecordTrue
<1> QED BY <1>1, <1>2, <1>3, <1>4, <1>5, <1>6 DEF IInv

LEMMA ShareStepKeeps ==
  ASSUME IInv, NEW o \in Orders, ShareStep(o), UNCHANGED recordVars
  PROVE  IInv'
<1>1. TypeOK'
  BY DEF ShareStep, IInv, InsertShares, LoseForward, DeleteShares, LosePrune, recordVars,
         TypeOK, ShareTypeOK
<1>2. LogTrue' /\ IndexerTrue' /\ RecordTrue'
  BY DEF ShareStep, IInv, InsertShares, LoseForward, DeleteShares, LosePrune, recordVars,
         TypeOK, LogTrue, IndexerTrue, RecordTrue
<1>3. WaitersAttached' /\ NoLostWakeup'
  BY DEF ShareStep, IInv, InsertShares, LoseForward, DeleteShares, LosePrune, recordVars,
         TypeOK, WaitersAttached, NoLostWakeup, IndexerTrue, RecordTrue
<1>4. AfterChain'
  BY DEF ShareStep, IInv, InsertShares, LoseForward, DeleteShares, LosePrune, recordVars,
         TypeOK, AfterChain, LogTrue, Terminal
<1>5. SharesFirst' /\ MarketSharesReady'
  BY DEF ShareStep, IInv, InsertShares, LoseForward, DeleteShares, LosePrune, recordVars,
         TypeOK, AfterChain, SharesFirst, MarketSharesReady, Terminal
<1>6. SuccessIsReal'
  BY DEF ShareStep, IInv, InsertShares, LoseForward, DeleteShares, LosePrune, recordVars,
         TypeOK, SuccessIsReal, IndexerTrue, RecordTrue
<1> QED BY <1>1, <1>2, <1>3, <1>4, <1>5, <1>6 DEF IInv

LEMMA InitHolds == Init => IInv
<1> SUFFICES ASSUME Init PROVE IInv
  OBVIOUS
<1>1. /\ log = <<>> /\ Len(log) = 0 /\ next = 1 /\ indexer.pc = "idle"
      /\ \A o \in Orders : chain[o] = "NONE" /\ record[o] = NoRecord /\ post[o] = "none"
      /\ strategies = {} /\ waiters = {} /\ channel = {} /\ prunes = {}
  BY IdleTyped DEF Init, ShareInit
<1>2. NoRecord.status = "NONE" /\ NoRecord \in [status : {"NONE", "REGISTERED"} \cup Terminal,
                                                kind : StrategyKind]
  BY DEF NoRecord, StrategyKind
<1>3. TypeOK
  BY <1>1, <1>2, IdleTyped, RecordAssumption
     DEF Init, ShareInit, TypeOK, ShareTypeOK, PostPcs
<1>4. LogTrue /\ IndexerTrue /\ RecordTrue
  BY <1>1, <1>2 DEF LogTrue, IndexerTrue, RecordTrue, Terminal
<1>5. WaitersAttached /\ NoLostWakeup /\ SuccessIsReal
  BY <1>1 DEF WaitersAttached, NoLostWakeup, SuccessIsReal
<1>6. AfterChain /\ SharesFirst /\ MarketSharesReady
  BY <1>1, RecordAssumption DEF AfterChain, SharesFirst, MarketSharesReady
<1> QED BY <1>3, <1>4, <1>5, <1>6 DEF IInv

LEMMA StutterKeeps ==
  ASSUME IInv, UNCHANGED vars
  PROVE  IInv'
<1>1. UNCHANGED recordVars /\ UNCHANGED shareVars
  BY DEF vars
<1>2. TypeOK'
  BY <1>1 DEF recordVars, shareVars, IInv, TypeOK, ShareTypeOK
<1>3. LogTrue' /\ IndexerTrue' /\ RecordTrue'
  BY <1>1 DEF recordVars, IInv, LogTrue, IndexerTrue, RecordTrue
<1>4. WaitersAttached' /\ NoLostWakeup' /\ SuccessIsReal'
  BY <1>1 DEF recordVars, IInv, WaitersAttached, NoLostWakeup, SuccessIsReal
<1>5. AfterChain' /\ SharesFirst' /\ MarketSharesReady'
  BY <1>1 DEF recordVars, shareVars, IInv, AfterChain, SharesFirst, MarketSharesReady
<1> QED BY <1>2, <1>3, <1>4, <1>5 DEF IInv

LEMMA StepKeeps == IInv /\ [Next]_vars => IInv'
<1> SUFFICES ASSUME IInv, [Next]_vars PROVE IInv'
  OBVIOUS
<1>1. CASE IndexerStep
  BY <1>1, TakeRegisteredKeeps, LookUpKindKeeps, SaveRecordKeeps, TakeTerminalKeeps,
     UpdateRecordKeeps, FindRecordKeeps, NotifyExecutedKeeps, MissEventsKeeps DEF IndexerStep
<1>2. CASE Restart
  BY <1>2, RestartKeeps
<1>3. ASSUME NEW o \in Orders, PostStep(o)
      PROVE  IInv'
  BY <1>3, PostMarketKeeps, PostLimitKeeps, SaveStrategyKeeps, FindKindKeeps, UpgradeKindKeeps,
     FirstCheckKeeps, AttachKeeps, SecondCheckKeeps, ReceiveKeeps, GiveUpWaitingKeeps
     DEF PostStep
<1>4. ASSUME NEW o \in Orders, Register(o) \/ Finish(o)
      PROVE  IInv'
  BY <1>4, RegisterKeeps, FinishKeeps
<1>5. ASSUME NEW o \in Orders, ShareStep(o) /\ UNCHANGED recordVars
      PROVE  IInv'
  BY <1>5, ShareStepKeeps
<1> QED BY <1>1, <1>2, <1>3, <1>4, <1>5, StutterKeeps DEF Next

LEMMA Inductive == Spec => []IInv
BY InitHolds, StepKeeps, PTL DEF Spec

-----------------------------------------------------------------------------
(* Theorems. *)

\* The variables have their types.
THEOREM RecordsTyped == Spec => []TypeOK
<1>1. IInv => TypeOK
  BY DEF IInv
<1> QED BY <1>1, Inductive, PTL

\* WaitForExecuted loses no wakeup: whenever the record of an order says
\* EXECUTED and its POST waits, the record is in the channel or the indexer is
\* about to put it there.
THEOREM NoWakeupLost == Spec => []NoLostWakeup
<1>1. IInv => NoLostWakeup
  BY DEF IInv
<1> QED BY <1>1, Inductive, PTL

\* registerStrategy answers "executed" only for an order the registry executed,
\* with any log, after missed and replayed events and after restarts.
THEOREM ExecutedIsTrue == Spec => []SuccessIsReal
<1>1. IInv => SuccessIsReal
  BY DEF IInv
<1> QED BY <1>1, Inductive, PTL

\* A market order that is saved and pending on chain has its shares at the
\* keeper: they are stored first, and only terminal events prune them.
THEOREM SharesComeFirst == Spec => []MarketSharesReady
<1>1. IInv => MarketSharesReady
  BY DEF IInv
<1> QED BY <1>1, Inductive, PTL
=============================================================================
