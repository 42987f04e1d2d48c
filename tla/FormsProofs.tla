---------------------------- MODULE FormsProofs ----------------------------
(***************************************************************************)
(* Proofs about the browser's pages, for any number of overlapping         *)
(* submissions and transactions, any rounds, any interval and any inputs:  *)
(* the chain comes first, what is on chain can be recovered, a confirmed   *)
(* payload is sent and that of an order once, the rounds of DCA groups     *)
(* have nonces of their own and are registered before the window of any    *)
(* but the first closes, and an order fills at the prices its owner asked  *)
(* for.  There are five invariants, each over the ones before it that it   *)
(* needs.                                                                  *)
(***************************************************************************)
EXTENDS Forms, FiniteSetTheorems, TLAPS

\* The commitments the two pages can make.
Preimages == {CommitmentHash(input, n) : input \in Inputs, n \in Nat}
             \cup {Round(i, g, n, t) : i \in 1..Rounds, g \in Nat, n \in Nat, t \in Nat}

Statuses == {"prompt", "rejected", "sent", "mined", "reverted"}
Tx == [batch : Seq(Preimages), status : Statuses]
AttemptRecord == [pc : Pcs, form : Pages, input : Inputs \cup {{}}, nonce : Nat,
                  batch : Seq(Preimages), mounted : BOOLEAN]

\* An order's attempt has the order that was filled in.
Typed ==
  /\ nonceRef \in Nat /\ drawn \in Nat
  /\ attempt \in [Attempts -> AttemptRecord]
  /\ \A a \in Attempts : attempt[a].pc # "off" /\ attempt[a].form = "orders" =>
       attempt[a].input \in Inputs
  /\ txs \in Seq(Tx) /\ Len(txs) <= MaxTxs
  /\ registered \subseteq Preimages
  /\ sent \in [TxIds -> Nat]
  /\ clock \in Instants \cup {0}

\* The page's payload is that of the transaction its hook follows.
Followed == hook.tx = pendingPost /\ pendingPost \in 0..Len(txs)

\* What was sent is mined, and what is mined is registered.
MinedFirst ==
  /\ \A k \in TxIds : sent[k] > 0 => k \in DOMAIN txs /\ txs[k].status = "mined"
  /\ \A k \in DOMAIN txs :
       txs[k].status = "mined" => Commitments(txs[k].batch) \subseteq registered

\* Records are saved before the wallet is asked for a transaction.
SavedFirst ==
  /\ \A a \in Attempts :
       attempt[a].pc = "register" => Commitments(attempt[a].batch) \subseteq saved
  /\ \A k \in DOMAIN txs : Commitments(txs[k].batch) \subseteq saved
  /\ registered \subseteq saved

IInv == Typed /\ Followed /\ MinedFirst /\ SavedFirst

-----------------------------------------------------------------------------
(* The schedule. *)

\* Jitter takes less than half an interval.
LEMMA JitterSmall ==
  ASSUME NEW interval \in Nat \ {0}
  PROVE  Jitter(interval) \in Nat /\ 2 * Jitter(interval) < interval
BY DEF Jitter

\* Multiples of an interval are an interval apart.
LEMMA Multiples ==
  ASSUME NEW i \in Nat, NEW j \in Nat, i < j, NEW interval \in Nat
  PROVE  i * interval + interval <= j * interval
<1>1. PICK d \in Nat : j = i + 1 + d
  <2> WITNESS j - i - 1 \in Nat
  <2> QED OBVIOUS
<1>2. j * interval = i * interval + interval + d * interval
  BY <1>1
<1>3. d * interval \in Nat /\ i * interval \in Nat
  OBVIOUS
<1> QED BY <1>2, <1>3

\* For every number of rounds, interval and time of planning: windows open in
\* the future, close before their round expires, and one ends before the next
\* opens.
THEOREM ScheduleSound ==
  ASSUME NEW rounds \in Nat, NEW interval \in Nat \ {0}, NEW now \in Nat,
         NEW i \in 1..rounds
  PROVE  LET w == buildSchedule(rounds, interval, now)
         IN  /\ Open(w[i], now)
             /\ \A j \in 1..rounds : i < j => Apart(w[i], w[j])
<1> DEFINE w == buildSchedule(rounds, interval, now)
<1>1. Jitter(interval) \in Nat /\ 2 * Jitter(interval) < interval
  BY JitterSmall
<1>2. \A j \in 1..rounds : /\ w[j].lo = (now + j * interval) - Jitter(interval)
                           /\ w[j].hi = now + j * interval + Jitter(interval)
                           /\ w[j].expiry = now + j * interval + Jitter(interval) + interval
  <2> SUFFICES ASSUME NEW j \in 1..rounds
               PROVE  /\ w[j].lo = (now + j * interval) - Jitter(interval)
                      /\ w[j].hi = now + j * interval + Jitter(interval)
                      /\ w[j].expiry = now + j * interval + Jitter(interval) + interval
    OBVIOUS
  <2>1. w[j] = Window(j, interval, now)
    BY DEF buildSchedule
  <2>2. /\ Window(j, interval, now).lo = (now + j * interval) - Jitter(interval)
        /\ Window(j, interval, now).hi = (now + j * interval) + Jitter(interval)
        /\ Window(j, interval, now).expiry
             = ((now + j * interval) + Jitter(interval)) + interval
    BY DEF Window
  <2> HIDE DEF w
  <2> QED BY <2>1, <2>2
<1>3. i * interval \in Nat /\ 0 * interval + interval <= i * interval
  BY Multiples
<1>4. Open(w[i], now)
  BY <1>1, <1>2, <1>3 DEF Open
<1>5. ASSUME NEW j \in 1..rounds, i < j PROVE Apart(w[i], w[j])
  <2>1. i * interval + interval <= j * interval /\ j * interval \in Nat
    BY <1>5, Multiples
  <2>2. /\ w[i].hi = now + i * interval + Jitter(interval)
        /\ w[j].lo = (now + j * interval) - Jitter(interval)
    BY <1>2, <1>5
  <2> HIDE DEF w
  <2>3. now + i * interval + Jitter(interval) < (now + j * interval) - Jitter(interval)
    <3> DEFINE x == i * interval
               y == j * interval
    <3>1. x \in Nat /\ y \in Nat /\ x + interval <= y
      BY <1>3, <2>1
    <3> HIDE DEF x, y
    <3>2. now + x + Jitter(interval) < (now + y) - Jitter(interval)
      BY <1>1, <3>1
    <3> QED BY <3>2 DEF x, y
  <2> QED BY <2>2, <2>3 DEF Apart
<1> QED BY <1>4, <1>5

-----------------------------------------------------------------------------
(* Steps that reach neither the chain nor the payloads. *)

\* They only have to keep the attempts well formed and their records saved.
LEMMA QuietStep ==
  ASSUME IInv, UNCHANGED <<txs, registered, sent, saved, hook, pendingPost>>,
         nonceRef' \in Nat, drawn' \in Nat, clock' \in Instants \cup {0},
         attempt' \in [Attempts -> AttemptRecord],
         \A a \in Attempts :
           /\ attempt'[a].pc # "off" /\ attempt'[a].form = "orders" => attempt'[a].input \in Inputs
           /\ attempt'[a].pc = "register" =>
                attempt[a].pc = "register" /\ attempt'[a].batch = attempt[a].batch
  PROVE  IInv'
BY DEF IInv, Typed, Followed, MinedFirst, SavedFirst, Commitments

\* A click, the list of keepers, an error.
LEMMA EarlySteps ==
  ASSUME IInv, NEW a \in Attempts, Clicks(a) \/ ListKeepers(a) \/ Fails(a)
  PROVE  IInv'
<1>1. /\ attempt \in [Attempts -> AttemptRecord] /\ nonceRef \in Nat /\ drawn \in Nat
      /\ clock \in Instants \cup {0}
      /\ \A b \in Attempts : attempt[b].pc # "off" /\ attempt[b].form = "orders" =>
           attempt[b].input \in Inputs
  BY DEF IInv, Typed
<1>2. Off \in AttemptRecord /\ Off.pc = "off"
  BY DEF Off, AttemptRecord, Pcs, Pages
<1>3. CASE SubmitGroup(a)
  <2>1. attempt' = [attempt EXCEPT ![a] = [Off EXCEPT !.pc = "keepers", !.form = "dca",
                      !.input = {}, !.nonce = nonceRef, !.mounted = TRUE]]
    BY <1>3 DEF SubmitGroup, Begin
  <2>2. [Off EXCEPT !.pc = "keepers", !.form = "dca", !.input = {}, !.nonce = nonceRef,
           !.mounted = TRUE] \in AttemptRecord
    BY <1>1, <1>2 DEF AttemptRecord, Pcs, Pages
  <2> QED BY <1>1, <1>3, <2>1, <2>2, QuietStep
          DEF SubmitGroup, Begin, Off, pageVars, chainVars
<1>4. ASSUME NEW input \in Inputs, HandleSubmit(a, input) PROVE IInv'
  <2>1. attempt' = [attempt EXCEPT ![a] = [Off EXCEPT !.pc = "keepers", !.form = "orders",
                      !.input = input, !.nonce = nonceRef, !.mounted = TRUE]]
    BY <1>4 DEF HandleSubmit, Begin
  <2>2. [Off EXCEPT !.pc = "keepers", !.form = "orders", !.input = input, !.nonce = nonceRef,
           !.mounted = TRUE] \in AttemptRecord
    BY <1>1, <1>2 DEF AttemptRecord, Pcs, Pages
  <2> QED BY <1>1, <1>4, <2>1, <2>2, QuietStep
          DEF HandleSubmit, Begin, Off, pageVars, chainVars
<1>5. CASE ListKeepers(a)
  <2>1. attempt' = [attempt EXCEPT ![a].pc = "sign"] /\ attempt[a].pc = "keepers"
    BY <1>5 DEF ListKeepers, Go
  <2>2. [attempt[a] EXCEPT !.pc = "sign"] \in AttemptRecord
    BY <1>1 DEF AttemptRecord, Pcs
  <2> QED BY <1>1, <1>5, <2>1, <2>2, QuietStep DEF ListKeepers, AttemptRecord, chainVars
<1>6. CASE Fails(a)
  <2>1. attempt' = [attempt EXCEPT ![a] = Off]
    BY <1>6 DEF Fails
  <2> QED BY <1>1, <1>2, <1>6, <2>1, QuietStep DEF Fails, chainVars
<1> QED BY <1>3, <1>4, <1>5, <1>6 DEF Clicks

\* A signature makes the batch: one order, or the rounds of a group.
LEMMA Signs ==
  ASSUME IInv, NEW a \in Attempts, SignOrder(a) \/ SignGroup(a)
  PROVE  IInv'
<1>1. /\ attempt \in [Attempts -> AttemptRecord] /\ nonceRef \in Nat /\ drawn \in Nat
      /\ clock \in Instants \cup {0}
      /\ \A b \in Attempts : attempt[b].pc # "off" /\ attempt[b].form = "orders" =>
           attempt[b].input \in Inputs
      /\ attempt[a].nonce \in Nat /\ attempt[a].pc = "sign"
  BY DEF IInv, Typed, AttemptRecord, SignOrder, SignGroup
<1>2. CASE SignOrder(a)
  <2> DEFINE batch == <<CommitmentHash(attempt[a].input, attempt[a].nonce)>>
  <2>1. CommitmentHash(attempt[a].input, attempt[a].nonce) \in Preimages
    BY <1>1, <1>2 DEF SignOrder, Preimages
  <2>2. batch \in Seq(Preimages)
    BY <2>1
  <2>3. attempt' = [attempt EXCEPT ![a] = [attempt[a] EXCEPT !.pc = "save", !.batch = batch]]
    BY <1>1, <1>2 DEF SignOrder, AttemptRecord
  <2>4. [attempt[a] EXCEPT !.pc = "save", !.batch = batch] \in AttemptRecord
    BY <1>1, <2>2 DEF AttemptRecord, Pcs
  <2> HIDE DEF batch
  <2> QED BY <1>1, <1>2, <2>3, <2>4, QuietStep DEF SignOrder, AttemptRecord, chainVars
<1>3. CASE SignGroup(a)
  <2> DEFINE batch == [i \in 1..Rounds |->
                         Round(i, attempt[a].nonce, RoundNonces(a)[i], clock)]
  <2>1. Rounds \in Nat
    BY RoundsAssumption
  <2>2. ASSUME NEW i \in 1..Rounds
        PROVE  Round(i, attempt[a].nonce, RoundNonces(a)[i], clock) \in Preimages
    <3>1. RoundNonces(a)[i] \in Nat
      BY <1>1, <2>1 DEF RoundNonces
    <3>2. clock \in Nat
      BY <1>1, PageAssumption
    <3> QED BY <1>1, <3>1, <3>2 DEF Preimages
  <2>3. batch \in Seq(Preimages)
    BY <2>1, <2>2
  <2>4. attempt' = [attempt EXCEPT ![a] = [attempt[a] EXCEPT !.pc = "save", !.batch = batch]]
    BY <1>1, <1>3 DEF SignGroup, AttemptRecord
  <2>5. [attempt[a] EXCEPT !.pc = "save", !.batch = batch] \in AttemptRecord
    BY <1>1, <2>3 DEF AttemptRecord, Pcs
  <2>6. /\ drawn' \in Nat
        /\ UNCHANGED <<txs, registered, clock, sent, saved, hook, pendingPost, nonceRef>>
    BY <1>1, <1>3, <2>1 DEF SignGroup, chainVars
  <2> HIDE DEF batch
  <2>7. attempt' \in [Attempts -> AttemptRecord]
    BY <1>1, <2>4, <2>5
  <2>8. \A b \in Attempts :
          \/ attempt'[b] = attempt[b]
          \/ b = a /\ attempt'[b].pc = "save" /\ attempt'[b].form = attempt[a].form
             /\ attempt'[b].input = attempt[a].input
    BY <1>1, <2>4 DEF AttemptRecord
  <2> QED BY <1>1, <2>6, <2>7, <2>8, QuietStep
<1> QED BY <1>2, <1>3

\* The records are put before the wallet is asked.
LEMMA Saves ==
  ASSUME IInv, NEW a \in Attempts, Save(a)
  PROVE  IInv'
<1>1. /\ attempt \in [Attempts -> AttemptRecord]
      /\ attempt' = [attempt EXCEPT ![a] = [attempt[a] EXCEPT !.pc = "register"]]
      /\ attempt[a].pc = "save"
  BY DEF IInv, Typed, Save, Go, AttemptRecord
<1>2. [attempt[a] EXCEPT !.pc = "register"] \in AttemptRecord
  BY <1>1 DEF AttemptRecord, Pcs
<1>3. saved' = saved \cup Commitments(attempt[a].batch)
  BY DEF Save
<1>4. Typed'
  BY <1>1, <1>2 DEF IInv, Typed, Save, pageVars, chainVars, AttemptRecord
<1>5. SavedFirst'
  <2>1. \A b \in Attempts : attempt'[b].batch = attempt[b].batch
    BY <1>1 DEF AttemptRecord
  <2>2. \A b \in Attempts : attempt'[b].pc = "register" => attempt[b].pc = "register" \/ b = a
    BY <1>1
  <2> QED BY <1>3, <2>1, <2>2 DEF IInv, SavedFirst, Save, chainVars, Commitments
<1> QED BY <1>4, <1>5 DEF IInv, Followed, MinedFirst, Save, pageVars, chainVars, Commitments

-----------------------------------------------------------------------------
(* Steps of the payload. *)

\* The effects send the payload of a transaction that is mined, or nothing.
LEMMA SyncSound ==
  ASSUME Typed, NEW h, NEW pend, h.tx = pend, pend \in 0..MaxTxs,
         NEW synced, NEW hash, NEW away,
         SyncOrder(h, pend, synced, hash, away) \/ SyncGroup(h, pend, synced, away)
  PROVE  /\ sent' \in [TxIds -> Nat]
         /\ \A k \in TxIds : sent'[k] > 0 =>
              sent[k] > 0 \/ (k = pend /\ k # 0 /\ txs'[k].status = "mined")
<1>1. sent \in [TxIds -> Nat] /\ MaxTxs \in Nat
  BY PageAssumption DEF Typed
<1>2. CASE sent' = sent
  BY <1>1, <1>2
<1>3. CASE sent' = [sent EXCEPT ![pend] = @ + 1] /\ pend # 0 /\ txs'[pend].status = "mined"
  <2>1. pend \in TxIds
    BY <1>1, <1>3 DEF TxIds
  <2> QED BY <1>1, <1>3, <2>1
<1>4. CASE SyncOrder(h, pend, synced, hash, away)
  BY <1>2, <1>3, <1>4 DEF SyncOrder, IsSuccess
<1>5. CASE SyncGroup(h, pend, synced, away)
  BY <1>2, <1>3, <1>5 DEF SyncGroup, IsSuccess
<1> QED BY <1>4, <1>5

\* The hook polls, the network changes, the backend answers, a page is left.
LEMMA PageSteps ==
  ASSUME IInv, \/ SeeReceipt \/ SwitchNetwork \/ BackendAnswers \/ Navigate \/ Reload
  PROVE  IInv'
<1> USE DEF IInv
<1>1. /\ attempt \in [Attempts -> AttemptRecord] /\ nonceRef \in Nat /\ drawn \in Nat
      /\ Len(txs) \in Nat /\ MaxTxs \in Nat /\ clock \in Instants \cup {0}
      /\ pendingPost \in 0..MaxTxs /\ hook.tx = pendingPost
      /\ \A b \in Attempts : attempt[b].pc # "off" /\ attempt[b].form = "orders" =>
           attempt[b].input \in Inputs
  BY PageAssumption DEF Typed, Followed
<1>2. ASSUME UNCHANGED <<txs, registered, clock, saved, attempt, pendingPost, drawn, nonceRef>>,
             hook'.tx = hook.tx,
             NEW h, NEW away, h.tx = pendingPost, Effect(h, pendingPost, postSynced, syncHash, away)
      PROVE  IInv'
  <2>1. /\ sent' \in [TxIds -> Nat]
        /\ \A k \in TxIds : sent'[k] > 0 =>
             sent[k] > 0 \/ (k = pendingPost /\ k # 0 /\ txs'[k].status = "mined")
    BY <1>1, <1>2, SyncSound DEF Effect
  <2>2. Typed'
    BY <1>2, <2>1 DEF Typed
  <2>3. MinedFirst'
    BY <1>2, <2>1 DEF MinedFirst, Followed, Typed, Commitments
  <2> QED BY <1>2, <2>2, <2>3 DEF Followed, SavedFirst, Commitments
<1>3. CASE SeeReceipt
  <2>1. /\ hook' = [hook EXCEPT !.seen = TRUE]
        /\ Effect(hook', pendingPost, postSynced, syncHash, FALSE)
    BY <1>3 DEF SeeReceipt
  <2>2. hook'.tx = hook.tx
    BY <2>1
  <2> QED BY <1>1, <1>2, <1>3, <2>1, <2>2 DEF SeeReceipt, chainVars
<1>4. CASE SwitchNetwork
  BY <1>1, <1>2, <1>4 DEF SwitchNetwork, chainVars
<1>5. CASE BackendAnswers
  BY <1>1, <1>5, QuietStep DEF BackendAnswers, AnswerOrder, AnswerGroup, chainVars
<1>6. ASSUME NEW p, Mount(p), UNCHANGED <<sent, chainVars, switches, saved>>,
             attempt' \in [Attempts -> AttemptRecord],
             \A b \in Attempts : \/ attempt'[b] = [attempt[b] EXCEPT !.mounted = FALSE]
                                 \/ attempt'[b] = Off
      PROVE  IInv'
  <2>1. \A b \in Attempts :
          \/ attempt'[b].pc = "off"
          \/ /\ attempt'[b].pc = attempt[b].pc /\ attempt'[b].form = attempt[b].form
             /\ attempt'[b].input = attempt[b].input /\ attempt'[b].batch = attempt[b].batch
    BY <1>1, <1>6 DEF Off, AttemptRecord
  <2>2. nonceRef' \in Nat /\ drawn' \in Nat /\ hook'.tx = 0 /\ pendingPost' = 0
    BY <1>1, <1>6 DEF Mount, NoHook
  <2>3. Typed'
    BY <1>1, <1>6, <2>1, <2>2 DEF Typed, chainVars
  <2>4. Followed'
    BY <1>1, <1>6, <2>2 DEF Followed, chainVars
  <2>5. SavedFirst'
    BY <1>6, <2>1 DEF SavedFirst, chainVars, Commitments
  <2> QED BY <1>6, <2>3, <2>4, <2>5 DEF MinedFirst, chainVars, Commitments
<1>7. CASE Navigate
  <2>1. attempt' = [a \in Attempts |-> [attempt[a] EXCEPT !.mounted = FALSE]]
    BY <1>7 DEF Navigate
  <2>2. \A a \in Attempts : [attempt[a] EXCEPT !.mounted = FALSE] \in AttemptRecord
    BY <1>1 DEF AttemptRecord
  <2> QED BY <1>6, <1>7, <2>1, <2>2 DEF Navigate
<1>8. CASE Reload
  <2>1. attempt' = [a \in Attempts |-> Off] /\ Off \in AttemptRecord
    BY <1>8 DEF Reload, Off, AttemptRecord, Pcs, Pages
  <2> QED BY <1>6, <1>8, <2>1 DEF Reload
<1> QED BY <1>3, <1>4, <1>5, <1>7, <1>8

-----------------------------------------------------------------------------
(* Steps of the wallet and the chain. *)

\* The wallet is handed a batch whose records are saved.
LEMMA Registers ==
  ASSUME IInv, NEW a \in Attempts, RegisterOrder(a) \/ RegisterGroup(a)
  PROVE  IInv'
<1> USE DEF IInv
<1> DEFINE tx == [batch |-> attempt[a].batch, status |-> "prompt"]
<1>1. /\ attempt \in [Attempts -> AttemptRecord] /\ txs \in Seq(Tx)
      /\ Len(txs) \in Nat /\ MaxTxs \in Nat /\ Len(txs) < MaxTxs
      /\ attempt[a].pc = "register" /\ attempt' = [attempt EXCEPT ![a] = Off]
      /\ txs' = Append(txs, tx)
      /\ UNCHANGED <<registered, clock, switches, drawn, saved, nonceRef>>
  BY PageAssumption DEF Typed, RegisterOrder, RegisterGroup, WriteContract, pageVars
<1>2. Off \in AttemptRecord /\ Off.pc = "off"
  BY DEF Off, AttemptRecord, Pcs, Pages
<1>3. tx \in Tx /\ tx.status = "prompt" /\ tx.batch = attempt[a].batch
  BY <1>1 DEF Tx, Statuses, AttemptRecord
<1> HIDE DEF tx
<1>4. /\ txs' \in Seq(Tx) /\ Len(txs') = Len(txs) + 1
      /\ DOMAIN txs = 1..Len(txs) /\ DOMAIN txs' = 1..(Len(txs) + 1)
      /\ \A k \in DOMAIN txs : txs'[k] = txs[k]
      /\ txs'[Len(txs) + 1] = tx
  BY <1>1, <1>3
<1>5. /\ \/ hook' = HookFollows /\ pendingPost' = Len(txs) + 1
         \/ UNCHANGED <<hook, pendingPost>>
      /\ sent' \in [TxIds -> Nat]
      /\ \A k \in TxIds : sent'[k] > 0 => sent[k] > 0
  <2>1. CASE attempt[a].mounted
    <3>1. /\ hook' = HookFollows /\ pendingPost' = Len(txs) + 1
          /\ \/ SyncOrder(hook', pendingPost', postSynced', {}, Away)
             \/ SyncGroup(hook', pendingPost', postSynced', Away)
      BY <2>1 DEF RegisterOrder, RegisterGroup
    <3>2. hook'.tx = pendingPost' /\ pendingPost' \in 0..MaxTxs
      BY <1>1, <3>1 DEF HookFollows
    <3>3. txs'[pendingPost'].status # "mined"
      BY <1>3, <1>4, <3>1
    <3> QED BY <3>1, <3>2, <3>3, SyncSound
  <2>2. CASE ~attempt[a].mounted
    BY <2>2 DEF RegisterOrder, RegisterGroup, pageVars, Typed
  <2> QED BY <2>1, <2>2
<1>6. Typed'
  BY <1>1, <1>2, <1>4, <1>5 DEF Typed
<1>7. Followed'
  BY <1>1, <1>4, <1>5 DEF Followed, HookFollows
<1>8. MinedFirst'
  <2>1. \A k \in TxIds : sent'[k] > 0 => k \in DOMAIN txs' /\ txs'[k].status = "mined"
    BY <1>4, <1>5 DEF MinedFirst
  <2>2. \A k \in DOMAIN txs' : txs'[k].status = "mined" =>
          Commitments(txs'[k].batch) \subseteq registered'
    BY <1>1, <1>3, <1>4 DEF MinedFirst
  <2> QED BY <2>1, <2>2 DEF MinedFirst, Commitments
<1>9. SavedFirst'
  <2>1. Commitments(tx.batch) \subseteq saved
    BY <1>1, <1>3 DEF SavedFirst
  <2>2. \A k \in DOMAIN txs' : Commitments(txs'[k].batch) \subseteq saved'
    BY <1>1, <1>4, <2>1 DEF SavedFirst
  <2>3. \A b \in Attempts : attempt'[b].pc = "register" =>
          Commitments(attempt'[b].batch) \subseteq saved'
    BY <1>1, <1>2 DEF SavedFirst
  <2> QED BY <1>1, <2>2, <2>3 DEF SavedFirst, Commitments
<1> QED BY <1>6, <1>7, <1>8, <1>9

\* The wallet answers or a transaction is mined: it reverts or registers.
LEMMA ChainSteps ==
  ASSUME IInv, NEW k \in TxIds, WalletAnswers(k) \/ Mine(k)
  PROVE  IInv'
<1> USE DEF IInv
<1>1. /\ k \in DOMAIN txs /\ txs \in Seq(Tx) /\ txs[k] \in Tx /\ Len(txs) \in Nat
      /\ txs[k].status \in {"prompt", "sent"}
      /\ UNCHANGED <<pageVars, sent, clock, attempt, switches, drawn, saved>>
  BY DEF Typed, WalletAnswers, Answered, Mine
<1>2. PICK s \in Statuses :
        /\ txs' = [txs EXCEPT ![k].status = s]
        /\ \/ s # "mined" /\ UNCHANGED registered
           \/ s = "mined" /\ registered' = registered \cup Commitments(txs[k].batch)
  BY DEF WalletAnswers, Answered, Mine, Statuses
<1>3. /\ txs' \in Seq(Tx) /\ Len(txs') = Len(txs) /\ DOMAIN txs' = DOMAIN txs
      /\ \A j \in DOMAIN txs : txs'[j].batch = txs[j].batch
      /\ \A j \in DOMAIN txs : txs'[j].status = IF j = k THEN s ELSE txs[j].status
  <2>1. txs' = [txs EXCEPT ![k] = [txs[k] EXCEPT !.status = s]]
    BY <1>1, <1>2
  <2>2. [txs[k] EXCEPT !.status = s] \in Tx
    BY <1>1 DEF Tx
  <2>3. \A j \in DOMAIN txs : txs[j] \in Tx
    BY <1>1
  <2>4. txs' \in Seq(Tx) /\ Len(txs') = Len(txs) /\ DOMAIN txs' = DOMAIN txs
    BY <1>1, <2>1, <2>2
  <2> QED BY <1>1, <2>1, <2>3, <2>4 DEF Tx
<1>4. Commitments(txs[k].batch) \subseteq Preimages
  BY <1>1 DEF Tx, Commitments
<1>5. Typed'
  BY <1>1, <1>2, <1>3, <1>4 DEF Typed, pageVars
<1>6. Followed'
  BY <1>1, <1>3 DEF Followed, pageVars
<1>7. MinedFirst'
  <2>1. \A j \in TxIds : sent'[j] > 0 => j \in DOMAIN txs' /\ txs'[j].status = "mined"
    BY <1>1, <1>3 DEF MinedFirst
  <2>2. \A j \in DOMAIN txs' : txs'[j].status = "mined" =>
          Commitments(txs'[j].batch) \subseteq registered'
    BY <1>1, <1>2, <1>3 DEF MinedFirst
  <2> QED BY <2>1, <2>2 DEF MinedFirst, Commitments
<1>8. SavedFirst'
  <2>1. Commitments(txs[k].batch) \subseteq saved
    BY <1>1 DEF SavedFirst
  <2>2. \A j \in DOMAIN txs' : Commitments(txs'[j].batch) \subseteq saved'
    BY <1>1, <1>3 DEF SavedFirst
  <2>3. registered' \subseteq saved'
    BY <1>1, <1>2, <2>1 DEF SavedFirst
  <2> QED BY <1>1, <2>2, <2>3 DEF SavedFirst, Commitments
<1> QED BY <1>5, <1>6, <1>7, <1>8

-----------------------------------------------------------------------------
LEMMA InitIInv == Init => IInv
<1> SUFFICES ASSUME Init PROVE IInv
  OBVIOUS
<1>1. MaxTxs \in Nat
  BY PageAssumption
<1>2. Off \in AttemptRecord /\ Off.pc = "off" /\ hook.tx = 0
  BY DEF Init, Off, AttemptRecord, Pcs, Pages, NoHook
<1>3. Typed
  BY <1>1, <1>2 DEF Init, Typed
<1> QED BY <1>2, <1>3 DEF Init, IInv, Followed, MinedFirst, SavedFirst, TxIds

LEMMA NextIInv == IInv /\ [Next]_vars => IInv'
<1> SUFFICES ASSUME IInv, [Next]_vars PROVE IInv'
  OBVIOUS
<1>1. ASSUME NEW a \in Attempts, Clicks(a) \/ Runs(a) \/ Fails(a) PROVE IInv'
  BY <1>1, EarlySteps, Signs, Saves, Registers DEF Runs
<1>2. ASSUME NEW k \in TxIds, WalletAnswers(k) \/ Mine(k) PROVE IInv'
  BY <1>2, ChainSteps
<1>3. CASE \/ BackendAnswers \/ SeeReceipt \/ SwitchNetwork \/ Navigate \/ Reload
  BY <1>3, PageSteps
<1>4. CASE UNCHANGED vars
  BY <1>4 DEF vars, pageVars, chainVars, IInv, Typed, Followed, MinedFirst, SavedFirst,
              Commitments
<1>5. CASE TimePasses
  <2>1. /\ UNCHANGED <<txs, registered, sent, saved, hook, pendingPost, nonceRef, drawn, attempt>>
        /\ clock' \in Instants \cup {0}
    BY <1>5 DEF TimePasses, pageVars
  <2> QED BY <2>1, QuietStep DEF IInv, Typed
<1> QED BY <1>1, <1>2, <1>3, <1>4, <1>5 DEF Next

LEMMA Inductive == Spec => []IInv
BY InitIInv, NextIInv, PTL DEF Spec

\* The chain comes first, whatever is clicked, left, refused or switched.
THEOREM ChainComesFirst == Spec => []ChainFirst
<1>1. IInv => ChainFirst
  BY DEF IInv, MinedFirst, ChainFirst
<1> QED BY <1>1, Inductive, PTL

\* What is on chain has its record in IndexedDB.
THEOREM ChainIsRecoverable == Spec => []Recoverable
<1>1. IInv => Recoverable
  BY DEF IInv, SavedFirst, Recoverable
<1> QED BY <1>1, Inductive, PTL

-----------------------------------------------------------------------------
(* What the page sees confirmed it has sent: a second invariant, over the  *)
(* first.                                                                  *)

\* A run that is mounted belongs to the page on the screen.
PageState ==
  /\ page \in Pages /\ switches \in Nat /\ postSynced \in BOOLEAN
  /\ hook \in [tx : Nat, seen : BOOLEAN]
  /\ page = "dca" => syncHash = {}
  /\ \A a \in Attempts : attempt[a].mounted => attempt[a].form = page

\* A batch has a commitment in it; and if that is a round, all of them are the
\* rounds of a group in their order, planned at one time.
Whole(batch) ==
  /\ 1 \in DOMAIN batch
  /\ batch[1].form = "dca" =>
       \E t \in Nat : \A i \in DOMAIN batch :
         i \in 1..Rounds /\ batch[i].window = buildSchedule(Rounds, Interval, t)[i]

\* Only whole batches are handed on.
WholeBatches ==
  /\ \A a \in Attempts : attempt[a].pc \in {"save", "register"} => Whole(attempt[a].batch)
  /\ \A k \in DOMAIN txs : Whole(txs[k].batch)

\* Whatever would keep the page from sending its payload says it was sent.
Posted ==
  /\ postSynced \/ syncHash # {} \/ awaiting # 0 => pendingPost # 0 /\ sent[pendingPost] > 0
  /\ hook.seen => hook.tx # 0 /\ txs[hook.tx].status \in {"mined", "reverted"}
  /\ hook.seen /\ ~Away /\ txs[hook.tx].status = "mined" => sent[hook.tx] > 0

PInv == PageState /\ WholeBatches /\ Posted

\* A confirmed payload is sent, or was before; nothing else is remembered.
LEMMA SyncPosts ==
  ASSUME IInv, PInv, txs' = txs, NEW h, NEW away, h.tx = pendingPost,
         \/ SyncOrder(h, pendingPost, postSynced, syncHash, away)
         \/ SyncGroup(h, pendingPost, postSynced, away) /\ UNCHANGED syncHash
  PROVE  /\ IsSuccess(h, away) => sent'[pendingPost] > 0
         /\ syncHash' # {} \/ awaiting' # 0 => pendingPost # 0 /\ sent'[pendingPost] > 0
         /\ pendingPost # 0 /\ sent[pendingPost] > 0 => sent'[pendingPost] > 0
<1>1. /\ sent \in [TxIds -> Nat]
      /\ pendingPost # 0 => pendingPost \in TxIds
      /\ pendingPost # 0 => Commitments(txs[pendingPost].batch) # {}
      /\ postSynced \/ syncHash # {} => pendingPost # 0 /\ sent[pendingPost] > 0
  <2>1. Len(txs) \in Nat /\ DOMAIN txs = 1..Len(txs) /\ MaxTxs \in Nat
    BY PageAssumption DEF IInv, Typed
  <2>2. /\ pendingPost \in 0..Len(txs) /\ Len(txs) <= MaxTxs /\ sent \in [TxIds -> Nat]
        /\ postSynced \/ syncHash # {} => pendingPost # 0 /\ sent[pendingPost] > 0
    BY DEF IInv, Typed, Followed, PInv, Posted
  <2>3. pendingPost # 0 => pendingPost \in DOMAIN txs /\ pendingPost \in TxIds
    BY <2>1, <2>2 DEF TxIds
  <2>4. \A k \in DOMAIN txs : 1 \in DOMAIN txs[k].batch
    BY DEF PInv, WholeBatches, Whole
  <2>5. ASSUME NEW batch, 1 \in DOMAIN batch PROVE Commitments(batch) # {}
    BY <2>5 DEF Commitments
  <2> QED BY <2>2, <2>3, <2>4, <2>5
<1> DEFINE fired == sent' = [sent EXCEPT ![pendingPost] = @ + 1]
<1>2. fired /\ pendingPost # 0 => sent'[pendingPost] > 0
  BY <1>1
<1>3. CASE SyncOrder(h, pendingPost, postSynced, syncHash, away)
  <2> DEFINE fire == /\ IsSuccess(h, away) /\ pendingPost # 0 /\ ~postSynced
                     /\ syncHash # Commitments(txs'[pendingPost].batch)
  <2>1. /\ fire => fired /\ pendingPost # 0
        /\ ~fire => sent' = sent /\ syncHash' = syncHash /\ awaiting' = 0
    BY <1>3 DEF SyncOrder
  <2>2. IsSuccess(h, away) /\ ~fire => pendingPost # 0 /\ sent[pendingPost] > 0
    BY <1>1 DEF IsSuccess
  <2> QED BY <1>1, <1>2, <2>1, <2>2
<1>4. CASE SyncGroup(h, pendingPost, postSynced, away) /\ UNCHANGED syncHash
  <2> DEFINE fire == IsSuccess(h, away) /\ pendingPost # 0 /\ ~postSynced
  <2>1. /\ fire => fired /\ pendingPost # 0
        /\ ~fire => sent' = sent /\ awaiting' = 0
    BY <1>4 DEF SyncGroup
  <2>2. IsSuccess(h, away) /\ ~fire => pendingPost # 0 /\ sent[pendingPost] > 0
    BY <1>1 DEF IsSuccess
  <2> QED BY <1>1, <1>2, <1>4, <2>1, <2>2
<1> QED BY <1>3, <1>4

\* A click, an answer to a run of handleSubmit, an error.
LEMMA EarlyPosted ==
  ASSUME IInv, PInv, NEW a \in Attempts,
         Clicks(a) \/ ListKeepers(a) \/ SignOrder(a) \/ SignGroup(a) \/ Save(a) \/ Fails(a)
  PROVE  PInv'
<1>1. attempt \in [Attempts -> AttemptRecord]
  BY DEF IInv, Typed
<1>2. UNCHANGED <<page, switches, postSynced, hook, syncHash, txs, pendingPost, awaiting, sent>>
  BY DEF Clicks, SubmitGroup, HandleSubmit, Begin, ListKeepers, SignOrder, SignGroup, Save,
         Fails, pageVars, chainVars
<1>3. Posted'
  BY <1>2 DEF PInv, Posted, Away
<1>4. ASSUME NEW r, attempt' = [attempt EXCEPT ![a] = r],
             r.mounted => r.form = page,
             r.pc \in {"save", "register"} => Whole(r.batch)
      PROVE  PInv'
  <2>1. PageState'
    BY <1>1, <1>2, <1>4 DEF PInv, PageState
  <2>2. WholeBatches'
    BY <1>1, <1>2, <1>4 DEF PInv, WholeBatches, Whole
  <2> QED BY <1>3, <2>1, <2>2 DEF PInv
<1>5. CASE SubmitGroup(a) \/ \E input \in Inputs : HandleSubmit(a, input)
  BY <1>4, <1>5 DEF SubmitGroup, HandleSubmit, Begin, Off
<1>6. CASE Fails(a)
  BY <1>4, <1>6 DEF Fails, Off
<1>7. CASE ListKeepers(a)
  BY <1>1, <1>4, <1>7 DEF ListKeepers, Go, AttemptRecord, PInv, PageState
<1>8. CASE SignOrder(a)
  <2> DEFINE batch == <<CommitmentHash(attempt[a].input, attempt[a].nonce)>>
             r == [attempt[a] EXCEPT !.pc = "save", !.batch = batch]
  <2>1. attempt' = [attempt EXCEPT ![a] = r]
    BY <1>1, <1>8 DEF SignOrder, AttemptRecord
  <2>2. Whole(batch)
    BY DEF Whole, CommitmentHash
  <2>3. r.batch = batch /\ r.mounted = attempt[a].mounted /\ r.form = attempt[a].form
    BY <1>1 DEF AttemptRecord
  <2> HIDE DEF r, batch
  <2> QED BY <1>4, <2>1, <2>2, <2>3 DEF PInv, PageState
<1>9. CASE SignGroup(a)
  <2> DEFINE batch == [i \in 1..Rounds |->
                         Round(i, attempt[a].nonce, RoundNonces(a)[i], clock)]
             r == [attempt[a] EXCEPT !.pc = "save", !.batch = batch]
  <2>1. attempt' = [attempt EXCEPT ![a] = r]
    BY <1>1, <1>9 DEF SignGroup, AttemptRecord
  <2>2. Whole(batch)
    <3>1. 1 \in DOMAIN batch /\ clock \in Nat /\ DOMAIN batch = 1..Rounds
      BY RoundsAssumption, PageAssumption DEF IInv, Typed
    <3>2. \A i \in DOMAIN batch :
            batch[i].window = buildSchedule(Rounds, Interval, clock)[i]
      BY DEF Round
    <3> HIDE DEF batch
    <3> QED BY <3>1, <3>2 DEF Whole
  <2>3. r.batch = batch /\ r.mounted = attempt[a].mounted /\ r.form = attempt[a].form
    BY <1>1 DEF AttemptRecord
  <2> HIDE DEF r, batch
  <2> QED BY <1>4, <2>1, <2>2, <2>3 DEF PInv, PageState
<1>10. CASE Save(a)
  <2>1. attempt' = [attempt EXCEPT ![a] = [attempt[a] EXCEPT !.pc = "register"]]
    BY <1>1, <1>10 DEF Save, Go, AttemptRecord
  <2>2. Whole(attempt[a].batch)
    BY <1>10 DEF Save, PInv, WholeBatches
  <2> QED BY <1>1, <1>4, <2>1, <2>2 DEF AttemptRecord, PInv, PageState
<1> QED BY <1>5, <1>6, <1>7, <1>8, <1>9, <1>10 DEF Clicks

\* The page follows a new transaction without a receipt, or it was left.
LEMMA RegistersPosted ==
  ASSUME IInv, PInv, NEW a \in Attempts, RegisterOrder(a) \/ RegisterGroup(a)
  PROVE  PInv'
<1> DEFINE tx == [batch |-> attempt[a].batch, status |-> "prompt"]
<1>1. /\ attempt \in [Attempts -> AttemptRecord] /\ txs \in Seq(Tx) /\ Len(txs) \in Nat
      /\ attempt' = [attempt EXCEPT ![a] = Off] /\ txs' = Append(txs, tx)
      /\ UNCHANGED <<page, switches>> /\ tx \in Tx
      /\ Whole(tx.batch)
      /\ hook.tx \in 0..Len(txs) /\ hook.tx = pendingPost
  <2>1. /\ attempt \in [Attempts -> AttemptRecord] /\ txs \in Seq(Tx)
        /\ attempt[a].pc = "register" /\ attempt' = [attempt EXCEPT ![a] = Off]
        /\ txs' = Append(txs, tx) /\ UNCHANGED <<page, switches>>
    BY DEF IInv, Typed, RegisterOrder, RegisterGroup, WriteContract, pageVars
  <2>2. tx \in Tx /\ Whole(tx.batch)
    BY <2>1 DEF Tx, Statuses, AttemptRecord, PInv, WholeBatches
  <2> QED BY <2>1, <2>2 DEF IInv, Followed
<1> HIDE DEF tx
<1>2. /\ DOMAIN txs' = 1..(Len(txs) + 1) /\ DOMAIN txs = 1..Len(txs)
      /\ txs'[Len(txs) + 1] = tx
      /\ \A k \in DOMAIN txs : txs'[k] = txs[k]
  BY <1>1
<1>3. WholeBatches'
  <2>1. \A b \in Attempts : attempt'[b].pc \in {"save", "register"} =>
          Whole(attempt'[b].batch)
    BY <1>1 DEF PInv, WholeBatches, Off
  <2>2. \A k \in DOMAIN txs' : Whole(txs'[k].batch)
    BY <1>1, <1>2 DEF PInv, WholeBatches
  <2> QED BY <2>1, <2>2 DEF WholeBatches, Whole
<1>4. \A b \in Attempts : attempt'[b].mounted => attempt'[b].form = page
  BY <1>1 DEF PInv, PageState, Off
<1>5. CASE attempt[a].mounted
  <2>1. /\ hook' = HookFollows /\ postSynced' = FALSE
        /\ pendingPost' = Len(txs) + 1 /\ attempt[a].form = page
        /\ \/ SyncOrder(hook', pendingPost', postSynced', {}, Away) /\ page = "orders"
           \/ SyncGroup(hook', pendingPost', postSynced', Away) /\ UNCHANGED syncHash
              /\ page = "dca"
    BY <1>5 DEF RegisterOrder, RegisterGroup, PInv, PageState
  <2>2. /\ hook'.tx = Len(txs) + 1 /\ hook'.seen = FALSE
        /\ hook' \in [tx : Nat, seen : BOOLEAN]
    BY <1>1, <2>1 DEF HookFollows
  <2>3. ~IsSuccess(hook', Away)
    BY <2>2 DEF IsSuccess
  <2>4. syncHash' = {} /\ awaiting' = 0
    BY <2>1, <2>3 DEF SyncOrder, SyncGroup, PInv, PageState
  <2>5. PageState'
    BY <1>1, <1>4, <2>1, <2>2, <2>4 DEF PInv, PageState
  <2>6. Posted'
    BY <2>1, <2>2, <2>4 DEF Posted
  <2> QED BY <1>3, <2>5, <2>6 DEF PInv
<1>6. CASE ~attempt[a].mounted
  <2>1. UNCHANGED <<pageVars, sent>>
    BY <1>6 DEF RegisterOrder, RegisterGroup
  <2>2. PageState'
    BY <1>1, <1>4, <2>1 DEF PInv, PageState, pageVars
  <2>3. Posted'
    BY <1>1, <1>2, <2>1 DEF PInv, Posted, pageVars, Away
  <2> QED BY <1>3, <2>2, <2>3 DEF PInv
<1> QED BY <1>5, <1>6

\* A transaction that moves on was not seen to end.
LEMMA ChainPosted ==
  ASSUME IInv, PInv, NEW k \in TxIds, WalletAnswers(k) \/ Mine(k)
  PROVE  PInv'
<1>1. /\ k \in DOMAIN txs /\ txs \in Seq(Tx) /\ txs[k] \in Tx
      /\ txs[k].status \in {"prompt", "sent"}
      /\ UNCHANGED <<pageVars, sent, attempt, switches>>
      /\ \E s : txs' = [txs EXCEPT ![k] = [txs[k] EXCEPT !.status = s]]
  <2>1. /\ k \in DOMAIN txs /\ txs \in Seq(Tx) /\ txs[k].status \in {"prompt", "sent"}
        /\ UNCHANGED <<pageVars, sent, attempt, switches>>
    BY DEF IInv, Typed, WalletAnswers, Answered, Mine
  <2>2. \/ \E ok \in BOOLEAN :
             txs' = [txs EXCEPT ![k].status = IF ok THEN "sent" ELSE "rejected"]
        \/ txs' = [txs EXCEPT ![k].status = "mined"]
        \/ txs' = [txs EXCEPT ![k].status = "reverted"]
    BY DEF WalletAnswers, Answered, Mine
  <2>3. \E s : txs' = [txs EXCEPT ![k] = [txs[k] EXCEPT !.status = s]]
    BY <2>2
  <2>4. txs[k] \in Tx
    BY <2>1
  <2> QED BY <2>1, <2>3, <2>4, Zenon
<1>2. /\ DOMAIN txs' = DOMAIN txs
      /\ \A j \in DOMAIN txs : txs'[j].batch = txs[j].batch
      /\ \A j \in DOMAIN txs : j # k => txs'[j] = txs[j]
  BY <1>1 DEF Tx
<1>3. hook.seen => hook.tx # k /\ hook.tx \in DOMAIN txs
  BY <1>1 DEF IInv, Followed, PInv, Posted
<1>4. Posted'
  BY <1>1, <1>2, <1>3 DEF PInv, Posted, pageVars, Away
<1>5. PageState' /\ WholeBatches'
  BY <1>1, <1>2 DEF PInv, PageState, WholeBatches, Whole, pageVars
<1> QED BY <1>4, <1>5 DEF PInv

\* The hook polls, the network changes, the backend answers, a page is left.
LEMMA PagePosted ==
  ASSUME IInv, PInv, \/ SeeReceipt \/ SwitchNetwork \/ BackendAnswers \/ Navigate \/ Reload
  PROVE  PInv'
<1>1. /\ hook \in [tx : Nat, seen : BOOLEAN] /\ hook.tx = pendingPost
      /\ switches \in Nat /\ page \in Pages
  BY DEF PInv, PageState, IInv, Followed
<1>2. ASSUME UNCHANGED <<txs, attempt, page, pendingPost, postSynced>>,
             hook' \in [tx : Nat, seen : BOOLEAN], hook'.tx = hook.tx,
             hook'.seen => hook.tx # 0 /\ txs[hook.tx].status \in {"mined", "reverted"},
             switches' \in Nat, NEW away \in BOOLEAN, away = Away',
             NEW h, h = hook',
             Effect(h, pendingPost, postSynced, syncHash, away)
      PROVE  PInv'
  <2>1. h.tx = pendingPost
    BY <1>1, <1>2
  <2>2. /\ IsSuccess(h, away) => sent'[pendingPost] > 0
        /\ syncHash' # {} \/ awaiting' # 0 => pendingPost # 0 /\ sent'[pendingPost] > 0
        /\ pendingPost # 0 /\ sent[pendingPost] > 0 => sent'[pendingPost] > 0
    BY <1>2, <2>1, SyncPosts DEF Effect
  <2>3. page = "dca" => syncHash' = {}
    BY <1>2 DEF Effect, PInv, PageState
  <2>4. PageState'
    BY <1>2, <2>3 DEF PInv, PageState
  <2>5. hook'.seen /\ ~Away' /\ txs'[hook'.tx].status = "mined" => IsSuccess(h, away)
    BY <1>2 DEF IsSuccess
  <2>6. Posted'
    BY <1>1, <1>2, <2>2, <2>5 DEF PInv, Posted
  <2> QED BY <1>2, <2>4, <2>6 DEF PInv, WholeBatches, Whole
<1>3. CASE SeeReceipt
  <2>1. /\ hook' = [hook EXCEPT !.seen = TRUE] /\ hook.tx # 0 /\ ~Away
        /\ txs[hook.tx].status \in {"mined", "reverted"}
        /\ Effect(hook', pendingPost, postSynced, syncHash, FALSE)
        /\ UNCHANGED <<txs, attempt, page, pendingPost, postSynced, switches>>
    BY <1>3 DEF SeeReceipt, chainVars
  <2>2. hook' \in [tx : Nat, seen : BOOLEAN] /\ hook'.tx = hook.tx
    BY <1>1, <2>1
  <2>3. FALSE = Away'
    BY <2>1 DEF Away
  <2> QED BY <1>1, <1>2, <2>1, <2>2, <2>3
<1>4. CASE SwitchNetwork
  <2>1. /\ switches' = switches + 1 /\ hook' = hook /\ hook.seen
        /\ Effect(hook', pendingPost, postSynced, syncHash, ~Away)
        /\ UNCHANGED <<txs, attempt, page, pendingPost, postSynced>>
    BY <1>4 DEF SwitchNetwork, chainVars
  <2>2. (~Away) = Away' /\ (~Away) \in BOOLEAN
    BY <1>1, <2>1 DEF Away
  <2>3. hook.tx # 0 /\ txs[hook.tx].status \in {"mined", "reverted"}
    BY <2>1 DEF PInv, Posted
  <2>4. /\ hook' \in [tx : Nat, seen : BOOLEAN] /\ hook'.tx = hook.tx
        /\ switches' \in Nat
        /\ hook'.seen => hook.tx # 0 /\ txs[hook.tx].status \in {"mined", "reverted"}
    BY <1>1, <2>1, <2>3
  <2> QED BY <1>2, <2>1, <2>2, <2>4, Zenon
<1>5. CASE BackendAnswers
  <2>1. /\ UNCHANGED <<txs, attempt, page, pendingPost, syncHash, hook, switches, sent>>
        /\ awaiting # 0 /\ awaiting' = 0 /\ postSynced' \in BOOLEAN
    BY <1>5 DEF BackendAnswers, AnswerOrder, AnswerGroup, chainVars
  <2>2. Posted'
    BY <2>1 DEF PInv, Posted, Away
  <2> QED BY <2>1, <2>2 DEF PInv, PageState, WholeBatches, Whole
<1>6. ASSUME NEW p \in Pages, Mount(p), UNCHANGED <<sent, chainVars, switches, saved>>,
             \A b \in Attempts :
               /\ ~attempt'[b].mounted
               /\ attempt'[b].pc \in {"save", "register"} =>
                    Whole(attempt'[b].batch)
      PROVE  PInv'
  <2>1. /\ hook' = NoHook /\ postSynced' = FALSE /\ syncHash' = {} /\ awaiting' = 0
        /\ page' = p /\ txs' = txs
    BY <1>6 DEF Mount, chainVars
  <2>2. hook' \in [tx : Nat, seen : BOOLEAN] /\ ~hook'.seen
    BY <2>1 DEF NoHook
  <2>3. WholeBatches'
    <3>1. \A k \in DOMAIN txs' : Whole(txs'[k].batch)
      BY <2>1 DEF PInv, WholeBatches
    <3> QED BY <1>6, <3>1 DEF WholeBatches, Whole
  <2> QED BY <1>1, <1>6, <2>1, <2>2, <2>3 DEF PInv, PageState, Posted
<1>7. CASE Navigate
  <2>1. \A b \in Attempts : attempt'[b] = [attempt[b] EXCEPT !.mounted = FALSE]
    BY <1>7 DEF Navigate
  <2>2. \A b \in Attempts : /\ ~attempt'[b].mounted /\ attempt'[b].pc = attempt[b].pc
                            /\ attempt'[b].batch = attempt[b].batch
    BY <2>1 DEF IInv, Typed, AttemptRecord
  <2> QED BY <1>6, <1>7, <2>2 DEF Navigate, PInv, WholeBatches
<1>8. CASE Reload
  <2>1. \A b \in Attempts : ~attempt'[b].mounted /\ attempt'[b].pc = "off"
    BY <1>8 DEF Reload, Off
  <2> QED BY <1>1, <1>6, <1>8, <2>1 DEF Reload
<1> QED BY <1>3, <1>4, <1>5, <1>7, <1>8

LEMMA InitPInv == Init => PInv
<1> SUFFICES ASSUME Init PROVE PInv
  OBVIOUS
<1>1. PageState
  BY DEF Init, PageState, Off, NoHook
<1>2. WholeBatches
  BY DEF Init, WholeBatches, Off
<1>3. Posted
  BY DEF Init, Posted, NoHook
<1> QED BY <1>1, <1>2, <1>3 DEF PInv

LEMMA NextPInv == IInv /\ PInv /\ [Next]_vars => PInv'
<1> SUFFICES ASSUME IInv, PInv, [Next]_vars PROVE PInv'
  OBVIOUS
<1>1. ASSUME NEW a \in Attempts, Clicks(a) \/ Runs(a) \/ Fails(a) PROVE PInv'
  BY <1>1, EarlyPosted, RegistersPosted DEF Runs
<1>2. ASSUME NEW k \in TxIds, WalletAnswers(k) \/ Mine(k) PROVE PInv'
  BY <1>2, ChainPosted
<1>3. CASE \/ BackendAnswers \/ SeeReceipt \/ SwitchNetwork \/ Navigate \/ Reload
  BY <1>3, PagePosted
<1>4. CASE UNCHANGED vars
  BY <1>4 DEF vars, pageVars, chainVars, PInv, PageState, WholeBatches, Whole, Posted, Away
<1>5. CASE TimePasses
  BY <1>5 DEF TimePasses, pageVars, PInv, PageState, WholeBatches, Whole, Posted, Away
<1> QED BY <1>1, <1>2, <1>3, <1>4, <1>5 DEF Next

\* A confirmed registration has been sent to the backend, also when another
\* was sent before it, refused, or confirmed while the wallet was elsewhere.
THEOREM ConfirmedPayloadsArePosted == Spec => []ConfirmedIsPosted
<1>1. IInv /\ PInv => ConfirmedIsPosted
  BY DEF IInv, Followed, PInv, Posted, ConfirmedIsPosted, IsSuccessNow
<1> QED BY <1>1, Inductive, InitPInv, NextPInv, PTL DEF Spec

\* Of rounds planned together, the first expires no later than the window of
\* any other one closes.
LEMMA FirstExpires ==
  ASSUME NEW rounds \in Nat, NEW interval \in Nat \ {0}, NEW now \in Nat,
         NEW i \in 1..rounds, i > 1
  PROVE  LET w == buildSchedule(rounds, interval, now)
         IN  w[1].expiry \in Nat /\ w[i].hi \in Nat /\ w[1].expiry <= w[i].hi
<1> DEFINE w == buildSchedule(rounds, interval, now)
<1>1. Jitter(interval) \in Nat
  BY JitterSmall
<1>2. i * interval \in Nat /\ 1 * interval + interval <= i * interval
  BY Multiples
<1>3. /\ w[1].expiry = now + 1 * interval + Jitter(interval) + interval
      /\ w[i].hi = now + i * interval + Jitter(interval)
  BY DEF buildSchedule, Window
<1>4. 1 * interval = interval
  OBVIOUS
<1> HIDE DEF w
<1> DEFINE x == i * interval
<1>5. x \in Nat /\ interval + interval <= x /\ w[i].hi = now + x + Jitter(interval)
  BY <1>2, <1>3, <1>4
<1> HIDE DEF x
<1>6. w[1].expiry = now + interval + Jitter(interval) + interval
  BY <1>3, <1>4
<1>7. w[1].expiry \in Nat /\ w[i].hi \in Nat /\ w[1].expiry <= w[i].hi
  BY <1>1, <1>5, <1>6
<1> QED BY <1>7 DEF w

\* The rounds that were signed together are registered before the window of
\* any but the first closes, and their windows follow one another: for any
\* number of rounds, any interval and however much time passes between two
\* steps of the page, the wallet and the chain.
THEOREM GroupRoundsInTurn == Spec => RoundsInTurn
<1>1. ASSUME IInv, PInv, Next, NEW k \in DOMAIN txs,
             txs[k].status = "sent", txs'[k].status = "mined"
      PROVE  \E j \in TxIds : j = k /\ Mine(j) /\ NotExpired(txs[j].batch)
  <2>1. txs \in Seq(Tx)
    BY <1>1 DEF IInv, Typed
  <2>2. CASE txs' = txs
    BY <1>1, <2>2
  <2>3. ASSUME NEW a \in Attempts, RegisterOrder(a) \/ RegisterGroup(a) PROVE FALSE
    BY <1>1, <2>1, <2>3 DEF RegisterOrder, RegisterGroup, WriteContract
  <2>4. ASSUME NEW j \in TxIds, WalletAnswers(j)
        PROVE  FALSE
    <3>1. PICK s \in {"sent", "rejected"} : txs' = [txs EXCEPT ![j].status = s]
      BY <2>4 DEF WalletAnswers, Answered
    <3>2. txs[j].status = "prompt" /\ j # k
      BY <1>1, <2>4 DEF WalletAnswers, Answered
    <3> QED BY <1>1, <2>1, <3>1, <3>2
  <2>5. ASSUME NEW j \in TxIds, Mine(j)
        PROVE  j = k /\ NotExpired(txs[j].batch)
    <3>1. /\ j \in DOMAIN txs
          /\ \/ NotExpired(txs[j].batch) /\ txs' = [txs EXCEPT ![j].status = "mined"]
             \/ txs' = [txs EXCEPT ![j].status = "reverted"]
      BY <2>5 DEF Mine
    <3>2. txs[j] \in Tx
      BY <2>1, <3>1
    <3>3. PICK s : /\ txs' = [txs EXCEPT ![j] = [txs[j] EXCEPT !.status = s]]
                   /\ (s = "mined" /\ NotExpired(txs[j].batch)) \/ s = "reverted"
      BY <3>1
    <3> DEFINE tx == [txs[j] EXCEPT !.status = s]
    <3>4. tx.status = s
      BY <3>2 DEF Tx
    <3>5. txs' = [txs EXCEPT ![j] = tx]
      BY <3>3
    <3> HIDE DEF tx
    <3>6. txs'[j] = tx /\ (j # k => txs'[k] = txs[k])
      BY <1>1, <2>1, <3>1, <3>5
    <3> QED BY <1>1, <3>3, <3>4, <3>6
  <2>6. ASSUME NEW a \in Attempts,
               \/ Clicks(a) \/ ListKeepers(a) \/ SignOrder(a) \/ SignGroup(a) \/ Save(a)
               \/ Fails(a)
        PROVE  txs' = txs
    BY <2>6 DEF Clicks, SubmitGroup, HandleSubmit, Begin, ListKeepers, SignOrder, SignGroup,
                Save, Fails, chainVars
  <2>7. CASE BackendAnswers \/ SeeReceipt \/ SwitchNetwork \/ Navigate \/ Reload \/ TimePasses
    <3>1. txs' = txs
      BY <2>7 DEF BackendAnswers, AnswerOrder, AnswerGroup, SeeReceipt, SwitchNetwork,
                  Navigate, Reload, TimePasses, chainVars
    <3> QED BY <2>2, <3>1
  <2> QED BY <1>1, <2>2, <2>3, <2>4, <2>5, <2>6, <2>7 DEF Next, Runs
<1>2. ASSUME IInv, PInv, [Next]_vars, NEW k \in DOMAIN txs,
             txs[k].status = "sent", txs'[k].status = "mined", txs[k].batch[1].form = "dca",
             NEW i \in DOMAIN txs[k].batch
      PROVE  /\ i > 1 => clock < txs[k].batch[i].window.hi
             /\ \A j \in DOMAIN txs[k].batch :
                  i < j => Apart(txs[k].batch[i].window, txs[k].batch[j].window)
  <2> DEFINE batch == txs[k].batch
  <2>1. /\ 1 \in DOMAIN batch
        /\ \E t \in Nat : \A n \in DOMAIN batch :
             n \in 1..Rounds /\ batch[n].window = buildSchedule(Rounds, Interval, t)[n]
    BY <1>2 DEF PInv, WholeBatches, Whole
  <2>2. PICK t \in Nat : \A n \in DOMAIN batch :
          n \in 1..Rounds /\ batch[n].window = buildSchedule(Rounds, Interval, t)[n]
    BY <2>1
  <2>3. Rounds \in Nat /\ Interval \in Nat \ {0}
    BY RoundsAssumption
  <2>4. clock \in Nat /\ clock < batch[1].window.expiry
    <3>1. UNCHANGED vars => txs' = txs
      BY DEF vars, chainVars
    <3>2. NotExpired(batch)
      BY <1>1, <1>2, <3>1
    <3> QED BY <1>2, <2>1, <3>2, PageAssumption DEF NotExpired, IInv, Typed
  <2> HIDE DEF batch
  <2>5. ASSUME i > 1 PROVE clock < batch[i].window.hi
    <3>1. i \in DOMAIN batch
      BY DEF batch
    <3>2. LET w == buildSchedule(Rounds, Interval, t)
          IN  w[1].expiry \in Nat /\ w[i].hi \in Nat /\ w[1].expiry <= w[i].hi
      BY <2>2, <2>3, <2>5, <3>1, FirstExpires
    <3> QED BY <2>1, <2>2, <2>4, <3>1, <3>2
  <2>6. ASSUME NEW j \in DOMAIN batch, i < j PROVE Apart(batch[i].window, batch[j].window)
    <3>1. i \in DOMAIN batch
      BY DEF batch
    <3> QED BY <2>2, <2>3, <2>6, <3>1, ScheduleSound
  <2> QED BY <2>5, <2>6 DEF batch
<1>3. IInv /\ PInv /\ [Next]_vars =>
        [\A k \in DOMAIN txs :
           LET batch == txs[k].batch
           IN  txs[k].status = "sent" /\ txs'[k].status = "mined" /\ batch[1].form = "dca" =>
                 /\ \A i \in DOMAIN batch : i > 1 => clock < batch[i].window.hi
                 /\ \A i, j \in DOMAIN batch :
                      i < j => Apart(batch[i].window, batch[j].window)]_vars
  BY <1>2
<1> QED BY <1>3, Inductive, InitPInv, NextPInv, PTL DEF Spec, RoundsInTurn

-----------------------------------------------------------------------------
(* Types and bounds: a third invariant, over the first two. *)

\* At most one signature is waited for, and what was drawn, switched and
\* posted stays within its bounds.
Bounded ==
  /\ nonceRef \in 1..MaxDraws /\ drawn \in 1..MaxDraws
  /\ signer = {} \/ \E a \in Attempts : signer = {a}
  /\ awaiting \in 0..Len(txs)
  /\ phase \in {"none", "registering", "executed", "error"}
  /\ switches \in 0..MaxSwitches

\* The effects leave the page waiting for its payload's answer, or for none.
LEMMA SyncBounded ==
  ASSUME NEW h, NEW pend, NEW synced, NEW hash, NEW away,
         \/ SyncOrder(h, pend, synced, hash, away)
         \/ SyncGroup(h, pend, synced, away)
  PROVE  awaiting' \in {0, pend}
BY DEF SyncOrder, SyncGroup

\* Every step keeps the bounds.
LEMMA NextBounded == IInv /\ Bounded /\ [Next]_vars => Bounded'
<1> SUFFICES ASSUME IInv, Bounded, [Next]_vars PROVE Bounded'
  OBVIOUS
<1>1. /\ MaxDraws \in Nat \ {0} /\ MaxTxs \in Nat /\ MaxSwitches \in Nat
      /\ Rounds \in Nat /\ Len(txs) \in Nat /\ txs \in Seq(Tx)
      /\ nonceRef \in 1..MaxDraws /\ drawn \in 1..MaxDraws /\ switches \in 0..MaxSwitches
      /\ pendingPost \in 0..Len(txs)
  BY PageAssumption, RoundsAssumption DEF IInv, Typed, Followed, Bounded
<1>2. ASSUME NEW a \in Attempts, Clicks(a) \/ ListKeepers(a) \/ SignOrder(a) \/ Save(a) \/ Fails(a)
      PROVE  Bounded'
  <2>1. UNCHANGED <<nonceRef, drawn, awaiting, phase, switches, txs>>
    BY <1>2 DEF Clicks, SubmitGroup, HandleSubmit, Begin, ListKeepers, SignOrder, Save, Fails,
                pageVars, chainVars
  <2>2. signer' \in {signer, {a}, signer \ {a}}
    BY <1>2 DEF Clicks, SubmitGroup, HandleSubmit, Begin, ListKeepers, SignOrder, Save, Fails,
                pageVars
  <2> QED BY <1>2, <2>1, <2>2 DEF Bounded
<1>3. ASSUME NEW a \in Attempts, SignGroup(a) PROVE Bounded'
  <2>1. /\ UNCHANGED <<nonceRef, awaiting, phase, switches, txs>>
        /\ drawn' = drawn + Rounds /\ drawn + Rounds <= MaxDraws
        /\ signer' = signer \ {a}
    BY <1>3 DEF SignGroup, chainVars
  <2>2. drawn' \in 1..MaxDraws
    BY <1>1, <2>1
  <2> QED BY <1>3, <2>1, <2>2 DEF Bounded
<1>4. ASSUME NEW a \in Attempts, RegisterOrder(a) \/ RegisterGroup(a) PROVE Bounded'
  <2>1. /\ UNCHANGED <<nonceRef, drawn, signer, switches>>
        /\ Len(txs') = Len(txs) + 1
        /\ phase' \in {phase, "none", "registering"}
    BY <1>1, <1>4 DEF RegisterOrder, RegisterGroup, WriteContract, pageVars
  <2>2. awaiting' \in {0, awaiting, Len(txs) + 1}
    <3>1. CASE attempt[a].mounted
      <4>1. /\ pendingPost' = Len(txs) + 1
            /\ \/ SyncOrder(hook', pendingPost', postSynced', {}, Away)
               \/ SyncGroup(hook', pendingPost', postSynced', Away)
        BY <1>4, <3>1 DEF RegisterOrder, RegisterGroup
      <4> QED BY <4>1, SyncBounded
    <3>2. CASE ~attempt[a].mounted
      BY <1>4, <3>2 DEF RegisterOrder, RegisterGroup, pageVars
    <3> QED BY <3>1, <3>2
  <2>3. awaiting' \in 0..Len(txs')
    BY <1>1, <2>1, <2>2 DEF Bounded
  <2> QED BY <2>1, <2>3 DEF Bounded
<1>5. ASSUME NEW k \in TxIds, WalletAnswers(k) \/ Mine(k) PROVE Bounded'
  <2>1. UNCHANGED <<pageVars, switches, drawn>> /\ Len(txs') = Len(txs)
    BY <1>1, <1>5 DEF WalletAnswers, Answered, Mine
  <2> QED BY <2>1 DEF Bounded, pageVars
<1>6. CASE BackendAnswers
  <2>1. /\ UNCHANGED <<nonceRef, drawn, signer, switches, txs>> /\ awaiting' = 0
        /\ phase' \in {phase, "executed", "error"}
    BY <1>6 DEF BackendAnswers, AnswerOrder, AnswerGroup, chainVars
  <2> QED BY <1>1, <2>1 DEF Bounded
<1>7. CASE SeeReceipt \/ SwitchNetwork
  <2>1. UNCHANGED <<nonceRef, drawn, signer, phase, txs>>
    BY <1>7 DEF SeeReceipt, SwitchNetwork, chainVars
  <2>2. switches' = switches \/ (switches' = switches + 1 /\ switches < MaxSwitches)
    BY <1>7 DEF SeeReceipt, SwitchNetwork
  <2>3. awaiting' \in {0, pendingPost}
    BY <1>7, SyncBounded DEF SeeReceipt, SwitchNetwork, Effect
  <2>4. switches' \in 0..MaxSwitches
    BY <1>1, <2>2
  <2> QED BY <1>1, <2>1, <2>3, <2>4 DEF Bounded
<1>8. CASE Navigate \/ Reload
  <2>1. PICK p \in Pages \cup {page} : Mount(p) /\ UNCHANGED <<txs, switches>>
    BY <1>8 DEF Navigate, Reload, chainVars
  <2> QED BY <1>1, <2>1, PageAssumption DEF Mount, Bounded
<1>9. CASE UNCHANGED vars
  BY <1>9 DEF vars, pageVars, chainVars, Bounded
<1>10. CASE TimePasses
  BY <1>10 DEF TimePasses, pageVars, Bounded
<1> QED BY <1>2, <1>3, <1>4, <1>5, <1>6, <1>7, <1>8, <1>9, <1>10 DEF Next, Runs

LEMMA InitBounded == Init => Bounded
BY PageAssumption DEF Init, Bounded

\* The two invariants of the page, and its bounds.
LEMMA PageInductive == Spec => [](PInv /\ Bounded)
BY Inductive, InitPInv, NextPInv, InitBounded, NextBounded, PTL DEF Spec

\* The tab, the wallet's transactions and the pages' runs keep their types.
THEOREM FormsTyped == Spec => []TypeOK
<1>1. ASSUME IInv, PInv, Bounded PROVE TypeOK
  <2>1. Cardinality(signer) <= 1 /\ signer \in SUBSET Attempts
    <3>1. CASE signer = {}
      BY <3>1, FS_EmptySet
    <3>2. ASSUME NEW a \in Attempts, signer = {a} PROVE Cardinality(signer) <= 1
      BY <3>2, FS_Singleton
    <3> QED BY <1>1, <3>1, <3>2 DEF Bounded
  <2>2. ASSUME NEW k \in DOMAIN txs
        PROVE  txs[k].status \in {"prompt", "rejected", "sent", "mined", "reverted"}
    <3>1. txs[k] \in Tx
      BY <1>1 DEF IInv, Typed
    <3> QED BY <3>1 DEF Tx, Statuses
  <2>3. Len(txs) \in 0..MaxTxs /\ pendingPost \in 0..Len(txs) /\ hook.tx \in 0..Len(txs)
    BY <1>1, PageAssumption DEF IInv, Typed, Followed
  <2>4. /\ DOMAIN attempt = Attempts
        /\ \A a \in Attempts : attempt[a].pc \in Pcs /\ attempt[a].form \in Pages
    BY <1>1 DEF IInv, Typed, AttemptRecord
  <2>5. /\ page \in Pages /\ postSynced \in BOOLEAN /\ hook.seen \in BOOLEAN
        /\ sent \in [TxIds -> Nat] /\ clock \in Instants \cup {0}
    BY <1>1 DEF IInv, Typed, PInv, PageState
  <2> QED BY <1>1, <2>1, <2>2, <2>3, <2>4, <2>5 DEF Bounded, TypeOK
<1> QED BY <1>1, Inductive, PageInductive, PTL

-----------------------------------------------------------------------------
(* What was committed: a fourth invariant, over the commitments that were  *)
(* computed and not forgotten.                                             *)

\* The batches in the hands of handleSubmit or of the wallet.
Batches == {attempt[a].batch : a \in Attempts} \cup {txs[k].batch : k \in DOMAIN txs}

Made == registered \cup UNION {Commitments(b) : b \in Batches}

\* Nonces are numbers that were drawn; that of a round is no other
\* commitment's, and no run of handleSubmit can use it again.
Fresh ==
  /\ nonceRef \in 0..drawn
  /\ \A a \in Attempts : attempt[a].nonce \in 0..drawn
  /\ \A c \in Made : c.nonce \in 0..drawn
  /\ \A c \in Made : c.form = "dca" =>
       /\ c.nonce \notin {0, nonceRef}
       /\ \A a \in Attempts : c.nonce # attempt[a].nonce
       /\ \A d \in Made : c # d => c.nonce # d.nonce

\* An order is one that was filled in, at its price, which is not 0.
Priced ==
  /\ \A a \in Attempts : attempt[a].pc # "off" /\ attempt[a].form = "orders" =>
       ~ReturnsAtOnce(attempt[a].input)
  /\ \A c \in Made : c.form = "orders" =>
       /\ c.input \in Inputs /\ c.price = CommittedPrice(c.input)
       /\ ~ReturnsAtOnce(c.input)

MInv == Fresh /\ Priced

\* What the hands of a step hold was there before, or is in its new batch.
LEMMA HandsMake ==
  ASSUME NEW b,
         \A a \in Attempts : attempt'[a].batch \in Batches \cup {b},
         \A k \in DOMAIN txs' : txs'[k].batch \in Batches \cup {b},
         registered' \subseteq Made
  PROVE  Made' \subseteq Made \cup Commitments(b)
<1>1. Batches' \subseteq Batches \cup {b}
  BY DEF Batches
<1>2. ASSUME NEW B, B = Batches', NEW c \in UNION {Commitments(d) : d \in B}
      PROVE  c \in Made \cup Commitments(b)
  <2>1. PICK d \in B : c \in Commitments(d)
    BY <1>2
  <2> QED BY <1>1, <1>2, <2>1 DEF Made
<1>3. Made' = registered' \cup UNION {Commitments(d) : d \in Batches'}
  BY DEF Made, Commitments
<1> QED BY <1>2, <1>3

\* The empty batch makes nothing.
LEMMA NothingMade == Commitments(<<>>) = {}
BY DEF Commitments

\* A step that makes no commitment and draws at most its page's nonce.
LEMMA NothingNew ==
  ASSUME Typed, MInv, Made' \subseteq Made,
         \/ UNCHANGED <<nonceRef, drawn>>
         \/ nonceRef' = drawn + 1 /\ drawn' = drawn + 1,
         \A a \in Attempts :
           /\ attempt'[a].nonce \in {0, nonceRef, attempt[a].nonce}
           /\ attempt'[a].pc # "off" /\ attempt'[a].form = "orders" =>
                ~ReturnsAtOnce(attempt'[a].input)
  PROVE  MInv'
<1>1. /\ drawn \in Nat /\ nonceRef \in 0..drawn
      /\ \A a \in Attempts : attempt[a].nonce \in 0..drawn
      /\ \A c \in Made : c.nonce \in 0..drawn
  BY DEF Typed, MInv, Fresh
<1>2. /\ drawn' \in Nat /\ drawn <= drawn' /\ nonceRef' \in 0..drawn'
      /\ \A c \in Made' : c.nonce \in 0..drawn'
      /\ \A a \in Attempts : attempt'[a].nonce \in 0..drawn'
  BY <1>1
<1>3. ASSUME NEW c \in Made', c.form = "dca"
      PROVE  /\ c.nonce \notin {0, nonceRef'}
             /\ \A a \in Attempts : c.nonce # attempt'[a].nonce
             /\ \A d \in Made' : c # d => c.nonce # d.nonce
  <2>1. /\ c \in Made /\ c.nonce \in 0..drawn /\ c.nonce \notin {0, nonceRef}
        /\ \A a \in Attempts : c.nonce # attempt[a].nonce
        /\ \A d \in Made : c # d => c.nonce # d.nonce
    BY <1>1, <1>3 DEF MInv, Fresh
  <2>2. c.nonce # nonceRef'
    BY <1>1, <2>1
  <2> QED BY <2>1, <2>2
<1>4. Fresh'
  BY <1>2, <1>3 DEF Fresh
<1>5. Priced'
  BY DEF MInv, Priced, ReturnsAtOnce, CommittedPrice
<1> QED BY <1>4, <1>5 DEF MInv

\* A click, the list of keepers, the records, an error.
LEMMA EarlyMade ==
  ASSUME IInv, MInv, NEW a \in Attempts, Clicks(a) \/ ListKeepers(a) \/ Save(a) \/ Fails(a)
  PROVE  MInv'
<1>1. /\ attempt \in [Attempts -> AttemptRecord] /\ Typed
      /\ UNCHANGED <<txs, registered, nonceRef, drawn>>
  BY DEF IInv, Typed, Clicks, SubmitGroup, HandleSubmit, Begin, ListKeepers, Save, Fails,
         pageVars, chainVars
<1>2. ASSUME NEW r, attempt' = [attempt EXCEPT ![a] = r],
             r.batch \in {<<>>, attempt[a].batch},
             r.nonce \in {0, nonceRef, attempt[a].nonce},
             r.pc # "off" /\ r.form = "orders" => ~ReturnsAtOnce(r.input)
      PROVE  MInv'
  <2>1. \A b \in Attempts : attempt'[b].batch \in Batches \cup {<<>>}
    BY <1>1, <1>2 DEF Batches
  <2>2. \A k \in DOMAIN txs' : txs'[k].batch \in Batches \cup {<<>>}
    BY <1>1 DEF Batches
  <2>3. Made' \subseteq Made
    BY <1>1, <2>1, <2>2, HandsMake, NothingMade DEF Made
  <2>4. \A b \in Attempts :
          /\ attempt'[b].nonce \in {0, nonceRef, attempt[b].nonce}
          /\ attempt'[b].pc # "off" /\ attempt'[b].form = "orders" =>
               ~ReturnsAtOnce(attempt'[b].input)
    BY <1>1, <1>2 DEF MInv, Priced
  <2> QED BY <1>1, <2>3, <2>4, NothingNew
<1>3. CASE SubmitGroup(a)
  BY <1>2, <1>3 DEF SubmitGroup, Begin, Off
<1>4. ASSUME NEW input \in Inputs, HandleSubmit(a, input) PROVE MInv'
  BY <1>2, <1>4 DEF HandleSubmit, Begin, Off
<1>5. CASE Fails(a)
  BY <1>2, <1>5 DEF Fails, Off
<1>6. CASE ListKeepers(a) \/ Save(a)
  <2>1. PICK pc : attempt' = [attempt EXCEPT ![a] = [attempt[a] EXCEPT !.pc = pc]]
    BY <1>1, <1>6 DEF ListKeepers, Save, Go, AttemptRecord
  <2>2. attempt[a].pc # "off" /\ attempt[a] \in AttemptRecord
    BY <1>1, <1>6 DEF ListKeepers, Save
  <2> DEFINE r == [attempt[a] EXCEPT !.pc = pc]
  <2>3. /\ r.batch = attempt[a].batch /\ r.nonce = attempt[a].nonce
        /\ r.form = attempt[a].form /\ r.input = attempt[a].input
    BY <2>2 DEF AttemptRecord
  <2>4. r.form = "orders" => ~ReturnsAtOnce(r.input)
    BY <2>2, <2>3 DEF MInv, Priced
  <2>5. attempt' = [attempt EXCEPT ![a] = r]
    BY <2>1
  <2> HIDE DEF r
  <2> QED BY <1>2, <2>3, <2>4, <2>5
<1> QED BY <1>3, <1>4, <1>5, <1>6 DEF Clicks

\* The signature of an order: its price is the one that was filled in, its
\* nonce that of its page.
LEMMA SignOrderMade ==
  ASSUME IInv, MInv, NEW a \in Attempts, SignOrder(a)
  PROVE  MInv'
<1> DEFINE new == CommitmentHash(attempt[a].input, attempt[a].nonce)
           batch == <<new>>
<1>1. /\ attempt \in [Attempts -> AttemptRecord] /\ Typed
      /\ attempt[a].pc = "sign" /\ attempt[a].form = "orders"
      /\ attempt' = [attempt EXCEPT ![a] = [attempt[a] EXCEPT !.pc = "save", !.batch = batch]]
      /\ UNCHANGED <<txs, registered, nonceRef, drawn>>
  BY DEF IInv, Typed, SignOrder, chainVars, AttemptRecord
<1>2. /\ attempt[a] \in AttemptRecord /\ attempt[a].input \in Inputs
      /\ ~ReturnsAtOnce(attempt[a].input)
  BY <1>1 DEF Typed, MInv, Priced
<1>3. /\ new.form = "orders" /\ new.nonce = attempt[a].nonce /\ new.input = attempt[a].input
      /\ new.price = CommittedPrice(attempt[a].input)
  BY DEF CommitmentHash
<1>4. Commitments(batch) = {new}
  <2>1. DOMAIN batch = {1} /\ batch[1] = new
    <3> HIDE DEF new
    <3> QED OBVIOUS
  <2> HIDE DEF batch, new
  <2> QED BY <2>1 DEF Commitments
<1> HIDE DEF batch, new
<1>5. \A b \in Attempts :
        /\ attempt'[b].nonce = attempt[b].nonce /\ attempt'[b].form = attempt[b].form
        /\ attempt'[b].input = attempt[b].input
        /\ attempt'[b].batch \in {attempt[b].batch, batch}
        /\ attempt'[b].pc = attempt[b].pc \/ (b = a /\ attempt'[b].pc = "save")
  BY <1>1, <1>2 DEF AttemptRecord
<1>6. Made' \subseteq Made \cup {new}
  <2>1. \A b \in Attempts : attempt'[b].batch \in Batches \cup {batch}
    BY <1>5 DEF Batches
  <2>2. \A k \in DOMAIN txs' : txs'[k].batch \in Batches \cup {batch}
    BY <1>1 DEF Batches
  <2> QED BY <1>1, <1>4, <2>1, <2>2, HandsMake DEF Made
<1>7. Fresh'
  <2>1. \A c \in Made : c.form = "dca" => c.nonce # new.nonce
    BY <1>3 DEF MInv, Fresh
  <2>2. new.nonce \in 0..drawn
    BY <1>3 DEF MInv, Fresh
  <2>3. \A c \in Made' : c.nonce \in 0..drawn
    BY <1>6, <2>2 DEF MInv, Fresh
  <2>4. ASSUME NEW c \in Made', c.form = "dca"
        PROVE  /\ c.nonce \notin {0, nonceRef}
               /\ \A b \in Attempts : c.nonce # attempt[b].nonce
               /\ \A d \in Made' : c # d => c.nonce # d.nonce
    <3>1. c \in Made
      BY <1>3, <1>6, <2>4
    <3> QED BY <1>6, <2>1, <2>4, <3>1 DEF MInv, Fresh
  <2> QED BY <1>1, <1>5, <2>3, <2>4 DEF MInv, Fresh
<1>8. Priced'
  <2>1. ASSUME NEW c \in Made', c.form = "orders"
        PROVE  /\ c.input \in Inputs /\ c.price = CommittedPrice(c.input)
               /\ ~ReturnsAtOnce(c.input)
    BY <1>2, <1>3, <1>6, <2>1 DEF MInv, Priced
  <2>2. ASSUME NEW b \in Attempts, attempt'[b].pc # "off", attempt'[b].form = "orders"
        PROVE  ~ReturnsAtOnce(attempt'[b].input)
    BY <1>1, <1>5, <2>2 DEF MInv, Priced
  <2> QED BY <2>1, <2>2 DEF Priced, ReturnsAtOnce, CommittedPrice
<1> QED BY <1>7, <1>8 DEF MInv

\* The signature of a group: each round has a nonce that is drawn for it.
LEMMA SignGroupMade ==
  ASSUME IInv, MInv, NEW a \in Attempts, SignGroup(a)
  PROVE  MInv'
<1> DEFINE round(i) == Round(i, attempt[a].nonce, drawn + i, clock)
           batch == [i \in 1..Rounds |-> round(i)]
<1>1. /\ attempt \in [Attempts -> AttemptRecord] /\ Typed /\ Rounds \in Nat
      /\ drawn \in Nat /\ drawn' = drawn + Rounds
      /\ attempt[a].pc = "sign" /\ attempt[a].form = "dca"
      /\ UNCHANGED <<txs, registered, nonceRef>>
  BY RoundsAssumption DEF IInv, Typed, SignGroup, chainVars
<1>2. attempt' = [attempt EXCEPT ![a] = [attempt[a] EXCEPT !.pc = "save", !.batch = batch]]
  <2>1. batch = [i \in 1..Rounds |-> Round(i, attempt[a].nonce, RoundNonces(a)[i], clock)]
    BY DEF RoundNonces
  <2> HIDE DEF batch
  <2> QED BY <1>1, <2>1 DEF SignGroup, AttemptRecord
<1>3. \A i \in 1..Rounds : round(i).form = "dca" /\ round(i).nonce = drawn + i
  BY DEF Round
<1>4. Commitments(batch) = {round(i) : i \in 1..Rounds}
  BY DEF Commitments
<1>5. attempt[a] \in AttemptRecord
  BY <1>1
<1> HIDE DEF batch, round
<1>6. \A b \in Attempts :
        /\ attempt'[b].nonce = attempt[b].nonce /\ attempt'[b].form = attempt[b].form
        /\ attempt'[b].input = attempt[b].input
        /\ attempt'[b].batch \in {attempt[b].batch, batch}
        /\ attempt'[b].pc = attempt[b].pc \/ (b = a /\ attempt'[b].pc = "save")
  BY <1>1, <1>2, <1>5 DEF AttemptRecord
<1>7. \A c \in Made' : c \in Made \/ \E i \in 1..Rounds : c = round(i)
  <2>1. \A b \in Attempts : attempt'[b].batch \in Batches \cup {batch}
    BY <1>6 DEF Batches
  <2>2. \A k \in DOMAIN txs' : txs'[k].batch \in Batches \cup {batch}
    BY <1>1 DEF Batches
  <2>3. Made' \subseteq Made \cup Commitments(batch)
    BY <1>1, <2>1, <2>2, HandsMake DEF Made
  <2> QED BY <1>4, <2>3
<1>8. Fresh'
  <2>1. /\ nonceRef \in 0..drawn /\ \A b \in Attempts : attempt[b].nonce \in 0..drawn
        /\ \A c \in Made : c.nonce \in 0..drawn
    BY DEF MInv, Fresh
  <2>2. \A c \in Made' : c.nonce \in 0..(drawn + Rounds)
    BY <1>1, <1>3, <1>7, <2>1
  <2>3. ASSUME NEW c \in Made', c.form = "dca"
        PROVE  /\ c.nonce \notin {0, nonceRef}
               /\ \A b \in Attempts : c.nonce # attempt[b].nonce
               /\ \A d \in Made' : c # d => c.nonce # d.nonce
    <3>1. CASE c \in Made
      <4>1. /\ c.nonce \notin {0, nonceRef} /\ c.nonce \in 0..drawn
            /\ \A b \in Attempts : c.nonce # attempt[b].nonce
            /\ \A d \in Made : c # d => c.nonce # d.nonce
        BY <2>3, <3>1 DEF MInv, Fresh
      <4>2. \A i \in 1..Rounds : c.nonce # round(i).nonce
        BY <1>1, <1>3, <4>1
      <4> QED BY <1>7, <4>1, <4>2
    <3>2. ASSUME NEW i \in 1..Rounds, c = round(i)
          PROVE  /\ c.nonce \notin {0, nonceRef}
                 /\ \A b \in Attempts : c.nonce # attempt[b].nonce
                 /\ \A d \in Made' : c # d => c.nonce # d.nonce
      <4>1. c.nonce = drawn + i
        BY <1>3, <3>2
      <4>2. \A j \in 1..Rounds : c # round(j) => c.nonce # round(j).nonce
        <5>1. \A j \in 1..Rounds : drawn + i = drawn + j => i = j
          BY <1>1
        <5> QED BY <1>3, <3>2, <4>1, <5>1
      <4>3. \A d \in Made : c.nonce # d.nonce
        BY <1>1, <2>1, <4>1
      <4> QED BY <1>1, <1>7, <2>1, <4>1, <4>2, <4>3
    <3> QED BY <1>7, <3>1, <3>2
  <2>4. nonceRef \in 0..(drawn + Rounds)
    BY <1>1, <2>1
  <2>5. \A b \in Attempts : attempt[b].nonce \in 0..(drawn + Rounds)
    BY <1>1, <2>1
  <2> QED BY <1>1, <1>6, <2>2, <2>3, <2>4, <2>5 DEF Fresh
<1>9. Priced'
  <2>1. ASSUME NEW c \in Made', c.form = "orders"
        PROVE  /\ c.input \in Inputs /\ c.price = CommittedPrice(c.input)
               /\ ~ReturnsAtOnce(c.input)
    BY <1>3, <1>7, <2>1 DEF MInv, Priced
  <2>2. ASSUME NEW b \in Attempts, attempt'[b].pc # "off", attempt'[b].form = "orders"
        PROVE  ~ReturnsAtOnce(attempt'[b].input)
    BY <1>1, <1>6, <2>2 DEF MInv, Priced
  <2> QED BY <2>1, <2>2 DEF Priced, ReturnsAtOnce, CommittedPrice
<1> QED BY <1>8, <1>9 DEF MInv

\* A batch goes from handleSubmit to the wallet.
LEMMA RegistersMade ==
  ASSUME IInv, MInv, NEW a \in Attempts, RegisterOrder(a) \/ RegisterGroup(a)
  PROVE  MInv'
<1>1. /\ attempt \in [Attempts -> AttemptRecord] /\ Typed /\ txs \in Seq(Tx)
      /\ attempt' = [attempt EXCEPT ![a] = Off]
      /\ txs' = Append(txs, [batch |-> attempt[a].batch, status |-> "prompt"])
      /\ UNCHANGED <<registered, nonceRef, drawn>>
  BY DEF IInv, Typed, RegisterOrder, RegisterGroup, WriteContract, pageVars
<1>2. \A b \in Attempts : attempt'[b] = IF b = a THEN Off ELSE attempt[b]
  BY <1>1
<1>3. \A k \in DOMAIN txs' : txs'[k].batch \in Batches
  <2> DEFINE tx == [batch |-> attempt[a].batch, status |-> "prompt"]
  <2>1. tx.batch = attempt[a].batch /\ txs' = Append(txs, tx)
    BY <1>1
  <2> HIDE DEF tx
  <2>2. /\ Len(txs) \in Nat /\ DOMAIN txs = 1..Len(txs)
        /\ DOMAIN txs' = 1..(Len(txs) + 1) /\ txs'[Len(txs) + 1] = tx
        /\ \A k \in DOMAIN txs : txs'[k] = txs[k]
    BY <1>1, <2>1
  <2>3. \A k \in DOMAIN txs' : k \in DOMAIN txs \/ k = Len(txs) + 1
    BY <2>2
  <2> QED BY <2>1, <2>2, <2>3 DEF Batches
<1>4. \A b \in Attempts : attempt'[b].batch \in Batches \cup {<<>>}
  BY <1>2 DEF Batches, Off
<1>5. Made' \subseteq Made
  BY <1>1, <1>3, <1>4, HandsMake, NothingMade DEF Made
<1>6. \A b \in Attempts :
        /\ attempt'[b].nonce \in {0, nonceRef, attempt[b].nonce}
        /\ attempt'[b].pc # "off" /\ attempt'[b].form = "orders" =>
             ~ReturnsAtOnce(attempt'[b].input)
  BY <1>2 DEF Off, MInv, Priced
<1> QED BY <1>1, <1>5, <1>6, NothingNew

\* A transaction registers what the wallet was handed.
LEMMA ChainMade ==
  ASSUME IInv, MInv, NEW k \in TxIds, WalletAnswers(k) \/ Mine(k)
  PROVE  MInv'
<1>1. /\ k \in DOMAIN txs /\ txs \in Seq(Tx) /\ Typed
      /\ UNCHANGED <<attempt, nonceRef, drawn>>
      /\ registered' \subseteq registered \cup Commitments(txs[k].batch)
  BY DEF IInv, Typed, WalletAnswers, Answered, Mine, pageVars
<1>2. PICK s : txs' = [txs EXCEPT ![k] = [txs[k] EXCEPT !.status = s]]
  <2>1. \/ \E ok \in BOOLEAN :
             txs' = [txs EXCEPT ![k].status = IF ok THEN "sent" ELSE "rejected"]
        \/ txs' = [txs EXCEPT ![k].status = "mined"]
        \/ txs' = [txs EXCEPT ![k].status = "reverted"]
    BY DEF WalletAnswers, Answered, Mine
  <2> QED BY <2>1
<1>3. txs[k] \in Tx
  BY <1>1
<1>4. DOMAIN txs' = DOMAIN txs /\ \A j \in DOMAIN txs : txs'[j].batch = txs[j].batch
  BY <1>1, <1>2, <1>3 DEF Tx
<1>5. Made' \subseteq Made
  <2>1. \A b \in Attempts : attempt'[b].batch \in Batches \cup {<<>>}
    BY <1>1 DEF Batches
  <2>2. \A j \in DOMAIN txs' : txs'[j].batch \in Batches \cup {<<>>}
    BY <1>4 DEF Batches
  <2>3. txs[k].batch \in Batches
    BY <1>1 DEF Batches
  <2>4. registered' \subseteq Made
    BY <1>1, <2>3 DEF Made
  <2> QED BY <2>1, <2>2, <2>4, HandsMake, NothingMade
<1>6. \A a \in Attempts :
        /\ attempt'[a].nonce \in {0, nonceRef, attempt[a].nonce}
        /\ attempt'[a].pc # "off" /\ attempt'[a].form = "orders" =>
             ~ReturnsAtOnce(attempt'[a].input)
  BY <1>1 DEF MInv, Priced
<1> QED BY <1>1, <1>5, <1>6, NothingNew

\* The hook, the network, the backend; and a page that is mounted draws its
\* nonce.
LEMMA PageMade ==
  ASSUME IInv, MInv,
         \/ SeeReceipt \/ SwitchNetwork \/ BackendAnswers \/ Navigate \/ Reload \/ TimePasses
         \/ UNCHANGED vars
  PROVE  MInv'
<1>1. attempt \in [Attempts -> AttemptRecord] /\ Typed
  BY DEF IInv, Typed
<1>2. /\ UNCHANGED <<txs, registered>>
      /\ \/ UNCHANGED <<nonceRef, drawn>>
         \/ nonceRef' = drawn + 1 /\ drawn' = drawn + 1
  BY DEF SeeReceipt, SwitchNetwork, BackendAnswers, AnswerOrder, AnswerGroup, Navigate, Reload,
         TimePasses, Mount, vars, pageVars, chainVars
<1>3. \A a \in Attempts : \/ attempt'[a] = attempt[a] \/ attempt'[a] = Off
                          \/ attempt'[a] = [attempt[a] EXCEPT !.mounted = FALSE]
  BY DEF SeeReceipt, SwitchNetwork, BackendAnswers, AnswerOrder, AnswerGroup, Navigate, Reload,
         TimePasses, vars
<1>4. \A a \in Attempts :
        \/ attempt'[a] = Off
        \/ /\ attempt'[a].pc = attempt[a].pc /\ attempt'[a].form = attempt[a].form
           /\ attempt'[a].input = attempt[a].input /\ attempt'[a].batch = attempt[a].batch
           /\ attempt'[a].nonce = attempt[a].nonce
  <2>1. \A a \in Attempts : attempt[a] \in AttemptRecord
    BY <1>1
  <2>2. ASSUME NEW r \in AttemptRecord
        PROVE  LET s == [r EXCEPT !.mounted = FALSE]
               IN  /\ s.pc = r.pc /\ s.form = r.form /\ s.input = r.input
                   /\ s.batch = r.batch /\ s.nonce = r.nonce
    BY DEF AttemptRecord
  <2> QED BY <1>3, <2>1, <2>2
<1>5. Made' \subseteq Made
  <2>1. \A b \in Attempts : attempt'[b].batch \in Batches \cup {<<>>}
    BY <1>4 DEF Batches, Off
  <2>2. \A k \in DOMAIN txs' : txs'[k].batch \in Batches \cup {<<>>}
    BY <1>2 DEF Batches
  <2> QED BY <1>2, <2>1, <2>2, HandsMake, NothingMade DEF Made
<1>6. \A a \in Attempts :
        /\ attempt'[a].nonce \in {0, nonceRef, attempt[a].nonce}
        /\ attempt'[a].pc # "off" /\ attempt'[a].form = "orders" =>
             ~ReturnsAtOnce(attempt'[a].input)
  BY <1>4 DEF Off, MInv, Priced
<1> QED BY <1>1, <1>2, <1>5, <1>6, NothingNew

LEMMA InitMInv == Init => MInv
<1> SUFFICES ASSUME Init PROVE MInv
  OBVIOUS
<1>1. txs = <<>> /\ \A a \in Attempts : attempt[a] = Off
  BY DEF Init
<1>2. Batches \subseteq {<<>>}
  BY <1>1 DEF Batches, Off
<1>3. Made = {}
  BY <1>2, NothingMade DEF Init, Made
<1> QED BY <1>1, <1>3 DEF Init, MInv, Fresh, Priced, Off

LEMMA NextMInv == IInv /\ MInv /\ [Next]_vars => MInv'
<1> SUFFICES ASSUME IInv, MInv, [Next]_vars PROVE MInv'
  OBVIOUS
<1>1. ASSUME NEW a \in Attempts, Clicks(a) \/ Runs(a) \/ Fails(a) PROVE MInv'
  BY <1>1, EarlyMade, SignOrderMade, SignGroupMade, RegistersMade DEF Runs
<1>2. ASSUME NEW k \in TxIds, WalletAnswers(k) \/ Mine(k) PROVE MInv'
  BY <1>2, ChainMade
<1>3. CASE \/ BackendAnswers \/ SeeReceipt \/ SwitchNetwork \/ Navigate \/ Reload
           \/ TimePasses \/ UNCHANGED vars
  BY <1>3, PageMade
<1> QED BY <1>1, <1>2, <1>3 DEF Next

LEMMA MadeInductive == Spec => []MInv
BY Inductive, InitMInv, NextMInv, PTL DEF Spec

\* The rounds of a group have nullifiers of their own, however many groups and
\* orders are prepared at once.
THEOREM RoundsAreFresh == Spec => []FreshRounds
<1>1. MInv => FreshRounds
  BY DEF MInv, Fresh, Made, FreshRounds
<1> QED BY <1>1, MadeInductive, PTL

-----------------------------------------------------------------------------
(* What was sent: a fifth invariant, over the first two.                   *)

\* A batch of the order page is an order and one of the DCA page is rounds,
\* the page's payload is one of its own, and an order that was sent is the
\* payload the page remembers.
Once ==
  /\ \A a \in Attempts : attempt[a].pc \in {"save", "register"} =>
       attempt[a].batch[1].form = attempt[a].form
  /\ pendingPost # 0 => txs[pendingPost].batch[1].form = page
  /\ pendingPost # 0 /\ page = "orders" /\ sent[pendingPost] > 0 =>
       syncHash = Commitments(txs[pendingPost].batch)
  /\ OrderPostedOnce

\* A step of the runs of handleSubmit that leaves the payloads alone.
LEMMA EarlyOnce ==
  ASSUME IInv, Once, NEW a \in Attempts,
         Clicks(a) \/ ListKeepers(a) \/ SignOrder(a) \/ SignGroup(a) \/ Save(a) \/ Fails(a)
  PROVE  Once'
<1>1. attempt \in [Attempts -> AttemptRecord]
  BY DEF IInv, Typed
<1>2. UNCHANGED <<page, syncHash, txs, pendingPost, sent>>
  BY DEF Clicks, SubmitGroup, HandleSubmit, Begin, ListKeepers, SignOrder, SignGroup, Save,
         Fails, pageVars, chainVars
<1>3. ASSUME NEW r, attempt' = [attempt EXCEPT ![a] = r],
             r.pc \in {"save", "register"} => r.batch[1].form = r.form
      PROVE  Once'
  <2>1. \A b \in Attempts : attempt'[b].pc \in {"save", "register"} =>
          attempt'[b].batch[1].form = attempt'[b].form
    BY <1>1, <1>3 DEF Once
  <2> QED BY <1>2, <2>1 DEF Once, OrderPostedOnce, Commitments
<1>4. CASE SubmitGroup(a) \/ \E input \in Inputs : HandleSubmit(a, input)
  BY <1>3, <1>4 DEF SubmitGroup, HandleSubmit, Begin, Off
<1>5. CASE Fails(a)
  BY <1>3, <1>5 DEF Fails, Off
<1>6. CASE ListKeepers(a)
  BY <1>1, <1>3, <1>6 DEF ListKeepers, Go, AttemptRecord
<1>7. CASE SignOrder(a)
  <2> DEFINE new == CommitmentHash(attempt[a].input, attempt[a].nonce)
             batch == <<new>>
             r == [attempt[a] EXCEPT !.pc = "save", !.batch = batch]
  <2>1. attempt' = [attempt EXCEPT ![a] = r] /\ attempt[a].form = "orders"
    BY <1>1, <1>7 DEF SignOrder, AttemptRecord
  <2>2. new.form = "orders"
    BY DEF CommitmentHash
  <2>3. batch[1] = new
    <3> HIDE DEF new
    <3> QED OBVIOUS
  <2>4. r.batch = batch /\ r.form = attempt[a].form
    BY <1>1 DEF AttemptRecord
  <2> HIDE DEF r, batch, new
  <2> QED BY <1>3, <2>1, <2>2, <2>3, <2>4
<1>8. CASE SignGroup(a)
  <2> DEFINE batch == [i \in 1..Rounds |->
                         Round(i, attempt[a].nonce, RoundNonces(a)[i], clock)]
             r == [attempt[a] EXCEPT !.pc = "save", !.batch = batch]
  <2>1. attempt' = [attempt EXCEPT ![a] = r] /\ attempt[a].form = "dca"
    BY <1>1, <1>8 DEF SignGroup, AttemptRecord
  <2>2. batch[1].form = "dca"
    BY RoundsAssumption DEF Round
  <2>3. r.batch = batch /\ r.form = attempt[a].form
    BY <1>1 DEF AttemptRecord
  <2> HIDE DEF r, batch
  <2> QED BY <1>3, <2>1, <2>2, <2>3
<1>9. CASE Save(a)
  <2>1. attempt' = [attempt EXCEPT ![a] = [attempt[a] EXCEPT !.pc = "register"]]
    BY <1>1, <1>9 DEF Save, Go, AttemptRecord
  <2>2. attempt[a].batch[1].form = attempt[a].form
    BY <1>9 DEF Save, Once
  <2> QED BY <1>1, <1>3, <2>1, <2>2 DEF AttemptRecord
<1> QED BY <1>4, <1>5, <1>6, <1>7, <1>8, <1>9 DEF Clicks

\* A new transaction has a payload that was never sent.
LEMMA RegistersOnce ==
  ASSUME IInv, PInv, Once, NEW a \in Attempts, RegisterOrder(a) \/ RegisterGroup(a)
  PROVE  Once'
<1> DEFINE tx == [batch |-> attempt[a].batch, status |-> "prompt"]
<1>1. /\ attempt \in [Attempts -> AttemptRecord] /\ txs \in Seq(Tx) /\ Len(txs) \in Nat
      /\ MaxTxs \in Nat /\ Len(txs) < MaxTxs
      /\ sent \in [TxIds -> Nat]
      /\ \A k \in TxIds : sent[k] > 0 => k \in DOMAIN txs
      /\ attempt[a].pc = "register" /\ attempt' = [attempt EXCEPT ![a] = Off]
      /\ txs' = Append(txs, tx) /\ UNCHANGED page
      /\ pendingPost \in 0..Len(txs)
  BY PageAssumption DEF IInv, Typed, Followed, MinedFirst, RegisterOrder, RegisterGroup,
                        WriteContract, pageVars
<1>2. tx.batch = attempt[a].batch
  OBVIOUS
<1> HIDE DEF tx
<1>3. /\ DOMAIN txs' = 1..(Len(txs) + 1) /\ DOMAIN txs = 1..Len(txs)
      /\ txs'[Len(txs) + 1] = tx
      /\ \A k \in DOMAIN txs : txs'[k] = txs[k]
  BY <1>1
<1>4. sent[Len(txs) + 1] = 0
  <2>1. Len(txs) + 1 \in TxIds /\ Len(txs) + 1 \notin DOMAIN txs
    BY <1>1, <1>3 DEF TxIds
  <2> QED BY <1>1, <2>1
<1>5. tx.batch[1].form = attempt[a].form
  BY <1>1, <1>2 DEF Once
<1>6. \A b \in Attempts : attempt'[b].pc \in {"save", "register"} =>
        attempt'[b].batch[1].form = attempt'[b].form
  BY <1>1 DEF Once, Off
<1>7. sent' = sent
  <2>1. CASE attempt[a].mounted
    <3>1. /\ hook' = HookFollows
          /\ \/ SyncOrder(hook', pendingPost', postSynced', {}, Away)
             \/ SyncGroup(hook', pendingPost', postSynced', Away)
      BY <2>1 DEF RegisterOrder, RegisterGroup
    <3>2. ~IsSuccess(hook', Away)
      BY <3>1 DEF HookFollows, IsSuccess
    <3> QED BY <3>1, <3>2 DEF SyncOrder, SyncGroup
  <2>2. CASE ~attempt[a].mounted
    BY <2>2 DEF RegisterOrder, RegisterGroup
  <2> QED BY <2>1, <2>2
<1>8. OrderPostedOnce'
  <2>1. \A k \in DOMAIN txs' : k \in DOMAIN txs \/ k = Len(txs) + 1
    BY <1>3
  <2> QED BY <1>3, <1>4, <1>7, <2>1 DEF Once, OrderPostedOnce
<1>9. CASE attempt[a].mounted
  <2>1. pendingPost' = Len(txs) + 1 /\ attempt[a].form = page
    BY <1>9 DEF RegisterOrder, RegisterGroup, PInv, PageState
  <2>2. txs'[pendingPost'].batch[1].form = page'
    BY <1>1, <1>3, <1>5, <2>1
  <2>3. sent'[pendingPost'] = 0
    BY <1>4, <1>7, <2>1
  <2> QED BY <1>6, <1>8, <2>2, <2>3 DEF Once
<1>10. CASE ~attempt[a].mounted
  <2>1. UNCHANGED <<pendingPost, syncHash>>
    BY <1>10 DEF RegisterOrder, RegisterGroup, pageVars
  <2>2. pendingPost # 0 => txs'[pendingPost] = txs[pendingPost]
    BY <1>1, <1>3
  <2> QED BY <1>1, <1>6, <1>7, <1>8, <2>1, <2>2 DEF Once, Commitments
<1> QED BY <1>9, <1>10

\* A transaction that moves on keeps its payload.
LEMMA ChainOnce ==
  ASSUME IInv, Once, NEW k \in TxIds, WalletAnswers(k) \/ Mine(k)
  PROVE  Once'
<1>1. /\ k \in DOMAIN txs /\ txs \in Seq(Tx) /\ pendingPost \in 0..Len(txs) /\ Len(txs) \in Nat
      /\ UNCHANGED <<attempt, page, pendingPost, syncHash, sent>>
  BY DEF IInv, Typed, Followed, WalletAnswers, Answered, Mine, pageVars
<1>2. PICK s : txs' = [txs EXCEPT ![k] = [txs[k] EXCEPT !.status = s]]
  <2>1. \/ \E ok \in BOOLEAN :
             txs' = [txs EXCEPT ![k].status = IF ok THEN "sent" ELSE "rejected"]
        \/ txs' = [txs EXCEPT ![k].status = "mined"]
        \/ txs' = [txs EXCEPT ![k].status = "reverted"]
    BY DEF WalletAnswers, Answered, Mine
  <2> QED BY <2>1
<1>3. txs[k] \in Tx
  BY <1>1
<1>4. DOMAIN txs' = DOMAIN txs /\ \A j \in DOMAIN txs : txs'[j].batch = txs[j].batch
  BY <1>1, <1>2, <1>3 DEF Tx
<1>5. pendingPost # 0 => pendingPost \in DOMAIN txs
  BY <1>1
<1> QED BY <1>1, <1>4, <1>5 DEF Once, OrderPostedOnce, Commitments

\* The effect sends an order that was not sent, and remembers it.
LEMMA EffectOnce ==
  ASSUME IInv, PInv, Once, UNCHANGED <<txs, attempt, page, pendingPost>>, NEW h, NEW away,
         Effect(h, pendingPost, postSynced, syncHash, away)
  PROVE  Once'
<1> DEFINE fired == sent' = [sent EXCEPT ![pendingPost] = @ + 1] /\ pendingPost # 0
<1>1. /\ sent \in [TxIds -> Nat] /\ page \in Pages
      /\ pendingPost # 0 => pendingPost \in TxIds /\ pendingPost \in DOMAIN txs
  <2>1. /\ txs \in Seq(Tx) /\ Len(txs) \in Nat /\ DOMAIN txs = 1..Len(txs)
        /\ MaxTxs \in Nat /\ Len(txs) <= MaxTxs /\ pendingPost \in 0..Len(txs)
    BY PageAssumption DEF IInv, Typed, Followed
  <2> QED BY <2>1 DEF IInv, Typed, PInv, PageState, TxIds
<1>2. ASSUME OrderPostedOnce',
             pendingPost # 0 /\ page = "orders" /\ sent'[pendingPost] > 0 =>
               syncHash' = Commitments(txs[pendingPost].batch)
      PROVE  Once'
  BY <1>2 DEF Once, Commitments
<1>3. \A k \in DOMAIN txs : k \in TxIds
  <2>1. txs \in Seq(Tx) /\ Len(txs) <= MaxTxs /\ MaxTxs \in Nat
    BY PageAssumption DEF IInv, Typed
  <2> QED BY <2>1 DEF TxIds
<1>4. CASE page = "orders"
  <2>1. SyncOrder(h, pendingPost, postSynced, syncHash, away)
    BY <1>4 DEF Effect
  <2>2. \/ sent' = sent /\ syncHash' = syncHash
        \/ /\ fired /\ syncHash # Commitments(txs[pendingPost].batch)
           /\ syncHash' = Commitments(txs[pendingPost].batch)
    BY <2>1 DEF SyncOrder, Commitments
  <2>3. CASE sent' = sent /\ syncHash' = syncHash
    BY <1>2, <2>3 DEF Once, OrderPostedOnce
  <2>4. CASE /\ fired /\ syncHash # Commitments(txs[pendingPost].batch)
             /\ syncHash' = Commitments(txs[pendingPost].batch)
    <3>1. sent[pendingPost] = 0
      BY <1>1, <1>4, <2>4 DEF Once
    <3>2. \A k \in DOMAIN txs : sent'[k] = IF k = pendingPost THEN 1 ELSE sent[k]
      BY <1>1, <1>3, <2>4, <3>1
    <3> QED BY <1>2, <2>4, <3>2 DEF Once, OrderPostedOnce
  <2> QED BY <2>2, <2>3, <2>4
<1>5. CASE page = "dca"
  <2>1. sent' = sent \/ fired
    BY <1>5 DEF Effect, SyncGroup
  <2>2. pendingPost # 0 => txs[pendingPost].batch[1].form = "dca"
    BY <1>5 DEF Once
  <2>3. \A k \in DOMAIN txs : k = pendingPost \/ sent'[k] = sent[k]
    BY <1>1, <1>3, <2>1
  <2>4. OrderPostedOnce'
    BY <2>1, <2>2, <2>3 DEF Once, OrderPostedOnce
  <2> QED BY <1>2, <1>5, <2>4
<1> QED BY <1>1, <1>4, <1>5 DEF Pages

\* The hook polls, the network changes, the backend answers, a page is left.
LEMMA PageOnce ==
  ASSUME IInv, PInv, Once,
         \/ SeeReceipt \/ SwitchNetwork \/ BackendAnswers \/ Navigate \/ Reload \/ TimePasses
         \/ UNCHANGED vars
  PROVE  Once'
<1>1. CASE SeeReceipt
  BY <1>1, EffectOnce DEF SeeReceipt, chainVars
<1>2. CASE SwitchNetwork
  BY <1>2, EffectOnce DEF SwitchNetwork, chainVars
<1>3. CASE BackendAnswers \/ TimePasses \/ UNCHANGED vars
  <2>1. UNCHANGED <<attempt, txs, page, pendingPost, syncHash, sent>>
    BY <1>3 DEF BackendAnswers, AnswerOrder, AnswerGroup, TimePasses, vars, pageVars,
                   chainVars
  <2> QED BY <2>1 DEF Once, OrderPostedOnce, Commitments
<1>4. CASE Navigate \/ Reload
  <2>1. pendingPost' = 0 /\ UNCHANGED <<txs, sent>>
    BY <1>4 DEF Navigate, Reload, Mount, chainVars
  <2>2. \A b \in Attempts : \/ attempt'[b] = Off
                            \/ attempt'[b] = [attempt[b] EXCEPT !.mounted = FALSE]
    BY <1>4 DEF Navigate, Reload
  <2>3. ASSUME NEW r \in AttemptRecord
        PROVE  LET s == [r EXCEPT !.mounted = FALSE]
               IN  s.pc = r.pc /\ s.form = r.form /\ s.batch = r.batch
    BY DEF AttemptRecord
  <2>4. \A b \in Attempts : attempt[b] \in AttemptRecord
    BY DEF IInv, Typed
  <2>5. \A b \in Attempts : attempt'[b].pc \in {"save", "register"} =>
          attempt'[b].batch[1].form = attempt'[b].form
    <3>1. \A b \in Attempts :
            \/ attempt'[b] = Off
            \/ /\ attempt'[b].pc = attempt[b].pc /\ attempt'[b].form = attempt[b].form
               /\ attempt'[b].batch = attempt[b].batch
      BY <2>2, <2>3, <2>4
    <3> QED BY <3>1 DEF Once, Off
  <2> QED BY <2>1, <2>5 DEF Once, OrderPostedOnce
<1> QED BY <1>1, <1>2, <1>3, <1>4

LEMMA InitOnce == Init => Once
BY DEF Init, Once, OrderPostedOnce, Off

LEMMA NextOnce == IInv /\ PInv /\ Once /\ [Next]_vars => Once'
<1> SUFFICES ASSUME IInv, PInv, Once, [Next]_vars PROVE Once'
  OBVIOUS
<1>1. ASSUME NEW a \in Attempts, Clicks(a) \/ Runs(a) \/ Fails(a) PROVE Once'
  BY <1>1, EarlyOnce, RegistersOnce DEF Runs
<1>2. ASSUME NEW k \in TxIds, WalletAnswers(k) \/ Mine(k) PROVE Once'
  BY <1>2, ChainOnce
<1>3. CASE \/ BackendAnswers \/ SeeReceipt \/ SwitchNetwork \/ Navigate \/ Reload
           \/ TimePasses \/ UNCHANGED vars
  BY <1>3, PageOnce
<1> QED BY <1>1, <1>2, <1>3 DEF Next

\* An order is sent to the backend once, however often its receipt or the
\* wallet's network is seen again.
THEOREM OrdersPostOnce == Spec => []OrderPostedOnce
<1>1. Once => OrderPostedOnce
  BY DEF Once
<1> QED BY <1>1, Inductive, PageInductive, InitOnce, NextOnce, PTL DEF Spec

-----------------------------------------------------------------------------
(* What the committed price means to the contract.                         *)

\* What the prover does not know of the powers of ten: they are positive, and
\* scaling up by what an answer lacks makes up for its decimals.  The page
\* commits with the places of the quote token's feed.
Scales ==
  /\ OracleDecimals = QuoteDecimals
  /\ {10 ^ BaseDecimals, 10 ^ QuoteDecimals, 10 ^ (NormDecimals - BaseDecimals),
      10 ^ (NormDecimals - QuoteDecimals)} \subseteq Nat \ {0}
  /\ 10 ^ (NormDecimals - BaseDecimals) * 10 ^ BaseDecimals =
       10 ^ (NormDecimals - QuoteDecimals) * 10 ^ QuoteDecimals

\* Two USD feeds of 8 decimals and the page's ORACLE_DECIMALS are so.
LEMMA UsdFeedsScale ==
  ASSUME NormDecimals = 18, OracleDecimals = 8, BaseDecimals = 8, QuoteDecimals = 8
  PROVE  Scales
<1>1. 10 ^ 8 = 100000000 /\ 10 ^ 10 = 10000000000
  OBVIOUS
<1>2. NormDecimals - BaseDecimals = 10 /\ NormDecimals - QuoteDecimals = 10
  OBVIOUS
<1> QED BY <1>1, <1>2 DEF Scales

\* The registry can price tokenIn in tokenOut, either way, at every answer.
Priceable ==
  \A b \in BaseAnswers, q \in QuoteAnswers, side \in {"BUY", "SELL"} :
    ContractPrice(side, b, q) \in 1..MaxPrice

\* A quotient is at least t just when the dividend is t times the divisor.
LEMMA QuotientAtLeast ==
  ASSUME NEW x \in Nat, NEW y \in Nat \ {0}, NEW t \in Nat
  PROVE  x \div y >= t <=> x >= t * y
<1> DEFINE d == x \div y
           r == x % y
<1>1. d \in Nat /\ r \in 0..(y - 1) /\ x = y * d + r
  OBVIOUS
<1> HIDE DEF d, r
<1>2. ASSUME d >= t PROVE x >= t * y
  <2>1. PICK e \in Nat : d = t + e
    <3>1. d - t \in Nat /\ d = t + (d - t)
      BY <1>1, <1>2
    <3> QED BY <3>1
  <2>2. y * d = t * y + y * e /\ y * e \in Nat /\ t * y \in Nat
    BY <1>1, <2>1
  <2> QED BY <1>1, <2>2
<1>3. ASSUME ~(d >= t) PROVE ~(x >= t * y)
  <2>1. PICK e \in Nat : t = d + 1 + e
    <3>1. t - (d + 1) \in Nat /\ t = d + 1 + (t - (d + 1))
      BY <1>1, <1>3
    <3> QED BY <3>1
  <2>2. t * y = y * d + y + e * y /\ e * y \in Nat /\ y * d \in Nat
    BY <1>1, <2>1
  <2> QED BY <1>1, <2>2
<1> QED BY <1>2, <1>3 DEF d

\* A common positive factor does not change an order.
LEMMA CommonFactor ==
  ASSUME NEW u \in Nat, NEW v \in Nat, NEW k \in Nat \ {0}
  PROVE  u * k >= v * k <=> u >= v
<1>1. ASSUME u >= v PROVE u * k >= v * k
  <2>1. PICK e \in Nat : u = v + e
    <3>1. u - v \in Nat /\ u = v + (u - v)
      BY <1>1
    <3> QED BY <3>1
  <2>2. u * k = v * k + e * k /\ e * k \in Nat /\ v * k \in Nat
    BY <2>1
  <2> QED BY <2>2
<1>2. ASSUME ~(u >= v) PROVE ~(u * k >= v * k)
  <2>1. PICK e \in Nat : v = u + 1 + e
    <3>1. v - (u + 1) \in Nat /\ v = u + 1 + (v - (u + 1))
      BY <1>2
    <3> QED BY <3>1
  <2>2. v * k = u * k + k + e * k /\ e * k \in Nat /\ u * k \in Nat
    BY <2>1
  <2> QED BY <2>2
<1> QED BY <1>1, <1>2

\* The registry's price of the base token reaches the committed target exactly
\* when the market does, although it is scaled and truncated.
LEMMA SellAtTarget ==
  ASSUME NEW A \in Nat \ {0}, NEW B \in Nat \ {0}, NEW C \in Nat \ {0}, NEW D \in Nat \ {0},
         A * D = C * B,
         NEW b \in Nat \ {0}, NEW q \in Nat \ {0}, NEW t \in Nat
  PROVE  ((b * A) * B) \div (q * C) >= t * B <=> b * B >= (t * q) * D
<1>1. /\ (b * A) * B \in Nat /\ q * C \in Nat \ {0} /\ t * B \in Nat
      /\ b * B \in Nat /\ (t * q) * D \in Nat
  OBVIOUS
<1>2. ((b * A) * B) \div (q * C) >= t * B <=> (b * A) * B >= (t * B) * (q * C)
  BY <1>1, QuotientAtLeast
<1>3. (b * A) * B = (b * B) * A
  OBVIOUS
<1>4. (t * B) * (q * C) = ((t * q) * D) * A
  <2>1. (t * B) * (q * C) = (t * q) * (C * B)
    OBVIOUS
  <2>2. ((t * q) * D) * A = (t * q) * (A * D)
    OBVIOUS
  <2> QED BY <2>1, <2>2
<1>5. (b * B) * A >= ((t * q) * D) * A <=> b * B >= (t * q) * D
  BY <1>1, CommonFactor
<1> QED BY <1>2, <1>3, <1>4, <1>5

\* A limit sell can be filled exactly at its target or better, and a market
\* order always, for every target and all answers that the registry can
\* price.
THEOREM OrdersFillAsAsked ==
  ASSUME Scales, Priceable
  PROVE  Spec => []FillsAsAsked
<1>1. ASSUME MInv PROVE FillsAsAsked
  <2> SUFFICES ASSUME NEW c \in registered, NEW b \in BaseAnswers, NEW q \in QuoteAnswers,
                      c.form = "orders"
               PROVE  /\ c.input.kind = "MARKET" => Fillable(c, b, q)
                      /\ c.input.kind = "LIMIT" /\ c.input.side = "SELL" =>
                           (Fillable(c, b, q) <=> AtTarget(c.input, b, q))
    BY DEF FillsAsAsked
  <2>1. /\ c.input \in [kind : {"LIMIT", "MARKET"}, side : {"BUY", "SELL"}, target : Nat]
        /\ c.price = CommittedPrice(c.input) /\ c.price # 0
    BY <1>1, OrderAssumption DEF MInv, Priced, Made, ReturnsAtOnce
  <2>2. /\ MaxPrice \in Nat
        /\ ContractPrice(c.input.side, b, q) \in 1..MaxPrice
    BY <2>1, OrderAssumption DEF Priceable
  <2>3. ASSUME c.input.kind = "MARKET" PROVE Fillable(c, b, q)
    <3>1. c.input.side = "BUY" /\ c.price = MaxPrice
      BY <2>1, <2>3 DEF CommittedPrice
    <3> QED BY <2>2, <3>1 DEF Fillable
  <2>4. ASSUME c.input.kind = "LIMIT", c.input.side = "SELL"
        PROVE  Fillable(c, b, q) <=> AtTarget(c.input, b, q)
    <3> DEFINE A == 10 ^ (NormDecimals - BaseDecimals)
               B == 10 ^ QuoteDecimals
               C == 10 ^ (NormDecimals - QuoteDecimals)
               D == 10 ^ BaseDecimals
               t == c.input.target
               price == ((b * A) * B) \div (q * C)
    <3>1. /\ A \in Nat \ {0} /\ B \in Nat \ {0} /\ C \in Nat \ {0} /\ D \in Nat \ {0}
          /\ A * D = C * B
      BY DEF Scales
    <3>2. b \in Nat \ {0} /\ q \in Nat \ {0} /\ t \in Nat
      BY <2>1, FeedAssumption
    <3>3. c.price = t * B
      BY <2>1, <2>4, Zenon DEF CommittedPrice, Scales
    <3>4. ContractPrice(c.input.side, b, q) = price
      BY <2>4, Zenon DEF ContractPrice
    <3>5. AtTarget(c.input, b, q) <=> b * B >= (t * q) * D
      BY <2>4, Zenon DEF AtTarget
    <3> HIDE DEF A, B, C, D, t, price
    <3>6. Fillable(c, b, q) <=> price >= t * B
      BY <2>2, <2>4, <3>3, <3>4, Zenon DEF Fillable
    <3>7. price >= t * B <=> b * B >= (t * q) * D
      BY <3>1, <3>2, SellAtTarget DEF price
    <3> QED BY <3>5, <3>6, <3>7, Zenon
  <2> QED BY <2>3, <2>4
<1> QED BY <1>1, MadeInductive, PTL
=============================================================================
