------------------------------- MODULE Forms -------------------------------
(***************************************************************************)
(* One browser tab: the order page and the DCA page, one of them mounted,  *)
(* over one wallet, one IndexedDB, the registry and the backend.  The tab  *)
(* may be left for the other page, reloaded or moved to another network    *)
(* between any two steps.                                                  *)
(***************************************************************************)
EXTENDS OrderForm, DcaForm

CONSTANTS
  BaseAnswers, QuoteAnswers, \* answers of the pair's two USD feeds
  BaseDecimals, QuoteDecimals,
  NormDecimals  \* 18: both answers are scaled to this many decimals

ASSUME FeedAssumption ==
  /\ NormDecimals \in Nat /\ {BaseDecimals, QuoteDecimals} \subseteq 0..NormDecimals
  /\ BaseAnswers \cup QuoteAnswers \subseteq Nat \ {0}

TypeOK ==
  /\ page \in Pages /\ nonceRef \in 1..MaxDraws /\ drawn \in 1..MaxDraws
  /\ DOMAIN attempt = Attempts
  /\ \A a \in Attempts : attempt[a].pc \in Pcs /\ attempt[a].form \in Pages
  /\ signer \in SUBSET Attempts /\ Cardinality(signer) <= 1
  /\ pendingPost \in 0..Len(txs) /\ awaiting \in 0..Len(txs) /\ hook.tx \in 0..Len(txs)
  /\ postSynced \in BOOLEAN /\ hook.seen \in BOOLEAN
  /\ phase \in {"none", "registering", "executed", "error"}
  /\ switches \in 0..MaxSwitches /\ Len(txs) \in 0..MaxTxs
  /\ \A k \in DOMAIN txs :
       txs[k].status \in {"prompt", "rejected", "sent", "mined", "reverted"}
  /\ sent \in [TxIds -> Nat] /\ clock \in Instants \cup {0}

Init ==
  /\ page \in Pages /\ nonceRef = 1 /\ drawn = 1
  /\ attempt = [a \in Attempts |-> Off] /\ signer = {}
  /\ pendingPost = 0 /\ postSynced = FALSE /\ syncHash = {} /\ phase = "none"
  /\ awaiting = 0 /\ hook = NoHook /\ switches = 0
  /\ txs = <<>> /\ registered = {} /\ saved = {} /\ clock = 0
  /\ sent = [k \in TxIds |-> 0]

-----------------------------------------------------------------------------
Effect(h, pend, synced, hash, away) ==
  IF page = "orders" THEN SyncOrder(h, pend, synced, hash, away)
  ELSE SyncGroup(h, pend, synced, away) /\ UNCHANGED syncHash

\* The hook has polled the receipt of its transaction.
SeeReceipt ==
  /\ hook.tx # 0 /\ ~hook.seen /\ ~Away
  /\ txs[hook.tx].status \in {"mined", "reverted"}
  /\ UNCHANGED chainVars
  /\ hook' = [hook EXCEPT !.seen = TRUE]
  /\ Effect(hook', pendingPost, postSynced, syncHash, FALSE)
  /\ UNCHANGED <<page, nonceRef, signer, pendingPost, postSynced, phase,
                 attempt, switches, drawn, saved>>

\* The wallet moves to another network, or back: what the page knows of the
\* receipt is of the network it is on.  (Before there is a receipt a change
\* only delays it, so it is left out.)
SwitchNetwork ==
  /\ switches < MaxSwitches /\ hook.seen
  /\ switches' = switches + 1
  /\ UNCHANGED chainVars
  /\ Effect(hook, pendingPost, postSynced, syncHash, ~Away)
  /\ UNCHANGED <<page, nonceRef, signer, pendingPost, postSynced, phase, hook,
                 attempt, drawn, saved>>

\* A page is mounted: its refs, states and hook are new.
Mount(p) ==
  /\ drawn < MaxMounts
  /\ page' = p /\ nonceRef' = drawn + 1 /\ drawn' = drawn + 1
  /\ signer' = {} /\ pendingPost' = 0 /\ postSynced' = FALSE /\ syncHash' = {}
  /\ phase' = "none" /\ awaiting' = 0 /\ hook' = NoHook

\* To the other page: runs of handleSubmit go on without their page.
Navigate ==
  /\ \E p \in Pages : p # page /\ Mount(p)
  /\ attempt' = [a \in Attempts |-> [attempt[a] EXCEPT !.mounted = FALSE]]
  /\ UNCHANGED <<sent, chainVars, switches, saved>>

\* A reload, or a crash of the tab, ends them.
Reload ==
  /\ Mount(page)
  /\ attempt' = [a \in Attempts |-> Off]
  /\ UNCHANGED <<sent, chainVars, switches, saved>>

Clicks(a) == SubmitGroup(a) \/ \E input \in Inputs : HandleSubmit(a, input)
Runs(a) == \/ ListKeepers(a) \/ SignOrder(a) \/ SignGroup(a) \/ Save(a)
           \/ RegisterOrder(a) \/ RegisterGroup(a)
WalletAnswers(k) == \E ok \in BOOLEAN : Answered(k, ok)
BackendAnswers == \E ok \in BOOLEAN : AnswerOrder(ok) \/ AnswerGroup(ok)

Next ==
  \/ \E a \in Attempts : Clicks(a) \/ Runs(a) \/ Fails(a)
  \/ \E k \in TxIds : WalletAnswers(k) \/ Mine(k)
  \/ BackendAnswers \/ SeeReceipt \/ SwitchNetwork \/ Navigate \/ Reload
  \/ TimePasses

Spec == Init /\ [][Next]_vars

\* Requests to the backend end, with an answer or an error.
FairSpec == Spec /\ WF_vars(BackendAnswers)

-----------------------------------------------------------------------------
(* Properties. *)

(***************************************************************************)
(* The chain comes first: a payload is sent to the backend only when its   *)
(* commitments are registered ("only then do we POST to the Go backend, so *)
(* the chain is the source of truth before any off-chain row is created"). *)
(***************************************************************************)
ChainFirst ==
  \A k \in TxIds : sent[k] > 0 => Commitments(txs[k].batch) \subseteq registered

(***************************************************************************)
(* Whatever is closed, left or refused, a commitment on chain has its      *)
(* record in IndexedDB, without which nobody can cancel or execute it.     *)
(***************************************************************************)
Recoverable == registered \subseteq saved

(***************************************************************************)
(* The page that sees its registration confirmed has sent that payload,    *)
(* also when an earlier one was sent from the same page.                   *)
(***************************************************************************)
ConfirmedIsPosted == IsSuccessNow => hook.tx = pendingPost /\ sent[hook.tx] > 0

(***************************************************************************)
(* However often the receipt is seen again, an order is sent once: the     *)
(* backend refuses the second row, and a market order would wait twice.    *)
(***************************************************************************)
OrderPostedOnce ==
  \A k \in DOMAIN txs : txs[k].batch[1].form = "orders" => sent[k] <= 1

(***************************************************************************)
(* Rounds of DCA groups never share a nonce with anything on chain, so     *)
(* each of them has a nullifier of its own.  (Orders sent from one page    *)
(* share theirs.)                                                          *)
(***************************************************************************)
FreshRounds ==
  \A c, d \in registered : c # d /\ c.form = "dca" => c.nonce # d.nonce

(***************************************************************************)
(* However long the wallet and the chain take, and however often the page  *)
(* is used: when the rounds that were signed together are registered, each *)
(* but the first has yet to be filled in a window that has not closed, one *)
(* window after the other.  (The first may be too late: it is refused only *)
(* after its expiry.  Two submissions of one page carry the same group id  *)
(* but are planned at times of their own, so windows of a group overlap.)  *)
(***************************************************************************)
RoundsInTurn ==
  [][\A k \in DOMAIN txs :
       LET batch == txs[k].batch
       IN  txs[k].status = "sent" /\ txs'[k].status = "mined" /\ batch[1].form = "dca" =>
             /\ \A i \in DOMAIN batch : i > 1 => clock < batch[i].window.hi
             /\ \A i, j \in DOMAIN batch : i < j => Apart(batch[i].window, batch[j].window)]_vars

(***************************************************************************)
(* A market order's page does not wait for ever: it is told that the order *)
(* was executed or that the wait failed, or the user left or changed the   *)
(* network.                                                                *)
(***************************************************************************)
MarketWaitEnds ==
  \A k \in TxIds : (switches = 0 /\ hook.tx = k /\ WaitingForMarketExecution)
                     ~> (switches > 0 \/ hook.tx # k \/ phase \in {"executed", "error"})

-----------------------------------------------------------------------------
(* What the committed price means to the contract. *)

\* _readOraclePrice: an answer of the pair's feeds, priced as tokenIn per
\* tokenOut; SELL spends the base token, BUY the quote token.
ContractPrice(side, base, quote) ==
  LET normBase == base * 10 ^ (NormDecimals - BaseDecimals)
      normQuote == quote * 10 ^ (NormDecimals - QuoteDecimals)
  IN  IF side = "SELL" THEN (normBase * 10 ^ QuoteDecimals) \div normQuote
      ELSE (normQuote * 10 ^ BaseDecimals) \div normBase

\* The registry reads a price that fits in uint64, and the circuit accepts it.
Fillable(c, base, quote) ==
  LET price == ContractPrice(c.input.side, base, quote)
  IN  /\ price \in 1..MaxPrice
      /\ IF c.input.side = "SELL" THEN price >= c.price ELSE price <= c.price

\* What the user asked for: quote tokens per base token, at the target or better.
AtTarget(input, base, quote) ==
  LET b == base * 10 ^ QuoteDecimals
      q == input.target * quote * 10 ^ BaseDecimals
  IN  IF input.side = "SELL" THEN b >= q ELSE b <= q

(***************************************************************************)
(* A limit order can be filled exactly when the market is at the price its *)
(* owner typed, or better; and a market order always.  Of sells (of limit  *)
(* orders) and of buys (of market orders).                                 *)
(***************************************************************************)
FillsAsAsked ==
  \A c \in registered, b \in BaseAnswers, q \in QuoteAnswers : c.form = "orders" =>
    /\ c.input.kind = "MARKET" => Fillable(c, b, q)
    /\ c.input.kind = "LIMIT" /\ c.input.side = "SELL" =>
         (Fillable(c, b, q) <=> AtTarget(c.input, b, q))

(***************************************************************************)
(* A limit buy can be filled only at its target price or below it: "the    *)
(* circuit's `oracle_price <= price` (or >=) check is unit-coherent".      *)
(***************************************************************************)
LimitBuysAtTarget ==
  \A c \in registered, b \in BaseAnswers, q \in QuoteAnswers :
    c.form = "orders" /\ c.input.kind = "LIMIT" /\ c.input.side = "BUY" =>
      (Fillable(c, b, q) => AtTarget(c.input, b, q))

(***************************************************************************)
(* A press of the enabled button submits the order that is filled in.      *)
(***************************************************************************)
PressSubmits ==
  page = "orders" => \A input \in Inputs : ButtonEnabled(input) => ~ReturnsAtOnce(input)
=============================================================================
