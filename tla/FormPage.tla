------------------------------ MODULE FormPage ------------------------------
(***************************************************************************)
(* What the order page and the DCA page of the browser share: the state of *)
(* the mounted page, the wagmi hook that follows its last transaction, the *)
(* wallet, the browser's IndexedDB, and, of the chain, the commitments it  *)
(* knows and its time.  handleSubmit is an async function: between two of  *)
(* its awaits anything may happen, a second click included, and it runs on *)
(* when its page is unmounted.  One clock stands for Date.now() / 1000 and *)
(* for block.timestamp, in seconds since the tab was opened.               *)
(***************************************************************************)
EXTENDS Integers, Sequences, FiniteSets

CONSTANTS
  Attempts,    \* runs of handleSubmit that may overlap (a bound)
  MaxDraws,    \* bound on the random nonces drawn
  MaxMounts,   \* bound on those drawn when a page is mounted again
  MaxTxs,      \* bound on the transactions handed to the wallet
  MaxSwitches, \* bound on the changes of the wallet's network
  Instants,    \* what the clock may show after its start (a bound)
  Inputs       \* what a user may fill in on the order page

ASSUME PageAssumption ==
  /\ MaxDraws \in Nat \ {0} /\ MaxMounts \in 1..MaxDraws
  /\ MaxTxs \in Nat /\ MaxSwitches \in Nat /\ Instants \subseteq Nat

VARIABLES
  page,        \* the mounted page
  nonceRef,    \* the nonce it drew when it was mounted
  attempt,     \* attempt[a]: a run of handleSubmit
  signer,      \* the attempts whose signature useSignMessage is waiting for
  pendingPost, \* the transaction the page's payload belongs to, or 0
  postSynced,
  syncHash,    \* backendSyncHashRef: the payload last sent, or {}
  phase,       \* marketExecutionPhase; "executing" is derived
  awaiting,    \* the POST whose answer the page still listens to, or 0
  hook,        \* useRegisterCommitment: the last transaction, its receipt seen
  switches,    \* changes of network so far; odd: not the registry's
  drawn,       \* nonces drawn so far: drawing gives the next number
  txs,         \* the transactions: what they register and how far they are
  registered,  \* the commitments on chain
  clock,       \* seconds since the tab was opened
  saved,       \* the commitments with a record in IndexedDB
  sent         \* sent[k]: how often transaction k's payload was POSTed

pageVars == <<page, nonceRef, signer, pendingPost, postSynced, syncHash, phase, awaiting, hook>>
chainVars == <<txs, registered, clock>>
vars == <<pageVars, chainVars, attempt, switches, drawn, saved, sent>>

Pages == {"orders", "dca"}
TxIds == 1..MaxTxs
Pcs == {"off", "keepers", "sign", "save", "register"}
NoHook == [tx |-> 0, seen |-> FALSE]
Off == [pc |-> "off", form |-> "orders", input |-> {}, nonce |-> 0, batch |-> <<>>,
        mounted |-> FALSE]

Commitments(batch) == {batch[i] : i \in DOMAIN batch}

-----------------------------------------------------------------------------
(* The hook.  isSuccess is the receipt of the last transaction, read on    *)
(* the registry's network; a new transaction starts without one.           *)

Away == switches % 2 = 1
IsPending == hook.tx # 0 /\ txs[hook.tx].status = "prompt"
IsConfirming == /\ hook.tx # 0
                /\ txs[hook.tx].status \in {"sent", "mined", "reverted"}
                /\ ~hook.seen \/ Away
IsSuccess(h, away) == /\ h.tx # 0 /\ h.seen /\ ~away
                      /\ txs'[h.tx].status = "mined"
IsSuccessNow == hook.tx # 0 /\ hook.seen /\ ~Away /\ txs[hook.tx].status = "mined"

\* writeContract: the wallet is asked, the hook follows the new transaction.
WriteContract(batch) == txs' = Append(txs, [batch |-> batch, status |-> "prompt"])

HookFollows == [tx |-> Len(txs) + 1, seen |-> FALSE]

-----------------------------------------------------------------------------
(* The wallet and the chain.  A transaction that registers a commitment    *)
(* again, or a round that has expired, reverts, and one may revert for     *)
(* want of collateral, a pause or the expiry of an order.                  *)

\* The wallet's owner, the network and the chain take their time.
TimePasses ==
  /\ \E t \in Instants : t > clock /\ clock' = t
  /\ UNCHANGED <<pageVars, txs, registered, attempt, switches, drawn, saved, sent>>

\* The expiries of a batch are in the future.
NotExpired(batch) ==
  \A i \in DOMAIN batch : batch[i].form = "dca" => clock < batch[i].window.expiry

Answered(k, ok) ==
  /\ k \in DOMAIN txs /\ txs[k].status = "prompt"
  /\ txs' = [txs EXCEPT ![k].status = IF ok THEN "sent" ELSE "rejected"]
  /\ UNCHANGED <<pageVars, sent, registered, clock, attempt, switches, drawn, saved>>

Mine(k) ==
  /\ k \in DOMAIN txs /\ txs[k].status = "sent"
  /\ \/ /\ Commitments(txs[k].batch) \cap registered = {}
        /\ NotExpired(txs[k].batch)
        /\ txs' = [txs EXCEPT ![k].status = "mined"]
        /\ registered' = registered \cup Commitments(txs[k].batch)
     \/ /\ txs' = [txs EXCEPT ![k].status = "reverted"]
        /\ UNCHANGED registered
  /\ UNCHANGED <<pageVars, sent, clock, attempt, switches, drawn, saved>>

-----------------------------------------------------------------------------
(* The steps every handleSubmit takes up to its last await. *)

Go(a, pc) == [attempt EXCEPT ![a].pc = pc]

\* A click on the enabled button, while MaxTxs leaves room for its transaction.
Begin(a, form, input) ==
  /\ attempt[a].pc = "off"
  /\ Len(txs) + Cardinality({b \in Attempts : attempt[b].pc # "off"}) < MaxTxs
  /\ attempt' = [attempt EXCEPT ![a] = [Off EXCEPT !.pc = "keepers", !.form = form,
                   !.input = input, !.nonce = nonceRef, !.mounted = TRUE]]
  /\ UNCHANGED <<pageVars, sent, chainVars, switches, drawn, saved>>

\* Variant with a fault: an older signature request is still waited for.
ListKeepersBoth(a) ==
  /\ attempt[a].pc = "keepers"
  /\ attempt' = Go(a, "sign")
  /\ signer' = IF attempt[a].mounted THEN signer \cup {a} ELSE signer
  /\ UNCHANGED <<page, nonceRef, pendingPost, postSynced, syncHash, phase, awaiting, hook,
                 sent, chainVars, switches, drawn, saved>>

\* keeperApi.listKeepers answers; the wallet is asked for a signature.
ListKeepers(a) ==
  /\ attempt[a].pc = "keepers"
  /\ attempt' = Go(a, "sign")
  /\ signer' = IF attempt[a].mounted THEN {a} ELSE signer
  /\ UNCHANGED <<page, nonceRef, pendingPost, postSynced, syncHash, phase, awaiting, hook,
                 sent, chainVars, switches, drawn, saved>>

\* An await throws: the attempt ends with an error message.
Fails(a) ==
  /\ attempt[a].pc \in {"keepers", "sign", "save"}
  /\ attempt' = [attempt EXCEPT ![a] = Off]
  /\ signer' = signer \ {a}
  /\ UNCHANGED <<page, nonceRef, pendingPost, postSynced, syncHash, phase, awaiting, hook,
                 sent, chainVars, switches, drawn, saved>>

\* Variant with a fault: the record is left for later.
SaveNothing(a) ==
  /\ attempt[a].pc = "save"
  /\ attempt' = Go(a, "register")
  /\ UNCHANGED <<pageVars, sent, chainVars, switches, drawn, saved>>

\* The secret is split, which changes nothing here, and the records of the
\* batch are put in one IndexedDB transaction.
Save(a) ==
  /\ attempt[a].pc = "save"
  /\ saved' = saved \cup Commitments(attempt[a].batch)
  /\ attempt' = Go(a, "register")
  /\ UNCHANGED <<pageVars, sent, chainVars, switches, drawn>>
=============================================================================
