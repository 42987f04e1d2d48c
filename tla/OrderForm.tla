----------------------------- MODULE OrderForm -----------------------------
(***************************************************************************)
(* The order page: what it commits an order to, when its button can be     *)
(* pressed, and what handleSubmit does after the wallet has signed.  The   *)
(* user thinks in quote tokens per base token; "target" is that price.     *)
(***************************************************************************)
EXTENDS FormPage

CONSTANTS
  OracleDecimals, \* ORACLE_DECIMALS: places of the committed price
  MaxPrice        \* 2^64 - 1

ASSUME OrderAssumption ==
  /\ OracleDecimals \in Nat /\ MaxPrice \in Nat
  /\ Inputs \subseteq [kind : {"LIMIT", "MARKET"}, side : {"BUY", "SELL"}, target : Nat]

-----------------------------------------------------------------------------
(* priceBig and the conditions on it. *)

\* Variant with a fault: the target is not scaled to oracle units.
CommittedUnscaled(input) == input.target

CommittedPrice(input) ==
  CASE input.kind = "LIMIT" -> input.target * 10 ^ OracleDecimals
    [] input.kind = "MARKET" /\ input.side = "BUY" -> MaxPrice
    [] input.kind = "MARKET" /\ input.side = "SELL" -> 0

\* The hash of an order's preimage: equal fields and nonce, equal hash.
CommitmentHash(input, nonce) ==
  [form |-> "orders", input |-> input, price |-> CommittedPrice(input), nonce |-> nonce]

\* The page stays busy from a market order's receipt to the backend's answer.
WaitingForMarketExecution == phase = "registering" /\ IsSuccessNow

Busy == IsPending \/ IsConfirming \/ signer # {} \/ WaitingForMarketExecution

ButtonEnabled(input) ==
  ~Busy /\ (input.kind = "LIMIT" => CommittedPrice(input) # 0)

\* The first line of handleSubmit.
ReturnsAtOnce(input) == CommittedPrice(input) = 0

-----------------------------------------------------------------------------
HandleSubmit(a, input) ==
  /\ page = "orders" /\ ButtonEnabled(input) /\ ~ReturnsAtOnce(input)
  /\ Begin(a, "orders", input)

\* The signature gives the secret, and with it hash and nullifier.
SignOrder(a) ==
  /\ attempt[a].pc = "sign" /\ attempt[a].form = "orders"
  /\ signer' = signer \ {a}
  /\ attempt' = [attempt EXCEPT ![a].pc = "save",
                   ![a].batch = <<CommitmentHash(attempt[a].input, attempt[a].nonce)>>]
  /\ UNCHANGED <<page, nonceRef, pendingPost, postSynced, syncHash, phase, awaiting, hook,
                 sent, chainVars, switches, drawn, saved>>

\* Variant with a fault: the payload that was sent is not remembered.
SyncOrderUnguarded(h, pend, synced, hash, away) ==
  LET fire == IsSuccess(h, away) /\ pend # 0 /\ ~synced
  IN  /\ sent' = IF fire THEN [sent EXCEPT ![pend] = @ + 1] ELSE sent
      /\ syncHash' = hash
      /\ awaiting' = IF fire THEN pend ELSE 0

(***************************************************************************)
(* The effect that hands the payload to the backend.  It runs again when   *)
(* isSuccess, pendingPost, postSynced or the network changes, and forgets  *)
(* the request before.                                                     *)
(***************************************************************************)
SyncOrder(h, pend, synced, hash, away) ==
  LET fire == /\ IsSuccess(h, away) /\ pend # 0 /\ ~synced
              /\ hash # Commitments(txs'[pend].batch)
  IN  /\ sent' = IF fire THEN [sent EXCEPT ![pend] = @ + 1] ELSE sent
      /\ syncHash' = IF fire THEN Commitments(txs'[pend].batch) ELSE hash
      /\ awaiting' = IF fire THEN pend ELSE 0

\* Variant with a fault: an order counts as sent when the one before it was.
RegisterOrderStillSynced(a) ==
  /\ attempt[a].pc = "register" /\ attempt[a].form = "orders"
  /\ Len(txs) < MaxTxs
  /\ attempt' = [attempt EXCEPT ![a] = Off]
  /\ WriteContract(attempt[a].batch)
  /\ IF attempt[a].mounted
     THEN /\ phase' = IF attempt[a].input.kind = "MARKET" THEN "registering" ELSE "none"
          /\ pendingPost' = Len(txs) + 1
          /\ hook' = HookFollows
          /\ SyncOrder(hook', pendingPost', postSynced, {}, Away)
          /\ UNCHANGED <<page, nonceRef, signer, postSynced>>
     ELSE UNCHANGED <<pageVars, sent>>
  /\ UNCHANGED <<registered, clock, switches, drawn, saved>>

\* After the record is saved, without another await.
RegisterOrder(a) ==
  /\ attempt[a].pc = "register" /\ attempt[a].form = "orders"
  /\ Len(txs) < MaxTxs
  /\ attempt' = [attempt EXCEPT ![a] = Off]
  /\ WriteContract(attempt[a].batch)
  /\ IF attempt[a].mounted
     THEN /\ postSynced' = FALSE
          /\ phase' = IF attempt[a].input.kind = "MARKET" THEN "registering" ELSE "none"
          /\ pendingPost' = Len(txs) + 1
          /\ hook' = HookFollows
          /\ SyncOrder(hook', pendingPost', postSynced', {}, Away)
          /\ UNCHANGED <<page, nonceRef, signer>>
     ELSE UNCHANGED <<pageVars, sent>>
  /\ UNCHANGED <<registered, clock, switches, drawn, saved>>

\* Variant with a fault: a failed POST leaves the phase as it is.
AnswerOrderSilent(ok) ==
  /\ page = "orders" /\ awaiting # 0
  /\ postSynced' = ok /\ awaiting' = 0
  /\ phase' = IF ok /\ phase = "registering" THEN "executed" ELSE phase
  /\ UNCHANGED <<page, nonceRef, signer, pendingPost, syncHash, hook,
                 sent, chainVars, attempt, switches, drawn, saved>>

\* The backend answers the POST the page listens to.
AnswerOrder(ok) ==
  /\ page = "orders" /\ awaiting # 0
  /\ postSynced' = ok /\ awaiting' = 0
  /\ phase' = CASE phase # "registering" -> phase
                [] phase = "registering" /\ ok -> "executed"
                [] phase = "registering" /\ ~ok -> "error"
  /\ UNCHANGED <<page, nonceRef, signer, pendingPost, syncHash, hook,
                 sent, chainVars, attempt, switches, drawn, saved>>
=============================================================================
