------------------------------ MODULE DcaForm ------------------------------
(***************************************************************************)
(* The DCA page: one signature, one batch of rounds, one POST.  The secret *)
(* comes from the page's nonce, each round has a nonce of its own.         *)
(***************************************************************************)
EXTENDS FormPage, DcaSchedule

CONSTANTS
  Rounds,   \* roundCount
  Interval  \* INTERVALS[intervalKey], in seconds

ASSUME RoundsAssumption == Rounds \in 2..10 /\ Interval \in Nat \ {0}

\* The hash of the preimage of a round planned at "now", by what
\* distinguishes it.
Round(i, groupNonce, nonce, now) ==
  [form |-> "dca", group |-> groupNonce, index |-> i, nonce |-> nonce,
   window |-> buildSchedule(Rounds, Interval, now)[i]]

\* Variant with a fault: the rounds use the page's nonce.
SharedNonce(a) == [i \in 1..Rounds |-> attempt[a].nonce]

RoundNonces(a) == [i \in 1..Rounds |-> drawn + i]

-----------------------------------------------------------------------------
DcaBusy == IsPending \/ IsConfirming \/ signer # {}

SubmitGroup(a) ==
  /\ page = "dca" /\ ~DcaBusy
  /\ Begin(a, "dca", {})

\* The wallet has signed: the rounds are planned at that moment, their nonces
\* are drawn and their hashes computed.
SignGroup(a) ==
  /\ attempt[a].pc = "sign" /\ attempt[a].form = "dca"
  /\ drawn + Rounds <= MaxDraws
  /\ drawn' = drawn + Rounds
  /\ signer' = signer \ {a}
  /\ attempt' = [attempt EXCEPT ![a].pc = "save",
                   ![a].batch = [i \in 1..Rounds |->
                                   Round(i, attempt[a].nonce, RoundNonces(a)[i], clock)]]
  /\ UNCHANGED <<page, nonceRef, pendingPost, postSynced, syncHash, phase, awaiting, hook,
                 sent, chainVars, switches, saved>>

\* Variant with a fault: the POST does not wait for the receipt.
SyncGroupEarly(h, pend, synced, away) ==
  LET fire == h.tx # 0 /\ pend # 0 /\ ~synced
  IN  /\ sent' = IF fire THEN [sent EXCEPT ![pend] = @ + 1] ELSE sent
      /\ awaiting' = IF fire THEN pend ELSE 0

\* The effect of this page remembers nothing: coming back to the registry's
\* network sends a payload again that was not acknowledged.
SyncGroup(h, pend, synced, away) ==
  LET fire == IsSuccess(h, away) /\ pend # 0 /\ ~synced
  IN  /\ sent' = IF fire THEN [sent EXCEPT ![pend] = @ + 1] ELSE sent
      /\ awaiting' = IF fire THEN pend ELSE 0

\* After the records are saved, without another await.
RegisterGroup(a) ==
  /\ attempt[a].pc = "register" /\ attempt[a].form = "dca"
  /\ Len(txs) < MaxTxs
  /\ attempt' = [attempt EXCEPT ![a] = Off]
  /\ WriteContract(attempt[a].batch)
  /\ IF attempt[a].mounted
     THEN /\ postSynced' = FALSE
          /\ pendingPost' = Len(txs) + 1
          /\ hook' = HookFollows
          /\ SyncGroup(hook', pendingPost', postSynced', Away)
          /\ UNCHANGED <<page, nonceRef, signer, phase, syncHash>>
     ELSE UNCHANGED <<pageVars, sent>>
  /\ UNCHANGED <<registered, clock, switches, drawn, saved>>

\* The answer says how many rounds the backend could save; the page does not
\* read the number, and only logs a failure.
AnswerGroup(ok) ==
  /\ page = "dca" /\ awaiting # 0
  /\ postSynced' = ok /\ awaiting' = 0
  /\ UNCHANGED <<page, nonceRef, signer, pendingPost, syncHash, phase, hook,
                 sent, chainVars, attempt, switches, drawn, saved>>
=============================================================================
