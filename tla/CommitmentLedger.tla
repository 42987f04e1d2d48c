--------------------------- MODULE CommitmentLedger ---------------------------
(***************************************************************************)
(* What the on-chain system promises its users, without vaults, proofs,    *)
(* prices or configuration.  A user's holdings are what the user can get   *)
(* at without a commitment; pledging moves tokens out of the holdings into *)
(* a commitment, and each commitment then ends at most once: filled        *)
(* before its expiry for some amount of the other token, cancelled, or     *)
(* expired after its expiry, the last two giving back exactly the pledge.  *)
(***************************************************************************)
EXTENDS Deployment

CONSTANTS Payouts,  \* what a fill may pay
          NoOwner

VARIABLES
  holdings,  \* holdings[u][t]
  book,      \* book[h]: status, owner and terms of a commitment
  time

ledgerVars == <<holdings, book, time>>

LedgerInit ==
  /\ holdings \in [Users -> [Tokens -> Nat]]
  /\ book = [h \in Hashes |-> [status |-> "NONE", owner |-> NoOwner, terms |-> NoOwner]]
  /\ time = 0

\* The sum of the sizes that commitments S of owner u hold in token t.
Pledged(b, S, u, t) ==
  LET Mine == {h \in S : b[h].owner = u /\ b[h].terms.tokenIn = t}
  IN  SumFunction([h \in Mine |-> b[h].terms.size])

OnlyChanged(S) == \A h \in Hashes \ S : book'[h] = book[h]

\* User u makes the commitments S, all of them or none.
Pledge(u, S) ==
  /\ \A h \in S : /\ book[h].status = "NONE"
                  /\ book'[h].status = "PENDING"
                  /\ book'[h].owner = u
                  /\ book'[h].terms \in Terms
                  /\ book'[h].terms.size > 0
                  /\ book'[h].terms.expiry > time
  /\ OnlyChanged(S)
  /\ \A t \in Tokens : holdings[u][t] >= Pledged(book', S, u, t)
  /\ holdings' = [holdings EXCEPT ![u] =
                   [t \in Tokens |-> @[t] - Pledged(book', S, u, t)]]
  /\ UNCHANGED time

Fill(h, out) ==
  /\ book[h].status = "PENDING"
  /\ time <= book[h].terms.expiry
  /\ book' = [book EXCEPT ![h].status = "EXECUTED"]
  /\ holdings' = [holdings EXCEPT ![book[h].owner][book[h].terms.tokenOut] = @ + out]
  /\ UNCHANGED time

\* The commitments S end without a fill and give everything back.
GiveBack(S, outcome) ==
  /\ \A h \in S : book[h].status = "PENDING"
  /\ book' = [h \in Hashes |->
               IF h \in S THEN [book[h] EXCEPT !.status = outcome] ELSE book[h]]
  /\ holdings' = [u \in Users |-> [t \in Tokens |->
                   holdings[u][t] + Pledged(book, S, u, t)]]
  /\ UNCHANGED time

Cancel(h) == GiveBack({h}, "CANCELLED")

Expire(S) == /\ \A h \in S : book[h].status = "PENDING" /\ time > book[h].terms.expiry
             /\ GiveBack(S, "EXPIRED")

Later == time' > time /\ UNCHANGED <<holdings, book>>

LedgerNext ==
  \/ \E S \in (SUBSET Hashes) \ {{}} : (\E u \in Users : Pledge(u, S)) \/ Expire(S)
  \/ \E h \in Hashes : Cancel(h) \/ \E out \in Payouts : Fill(h, out)
  \/ Later

LedgerSpec == LedgerInit /\ [][LedgerNext]_ledgerVars
=============================================================================
