----------------------------- MODULE MCRegistry -----------------------------
(***************************************************************************)
(* Instances of CommitmentRegistry.  h1 is a limit sell of A for B, h2 a   *)
(* DCA round that sells A for B; both come from one secret and nonce, and  *)
(* n2 is a nullifier that belongs to neither.                              *)
(***************************************************************************)
EXTENDS CommitmentRegistry, TLC

CONSTANTS A, B, h1, h2, n1, n2, u1, u2, keeper,
          v1, v2, g1, registry, newRegistry, adapter, mock, admin,
          Horizon  \* expiry of the DCA round; the limit order expires one unit earlier

SellTerms == [tokenIn |-> A, tokenOut |-> B, size |-> 1, minOut |-> 1,
              expiry |-> Horizon - 1, kind |-> "ORDER_FILL"]
RoundTerms == [tokenIn |-> A, tokenOut |-> B, size |-> 2, minOut |-> 1,
               expiry |-> Horizon, kind |-> "DCA"]

\* The two preimages; the fields a circuit does not read are 0 or FALSE.
MCStrategy == h1 :> [terms |-> SellTerms, price |-> 2, sell |-> TRUE,
                     lo |-> 0, hi |-> 0, nullifier |-> n1]
           @@ h2 :> [terms |-> RoundTerms, price |-> 0, sell |-> FALSE,
                     lo |-> 1, hi |-> 1, nullifier |-> n1]

\* The owner registers what the hash commits to, or by mistake the terms of a
\* round under the hash of the limit order; both orders fit one batch.
BatchOffers == [u \in Users |-> h1 :> {SellTerms, [RoundTerms EXCEPT !.size = 1]}
                             @@ h2 :> {RoundTerms}]

\* Only the terms each hash commits to.
CommittedOffers == [u \in Users |-> h1 :> {SellTerms} @@ h2 :> {RoundTerms}]

MCWallet == [u \in Users |-> A :> (IF u = u1 THEN 3 ELSE 0) @@ B :> 0]
\* The price of A in B: at the limit, or also below it.
FixedAnswers == A :> {2} @@ B :> {1}
TwoAnswers == A :> {1, 2} @@ B :> {1}
AtLimit == A :> 2 @@ B :> 1
MCDecimals == [t \in Tokens |-> 0]
=============================================================================
