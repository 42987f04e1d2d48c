------------------------------ MODULE Circuits ------------------------------
(***************************************************************************)
(* What a valid proof establishes, for each of the two Noir circuits.  A   *)
(* proof is accepted exactly when its public inputs are those the registry *)
(* builds and some private witness satisfies the circuit.  Since a hash    *)
(* has one preimage, the witness is the one in Strategy.                   *)
(***************************************************************************)
EXTENDS Deployment

\* compute_commitment: the public inputs are the terms the hash commits to.
\* The two preimages have different layouts, so the kind is part of the match.
CommitmentMatches(h, terms) == Strategy[h].terms = terms

\* compute_nullifier: secret and nonce determine the nullifier.
NullifierMatches(h, n) == Strategy[h].nullifier = n

\* order_fill: the oracle price is at the private limit or better.
LimitReached(h, price) ==
  IF Strategy[h].sell THEN price >= Strategy[h].price ELSE price <= Strategy[h].price

\* dca: the execution time is in the private window and before expiry.
InWindow(h, time) == /\ Strategy[h].lo <= time
                     /\ time <= Strategy[h].hi
                     /\ time < Strategy[h].terms.expiry

Provable(h, terms, n, ref) ==
  /\ CommitmentMatches(h, terms)
  /\ NullifierMatches(h, n)
  /\ IF terms.kind = "ORDER_FILL" THEN LimitReached(h, ref) ELSE InWindow(h, ref)
=============================================================================
