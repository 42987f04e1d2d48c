----------------------------- MODULE Deployment -----------------------------
(***************************************************************************)
(* The fixed surroundings of one deployment of the contracts: who can send *)
(* a transaction, which tokens and contracts exist, and what a commitment  *)
(* hash commits to.  Addresses, hashes and amounts are abstract: only      *)
(* equality of addresses and order and arithmetic of amounts matter.       *)
(***************************************************************************)
EXTENDS Integers, Sequences, FiniteSets, Functions

CONSTANTS
  Users,        \* accounts that own collateral and register commitments
  Keepers,      \* keeper EOAs: they only execute and sweep
  Tokens,       \* ERC-20 tokens
  Hashes,       \* commitment hashes
  Nullifiers,   \* values of keccak256(user_secret, nonce)
  Vaults,       \* deployed CollateralVault contracts
  GasVaults,    \* deployed GasVault contracts
  Registries,   \* deployed CommitmentRegistry contracts
  This,         \* the registry whose storage CommitmentRegistry describes
  Strategy      \* per hash, the preimage it commits to (see Preimages)

Accounts == Users \cup Keepers

\* CommitmentKind and CommitmentStatus.
Kinds == {"ORDER_FILL", "DCA"}
Terminal == {"EXECUTED", "CANCELLED", "EXPIRED"}
Status == {"NONE", "PENDING"} \cup Terminal

\* The public part of a commitment: what the owner puts on chain.
Terms == [tokenIn : Tokens, tokenOut : Tokens, size : Nat, minOut : Nat,
          expiry : Nat, kind : Kinds]

(***************************************************************************)
(* What the circuits hash: the public terms, the private fill condition    *)
(* and the secret with its nonce, the latter represented by the nullifier  *)
(* they derive.  "price" and "sell" are the ORDER_FILL condition, "lo" and *)
(* "hi" the DCA window; each circuit reads only its own.  Hashing is       *)
(* injective, so a hash is the preimage: equal hashes, equal records.      *)
(***************************************************************************)
Preimages == [terms : Terms, price : Nat, sell : BOOLEAN, lo : Nat, hi : Nat,
              nullifier : Nullifiers]

ASSUME DeploymentAssumption ==
  /\ IsFiniteSet(Users) /\ IsFiniteSet(Tokens) /\ IsFiniteSet(Hashes)
  /\ IsFiniteSet(Vaults)
  /\ This \in Registries
  /\ Strategy \in [Hashes -> Preimages]
=============================================================================
