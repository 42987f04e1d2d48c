--------------------------- MODULE CollateralVault ---------------------------
(***************************************************************************)
(* The CollateralVault contracts.  Users move tokens between their wallet  *)
(* and their free balance; the registry a vault is bound to moves them     *)
(* between the free balance and the collateral locked under a commitment   *)
(* hash.  A transaction is atomic, so every function is one action and a   *)
(* failed `require' makes the action impossible.                           *)
(***************************************************************************)
EXTENDS Deployment

VARIABLES
  wallet,         \* wallet[u][t]: ERC-20 balance of a user
  vaultTokens,    \* vaultTokens[v][t]: ERC-20 balance of a vault
  freeBalance,    \* freeBalance[v][u][t]
  lockedBalance,  \* lockedBalance[v][h][t]
  vaultRegistry   \* vaultRegistry[v]: the registry a vault obeys

vaultVars == <<wallet, vaultTokens, freeBalance, lockedBalance, vaultRegistry>>

CONSTANTS Amounts,       \* amounts users deposit and withdraw
          InitialWallet  \* tokens the users start with

ASSUME VaultAssumption == /\ Amounts \subseteq Nat
                          /\ InitialWallet \in [Users -> [Tokens -> Nat]]

VaultTypeOK ==
  /\ wallet \in [Users -> [Tokens -> Nat]]
  /\ vaultTokens \in [Vaults -> [Tokens -> Nat]]
  /\ freeBalance \in [Vaults -> [Users -> [Tokens -> Nat]]]
  /\ lockedBalance \in [Vaults -> [Hashes -> [Tokens -> Nat]]]
  /\ vaultRegistry \in [Vaults -> Registries]

\* The deployed state: empty vaults, bound to this registry by the scripts.
VaultInit ==
  /\ wallet = InitialWallet
  /\ vaultTokens = [v \in Vaults |-> [t \in Tokens |-> 0]]
  /\ freeBalance = [v \in Vaults |-> [u \in Users |-> [t \in Tokens |-> 0]]]
  /\ lockedBalance = [v \in Vaults |-> [h \in Hashes |-> [t \in Tokens |-> 0]]]
  /\ vaultRegistry = [v \in Vaults |-> This]

-----------------------------------------------------------------------------
(* User and owner functions. *)

VaultDeposit(v, u, t, a) ==
  /\ a > 0
  /\ wallet[u][t] >= a
  /\ wallet' = [wallet EXCEPT ![u][t] = @ - a]
  /\ vaultTokens' = [vaultTokens EXCEPT ![v][t] = @ + a]
  /\ freeBalance' = [freeBalance EXCEPT ![v][u][t] = @ + a]
  /\ UNCHANGED <<lockedBalance, vaultRegistry>>

\* The ERC-20 transfer fails unless the vault holds the tokens it owes.
VaultWithdraw(v, u, t, a) ==
  /\ a > 0
  /\ freeBalance[v][u][t] >= a
  /\ vaultTokens[v][t] >= a
  /\ freeBalance' = [freeBalance EXCEPT ![v][u][t] = @ - a]
  /\ vaultTokens' = [vaultTokens EXCEPT ![v][t] = @ - a]
  /\ wallet' = [wallet EXCEPT ![u][t] = @ + a]
  /\ UNCHANGED <<lockedBalance, vaultRegistry>>

SetVaultRegistry(v, r) ==
  /\ vaultRegistry' = [vaultRegistry EXCEPT ![v] = r]
  /\ UNCHANGED <<wallet, vaultTokens, freeBalance, lockedBalance>>

-----------------------------------------------------------------------------
(* Functions only the bound registry may call, as parts of its actions. *)

OnlyRegistry(v) == vaultRegistry[v] = This

\* Variant with a fault: the free balance is not required to cover the lock.
LockUnchecked(v, h, u, t, a) ==
  /\ OnlyRegistry(v)
  /\ freeBalance' = [freeBalance EXCEPT ![v][u][t] = @ - a]
  /\ lockedBalance' = [lockedBalance EXCEPT ![v][h][t] = @ + a]
  /\ UNCHANGED <<wallet, vaultTokens, vaultRegistry>>

LockCollateral(v, h, u, t, a) ==
  /\ OnlyRegistry(v)
  /\ freeBalance[v][u][t] >= a
  /\ freeBalance' = [freeBalance EXCEPT ![v][u][t] = @ - a]
  /\ lockedBalance' = [lockedBalance EXCEPT ![v][h][t] = @ + a]
  /\ UNCHANGED <<wallet, vaultTokens, vaultRegistry>>

\* Variant with a fault: every lock of a batch reads the balance at its start.
BalanceAfterStale(start, sizes) ==
  [i \in 0..Len(sizes) |-> IF i = 0 THEN start ELSE start - sizes[i]]

\* The free balance after each of a sequence of locks.
BalanceAfter(start, sizes) ==
  [i \in 0..Len(sizes) |-> start - SumFunctionOnSet(sizes, 1..i)]

(***************************************************************************)
(* lockCollateral called once per element of a batch, hs being distinct.   *)
(* Every call requires the free balance to cover it, so every intermediate *)
(* balance is a natural number.                                            *)
(***************************************************************************)
LockBatch(v, hs, u, t, sizes) ==
  LET left == BalanceAfter(freeBalance[v][u][t], sizes)
      sizeOf(h) == sizes[CHOOSE i \in DOMAIN hs : hs[i] = h]
      Hit == {hs[i] : i \in DOMAIN hs}
  IN  /\ OnlyRegistry(v)
      /\ left \in [0..Len(sizes) -> Nat]
      /\ freeBalance' = [freeBalance EXCEPT ![v][u][t] = left[Len(sizes)]]
      /\ lockedBalance' = [w \in Vaults |-> [h \in Hashes |-> [s \in Tokens |->
           IF w = v /\ h \in Hit /\ s = t
           THEN lockedBalance[w][h][s] + sizeOf(h) ELSE lockedBalance[w][h][s]]]]
      /\ UNCHANGED <<wallet, vaultTokens, vaultRegistry>>

\* The released tokens go to the adapter, whose swap pays `out' of tOut to
\* the recipient's wallet: both ends of the swap are in this one action.
ReleaseAndSwap(v, h, t, a, recipient, tOut, out) ==
  /\ OnlyRegistry(v)
  /\ lockedBalance[v][h][t] >= a
  /\ vaultTokens[v][t] >= a
  /\ lockedBalance' = [lockedBalance EXCEPT ![v][h][t] = @ - a]
  /\ vaultTokens' = [vaultTokens EXCEPT ![v][t] = @ - a]
  /\ wallet' = [wallet EXCEPT ![recipient][tOut] = @ + out]
  /\ UNCHANGED <<freeBalance, vaultRegistry>>

\* Variant with a fault: the vault does not require the collateral to be its own.
ReturnUnchecked(v, h, u, t, a) ==
  /\ OnlyRegistry(v)
  /\ lockedBalance' = [lockedBalance EXCEPT ![v][h][t] = @ - a]
  /\ freeBalance' = [freeBalance EXCEPT ![v][u][t] = @ + a]
  /\ UNCHANGED <<wallet, vaultTokens, vaultRegistry>>

ReturnCollateral(v, h, u, t, a) ==
  /\ OnlyRegistry(v)
  /\ lockedBalance[v][h][t] >= a
  /\ lockedBalance' = [lockedBalance EXCEPT ![v][h][t] = @ - a]
  /\ freeBalance' = [freeBalance EXCEPT ![v][u][t] = @ + a]
  /\ UNCHANGED <<wallet, vaultTokens, vaultRegistry>>
=============================================================================
