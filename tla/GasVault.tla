------------------------------ MODULE GasVault ------------------------------
(***************************************************************************)
(* The GasVault contracts: ETH a user prepays, out of which the registry   *)
(* reimburses the keeper that executes a commitment of that user.          *)
(***************************************************************************)
EXTENDS Deployment

VARIABLES
  gasBalance,   \* gasBalance[g][u]: prepaid wei of a user
  gasEth,       \* gasEth[g]: the contract's ETH balance
  gasRegistry   \* gasRegistry[g]: the registry a gas vault obeys

gasVars == <<gasBalance, gasEth, gasRegistry>>

CONSTANTS GasAmounts,  \* wei users deposit and withdraw
          MaxGas       \* bound: no deposit takes a gas vault above it

ASSUME GasAssumption == GasAmounts \subseteq Nat /\ MaxGas \in Nat

GasTypeOK ==
  /\ gasBalance \in [GasVaults -> [Users -> Nat]]
  /\ gasEth \in [GasVaults -> Nat]
  /\ gasRegistry \in [GasVaults -> Registries]

GasInit ==
  /\ gasBalance = [g \in GasVaults |-> [u \in Users |-> 0]]
  /\ gasEth = [g \in GasVaults |-> 0]
  /\ gasRegistry = [g \in GasVaults |-> This]

\* deposit() and receive() do the same.
GasDeposit(g, u, a) ==
  /\ a > 0
  /\ gasEth[g] + a <= MaxGas
  /\ gasBalance' = [gasBalance EXCEPT ![g][u] = @ + a]
  /\ gasEth' = [gasEth EXCEPT ![g] = @ + a]
  /\ UNCHANGED gasRegistry

\* Variant with a fault: the payment is not taken off the balance.
GasPayUnrecorded(g, u, a) ==
  /\ gasBalance[g][u] >= a
  /\ gasEth[g] >= a
  /\ gasEth' = [gasEth EXCEPT ![g] = @ - a]
  /\ UNCHANGED <<gasBalance, gasRegistry>>

\* Pay `a' wei out of a user's balance; the transfer needs the contract to
\* hold that ETH.
GasPay(g, u, a) ==
  /\ gasBalance[g][u] >= a
  /\ gasEth[g] >= a
  /\ gasBalance' = [gasBalance EXCEPT ![g][u] = @ - a]
  /\ gasEth' = [gasEth EXCEPT ![g] = @ - a]
  /\ UNCHANGED gasRegistry

GasWithdraw(g, u, a) == a > 0 /\ GasPay(g, u, a)

SetGasRegistry(g, r) ==
  /\ gasRegistry' = [gasRegistry EXCEPT ![g] = r]
  /\ UNCHANGED <<gasBalance, gasEth>>

\* Registry only: reimburse the keeper.
Debit(g, u, cost) == gasRegistry[g] = This /\ GasPay(g, u, cost)
=============================================================================
