------------------------- MODULE CommitmentRegistry -------------------------
(***************************************************************************)
(* The on-chain system: the CommitmentRegistry with the CollateralVaults,  *)
(* GasVaults and price feeds it uses.  Every external function is one      *)
(* action, because a transaction either runs to its end or reverts as a    *)
(* whole: a reverted call is an action that is not enabled.  Addresses of  *)
(* vault, gas vault and adapter are configuration the guardian may change  *)
(* at any time, also while commitments are pending.                        *)
(***************************************************************************)
EXTENDS CollateralVault, GasVault, PriceOracle, Circuits

CONSTANTS
  Adapters,       \* deployed DEX adapters
  ChecksMinOut,   \* those that refuse an output below minOut (the mock does)
  AmountsOut,     \* outputs the market may give for a swap
  GasCosts,       \* reimbursements a fill may cost, premium included
  Guardians,      \* accounts that may hold the guardian role
  Offers,         \* per user and hash, the terms the user may register
  InitialAnswer,     \* per token, the answer its feed starts with
  InitialVerifiers,  \* the kinds whose verifier the deployment sets
  MaxBatch,       \* 10: commitments in one registerCommitmentBatch
  FillRefMaxAge,  \* DCA_FILL_REF_MAX_AGE
  MaxTime,        \* bound on the block timestamp
  NoOwner         \* the zero address

ASSUME RegistryAssumption ==
  /\ AmountsOut \subseteq Nat /\ GasCosts \subseteq Nat
  /\ Offers \in [Users -> [Hashes -> SUBSET Terms]]
  /\ NoOwner \notin Accounts
  /\ InitialAnswer \in [Tokens -> Int] /\ InitialVerifiers \subseteq Kinds
  /\ MaxBatch \in Nat /\ FillRefMaxAge \in Nat /\ MaxTime \in Nat

VARIABLES
  commitments,    \* commitments[h]: status, owner and terms
  nullifiers,     \* the nullifiers spent
  config,         \* what the guardian sets, see Config
  now             \* block.timestamp

chainVars == <<vaultVars, gasVars, commitments, nullifiers, now>>
vars == <<chainVars, oracleVars, config>>

Config == [verifiers : SUBSET Kinds,    \* the kinds that have a verifier
           vault : Vaults,              \* the contracts in use
           gasVault : GasVaults,
           dexAdapter : Adapters,
           guardian : Guardians,
           paused : BOOLEAN]

vault == config.vault
gasVault == config.gasVault

\* An unregistered hash reads as a record of zeroes; its terms never matter.
CommitmentRecord == [status : Status, owner : Users \cup {NoOwner},
                     terms : Terms \cup {NoOwner}]
Unregistered == [status |-> "NONE", owner |-> NoOwner, terms |-> NoOwner]

status(h) == commitments[h].status
owner(h) == commitments[h].owner
terms(h) == commitments[h].terms

TypeOK ==
  /\ VaultTypeOK /\ GasTypeOK /\ OracleTypeOK
  /\ commitments \in [Hashes -> CommitmentRecord]
  /\ \A h \in Hashes : status(h) # "NONE" => owner(h) \in Users /\ terms(h) \in Terms
  /\ nullifiers \subseteq Nullifiers
  /\ config \in Config
  /\ now \in Nat

\* The state the deployment scripts leave: everything wired, nothing registered.
Init ==
  /\ VaultInit /\ GasInit
  /\ feeds = [t \in Tokens |-> [answer |-> InitialAnswer[t], updatedAt |-> 0]]
  /\ oracleStaleness \in Staleness
  /\ commitments = [h \in Hashes |-> Unregistered]
  /\ nullifiers = {}
  /\ config \in {c \in Config : c.verifiers = InitialVerifiers /\ ~c.paused}
  /\ now = 0

-----------------------------------------------------------------------------
(* Registration. *)

Pending(u, ts) == [status |-> "PENDING", owner |-> u, terms |-> ts]

\* Variant with a fault: a hash may be registered again.
RegistrableTwice(h, ts) ==
  /\ ts.tokenIn # ts.tokenOut
  /\ ts.size > 0
  /\ ts.expiry > now
  /\ ts.kind \in config.verifiers

\* The checks on one commitment, in a single or a batch registration.
Registrable(h, ts) ==
  /\ ts.tokenIn # ts.tokenOut
  /\ ts.size > 0
  /\ ts.expiry > now
  /\ ts.kind \in config.verifiers
  /\ status(h) = "NONE"

RegisterCommitment(u, h, ts) ==
  /\ ~config.paused
  /\ Registrable(h, ts)
  /\ commitments' = [commitments EXCEPT ![h] = Pending(u, ts)]
  /\ LockCollateral(vault, h, u, ts.tokenIn, ts.size)
  /\ UNCHANGED <<gasVars, oracleVars, nullifiers, config, now>>

(***************************************************************************)
(* registerCommitmentBatch(hs, ...): each element is checked, written and  *)
(* locked in turn, and any failure reverts them all.  A hash that occurs   *)
(* twice fails the status check at its second occurrence.  One token pair  *)
(* and one kind serve the whole batch.                                     *)
(***************************************************************************)
RegisterCommitmentBatch(u, hs, offer) ==
  /\ ~config.paused
  /\ Len(hs) \in 1..MaxBatch
  /\ \A i, j \in DOMAIN hs :
       /\ hs[i] = hs[j] => i = j
       /\ offer[hs[i]].tokenIn = offer[hs[j]].tokenIn
       /\ offer[hs[i]].tokenOut = offer[hs[j]].tokenOut
       /\ offer[hs[i]].kind = offer[hs[j]].kind
  /\ \A i \in DOMAIN hs : Registrable(hs[i], offer[hs[i]])
  /\ commitments' = [h \in Hashes |->
       IF \E i \in DOMAIN hs : hs[i] = h THEN Pending(u, offer[h]) ELSE commitments[h]]
  /\ LockBatch(vault, hs, u, offer[hs[1]].tokenIn, [i \in DOMAIN hs |-> offer[hs[i]].size])
  /\ UNCHANGED <<gasVars, oracleVars, nullifiers, config, now>>

-----------------------------------------------------------------------------
(* Execution. *)

\* Variant with a fault: any past DCA time is accepted.
FillRefEverRecent(ts, fillRef) ==
  IF ts.kind = "ORDER_FILL"
  THEN fillRef = 0 /\ OracleReadable(ts.tokenIn, ts.tokenOut)
  ELSE fillRef <= now

\* ORDER_FILL takes no fillRef; DCA takes the time the caller proved, which
\* must be recent.
FillRefAccepted(ts, fillRef) ==
  IF ts.kind = "ORDER_FILL"
  THEN fillRef = 0 /\ OracleReadable(ts.tokenIn, ts.tokenOut)
  ELSE fillRef <= now /\ now - fillRef <= FillRefMaxAge

\* The public input the circuit compares with the private condition.
PublicRef(ts, fillRef) ==
  IF ts.kind = "ORDER_FILL" THEN PairPrice(ts.tokenIn, ts.tokenOut) ELSE fillRef

\* What the adapters make of minOut: UniswapV3Adapter passes 0 to the router.
SwapPays(ts, out) == config.dexAdapter \in ChecksMinOut => out >= ts.minOut

\* Variant with a fault: the executor's own gas tank pays.
DebitExecutor(u, executor, cost) ==
  IF executor = u THEN UNCHANGED gasVars
  ELSE executor \in Users /\ Debit(gasVault, executor, cost)

\* Self-execution costs nothing; anyone else is paid by the owner's gas tank.
DebitGas(u, executor, cost) ==
  IF executor = u THEN UNCHANGED gasVars ELSE Debit(gasVault, u, cost)

\* Variant with a fault: a spent nullifier is accepted again.
MarkSpentAgain(h, n, newStatus) ==
  /\ nullifiers' = nullifiers \cup {n}
  /\ commitments' = [commitments EXCEPT ![h].status = newStatus]

MarkSpent(h, n, newStatus) ==
  /\ n \notin nullifiers
  /\ nullifiers' = nullifiers \cup {n}
  /\ commitments' = [commitments EXCEPT ![h].status = newStatus]

ExecuteCommitment(executor, h, n, fillRef, out, cost) ==
  /\ ~config.paused
  /\ status(h) = "PENDING"
  /\ now <= terms(h).expiry
  /\ terms(h).kind \in config.verifiers
  /\ FillRefAccepted(terms(h), fillRef)
  /\ Provable(h, terms(h), n, PublicRef(terms(h), fillRef))
  /\ MarkSpent(h, n, "EXECUTED")
  /\ SwapPays(terms(h), out)
  /\ ReleaseAndSwap(vault, h, terms(h).tokenIn, terms(h).size,
                    owner(h), terms(h).tokenOut, out)
  /\ DebitGas(owner(h), executor, cost)
  /\ UNCHANGED <<oracleVars, config, now>>

-----------------------------------------------------------------------------
(* Exits without execution: neither looks at "paused". *)

\* The owner names the nullifier: nothing ties it to the commitment.
CancelCommitment(u, h, n) ==
  /\ owner(h) = u
  /\ status(h) = "PENDING"
  /\ MarkSpent(h, n, "CANCELLED")
  /\ ReturnCollateral(vault, h, u, terms(h).tokenIn, terms(h).size)
  /\ UNCHANGED <<gasVars, oracleVars, config, now>>

\* Variant with a fault: a commitment expires at its expiry, not after it.
ExpiredAtExpiry(h) == status(h) = "PENDING" /\ now >= terms(h).expiry

Expired(h) == status(h) = "PENDING" /\ now > terms(h).expiry

\* What user u gets back in token t when the commitments in S expire.
Refund(S, u, t) ==
  LET Mine == {h \in S : owner(h) = u /\ terms(h).tokenIn = t}
  IN  SumFunction([h \in Mine |-> terms(h).size])

(***************************************************************************)
(* All commitments of S return their collateral, in one transaction.  The  *)
(* last conjunct is the checked uint256 addition of returnCollateral.      *)
(***************************************************************************)
ExpireAll(S) ==
  LET credited == [u \in Users |-> [t \in Tokens |->
                    freeBalance[vault][u][t] + Refund(S, u, t)]]
  IN  /\ S # {} => OnlyRegistry(vault)
      /\ \A h \in S : lockedBalance[vault][h][terms(h).tokenIn] >= terms(h).size
      /\ commitments' = [h \in Hashes |->
           IF h \in S THEN [commitments[h] EXCEPT !.status = "EXPIRED"] ELSE commitments[h]]
      /\ lockedBalance' = [w \in Vaults |-> [h \in Hashes |-> [t \in Tokens |->
           IF w = vault /\ h \in S /\ t = terms(h).tokenIn
           THEN lockedBalance[w][h][t] - terms(h).size ELSE lockedBalance[w][h][t]]]]
      /\ freeBalance' = [freeBalance EXCEPT ![vault] = credited]
      /\ UNCHANGED <<wallet, vaultTokens, vaultRegistry, gasVars, oracleVars,
                     nullifiers, config, now>>
      /\ credited \in [Users -> [Tokens -> Nat]]

\* Variant with a fault: a pause also stops the sweep.
SweepUnlessPaused(H) == ~config.paused /\ ExpireAll({h \in H : Expired(h)})

\* sweepExpired(H): elements not pending or not past their expiry are skipped.
SweepExpired(H) == ExpireAll({h \in H : Expired(h)})

-----------------------------------------------------------------------------
(* The guardian's functions. *)

Configure(newConfig) == config' = newConfig /\ UNCHANGED <<chainVars, oracleVars>>

Pause == Configure([config EXCEPT !.paused = TRUE])
Unpause == Configure([config EXCEPT !.paused = FALSE])
SetDEXAdapter(a) == Configure([config EXCEPT !.dexAdapter = a])
SetGasVault(g) == Configure([config EXCEPT !.gasVault = g])
SetCollateralVault(v) == Configure([config EXCEPT !.vault = v])
SetGuardian(x) == Configure([config EXCEPT !.guardian = x])
SetVerifier(k) == Configure([config EXCEPT !.verifiers = @ \cup {k}])
ConfigureFeed(t, feed) == SetPriceFeed(t, feed) /\ UNCHANGED <<chainVars, config>>
ConfigureStaleness(s) == SetOracleStaleness(s) /\ UNCHANGED <<chainVars, config>>

\* onlyGuardian: the sender x holds the role.
GuardianStep(x) ==
  /\ x = config.guardian
  /\ \/ Pause
     \/ Unpause
     \/ \E a \in Adapters : SetDEXAdapter(a)
     \/ \E g \in GasVaults : SetGasVault(g)
     \/ \E v \in Vaults : SetCollateralVault(v)
     \/ \E y \in Guardians : SetGuardian(y)
     \/ \E k \in Kinds : SetVerifier(k)
     \/ \E t \in Tokens : ConfigureFeed(t, NoFeed)
     \/ \E t \in Tokens : \E a \in Answers[t] :
          ConfigureFeed(t, [answer |-> a, updatedAt |-> now])
     \/ \E s \in Staleness : ConfigureStaleness(s)

-----------------------------------------------------------------------------
(* The whole system. *)

registryVars == <<commitments, nullifiers, config, now>>

\* Calls of a vault's own functions, by users or by the contracts' deployer.
VaultStep ==
  /\ \/ \E v \in Vaults, u \in Users, t \in Tokens, a \in Amounts :
          VaultDeposit(v, u, t, a) \/ VaultWithdraw(v, u, t, a)
     \/ \E v \in Vaults, r \in Registries : SetVaultRegistry(v, r)
  /\ UNCHANGED <<gasVars, oracleVars, registryVars>>

GasStep ==
  /\ \/ \E g \in GasVaults, u \in Users, a \in GasAmounts :
          GasDeposit(g, u, a) \/ GasWithdraw(g, u, a)
     \/ \E g \in GasVaults, r \in Registries : SetGasRegistry(g, r)
  /\ UNCHANGED <<vaultVars, oracleVars, registryVars>>

\* The market moves, or the next block is later.
OracleStep == /\ \E t \in Tokens : \E a \in Answers[t] : PublishAnswer(t, a, now)
              /\ UNCHANGED <<chainVars, config>>

Tick == /\ now < MaxTime
        /\ now' = now + 1
        /\ UNCHANGED <<vaultVars, gasVars, oracleVars, commitments, nullifiers, config>>

\* The hash lists of a batch call, those that repeat a hash included.
Batches == UNION {[1..n -> Hashes] : n \in 1..Cardinality(Hashes)}

RegisterStep(u) ==
  \/ \E h \in Hashes : \E ts \in Offers[u][h] : RegisterCommitment(u, h, ts)
  \/ \E hs \in Batches :
       \E offer \in [{hs[i] : i \in DOMAIN hs} -> UNION {Offers[u][h] : h \in Hashes}] :
         /\ \A h \in DOMAIN offer : offer[h] \in Offers[u][h]
         /\ RegisterCommitmentBatch(u, hs, offer)

ExecuteStep(x) ==
  \E h \in Hashes, n \in Nullifiers, out \in AmountsOut, cost \in GasCosts :
    \E fillRef \in 0..MaxTime : ExecuteCommitment(x, h, n, fillRef, out, cost)

CancelStep(u) == \E h \in Hashes, n \in Nullifiers : CancelCommitment(u, h, n)

Next ==
  \/ VaultStep \/ GasStep \/ OracleStep \/ Tick
  \/ \E u \in Users : RegisterStep(u) \/ CancelStep(u)
  \/ \E x \in Accounts : ExecuteStep(x)
  \/ \E H \in SUBSET Hashes : SweepExpired(H)
  \/ \E x \in Guardians : GuardianStep(x)

Spec == Init /\ [][Next]_vars

-----------------------------------------------------------------------------
(* Properties. *)

(***************************************************************************)
(* A pending commitment has exactly its size locked under its hash, in its *)
(* tokenIn and in one vault (whichever was in use when it was registered); *)
(* a commitment that is not pending has nothing locked anywhere.           *)
(***************************************************************************)
LockedAs(h, v) ==
  \A w \in Vaults, t \in Tokens :
    lockedBalance[w][h][t] = IF w = v /\ t = terms(h).tokenIn THEN terms(h).size ELSE 0

Earmarked(h) ==
  IF status(h) = "PENDING"
  THEN terms(h).size > 0 /\ \E v \in Vaults : LockedAs(h, v)
  ELSE \A w \in Vaults, t \in Tokens : lockedBalance[w][h][t] = 0

CollateralEarmarked == \A h \in Hashes : Earmarked(h)

(***************************************************************************)
(* Every vault holds exactly the tokens (the ETH) it owes: the sum of the  *)
(* free and the locked balances, the sum of the prepaid balances.          *)
(***************************************************************************)
Solvent ==
  /\ \A v \in Vaults, t \in Tokens :
       vaultTokens[v][t] = SumFunction([u \in Users |-> freeBalance[v][u][t]])
                           + SumFunction([h \in Hashes |-> lockedBalance[v][h][t]])
  /\ \A g \in GasVaults : gasEth[g] = SumFunction(gasBalance[g])

(***************************************************************************)
(* Two commitments derived from one secret and nonce are never both        *)
(* executed: an execution spends the nullifier its hash determines.        *)
(***************************************************************************)
OneFillPerNullifier ==
  \A h, k \in Hashes :
    /\ status(h) = "EXECUTED" => Strategy[h].nullifier \in nullifiers
    /\ status(h) = "EXECUTED" /\ status(k) = "EXECUTED" /\ h # k
         => Strategy[h].nullifier # Strategy[k].nullifier

(***************************************************************************)
(* Whoever executes, a commitment is filled on the terms its hash commits  *)
(* to, before expiry, and when its private condition holds: a limit order  *)
(* at the current pair price, a DCA round inside its window extended by    *)
(* the age the registry tolerates.                                         *)
(***************************************************************************)
Executes(h) == status(h) # "EXECUTED" /\ status(h)' = "EXECUTED"

FilledOnTerms(h) ==
  /\ terms(h) = Strategy[h].terms
  /\ now <= terms(h).expiry
  /\ IF terms(h).kind = "ORDER_FILL"
     THEN LimitReached(h, PairPrice(terms(h).tokenIn, terms(h).tokenOut))
     ELSE Strategy[h].lo <= now /\ now <= Strategy[h].hi + FillRefMaxAge

FillsOnTerms == [][\A h \in Hashes : Executes(h) => FilledOnTerms(h)]_vars

(***************************************************************************)
(* A user's prepaid gas falls only by the user's own withdrawal, which     *)
(* leaves every commitment as it is, or by the execution of exactly one    *)
(* commitment of that user, in the gas vault in use.                       *)
(***************************************************************************)
GasSpentOnOwnFills ==
  [][\A g \in GasVaults, u \in Users :
       gasBalance'[g][u] < gasBalance[g][u] /\ commitments' # commitments
         => /\ g = gasVault
            /\ \E h \in Hashes : Executes(h) /\ owner(h) = u
            /\ \A w \in Users \ {u} : gasBalance'[g][w] = gasBalance[g][w]]_vars

(***************************************************************************)
(* The swap of a fill pays the owner at least the minOut registered, as    *)
(* the comments of registerCommitment and IDEXAdapter say.                 *)
(***************************************************************************)
FillsPayMinOut ==
  [][\A h \in Hashes : Executes(h) =>
       LET u == owner(h)
           t == terms(h).tokenOut
       IN  wallet'[u][t] - wallet[u][t] >= terms(h).minOut]_vars

(***************************************************************************)
(* The registry and its vaults keep the promise of CommitmentLedger: what  *)
(* a user holds is the wallet and the free balances, whichever vaults they *)
(* are in, and no reconfiguration, pause, batch or sweep breaks it.        *)
(***************************************************************************)
Holdings == [u \in Users |-> [t \in Tokens |->
  wallet[u][t] + SumFunction([v \in Vaults |-> freeBalance[v][u][t]])]]

Ledger == INSTANCE CommitmentLedger
          WITH holdings <- Holdings, book <- commitments, time <- now,
               Payouts <- AmountsOut

ImplementsLedger == Ledger!LedgerSpec

(***************************************************************************)
(* With time passing and somebody sweeping, which anyone may do, every     *)
(* commitment stops being pending: a pause, a lost price feed or an empty  *)
(* gas tank cannot keep collateral locked.  Only a guardian who replaces   *)
(* the vault and never sets it back can, so this is for Vaults = {v}.      *)
(***************************************************************************)
FairSpec == /\ Spec
            /\ WF_vars(Tick)
            /\ \A h \in Hashes : WF_vars(SweepExpired({h}))

PendingResolves == \A h \in Hashes : status(h) = "PENDING" ~> status(h) # "PENDING"
=============================================================================
