# A verification project for zstrategy

zstrategy automates trading orders without publishing their conditions. A user
commits on chain to a limit order or a DCA schedule by a hash, locks collateral,
and hands encrypted shares of the secret to a keeper. When the hidden condition
holds, the keeper proves so in zero knowledge and fills the order.

This directory holds TLA+ modules translated from the source, TLC configurations
that check them on small instances, and TLAPS proofs of what contracts, keeper
and pages guarantee for every instance. `PROJECT.json` maps each definition to
the lines it models. `tlc -config X.cfg M` runs a configuration, `tlapm
M.tla` checks the proofs of module `M`.

## 1. The system

| Part | State it keeps | Operations | Correct when |
|---|---|---|---|
| `CommitmentRegistry.sol` | commitments, spent nullifiers, verifiers, feeds, addresses of vault, gas vault and adapter, guardian, pause | register, registerBatch, execute, cancel, sweepExpired, guardian setters | collateral is locked once and leaves once; one fill per nullifier; fills only on the committed terms |
| `CollateralVault.sol` | free and locked balances, its registry | deposit, withdraw, lock, release, return, setRegistry | it holds exactly what it owes |
| `GasVault.sol` | prepaid ETH, its registry | deposit, withdraw, debit, setRegistry | a user's gas pays only for that user's fills |
| Price feeds, `_readOraclePrice` | answer and time of last update | publish, read the pair price | the price used is positive, in range, fresh |
| Circuits (`order_fill`, `dca`) | none | prove | a proof exists exactly for the committed preimage whose condition holds |
| Adapters | none | swap | the owner gets at least `minOut` |
| Backend `MonitorService` | rows of `pending_strategies`, the map of goroutines | start, stop, evaluate, trigger, roll back, sweep, rehydrate | one watcher and one trigger per order; nothing dropped, nothing stuck |
| Backend `IndexerService`, `ChainIndexer` | rows of `execution_records`, waiters | registered / executed / cancelled / expired, wait | no lost wakeup, no false success |
| HTTP handlers | none | register, register group, mark done | shares before trigger; the row exists before it is watched |
| Keeper jobs | jobs in memory | verify, accept, prove, submit, retry, call back | a job ends; retries are bounded; what is filled was proved |
| Keeper keys and shares | key file, keys in memory, encrypted shares by order | start, list keepers, insert, delete, reconstruct | sealed shares stay openable; what is reconstructed is the owner's secret |
| Keeper HTTP service | a bucket per address | admit, refuse, sweep idle buckets | nobody gets more than the steady rate allows |
| Pair price, in four programs | none | read two feeds, derive the price | all derive the price the registry will verify |
| Order and DCA pages | a nonce per page, IndexedDB records, the last transaction of the wagmi hook, the payload for the backend | build, sign, save, register, wait, POST | chain before backend; local record before chain; one POST per registered order; rounds that fit the circuit |
| Deployment scripts | the contracts' settings, `deployments/<network>.json` | deploy, redeploy registry or verifiers, swap to a mock or another fee tier, return balances | no script strands a pending order or leaves the file wrong |

An order travels: browser → registry (collateral moves from free to locked) →
POST to the backend (row saved, shares forwarded to the keeper) → a monitor
goroutine evaluates the condition at once and every 30 s → row `EXECUTING`, POST
to the keeper → the keeper answers 202 or refuses, proves, submits and retries →
registry → event → indexer → row `DONE`, monitor stopped, shares pruned, waiting
requests woken. A sweeper takes back rows that stay `EXECUTING` for ten minutes;
the keeper's `done` callback ends rows the keeper gives up on.

What makes it hard:

- the contracts are reconfigured while commitments are pending: vault, registry
  binding, adapter, feeds, verifiers, pause;
- every database statement in the backend is its own transaction and writes a
  status whatever the row says, while the monitors, the triggers, the sweeper,
  the indexer, handlers and callbacks work on the same row;
- monitors are stopped by hash, and a stopped goroutine may be in the middle of
  an evaluation;
- requests to the keeper, its callbacks and the chain's events are sent or
  delivered once at most, and both processes may crash between two steps;
- events are missed while a subscription is down, and read again after a restart;
- the keeper's handlers are async: feeds, settings, rows and the process change
  between the check of a price, the proof, the estimate and the transaction;
- shares are sealed to keys and split with a threshold that the keeper may no
  longer have when it opens them;
- a page's effects run again on every change of its inputs, `handleSubmit` runs on
  when its page is gone, and two runs of it may overlap;
- scripts send many transactions, may end between any two of them, and are run
  again with other `SKIP_...` variables while users trade.

`PROJECT.json` lists each such hazard at its line, with the properties aimed at it.

## 2. The modules

### On chain

A transaction runs to its end or leaves no trace, so an external function is one
action. Each `require` is a conjunct of the guard and a reverted call is a step
that does not exist, also when the revert comes after storage writes.

| Module | Models |
|---|---|
| `Deployment` | accounts, tokens, deployed contracts; the preimage of each hash |
| `CollateralVault` | the vault's state and functions; the ERC-20 transfer is part of them |
| `GasVault` | prepaid gas; the debit the registry makes |
| `PriceOracle` | feeds, the pair price and its guards |
| `Circuits` | the statement each circuit proves (`Provable`) |
| `CommitmentRegistry` | the composition: registration single and in batch, execution, cancellation, sweep, every guardian setter, deposits and withdrawals, price moves, the clock |
| `CommitmentLedger` | the abstract specification: holdings, pledges, and an end of each pledge at most once |
| `MCRegistry` | instances |
| `CommitmentRegistryProofs`, `LedgerProofs` | theorems |

`commitments`, `nullifiers`, `feeds`, `freeBalance`, `lockedBalance` and so on are
the storage variables of the same names; `config` groups the guardian's settings;
`now` is the block timestamp. `wallet` and `vaultTokens` are the ERC-20 balances
of users and vaults. The registry modelled is the one called `This`; other
members of `Registries` stand for redeployments, to which a vault may be bound.

`LockBatch` is the loop of `lockCollateral` calls in `registerCommitmentBatch`: it
computes the balance after every lock, because each of them has to be covered.
`ExpireAll` is the loop of `sweepExpired`.

`CommitmentLedger` knows no vaults, proofs, prices or settings. `Holdings`, the
refinement mapping, adds a user's wallet to the free balances in all vaults.
`ImplementsLedger` then says that no reconfiguration, batch or sweep makes tokens
appear or vanish, and that every exit gives back exactly the pledge.

### Off chain

Between two database statements or critical sections any other goroutine may
run, so each of them is an action. Go and TypeScript code between two such points
is local and belongs to the step before or after it.

| Module | Models |
|---|---|
| `KeeperJobs` | accepted jobs, attempts, transactions in flight, retry budget, the three classes of error, the callback; of the chain, what the services can see |
| `StrategyMonitor` | rows, goroutine map, monitors, triggers, sweeper, indexer's calls, handlers, crash and rehydration; extends `KeeperJobs` |
| `ShareStore` | the backend's view of the keeper's share rows and the requests that change them |
| `ExecutionRecords` | the event log, the indexer and its records, the POST of a market and a limit order, waiters, missed and replayed events, restarts; extends `ShareStore` |
| `MCMonitor`, `MCRecords` | instances |
| `StrategyMonitorProofs`, `ExecutionRecordsProofs` | theorems |

`row[o]` is the status column, `stopChans` the map of the same name with the
goroutine in place of its cancel function, `thread[g]` the program counter of a
goroutine and whether its context is cancelled. A cancelled goroutine goes on:
its next statement fails, because it runs under the cancelled context, and it
ends when its `select` takes the other branch. `record`, `waiters` and `channel` are
the rows of `execution_records`, the keys of `executedWaiters` and the buffered
channels in it. The market moves at will: a monitor may see its condition met on
any tick before expiry. Mutexes are held within one action. `Rested` stands for the
ten minutes a row rests before the sweeper takes it: an HTTP request ends within
ten seconds, so no goroutine is between `EXECUTING` and the answer by then.

`StrategyMonitor` and `ExecutionRecords` are two views of the backend and each
leaves out what the other has: the first has no records or waiters, the second no
monitors. They meet in the row (`strategies` against `row[o] # "NONE"`) and in the
indexer's events. Properties about one never depend on the part that is in the other.

### The keeper in detail

| Module | Models |
|---|---|
| `TokenBucket` | the abstract specification of a rate limit: per address, a number of tokens that grows with time and is never forgotten |
| `RateLimiter` | `server.ts`'s map of buckets, its refill at the next request and the sweep that deletes idle ones; `Level` maps a forgotten bucket to a full one |
| `PairPrices` | the pair price as registry, keeper, monitor and order page compute it |
| `KeeperKeys` | the process, its settings N and K, the key file and the generation of keys in memory: load, draw, write, crash, deletion of the file |
| `KeeperService` | handlers and jobs between their awaits, over the three modules above: listing keepers, insertion and deletion of shares, the trigger with its price check and reconstruction, reads of the reference time, proof, estimate, submission, receipt, the classes of error and retries, the callback; around it the feeds, verifier, pause, commitments and mempool |
| `MCKeeper` | an instance |
| `KeeperServiceProofs` | theorems |

A job is `run[j]`, with the await it is at in `pc`. `right` says whether the secret it
works with is the owner's, `sound` whether its proof is one of a true statement:
data are abstracted to what the properties tell apart. `Revert` says why a call of `executeCommitment`
reverts; what it may meet in state this module does not keep (a spent nullifier, an unset verifier, vault and pool, the gas tank) is a
free choice, the `Obstacles`. `rows[o]` is what matters of
the encrypted rows: the generation of keys they are sealed to, how many there are
and the K of their polynomial. `KeeperJobs` is the abstraction the monitor is
composed with, in which an attempt is one step that may fail; `ImplementsJobs`
says that the detailed jobs are such jobs.

### The browser

| Module | Models |
|---|---|
| `FormPage` | what both pages share: the mounted page, overlapping runs of `handleSubmit`, wallet, receipts as wagmi's hook sees them, IndexedDB, the chain as far as it knows commitments, and the clock of both |
| `OrderForm` | the committed price, the conditions on the button, the steps of an order, the effect that POSTs it |
| `DcaSchedule` | `buildSchedule` |
| `DcaForm` | the steps of a group and the effect that POSTs it |
| `Forms` | the composition: clicks, failures, navigation, reload, changes of network; what a committed price means to the registry |
| `MCForms` | instances |
| `FormsProofs` | theorems |

Effects run at the end of the action that changes one of their dependencies
(`SyncOrder`, `SyncGroup`), with the values the render has. A run of `handleSubmit` whose
page is gone goes on up to its transaction, but what it sets is lost (`mounted`).
The nonce of a page is drawn when it is mounted, those of a group's rounds when it is signed, and
that is also the time its schedule is planned at (`dca/page.tsx:130-131`). One `clock` stands for the browser's and the
chain's time; it moves on in any state, and the registry refuses a batch with a round that has expired (`NotExpired`).

### The scripts

`Migration` has all registries, vaults and gas vaults ever deployed, numbered in
order, each with its settings. A script is a list of transactions, made when it
starts from the artifact and the environment, and `EndEarly` ends it before any of
them; `Write` is the last. `Reuses` and `Skips` are the choices the environment offers.
While it runs a user deposits, registers, is filled, cancels, is swept, and runs
`return-vault-balances.ts`, whose reads and withdrawals are steps of their own. Whether an
order is past its expiry is left open here: any pending one may be swept. `MCMigration` is
the instance; `MigrationWiring` and `MigrationProofs` prove its properties.

### Definitions marked "Variant with a fault"

Each is a plausible mistake in the definition that follows it: a dropped guard, a
missing reset, a swapped comparison, a step left out. No run uses them.
Substituted for the original, each breaks the property `PROJECT.json` names it for,
which is how we know that the properties constrain the code.

## 3. What the runs show

| Run | Configuration | Expectation | Shows |
|---|---|---|---|
| `registry` | `MCRegistry` | holds | `TypeOK`, `CollateralEarmarked`, `Solvent`, `OneFillPerNullifier`, `ImplementsLedger` under any order of calls, with batches, wrong registrations, and a guardian who replaces and rebinds vaults |
| `exits` | `MCExits` | holds | `FillsOnTerms`, `GasSpentOnOwnFills`, `Solvent`, and the liveness `PendingResolves`, with two users and paid gas |
| `min_out` | `MCMinOut` | **fails** | finding 1 |
| `monitor` | `MCMonitor` | holds | `TypeOK`, `OneTrigger`, `OneWatcher`, `PendingAttended`, `ExecutingResolves`, `StopsTriggering`, with a crash, of a keeper that calls back and one that does not |
| `done_final` | `MCDoneFinal` | **fails** | finding 2 |
| `records` | `MCRecords` | holds | `NoLostWakeup`, `SuccessIsReal`, `MarketSharesReady`, `TypeOK` |
| `kind_race` | `MCKindRace` | **fails** | finding 3 |
| `forms` | `MCForms` | holds | `ChainFirst`, `Recoverable`, `ConfirmedIsPosted`, `OrderPostedOnce`, `FreshRounds`, `RoundsInTurn`, `FillsAsAsked`, `MarketWaitEnds`, `TypeOK` |
| `limit_price` | `MCLimitPrice` | **fails** | finding 4 |
| `market_sell` | `MCMarketSell` | **fails** | finding 5 |
| `keeper` | `MCKeeper` | holds | `PricesAgree`, `AcceptedHasSecret`, `FillsProved`, `KeysOutliveProcess`, `ImplementsBucket`, `ImplementsJobs`, `TypeOK` |
| `migration` | `MCMigration` | holds | `ArtifactTrue`, `PendingReachable`, `LocksBacked`, `BalancesReturned`, `TypeOK` |

### Bounds

*On chain.* Two hashes: a limit sell and a DCA round, with one nullifier between
them and a second nullifier that belongs to neither. Every property speaks of one
commitment or of a pair that collides. `MCRegistry` (167,008 states) has two vaults and two
registries, one in use and one replaced, and a user who may register other terms
than those his hash commits to; `MCExits` (79,788 states) has a second user, to be charged
wrongly, gas to be charged, two adapters, and a price that moves between the limit
and below it. Sizes 1 and 2 against a deposit of 3: one order, both, or none. Time to 3 or 4 with
expiries at 1 to 3: before, at and after each expiry, and a `fillRef` that is too old.
`MaxTime`, `MaxGas` and the finite `Amounts`, `AmountsOut` and `GasCosts` are the
only caps, and time is the only one that ends a behaviour; the last state still
allows deposits and price moves, so there is no deadlock.

*Monitor* (304,298 states). Properties are about one order, and orders share only the
sweeper's and the indexer's loops, so one order suffices for the races within a row. Two
threads at a time: the monitor and the trigger it started, or a second monitor; one
job at a time in the keeper, which may be followed by others. One crash separates a life
before it from one after it. `MaxRetries` is 2: the last attempt and one that is not the last.

*Records* (2,930,451 states). One market and one limit order, which compete for the one
indexer; one restart, after which the indexer may begin anywhere in the log.

*Forms* (768,519 states). Two overlapping runs of `handleSubmit`, two transactions, so the
second may be sent while the first is open, has failed or is confirmed; two changes of
network, there and back; five draws of nonces, so that one page may register two groups of two
rounds, or be mounted again up to three times. With an interval of 60 s a group planned at 0 has missed its first
window at 70 s and lost its first round at 150 s; one planned at 70 s can still be registered then. Feed answers
below, at and above the target. The arithmetic of schedules is proved for all numbers and times.

*Keeper* (625,344 states). One order of either kind, whose shares are re-sealed and deleted at will; two
generations of keys, one crash, settings N = 2 and N = 3 with K = 2; three markets, below and
at the limit and one that does not fit in `uint64`; a real and a mock verifier; time 0 to
2 with the expiry and the end of the window at 1; two attempts. Rate 1 and cost 2 make
an address wait.

*Migration* (710,793 states). One commitment, at most eight contracts, so a deployment
with either three or all components new and a redeployment on top; a balance of one unit, and two
choices for each environment variable set. The commitment may be pending in two registries at once.

Deadlock is not checked off chain: when every order is finished, every request
answered and the bounds are used up, the system rests.

### Fairness

`FairSpec` of `CommitmentRegistry`: blocks get later, and for each expired commitment
somebody calls `sweepExpired`, as anyone may. Nothing is assumed of owners, of
keepers, of feeds or of the guardian, except that the guardian does not replace
the vault for ever: a commitment is swept out of the vault in use, and one locked in a
replaced vault waits until that vault is set back (`EarmarkGone` in the proofs is
the reason that it cannot be paid by another). `MCExits` therefore has one vault.

`FairSpec` of `StrategyMonitor`: goroutines that can run do; the HTTP client has a
timeout of 10 s, so a trigger ends; the sweeper's ticker fires; docker-compose
restarts the backend (`restart: unless-stopped`); time passes, so expiries do.
A cancelled monitor has strong fairness on its exit, because Go's `select`
chooses at random between a tick and the cancelled context. Nothing is assumed
of the keeper, of the delivery of events, callbacks or transactions, of prices,
or of users. `WF_vars(SweepStep)` covers the selection and what follows it.

`FairSpec` of `Forms`: requests to the backend end, with an answer or an error. Nothing is
assumed of the user, the wallet or the chain.

### Findings

1. `FillsPayMinOut`. `UniswapV3Adapter` asks the router for a minimum of 0 and the registry
   never compares the output with `minOut`, which its comments call a slippage guard.
2. `DoneIsFinal`. Status writes are unconditional. A rollback, a sweep or a new
   monitor that read the row before an order ended puts it back; the keeper
   is triggered again for a finished order. The design notes say "no race with
   goroutines". `StopsTriggering` bounds the damage: the expiry ends it.
3. `MarketKindKept`. `HandleRegistered` looks the kind up and saves the record in two statements;
   a POST that saves and upgrades in between finds nothing to upgrade, and the record says
   `LIMIT` for good. Two tests of the repository expect `MARKET` in either order.
4. `LimitBuysAtTarget`. The order page commits a limit BUY to quote tokens per base token, while
   the registry prices `tokenIn` (the quote token) in `tokenOut`: the inverse, far below
   the committed number. The circuit's `oracle_price <= price` holds at once, at any
   market price.
5. `PressSubmits`. A market SELL has the sentinel price 0, for which `handleSubmit` returns at
   once, although its button is enabled: no market sell can be submitted.

Observations without a run of their own:

*Contracts.*
- Both staleness checks in `_readOraclePrice` are commented out (`CommitmentRegistry.sol:340-342`),
  which the comment means for a testnet whose feeds stand still; `oracleStaleness` is never read.
- `docs/overview.md:259` says that the output of a fill is credited to the user's free
  balance in the vault. `executeCommitment` has it sent to the owner's wallet, and so does
  `ReleaseAndSwap`.

*Backend.*
- `PendingAttended` holds only of a keeper that does not call back, and says so. Without
  that condition TLC finds this: the sweeper selects a stuck row; `MarkStrategyDone` writes
  `DONE`; the sweeper resets the row to `PENDING` and starts a monitor;
  `MarkStrategyDone` then stops that monitor. The row says `PENDING`, the
  commitment is live, and nobody watches it until the next restart.
- `RegisterDcaGroup` answers 201 although a round could not be saved, and the page does not
  read the number saved: that round is on chain and never triggered.
- The prune of an order cancelled early may reach the keeper before its shares do, and
  is not repeated when it is lost.

*Keeper.*
- `invalid proof` counts as definitive: a price that moves during the half minute of proving
  ends the job and marks the strategy done, although the commitment is pending. A mock
  verifier accepts the same fill, at the moved price.
- A DCA round's `executionTimestamp` is fixed when the trigger is accepted
  (`server.ts:236`, `submitter.ts:58`) and may be older than `DCA_FILL_REF_MAX_AGE` by the last retry.
- Two entries of the list of definitive errors, `Registry: no price feed` and `stale oracle`, match no
  message of the registry. `tx.wait(1)` has no timeout. A key file torn by a crash makes
  every later start fail until the operator deletes it.
- Pages seal with K of N = 2 of 3 unless configured (`threshold.ts:22-23`), the keeper reconstructs with
  3 of 5 (`config.ts:56-57`): `AcceptedHasSecret` is about a keeper whose K is not below the pages'.
- The monitor's copy of the price has no `uint64` bound, so it may trigger where the registry
  reverts, and computes `18 - decimals` in `uint8`, which wraps for more than 18 decimals.

*Pages.*
- A nonce is drawn once per page (`orders/page.tsx:138`): orders sent one after the other from it share
  a nullifier, and only one of them can ever fill or be cancelled. `FreshRounds` excludes this for rounds only.
- An order's expiry counts from the time the page was mounted (`orders/page.tsx:192-206`), and a market
  order's quote, the base of its `minOut`, is read once (`:247-285`).
- A failed POST is not tried again (`:391-393`). A change of network while a market order waits
  drops the answer. The DCA page POSTs its payload again when the wallet comes back
  from another network before it was acknowledged, which `OrderPostedOnce` excludes for orders only.
- Two submissions of one DCA page carry the same `dcaGroupId` and strategy id, since the nonce behind them is drawn
  once per page (`dca/page.tsx:70-76`, `:154`), but each is planned at its own time (`:130-131`). Windows of one
  "group" may therefore overlap, and `strategyStore.ts:110`, "Groups all rounds belonging to the same DCA strategy",
  sees one strategy. Each round still has a nonce of its own. `RoundsInTurn` is about what was signed together.
- A wallet that takes long registers a first round whose window has closed already: its collateral stays
  locked until somebody sweeps or cancels it.
- The "±15% random jitter" of `docs/overview.md:49` is a fixed widening of each window by 15% of the interval (`dca/page.tsx:47`).
- Windows of the one-minute interval are 18 s wide, less than the monitor's 30 s between ticks: a
  round may see no tick in its window.

*Scripts.*
- `swap-to-mock-verifier.ts:90` asks for a contract `MockVerifier`; the repository has only `MockZKVerifier`. At this
  commit the script throws before its first transaction. `SwapToMock` runs it as it is written, which
  is more than the program can do now and makes no property easier.
- `redeploy-registry.ts` never updates `artifact.priceFeeds`; `swap-dex-fee-tier.ts:91-100` promises a
  `previousDexAdapter` that it does not store; a second `swap-to-mock-verifier` loses the address of
  the first mock. A `redeploy-verifiers` that was interrupted and is run again with a `SKIP` leaves
  the artifact with the older verifier, which is why `ArtifactTrue` allows newer ones than it names.
- A vault that is reused for a new registry obeys only that one: orders pending in the old
  registry wait until it is bound back. `PendingReachable` allows that, and says that nothing else strands
  them: not an interrupted script, nor one that is run again.

## 4. What is proved

All theorems hold for every value of the constants that satisfies the named
assumptions of the modules, and are about the specification without fairness. The assumptions are the
types of the constants and distinct "nothing" values, and besides: users, tokens, hashes and vaults are
finitely many (`DeploymentAssumption`), so that there are sums over them; a page has drawn a nonce, so
`MaxDraws` and `MaxMounts` are at least 1, and time is counted in whole seconds (`PageAssumption`); and a feed's answer is positive and has no more decimals than
the registry normalises to, 18 (`FeedAssumption`), since the page shows no price and the registry reverts otherwise.

Each invariant and each action property that a passing run checks is the property of one of the
theorems below.

### The contracts: `CommitmentRegistryProofs`

| Theorem | Property | Argument |
|---|---|---|
| `TypeCorrect` | `TypeOK` | Inductive. The work is in the two loops: that the balance after each lock of a batch is a natural number, and that a sweep's refunds are. |
| `EarmarkCorrect` | `CollateralEarmarked` | Inductive relative to `TypeOK`. It is stated with *one vault* and *size > 0* because that is what makes it inductive: an exit takes `size` out of the vault in use, the vault refuses unless it holds that much under this hash, and since `size > 0` only the vault that was in use at registration does (`EarmarkGone`). |
| `OneFill` | `OneFillPerNullifier` | Inductive with its first conjunct (a hash that is executed has spent its own nullifier), with the lemmas `OnlyExecution` (only `ExecuteCommitment` makes a commitment `EXECUTED`) and `NullifiersGrow`. |
| `FillsCorrect` | `FillsOnTerms` | A property of steps, from `TypeOK` and `OnlyExecution`: the guard, the circuits' statement and the two time checks. |
| `GasCorrect` | `GasSpentOnOwnFills` | A property of steps, from `TypeOK`, action by action. |

`TypeCorrect` carries the other four: registered commitments have an owner and
terms, and the guardian's settings stay within their sets (`RegistryTypeOK`).

### The funds: `LedgerProofs`

| Theorem | Property | Argument |
|---|---|---|
| `SolventCorrect` | `Solvent` | Inductive relative to `TypeOK`. A vault's functions move an amount between one entry and one other, or in or out (`DepositMoves` to `SwapMoves`), so only the loops need more: a batch takes the sum of its sizes from one free balance (`BatchSum`) and locks them in as many entries, and a sweep's refunds, one sum per owner, add up to what the swept hashes had locked (`RefundTotal`) |
| `RegistryImplementsLedger` | `ImplementsLedger` | Step by step, under `TypeOK`: one registration or a batch of them is a `Pledge` of as many, an execution a `Fill`, a cancellation and a sweep a `GiveBack`; the clock is `Later`, and deposits, withdrawals, gas, prices and every guardian setting are stutters, because `Holdings` adds the wallet to all vaults |

Both are about sums of balances over finite sets, and the library's facts about them are few and its
induction theorems take an operator as parameter. So the module begins with an induction of its own,
in which a *set* stands for the predicate (`SubsetInduction`, `UpToInduction`, from the
library's well-founded orders), and proves what `SumFunction` does when one entry changes
(`SumChange`), when entries are added (`SumPlus`), selected (`SumFilter`), listed by a sequence (`SumListed`) or
grouped by their owner (`SumByOwner`).

### The keeper: `KeeperServiceProofs`

`LimiterImplementsBucket` shows the refinement step by step: a request maps to a
request, a sweep to a stutter, because a bucket idle for `BucketTtl` would be full
(the assumption that the rate fills it by then is what the code's constants satisfy), time to time, a restart to the
abstract reset. `KeeperLimits` carries it to the whole keeper, whose other steps leave the limiter alone.

`KeeperServiceProofs` has one inductive invariant, the conjunction of

- `TypeOK`;
- `KeysPlaced`: no keys in memory while the process is down, a torn file while they are being
  written, and in the file the keys of the memory once the server listens;
- `HandlersUp`: a trigger waits for the oracle only while the process is up;
- `RunsOK`: a job runs for an order in a process that is up; its secret is the owner's unless K is
  below the pages'; and what it is about to send, or has sent, carries a sound proof;
- `SentProved`: what the keeper has in the mempool carries a sound proof;
- `FillsProved`.

| Theorem | Property | Argument |
|---|---|---|
| `KeeperTypeCorrect` | `TypeOK` | a conjunct |
| `AcceptedAreRight` | `AcceptedHasSecret` | from `RunsOK`: rows opened with keys of their own generation give shares of one polynomial, and K of them its secret; a smaller number is refused |
| `FillsAreProved` | `FillsProved` | a conjunct; `SentProved` is why: the keeper's pre-checks and proof come before every submission, whatever the verifier on chain accepts |
| `PricesCorrect` | `PricesAgree` | `SamePrice`, for any two feeds: all four copies normalise both answers and divide, and differ only in how they refuse |
| `KeysSurvive` | `KeysOutliveProcess` | a property of steps, from `KeysPlaced`: shares are sealed only to published keys, and published keys are on disk |
| `KeeperLimits` | `ImplementsBucket` | above |
| `JobsAreAbstractJobs` | `ImplementsJobs` | below |

`JobsAreAbstractJobs` needs more of a job than what it is worth: `ReceiptsOK` says that a job has at most one
transaction in flight, of its own order and only while it waits; that it has no receipt before that transaction is
mined; and that with a receipt of success its order is executed. The last is why an answer of
`receipt.status` may be believed at any later time: an executed order stays so. Then each step maps to one of
`KeeperJobs` (the lemmas `...Maps`): errors in the same way wherever they occur (`FailMaps`), reading the
reference and making the proof to stutters, a crash to the silent end of all jobs. A transaction mined while
another of the same order is in flight, after a job lost its RPC node and tried again, maps to
an execution by somebody else, or to nothing if it reverts (`MineMaps`).

### The monitor: `StrategyMonitorProofs`

One inductive invariant, which says who holds an order. A holder is the goroutine registered in
`stopChans`, a goroutine that triggers the keeper, the sweeper between its `SELECT` and its restart,
or the handler that saved the row and has not started the watch. Its conjuncts are

- `TypeOK`, and `OrdersNamed`: what runs works on an order;
- `TriggersLive`: a trigger goroutine is under no monitor's context, so nobody cancels it;
- `HoldersIdle`: the sweeper, indexer and handlers hold nothing when idle or down;
- `OneWatcher`, `OneTrigger`, and `OneHolder`, which joins them: whoever triggers the order is at most
  the registered watcher itself, and what the sweeper or a handler holds nobody watches or triggers;
- `RowsHeld`: what a row allows. An `EXECUTING` row is not watched, unless by the goroutine that just
  wrote it; this is why the sweeper may take it. A `PENDING` row is triggered by nobody who has not
  rolled it back, and a row that was never saved is held by nobody;
- `Truthful`: an event means that the order has ended on chain, an expiry seen has passed, and without
  callbacks nothing is marked. It is what makes stopping a watch harmless;
- `PendingAttended`.

`OneTrigger` alone is not inductive: a second trigger comes from a second watcher, and a second watcher
from a rollback, a sweep or a saved row that starts a watch beside it.

| Theorem | Property | Argument |
|---|---|---|
| `MonitorTyped` | `TypeOK` | a conjunct |
| `NoSecondTrigger` | `OneTrigger` | `WriteExecuting` makes a trigger of the registered watcher, and `OneHolder` says that there is no other; `Fire` hands over to a goroutine of its own |
| `RegistryExact` | `OneWatcher` | `WatchStarts`, `WatchStops`: a watch starts only where `OneHolder` finds none, and a stop cancels the one goroutine that watches |
| `NoOrderDropped` | `PendingAttended` | whoever makes a row `PENDING` holds the order, and whoever lets go starts a watch or knows that the order ended or expired |

### The records: `ExecutionRecordsProofs`

The inductive invariant traces what a browser is told back to the chain: a terminal event in the log is
what became of its order (`LogTrue`); the indexer holds such an event, writes a first record only where
there is none, and notifies only after the record says `EXECUTED` (`IndexerTrue`); a record that names an
end names the right one (`RecordTrue`); whoever waits is in `executedWaiters` or has the record in its
channel (`WaitersAttached`); POSTs come after registrations and prunes after ends (`AfterChain`); and a
market POST stores the shares before it saves the strategy (`SharesFirst`).

| Theorem | Property | Argument |
|---|---|---|
| `RecordsTyped` | `TypeOK` | a conjunct |
| `NoWakeupLost` | `NoLostWakeup` | `WaitersAttached`, and the second check after attaching: the record turns `EXECUTED` after it only by a step of the indexer that leads to `NotifyExecuted` |
| `ExecutedIsTrue` | `SuccessIsReal` | `IndexerTrue` and `RecordTrue`; replayed events change nothing, because they are true too, and `SaveRecord` never overwrites an end |
| `SharesComeFirst` | `MarketSharesReady` | `SharesFirst`, and `AfterChain` for prunes |

### The pages: `FormsProofs`

Five inductive invariants. `IInv` is `Typed`, `Followed` (the payload the page holds is that of
the transaction its hook follows), `MinedFirst` (sent payloads are mined, mined ones registered) and
`SavedFirst` (what a run is about to register, what a transaction registers, and what is registered
has its record). `PInv`, over it, says that whatever would keep the effect from firing (`postSynced`,
`backendSyncHashRef`, an open request) means that this very payload was sent (`Posted`), which needs that
mounted runs belong to the mounted page (`PageState`) and that batches are one order or all
rounds of one schedule, planned at one time (`WholeBatches`). `Bounded` is what
`TypeOK` says beyond `Typed`. `MInv` speaks of all commitments that were made and not forgotten (`Made`: on chain, in a
transaction or in the hands of a run): a round's nonce is no other commitment's and no run can use it again
(`Fresh`), and an order is one that was filled in, at its committed price, which is not 0 (`Priced`). `Once` says that a
payload sent from the order page is the one `backendSyncHashRef` remembers.

| Theorem | Property | Argument |
|---|---|---|
| `ChainComesFirst` | `ChainFirst` | from `MinedFirst` |
| `ChainIsRecoverable` | `Recoverable` | a conjunct of `SavedFirst` |
| `ConfirmedPayloadsArePosted` | `ConfirmedIsPosted` | from `Posted` and `Followed` |
| `FormsTyped` | `TypeOK` | `Typed`, `PageState` and `Bounded` |
| `OrdersPostOnce` | `OrderPostedOnce` | a conjunct of `Once`: the effect sends again only a payload it does not remember, and whoever forgets it, a new transaction or another page, replaces the payload too |
| `RoundsAreFresh` | `FreshRounds` | from `Fresh`. Of what is registered alone it is not inductive: the nonces are drawn at signing and are in the hands of runs and the wallet before they are on chain |
| `OrdersFillAsAsked` | `FillsAsAsked` | from `Priced`: the registry's truncated quotient is at least the committed price just when the exact price is at the target (`QuotientAtLeast`, `CommonFactor`) |
| `GroupRoundsInTurn` | `RoundsInTurn` | a step that mines a transaction is `Mine` with all rounds `NotExpired`; its batch is the schedule of some time (`WholeBatches`), whose first round expires no later than any other window closes (`FirstExpires`); and `ScheduleSound`: jitter is less than half an interval (`JitterSmall`) and slots are an interval apart (`Multiples`), so windows are disjoint, for any number of rounds and any interval |

`OrdersFillAsAsked` has two hypotheses. `Scales` states of the powers of ten what the provers do not know
(they compute powers of numerals and know no law of them): they are positive, and scaling two feeds to 18 places makes
up for their decimals; and that the quote token's feed has the places the page commits with (`ORACLE_DECIMALS`).
`UsdFeedsScale` proves it for the feeds of 8 decimals in use. `Priceable` says that the registry has a price
at every answer, which fits in `uint64` and is not 0: at an answer for which it reverts nothing fills, whatever was asked.

### The scripts: `MigrationWiring`, `MigrationProofs`

For any number of deployments, hashes and feeds and any environment. `MigrationAssumption` adds to the
types of the constants that the hashes are finite and that no feed is called `NoFile`.

`WiringInv` compares the script's draft with the chain. The plan is sound (`PlanSound`): the
steps still to do are in order (`InOrder`, over the relation `Before`: contracts before the registry, the registry
before its configuration, a verifier before its registration, the file last) and complete, so that
nothing is deployed that is not put to use. Then each claim the artifact will make holds already or a step still to
do makes it hold (`DraftExists`, `DraftTrue`), and what a script changes in the registry the *present*
artifact names it has newly deployed (`OnlyNewer`), which keeps the present artifact true when the script
ends early. `MigrationWiring` proves that the plans of the five scripts have these properties, whatever they are told to reuse or
skip, and that each step keeps them.

`MigrationProofs` adds the users. A script's step leaves books, balances and locks alone (`ScriptKeeps`), a user's
leaves the wiring alone (`UsersKeep`). Only the newest registry is given a vault, and it was
deployed to use it, so the vault of a pending commitment passes from its registry to later ones only, all of which use it. `ReturnInv` says where the user's script is
(`ToFinale`: its last four steps are two balances read and withdrawn) and that, while he is credited from nowhere
else, what it read bounds what is there.

| Theorem | Property | Argument |
|---|---|---|
| `MigrationTyped` | `TypeOK` | with `Room`, the bound on contracts |
| `ArtifactAlwaysTrue` | `ArtifactTrue` | a conjunct of `WiringInv`; at `Write` it is `DraftTrue` with nothing left to do; before, `OnlyNewer` says that what the script has changed in the registry in use is newer than what is named |
| `PendingAlwaysReachable` | `PendingReachable` | registration needs `Bound`; `ObeysKept` is why no other step matters but `BindVault` (`PendingBound`), which gives the vault to the newest registry |
| `LocksAlwaysBacked` | `LocksBacked` | a book and the locks of its vault move together (`BookMoved`); a new vault has no users yet (`VaultsExist`) |
| `BalancesAreReturned` | `BalancesReturned` | from `ReturnInv` |

### Model-checked only

The liveness properties `PendingResolves`, `ExecutingResolves`, `StopsTriggering` and `MarketWaitEnds`. They
hold under fairness, and the proof system reasons neither about `ENABLED` nor, without it, about
`WF_` and `SF_`.

## 5. What is not modelled

- Widths of integers: Solidity 0.8 reverts on overflow, so amounts are naturals and
  an underflow is a disabled action. The `uint64` bound of the pair price is a guard
  (`MaxPrice`).
- Cryptography. Hashes are injective, proofs exist exactly for true statements, K shares of one
  polynomial give its secret and shares of two give another value. The verifiers are generated code.
- The router, pools, ERC-20 tokens with transfer fees, the gas of a transaction (a
  debit is a constant) and reentrancy (the functions are `nonReentrant`).
- In `StrategyMonitor` a monitor's view of the market is free; its price is in `PairPrices`.
- The keeper's two feed reads may come from different blocks; they are one read here. Its clock does not go backwards.
- Database errors under a live context, and a failing read in `HandleExecuted` after its update,
  which skips the notification.
- The keeper's authentication, CORS, counters and health page; statistics, metrics, caches.
- The encrypted backup, which exports `strategies` only: passwords and serialisation of local data,
  with no state beyond one read and one write.
- The activity and vault pages: views, and buttons that send transactions which are already
  actions of any user in `CommitmentRegistry`. `minOut` of the pages, display and wording.
- Addresses in the scripts' environment that contradict the artifact, a guardian other than the
  operator, and a wrong chain id.

## 6. What could follow

The backend's single fan-out of the shares of a DCA group, with rounds that were not saved.
