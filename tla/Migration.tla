------------------------------ MODULE Migration ------------------------------
(***************************************************************************)
(* The deployment and migration scripts, over every registry and vault     *)
(* ever deployed, while users trade.  A script reads the artifact          *)
(* deployments/<network>.json when it starts, sends its transactions one   *)
(* at a time and writes the artifact last; it may end between any two of   *)
(* these steps.  One operator, who is guardian of all registries and owner *)
(* of all vaults, runs one script at a time; one user runs the script that *)
(* returns his balances at any time, also during the operator's.           *)
(* Contracts are numbered in the order of their deployment.                *)
(***************************************************************************)
EXTENDS Integers, Sequences, FiniteSets, SequencesExt

CONSTANTS
  Hashes,        \* commitments of the user, each locking one unit
  KindOf,        \* per hash, its kind
  Feeds,         \* price feeds the environment may name
  Reuses,        \* what ..._ADDRESS variables may tell deploy.ts to reuse
  Skips,         \* what SKIP_... variables may tell redeploy-registry.ts
  Lists,         \* what users may list: expired commitments, and others to cancel
  MaxContracts,  \* bound on the contracts deployed, libraries aside
  MaxFree,       \* bound on the user's free balance and prepaid gas
  NoFile

Kinds == {"ORDER_FILL", "DCA"}

ASSUME MigrationAssumption ==
  /\ IsFiniteSet(Hashes) /\ KindOf \in [Hashes -> Kinds]
  /\ NoFile \notin Feeds
  /\ Lists \subseteq (SUBSET Hashes) \X (SUBSET Hashes)
  /\ MaxContracts \in Nat /\ MaxFree \in Nat

VARIABLES
  registries, \* the CommitmentRegistry contracts
  vaults,     \* the CollateralVault contracts
  gasVaults,  \* the GasVault contracts
  made,       \* verifiers of each kind, mocks and adapters deployed
  artifact,   \* the deployment file
  script,     \* the operator's script
  returning   \* the user's run of return-vault-balances.ts

chainVars == <<registries, vaults, gasVaults>>
vars == <<chainVars, made, artifact, script, returning>>

Number == 0..MaxContracts

\* A verifier is a number: 0 none, n > 0 the nth real one of its kind, -n the
\* nth mock.
Verifier == (-MaxContracts)..MaxContracts
Status == {"NONE", "PENDING", "DONE"}
RegistryRecord == [vault : Number, gasVault : Number, adapter : Number,
                   verifiers : [Kinds -> Verifier], feeds : Feeds \cup {NoFile},
                   book : [Hashes -> Status]]
VaultRecord == [registry : Number, free : 0..MaxFree, locked : [Hashes -> Nat]]
GasVaultRecord == [registry : Number, balance : 0..MaxFree]

\* What the deployment file says; 0 where it says nothing (yet).
Deployment == [registry : Number, vault : Number, gasVault : Number, adapter : Number,
               verifiers : [Kinds -> Number], mock : Verifier, feeds : Feeds \cup {NoFile}]
Blank == [registry |-> 0, vault |-> 0, gasVault |-> 0, adapter |-> 0,
          verifiers |-> [k \in Kinds |-> 0], mock |-> 0, feeds |-> NoFile]

\* A script in progress: what it has still to do, the addresses it goes by and
\* the feeds it configures.
Idle == [todo |-> <<>>, draft |-> Blank, feeds |-> NoFile]
Steps == {"deploy", "bind", "set", "mock", "write"} \X
           (Kinds \cup {"vault", "gasVault", "registry", "adapter", "mock", "feeds",
                        "all", "but feeds"})

\* The user's script: what it has still to do, the addresses it goes by, the
\* balance it read last; "alone" while nothing else has credited the user since
\* it started.
NotReturning == [todo |-> <<>>, registry |-> 0, vault |-> 0, gasVault |-> 0, read |-> 0,
                 alone |-> FALSE]
UserSteps == ({"sweep"} \X SUBSET Hashes) \cup ({"cancel"} \X Hashes)
             \cup ({"read", "withdraw"} \X {"collateral", "gas"})

TypeOK ==
  /\ registries \in Seq(RegistryRecord) /\ vaults \in Seq(VaultRecord)
  /\ gasVaults \in Seq(GasVaultRecord)
  /\ made \in [Kinds \cup {"mock", "adapter"} -> Number]
  /\ artifact \in Deployment \cup {NoFile}
  /\ script \in [todo : Seq(Steps), draft : Deployment, feeds : Feeds \cup {NoFile}]
  /\ returning \in [todo : Seq(UserSteps), registry : Number, vault : Number,
                    gasVault : Number, read : 0..MaxFree, alone : BOOLEAN]

Init ==
  /\ registries = <<>> /\ vaults = <<>> /\ gasVaults = <<>>
  /\ made = [x \in Kinds \cup {"mock", "adapter"} |-> 0]
  /\ artifact = NoFile /\ script = Idle /\ returning = NotReturning

-----------------------------------------------------------------------------
(* The operator's scripts: what each sets out to do. *)

Unless(S, x, steps) == IF x \in S THEN <<>> ELSE steps

Launch(draft, feeds, todo) ==
  /\ script = Idle
  /\ script' = [todo |-> todo, draft |-> draft, feeds |-> feeds]
  /\ UNCHANGED <<chainVars, made, artifact, returning>>

\* Variant with a fault: the gas vault is not bound.
WireWithoutGasVault ==
  <<<<"deploy", "registry">>, <<"bind", "vault">>, <<"set", "ORDER_FILL">>, <<"set", "DCA">>,
    <<"set", "feeds">>>>

\* A new registry, its vaults bound to it, its verifiers and feeds set.
Wire == <<<<"deploy", "registry">>, <<"bind", "vault">>, <<"bind", "gasVault">>,
          <<"set", "ORDER_FILL">>, <<"set", "DCA">>, <<"set", "feeds">>>>

\* deploy.ts: everything anew, except what the environment names.
Deploy(reuse, feeds) ==
  LET old == IF artifact = NoFile THEN Blank ELSE artifact
      kept == [old EXCEPT !.verifiers = [k \in Kinds |-> IF k \in reuse THEN @[k] ELSE 0],
                          !.mock = 0]
  IN  /\ reuse # {} => artifact # NoFile
      /\ Launch(kept, feeds,
           Unless(reuse, "ORDER_FILL", <<<<"deploy", "ORDER_FILL">>>>)
           \o Unless(reuse, "DCA", <<<<"deploy", "DCA">>>>)
           \o Unless(reuse, "adapter", <<<<"deploy", "adapter">>>>)
           \o Unless(reuse, "vault", <<<<"deploy", "vault">>>>)
           \o Unless(reuse, "gasVault", <<<<"deploy", "gasVault">>>>)
           \o Wire \o <<<<"write", "all">>>>)

\* The feeds come from the environment, or else from the artifact.
FeedsFor(env) == IF env # NoFile THEN env ELSE artifact.feeds

\* redeploy-registry.ts: a new registry, and new vaults unless told otherwise.
RedeployRegistry(skip, env) ==
  /\ artifact # NoFile /\ FeedsFor(env) # NoFile
  /\ Launch(artifact, FeedsFor(env),
       Unless(skip, "vault", <<<<"deploy", "vault">>>>)
       \o Unless(skip, "gasVault", <<<<"deploy", "gasVault">>>>)
       \o Wire \o <<<<"write", "but feeds">>>>)

\* redeploy-verifiers.ts: both kinds or one of them.
RedeployVerifiers(skip) ==
  /\ artifact # NoFile /\ skip # Kinds
  /\ Launch(artifact, NoFile,
       Unless(skip, "ORDER_FILL", <<<<"deploy", "ORDER_FILL">>, <<"set", "ORDER_FILL">>>>)
       \o Unless(skip, "DCA", <<<<"deploy", "DCA">>, <<"set", "DCA">>>>)
       \o <<<<"write", "but feeds">>>>)

\* swap-to-mock-verifier.ts: one mock for both kinds; it is deployed before the
\* script finds out that it has nothing to do.  The contract "MockVerifier" it
\* asks for is not in the repository yet: until it is, the script throws before
\* its first transaction.
SwapToMock(skip) ==
  /\ artifact # NoFile
  /\ Launch(artifact, NoFile,
       <<<<"deploy", "mock">>>>
       \o Unless(skip, "ORDER_FILL", <<<<"mock", "ORDER_FILL">>>>)
       \o Unless(skip, "DCA", <<<<"mock", "DCA">>>>)
       \o (IF skip = Kinds THEN <<>> ELSE <<<<"write", "but feeds">>>>))

\* swap-dex-fee-tier.ts
SwapFeeTier ==
  /\ artifact # NoFile
  /\ Launch(artifact, NoFile,
       <<<<"deploy", "adapter">>, <<"set", "adapter">>, <<"write", "but feeds">>>>)

-----------------------------------------------------------------------------
(* Their steps. *)

draft == script.draft
At(verb, name) == script.todo # <<>> /\ Head(script.todo) = <<verb, name>>
Go(newDraft) == /\ script' = [script EXCEPT !.todo = Tail(@), !.draft = newDraft]
                /\ UNCHANGED <<artifact, returning>>

Room == Len(registries) + Len(vaults) + Len(gasVaults) + made["ORDER_FILL"] + made["DCA"]
          + made["mock"] + made["adapter"] < MaxContracts

DeployVault ==
  /\ At("deploy", "vault") /\ Room
  /\ vaults' = Append(vaults, [registry |-> 0, free |-> 0, locked |-> [h \in Hashes |-> 0]])
  /\ Go([draft EXCEPT !.vault = Len(vaults) + 1])
  /\ UNCHANGED <<registries, gasVaults, made>>

DeployGasVault ==
  /\ At("deploy", "gasVault") /\ Room
  /\ gasVaults' = Append(gasVaults, [registry |-> 0, balance |-> 0])
  /\ Go([draft EXCEPT !.gasVault = Len(gasVaults) + 1])
  /\ UNCHANGED <<registries, vaults, made>>

DeployRegistry ==
  /\ At("deploy", "registry") /\ Room
  /\ registries' = Append(registries,
       [vault |-> draft.vault, gasVault |-> draft.gasVault, adapter |-> draft.adapter,
        verifiers |-> [k \in Kinds |-> 0], feeds |-> NoFile,
        book |-> [h \in Hashes |-> "NONE"]])
  /\ Go([draft EXCEPT !.registry = Len(registries) + 1])
  /\ UNCHANGED <<vaults, gasVaults, made>>

\* Verifiers, mocks and adapters: only their identity matters.
DeployOther(x) ==
  /\ At("deploy", x) /\ Room
  /\ made' = [made EXCEPT ![x] = @ + 1]
  /\ Go(CASE x = "mock" -> [draft EXCEPT !.mock = -(made[x] + 1)]
          [] x = "adapter" -> [draft EXCEPT !.adapter = made[x] + 1]
          [] OTHER -> [draft EXCEPT !.verifiers[x] = made[x] + 1])
  /\ UNCHANGED chainVars

\* Variant with a fault: the vault of the artifact is bound, not the new one.
VaultOfArtifact == IF artifact = NoFile THEN draft.vault ELSE artifact.vault

VaultToBind == draft.vault

\* setVaultRegistry, which sends nothing if the binding is there.
BindVault ==
  /\ At("bind", "vault")
  /\ vaults' = [vaults EXCEPT ![VaultToBind].registry = draft.registry]
  /\ Go(draft)
  /\ UNCHANGED <<registries, gasVaults, made>>

BindGasVault ==
  /\ At("bind", "gasVault")
  /\ gasVaults' = [gasVaults EXCEPT ![draft.gasVault].registry = draft.registry]
  /\ Go(draft)
  /\ UNCHANGED <<registries, vaults, made>>

Configure(record) == /\ registries' = [registries EXCEPT ![draft.registry] = record]
                     /\ Go(draft)
                     /\ UNCHANGED <<vaults, gasVaults, made>>

Configured == registries[draft.registry]

SetVerifier(k) ==
  \/ /\ At("set", k)
     /\ Configure([Configured EXCEPT !.verifiers[k] = draft.verifiers[k]])
  \/ /\ At("mock", k)
     /\ Configure([Configured EXCEPT !.verifiers[k] = draft.mock])

SetFeeds == At("set", "feeds") /\ Configure([Configured EXCEPT !.feeds = script.feeds])

SetAdapter == At("set", "adapter") /\ Configure([Configured EXCEPT !.adapter = draft.adapter])

\* The artifact, written last; only deploy.ts writes feeds.
Write ==
  /\ \/ At("write", "all") /\ artifact' = [draft EXCEPT !.feeds = script.feeds]
     \/ At("write", "but feeds") /\ artifact' = draft
  /\ script' = Idle
  /\ UNCHANGED <<chainVars, made, returning>>

\* A transaction fails, or the script throws or is interrupted.
EndEarly == /\ script # Idle /\ script' = Idle
            /\ UNCHANGED <<chainVars, made, artifact, returning>>

-----------------------------------------------------------------------------
(* The contracts, as users of any deployment call them.  Whether an order  *)
(* is past its expiry is left open.                                        *)

operatorVars == <<made, artifact, script>>

vaultOf(r) == registries[r].vault
Bound(r) == vaults[vaultOf(r)].registry = r
Pending(r) == {h \in Hashes : registries[r].book[h] = "PENDING"}

\* The user's balances are credited by somebody else than the user's script.
Credited == returning' = [returning EXCEPT !.alone = FALSE]

Deposit(v) ==
  /\ vaults[v].free < MaxFree
  /\ vaults' = [vaults EXCEPT ![v].free = @ + 1]
  /\ Credited /\ UNCHANGED <<registries, gasVaults, operatorVars>>

DepositGas(g) ==
  /\ gasVaults[g].balance < MaxFree
  /\ gasVaults' = [gasVaults EXCEPT ![g].balance = @ + 1]
  /\ Credited /\ UNCHANGED <<registries, vaults, operatorVars>>

\* Variant with a fault: the collateral of an earlier lock is overwritten.
LockedOnce(locked, h) == [locked EXCEPT ![h] = 1]

LockedMore(locked, h) == [locked EXCEPT ![h] = @ + 1]

Register(r, h) ==
  LET v == vaultOf(r)
  IN  /\ registries[r].book[h] = "NONE" /\ registries[r].verifiers[KindOf[h]] # 0
      /\ Bound(r) /\ vaults[v].free >= 1
      /\ registries' = [registries EXCEPT ![r].book[h] = "PENDING"]
      /\ vaults' = [vaults EXCEPT ![v].free = @ - 1,
                                  ![v].locked = LockedMore(@, h)]
      /\ UNCHANGED <<gasVaults, operatorVars, returning>>

\* By a keeper, whom the owner's gas vault pays, or by the owner.
Execute(r, h, byKeeper) ==
  LET g == registries[r].gasVault
  IN  /\ h \in Pending(r) /\ Bound(r)
      /\ KindOf[h] = "ORDER_FILL" => registries[r].feeds # NoFile
      /\ vaults[vaultOf(r)].locked[h] >= 1
      /\ registries' = [registries EXCEPT ![r].book[h] = "DONE"]
      /\ vaults' = [vaults EXCEPT ![vaultOf(r)].locked[h] = @ - 1]
      /\ IF byKeeper
         THEN /\ gasVaults[g].registry = r /\ gasVaults[g].balance >= 1
              /\ gasVaults' = [gasVaults EXCEPT ![g].balance = @ - 1]
         ELSE UNCHANGED gasVaults
      /\ UNCHANGED <<operatorVars, returning>>

\* Cancellation or expiry of the commitments in S: they must be credited.
Release(r, S) ==
  LET v == vaultOf(r)
  IN  /\ S # {} => Bound(r)
      /\ \A h \in S : vaults[v].locked[h] >= 1
      /\ vaults[v].free + Cardinality(S) <= MaxFree
      /\ registries' = [registries EXCEPT ![r].book =
                          [h \in Hashes |-> IF h \in S THEN "DONE" ELSE @[h]]]
      /\ vaults' = [vaults EXCEPT ![v].free = @ + Cardinality(S),
                      ![v].locked = [h \in Hashes |-> IF h \in S THEN @[h] - 1 ELSE @[h]]]

Cancel(r, h) == /\ h \in Pending(r) /\ Release(r, {h})
                /\ Credited /\ UNCHANGED <<gasVaults, operatorVars>>

SweepExpired(r, S) == /\ S # {} /\ S \subseteq Pending(r) /\ Release(r, S)
                      /\ Credited /\ UNCHANGED <<gasVaults, operatorVars>>

-----------------------------------------------------------------------------
(* return-vault-balances.ts, run with the user's key. *)

\* Variant with a fault: what the cancellations free stays behind.
WithdrawFirst(E, C) ==
  <<<<"read", "collateral">>, <<"withdraw", "collateral">>>>
  \o (IF E = {} THEN <<>> ELSE <<<<"sweep", E>>>>)
  \o [i \in 1..Cardinality(C) |-> <<"cancel", SetToSeq(C)[i]>>]
  \o <<<<"read", "gas">>, <<"withdraw", "gas">>>>

\* Sweep the listed expired commitments, cancel the listed ones, and withdraw
\* what is then free.
ReturnPlan(E, C) ==
  (IF E = {} THEN <<>> ELSE <<<<"sweep", E>>>>)
  \o [i \in 1..Cardinality(C) |-> <<"cancel", SetToSeq(C)[i]>>]
  \o <<<<"read", "collateral">>, <<"withdraw", "collateral">>,
       <<"read", "gas">>, <<"withdraw", "gas">>>>

\* It goes by the addresses the artifact names when it starts.
ReturnBalances(E, C) ==
  /\ returning.todo = <<>> /\ artifact # NoFile
  /\ returning' = [NotReturning EXCEPT !.todo = ReturnPlan(E, C), !.alone = TRUE,
                     !.registry = artifact.registry, !.vault = artifact.vault,
                     !.gasVault = artifact.gasVault]
  /\ UNCHANGED <<chainVars, operatorVars>>

NextIs(verb, x) == returning.todo # <<>> /\ Head(returning.todo) = <<verb, x>>
GoOn(balance) == /\ returning' = [returning EXCEPT !.todo = Tail(@), !.read = balance]
                 /\ UNCHANGED operatorVars

ReturnSweep == \E E, S \in SUBSET Hashes :
  /\ NextIs("sweep", E) /\ S \subseteq E \cap Pending(returning.registry)
  /\ Release(returning.registry, S)
  /\ GoOn(0) /\ UNCHANGED gasVaults

ReturnCancel == \E h \in Hashes :
  /\ NextIs("cancel", h) /\ h \in Pending(returning.registry)
  /\ Release(returning.registry, {h})
  /\ GoOn(0) /\ UNCHANGED gasVaults

ReadFree == /\ NextIs("read", "collateral") /\ GoOn(vaults[returning.vault].free)
            /\ UNCHANGED chainVars

ReadGas == /\ NextIs("read", "gas") /\ GoOn(gasVaults[returning.gasVault].balance)
           /\ UNCHANGED chainVars

\* Variant with a fault: the vault does not check the balance.
PaysAnyway(balance, amount) == TRUE

Pays(balance, amount) == balance >= amount

\* Nothing is sent for a balance of 0; a balance that has fallen since it was
\* read makes the withdrawal revert.
WithdrawFree == /\ NextIs("withdraw", "collateral") /\ GoOn(0)
                /\ Pays(vaults[returning.vault].free, returning.read)
                /\ vaults' = [vaults EXCEPT ![returning.vault].free = @ - returning.read]
                /\ UNCHANGED <<registries, gasVaults>>

\* The script's last call.
WithdrawGas == /\ NextIs("withdraw", "gas") /\ returning' = NotReturning
               /\ Pays(gasVaults[returning.gasVault].balance, returning.read)
               /\ gasVaults' = [gasVaults EXCEPT ![returning.gasVault].balance =
                                  @ - returning.read]
               /\ UNCHANGED <<registries, vaults, operatorVars>>

\* A call reverts or the script is interrupted: the rest is not done.
ReturnEndsEarly == /\ returning.todo # <<>> /\ returning' = NotReturning
                   /\ UNCHANGED <<chainVars, operatorVars>>

-----------------------------------------------------------------------------
Launches == \/ \E reuse \in Reuses, f \in Feeds : Deploy(reuse, f)
            \/ \E skip \in Skips, env \in Feeds \cup {NoFile} : RedeployRegistry(skip, env)
            \/ \E skip \in SUBSET Kinds : RedeployVerifiers(skip) \/ SwapToMock(skip)
            \/ SwapFeeTier

ScriptSteps == \/ DeployVault \/ DeployGasVault \/ DeployRegistry
               \/ \E x \in DOMAIN made : DeployOther(x)
               \/ BindVault \/ BindGasVault
               \/ \E k \in Kinds : SetVerifier(k)
               \/ SetFeeds \/ SetAdapter \/ Write \/ EndEarly

Trading == \/ \E v \in DOMAIN vaults : Deposit(v)
           \/ \E g \in DOMAIN gasVaults : DepositGas(g)
           \/ \E r \in DOMAIN registries :
                \/ \E h \in Hashes : \/ Register(r, h) \/ Cancel(r, h)
                                     \/ \E b \in BOOLEAN : Execute(r, h, b)
                \/ \E S \in SUBSET Hashes : SweepExpired(r, S)

Returning == \/ \E l \in Lists : ReturnBalances(l[1], l[2])
             \/ ReturnSweep \/ ReturnCancel \/ ReadFree \/ ReadGas
             \/ WithdrawFree \/ WithdrawGas \/ ReturnEndsEarly

Next == Launches \/ ScriptSteps \/ Trading \/ Returning

Spec == Init /\ [][Next]_vars

-----------------------------------------------------------------------------
(* Properties. *)

\* A vault or gas vault that obeys registry r, or a later one that uses it too.
Obeys(contract, r, field) ==
  /\ contract.registry \in DOMAIN registries /\ contract.registry >= r
  /\ registries[contract.registry][field] = registries[r][field]

(***************************************************************************)
(* Wherever scripts ended early, and whatever was run after them, the      *)
(* artifact names contracts that work together: its registry uses the      *)
(* vaults named, and these obey it or a later registry that uses them too; *)
(* it has feeds; and its adapter and verifiers are the ones named or newer *)
(* ones, never older, or a mock.                                           *)
(***************************************************************************)
ArtifactTrue ==
  artifact # NoFile =>
    LET a == artifact
        r == registries[a.registry]
    IN  /\ r.vault = a.vault /\ r.gasVault = a.gasVault /\ r.feeds # NoFile
        /\ Obeys(vaults[a.vault], a.registry, "vault")
        /\ Obeys(gasVaults[a.gasVault], a.registry, "gasVault")
        /\ r.adapter >= a.adapter
        /\ \A k \in Kinds : r.verifiers[k] >= a.verifiers[k] \/ r.verifiers[k] < 0

(***************************************************************************)
(* A pending commitment is never stranded by a script, even one that ended *)
(* early: its vault obeys its registry at every moment, until the vault is *)
(* bound to a later registry that was made to use it, never to another.    *)
(***************************************************************************)
PendingReachable ==
  \A r \in DOMAIN registries : Pending(r) # {} => Obeys(vaults[vaultOf(r)], r, "vault")

(***************************************************************************)
(* A vault passed from registry to registry, where one hash may be pending *)
(* in several, holds exactly one lock for each of them.                    *)
(***************************************************************************)
LocksBacked ==
  \A v \in DOMAIN vaults, h \in Hashes :
    vaults[v].locked[h] =
      Cardinality({r \in DOMAIN registries : vaultOf(r) = v /\ h \in Pending(r)})

(***************************************************************************)
(* A user whose script ends well has nothing free left in the vaults about *)
(* to be replaced, whatever was filled or cancelled meanwhile, unless he   *)
(* was credited from elsewhere since it started.                           *)
(***************************************************************************)
BalancesReturned ==
  [][WithdrawGas /\ returning.alone =>
       vaults'[returning.vault].free = 0 /\ gasVaults'[returning.gasVault].balance = 0]_vars
=============================================================================
