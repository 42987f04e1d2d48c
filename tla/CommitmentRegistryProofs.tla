---------------------- MODULE CommitmentRegistryProofs ----------------------
(***************************************************************************)
(* Proofs about CommitmentRegistry, for every number of users, tokens,     *)
(* hashes, vaults and registries, every schedule and every configuration.  *)
(***************************************************************************)
EXTENDS CommitmentRegistry, TLAPS, SequenceTheorems, FiniteSetTheorems

(***************************************************************************)
(* The parts of TypeOK each kind of step can disturb.                      *)
(***************************************************************************)
RegistryTypeOK ==
  /\ commitments \in [Hashes -> CommitmentRecord]
  /\ \A h \in Hashes : status(h) # "NONE" => owner(h) \in Users /\ terms(h) \in Terms
  /\ nullifiers \subseteq Nullifiers
  /\ config \in Config
  /\ now \in Nat

LEMMA TypeParts ==
  TypeOK <=> VaultTypeOK /\ GasTypeOK /\ OracleTypeOK /\ RegistryTypeOK
BY Zenon DEF TypeOK, RegistryTypeOK

\* Vault calls keep the vault state well typed.
LEMMA LockType ==
  ASSUME VaultTypeOK, NEW v \in Vaults, NEW h \in Hashes, NEW u \in Users,
         NEW t \in Tokens, NEW a \in Nat, LockCollateral(v, h, u, t, a)
  PROVE  VaultTypeOK'
BY DEF VaultTypeOK, LockCollateral

LEMMA ReleaseType ==
  ASSUME VaultTypeOK, NEW v \in Vaults, NEW h \in Hashes, NEW t \in Tokens,
         NEW a \in Nat, NEW u \in Users, NEW t2 \in Tokens, NEW out \in Nat,
         ReleaseAndSwap(v, h, t, a, u, t2, out)
  PROVE  VaultTypeOK'
BY DEF VaultTypeOK, ReleaseAndSwap

LEMMA ReturnType ==
  ASSUME VaultTypeOK, NEW v \in Vaults, NEW h \in Hashes, NEW u \in Users,
         NEW t \in Tokens, NEW a \in Nat, ReturnCollateral(v, h, u, t, a)
  PROVE  VaultTypeOK'
BY DEF VaultTypeOK, ReturnCollateral

LEMMA GasPayType ==
  ASSUME GasTypeOK, NEW g \in GasVaults, NEW u \in Users, NEW a \in Nat, GasPay(g, u, a)
  PROVE  GasTypeOK'
BY DEF GasTypeOK, GasPay

LEMMA VaultStepType ==
  ASSUME VaultTypeOK, VaultStep
  PROVE  VaultTypeOK'
<1>1. ASSUME NEW v \in Vaults, NEW u \in Users, NEW t \in Tokens, NEW a \in Amounts,
             VaultDeposit(v, u, t, a)
      PROVE  VaultTypeOK'
  BY <1>1, VaultAssumption DEF VaultTypeOK, VaultDeposit
<1>2. ASSUME NEW v \in Vaults, NEW u \in Users, NEW t \in Tokens, NEW a \in Amounts,
             VaultWithdraw(v, u, t, a)
      PROVE  VaultTypeOK'
  BY <1>2, VaultAssumption DEF VaultTypeOK, VaultWithdraw
<1>3. ASSUME NEW v \in Vaults, NEW r \in Registries, SetVaultRegistry(v, r)
      PROVE  VaultTypeOK'
  BY <1>3 DEF VaultTypeOK, SetVaultRegistry
<1> QED BY <1>1, <1>2, <1>3 DEF VaultStep

LEMMA GasStepType ==
  ASSUME GasTypeOK, GasStep
  PROVE  GasTypeOK'
<1>1. ASSUME NEW g \in GasVaults, NEW u \in Users, NEW a \in GasAmounts, GasDeposit(g, u, a)
      PROVE  GasTypeOK'
  BY <1>1, GasAssumption DEF GasTypeOK, GasDeposit
<1>2. ASSUME NEW g \in GasVaults, NEW u \in Users, NEW a \in GasAmounts, GasWithdraw(g, u, a)
      PROVE  GasTypeOK'
  BY <1>2, GasPayType, GasAssumption DEF GasWithdraw
<1>3. ASSUME NEW g \in GasVaults, NEW r \in Registries, SetGasRegistry(g, r)
      PROVE  GasTypeOK'
  BY <1>3 DEF GasTypeOK, SetGasRegistry
<1> QED BY <1>1, <1>2, <1>3 DEF GasStep

\* The hashes of a batch, and the size each one locks.
LEMMA BatchSizes ==
  ASSUME NEW hs \in Batches, NEW offer \in [{hs[i] : i \in DOMAIN hs} -> Terms]
  PROVE  /\ Len(hs) \in Nat /\ DOMAIN hs = 1..Len(hs) /\ Len(hs) >= 1
         /\ \A i \in DOMAIN hs : hs[i] \in Hashes /\ offer[hs[i]] \in Terms
         /\ LET sizes == [i \in DOMAIN hs |-> offer[hs[i]].size]
            IN  /\ Len(sizes) = Len(hs)
                /\ \A i \in DOMAIN hs :
                     sizes[CHOOSE j \in DOMAIN hs : hs[j] = hs[i]] = offer[hs[i]].size
<1> DEFINE sizes == [i \in DOMAIN hs |-> offer[hs[i]].size]
<1>1. PICK n \in 1..Cardinality(Hashes) : hs \in [1..n -> Hashes]
  BY DEF Batches
<1>2. n \in Nat /\ n >= 1
  BY <1>1, FS_CardinalityType, DeploymentAssumption
<1>3. hs \in Seq(Hashes) /\ DOMAIN hs = 1..n /\ Len(hs) = n
  BY <1>1, <1>2
<1>4. \A i \in 1..n : hs[i] \in Hashes /\ offer[hs[i]] \in Terms
  BY <1>1, <1>3
<1>5. sizes \in [1..n -> Nat]
  BY <1>3, <1>4 DEF Terms
<1>6. sizes \in Seq(Nat) /\ Len(sizes) = n
  BY <1>2, <1>5
<1>7. ASSUME NEW i \in DOMAIN hs
      PROVE  sizes[CHOOSE j \in DOMAIN hs : hs[j] = hs[i]] = offer[hs[i]].size
  <2> DEFINE j == CHOOSE k \in DOMAIN hs : hs[k] = hs[i]
  <2>1. j \in DOMAIN hs /\ hs[j] = hs[i]
    OBVIOUS
  <2> QED BY <2>1
<1> QED BY <1>2, <1>3, <1>4, <1>6, <1>7

\* What a batch registration does to the locks: each of its hashes gets its size.
LEMMA BatchLocks ==
  ASSUME VaultTypeOK, NEW u \in Users, NEW hs \in Batches,
         NEW offer \in [{hs[i] : i \in DOMAIN hs} -> Terms],
         vault \in Vaults,
         RegisterCommitmentBatch(u, hs, offer)
  PROVE  /\ VaultTypeOK'
         /\ \A w \in Vaults, h \in Hashes, t \in Tokens :
              lockedBalance'[w][h][t] =
                IF /\ w = vault
                   /\ \E i \in DOMAIN hs : hs[i] = h
                   /\ t = offer[h].tokenIn
                THEN lockedBalance[w][h][t] + offer[h].size
                ELSE lockedBalance[w][h][t]
<1> DEFINE sizes == [i \in DOMAIN hs |-> offer[hs[i]].size]
           t0 == offer[hs[1]].tokenIn
           left == BalanceAfter(freeBalance[vault][u][t0], sizes)
           sizeOf(h) == sizes[CHOOSE i \in DOMAIN hs : hs[i] = h]
           Hit == {hs[i] : i \in DOMAIN hs}
<1>1. /\ Len(sizes) \in Nat
      /\ \A i \in DOMAIN hs : hs[i] \in Hashes /\ offer[hs[i]] \in Terms
      /\ 1 \in DOMAIN hs
      /\ \A h \in Hit : sizeOf(h) = offer[h].size
  BY BatchSizes
<1>2. LockBatch(vault, hs, u, t0, sizes)
  BY DEF RegisterCommitmentBatch
<1>3. /\ left \in [0..Len(sizes) -> Nat]
      /\ freeBalance' = [freeBalance EXCEPT ![vault][u][t0] = left[Len(sizes)]]
      /\ lockedBalance' = [w \in Vaults |-> [h \in Hashes |-> [t \in Tokens |->
           IF w = vault /\ h \in Hit /\ t = t0
           THEN lockedBalance[w][h][t] + sizeOf(h) ELSE lockedBalance[w][h][t]]]]
      /\ UNCHANGED <<wallet, vaultTokens, vaultRegistry>>
  BY <1>2 DEF LockBatch
<1>4. \A h \in Hit : offer[h].tokenIn = t0
  BY <1>1 DEF RegisterCommitmentBatch
<1>5. t0 \in Tokens /\ \A h \in Hit : h \in Hashes /\ sizeOf(h) \in Nat
  <2>1. \A i \in DOMAIN hs : offer[hs[i]].tokenIn \in Tokens /\ offer[hs[i]].size \in Nat
    BY <1>1 DEF Terms
  <2> HIDE DEF sizeOf
  <2> QED BY <1>1, <2>1
<1> HIDE DEF left, sizes, sizeOf, Hit, t0
<1>6. left[Len(sizes)] \in Nat
  <2> DEFINE n == Len(sizes)
  <2>1. n \in Nat /\ left \in [0..n -> Nat]
    BY <1>1, <1>3
  <2> HIDE DEF n
  <2>2. left[n] \in Nat
    BY <2>1
  <2> QED BY <2>2 DEF n
<1>7. freeBalance' \in [Vaults -> [Users -> [Tokens -> Nat]]]
  BY <1>3, <1>5, <1>6 DEF VaultTypeOK
<1>8. lockedBalance' \in [Vaults -> [Hashes -> [Tokens -> Nat]]]
  BY <1>3, <1>5 DEF VaultTypeOK
<1>9. ASSUME NEW w \in Vaults, NEW h \in Hashes, NEW t \in Tokens
      PROVE  lockedBalance'[w][h][t] =
                IF w = vault /\ h \in Hit /\ t = offer[h].tokenIn
                THEN lockedBalance[w][h][t] + offer[h].size
                ELSE lockedBalance[w][h][t]
  BY <1>1, <1>3, <1>4
<1>10. VaultTypeOK'
  BY <1>3, <1>7, <1>8 DEF VaultTypeOK
<1>11. \A h : h \in Hit <=> \E i \in DOMAIN hs : hs[i] = h
  BY DEF Hit
<1> QED BY <1>9, <1>10, <1>11

LEMMA SweepType ==
  ASSUME VaultTypeOK, RegistryTypeOK, NEW H \in SUBSET Hashes, SweepExpired(H)
  PROVE  /\ VaultTypeOK'
         /\ \A w \in Vaults, h \in Hashes, t \in Tokens :
              lockedBalance'[w][h][t] =
                IF w = vault /\ h \in H /\ Expired(h) /\ t = terms(h).tokenIn
                THEN lockedBalance[w][h][t] - terms(h).size
                ELSE lockedBalance[w][h][t]
<1> DEFINE S == {h \in H : Expired(h)}
           credited == [u \in Users |-> [t \in Tokens |->
                         freeBalance[vault][u][t] + Refund(S, u, t)]]
<1>1. ExpireAll(S)
  BY DEF SweepExpired
<1>2. /\ \A h \in S : lockedBalance[vault][h][terms(h).tokenIn] >= terms(h).size
      /\ lockedBalance' = [w \in Vaults |-> [h \in Hashes |-> [t \in Tokens |->
           IF w = vault /\ h \in S /\ t = terms(h).tokenIn
           THEN lockedBalance[w][h][t] - terms(h).size ELSE lockedBalance[w][h][t]]]]
      /\ freeBalance' = [freeBalance EXCEPT ![vault] = credited]
      /\ UNCHANGED <<wallet, vaultTokens, vaultRegistry>>
      /\ credited \in [Users -> [Tokens -> Nat]]
  BY <1>1 DEF ExpireAll
<1>3. vault \in Vaults /\ \A h \in S : h \in Hashes /\ terms(h) \in Terms
  BY DEF RegistryTypeOK, Expired, Config, vault
<1>4. \A h \in S : terms(h).tokenIn \in Tokens /\ terms(h).size \in Nat
  BY <1>3 DEF Terms
<1>5. \A h : h \in S <=> h \in H /\ Expired(h)
  OBVIOUS
<1> HIDE DEF S, credited
<1>6. freeBalance' \in [Vaults -> [Users -> [Tokens -> Nat]]]
  BY <1>2, <1>3 DEF VaultTypeOK
<1>7. lockedBalance' \in [Vaults -> [Hashes -> [Tokens -> Nat]]]
  <2>1. ASSUME NEW w \in Vaults, NEW h \in Hashes, NEW t \in Tokens
        PROVE  (IF w = vault /\ h \in S /\ t = terms(h).tokenIn
                THEN lockedBalance[w][h][t] - terms(h).size
                ELSE lockedBalance[w][h][t]) \in Nat
    BY <1>2, <1>4 DEF VaultTypeOK
  <2> QED BY <1>2, <2>1
<1>8. ASSUME NEW w \in Vaults, NEW h \in Hashes, NEW t \in Tokens
      PROVE  lockedBalance'[w][h][t] =
                IF w = vault /\ h \in H /\ Expired(h) /\ t = terms(h).tokenIn
                THEN lockedBalance[w][h][t] - terms(h).size
                ELSE lockedBalance[w][h][t]
  BY <1>2, <1>5
<1>9. VaultTypeOK'
  BY <1>2, <1>6, <1>7 DEF VaultTypeOK
<1> QED BY <1>8, <1>9

-----------------------------------------------------------------------------
(* Type correctness. *)

LEMMA VaultInUse ==
  ASSUME RegistryTypeOK
  PROVE  vault \in Vaults /\ gasVault \in GasVaults
BY DEF RegistryTypeOK, Config, vault, gasVault

LEMMA PendingTyped ==
  ASSUME RegistryTypeOK, NEW h \in Hashes, status(h) # "NONE"
  PROVE  /\ owner(h) \in Users /\ terms(h) \in Terms
         /\ terms(h).tokenIn \in Tokens /\ terms(h).tokenOut \in Tokens
         /\ terms(h).size \in Nat /\ terms(h).expiry \in Nat
BY DEF RegistryTypeOK, Terms

\* A status change keeps the book well typed.
LEMMA StatusType ==
  ASSUME RegistryTypeOK, NEW S \in SUBSET Hashes, NEW st \in Terminal,
         \A h \in S : status(h) = "PENDING",
         commitments' = [h \in Hashes |->
           IF h \in S THEN [commitments[h] EXCEPT !.status = st] ELSE commitments[h]],
         nullifiers' \subseteq Nullifiers, config' = config, now' = now
  PROVE  RegistryTypeOK'
<1>1. st \in Status
  BY DEF Status
<1>2. ASSUME NEW h \in Hashes
      PROVE  /\ commitments'[h] \in CommitmentRecord
             /\ status(h)' # "NONE" => owner(h)' \in Users /\ terms(h)' \in Terms
  <2>1. commitments[h] \in CommitmentRecord
    BY DEF RegistryTypeOK
  <2>2. CASE h \in S
    <3>1. /\ status(h)' = st /\ owner(h)' = owner(h) /\ terms(h)' = terms(h)
          /\ commitments'[h] \in CommitmentRecord
      BY <1>1, <2>1, <2>2 DEF CommitmentRecord, status, owner, terms
    <3> QED BY <2>2, <3>1, PendingTyped
  <2>3. CASE h \notin S
    BY <2>1, <2>3 DEF RegistryTypeOK, status, owner, terms
  <2> QED BY <2>2, <2>3
<1>3. commitments' \in [Hashes -> CommitmentRecord]
  BY <1>2
<1> QED BY <1>2, <1>3 DEF RegistryTypeOK

\* Marking one commitment as spent is a status change of that commitment.
LEMMA SpentType ==
  ASSUME RegistryTypeOK, NEW h \in Hashes, NEW n \in Nullifiers, NEW st \in Terminal,
         status(h) = "PENDING", MarkSpent(h, n, st), config' = config, now' = now
  PROVE  RegistryTypeOK'
<1>1. commitments \in [Hashes -> CommitmentRecord] /\ nullifiers \subseteq Nullifiers
  BY DEF RegistryTypeOK
<1>2. commitments' = [k \in Hashes |->
        IF k \in {h} THEN [commitments[k] EXCEPT !.status = st] ELSE commitments[k]]
  BY <1>1, Zenon DEF MarkSpent
<1>3. nullifiers' \subseteq Nullifiers
  BY <1>1 DEF MarkSpent
<1>4. {h} \in SUBSET Hashes /\ \A k \in {h} : status(k) = "PENDING"
  OBVIOUS
<1> QED BY <1>2, <1>3, <1>4, StatusType, Zenon

\* New commitments keep the book well typed.
LEMMA PledgeType ==
  ASSUME RegistryTypeOK, NEW u \in Users, NEW S \in SUBSET Hashes, NEW offer,
         \A h \in S : offer[h] \in Terms,
         commitments' = [h \in Hashes |->
           IF h \in S THEN Pending(u, offer[h]) ELSE commitments[h]],
         UNCHANGED <<nullifiers, config, now>>
  PROVE  RegistryTypeOK'
BY DEF RegistryTypeOK, Pending, CommitmentRecord, Status, status, owner, terms

LEMMA RegisterType ==
  ASSUME VaultTypeOK, RegistryTypeOK, NEW u \in Users, NEW h \in Hashes, NEW ts \in Terms,
         RegisterCommitment(u, h, ts)
  PROVE  VaultTypeOK' /\ RegistryTypeOK'
<1>1. VaultTypeOK'
  BY LockType, VaultInUse DEF RegisterCommitment, Terms
<1>2. RegistryTypeOK'
  BY DEF RegisterCommitment, RegistryTypeOK, Pending, CommitmentRecord, Status,
         status, owner, terms
<1> QED BY <1>1, <1>2

LEMMA BatchType ==
  ASSUME VaultTypeOK, RegistryTypeOK, NEW u \in Users, NEW hs \in Batches,
         NEW offer \in [{hs[i] : i \in DOMAIN hs} -> Terms],
         RegisterCommitmentBatch(u, hs, offer)
  PROVE  VaultTypeOK' /\ RegistryTypeOK'
<1> DEFINE S == {hs[i] : i \in DOMAIN hs}
<1>1. S \subseteq Hashes /\ \A h \in S : offer[h] \in Terms
  <2>1. \A i \in DOMAIN hs : hs[i] \in Hashes /\ offer[hs[i]] \in Terms
    BY BatchSizes
  <2> QED BY <2>1
<1>2. commitments' = [h \in Hashes |->
        IF h \in S THEN Pending(u, offer[h]) ELSE commitments[h]]
  BY DEF RegisterCommitmentBatch
<1>3. UNCHANGED <<nullifiers, config, now>>
  BY DEF RegisterCommitmentBatch
<1>4. RegistryTypeOK'
  BY <1>1, <1>2, <1>3, PledgeType
<1>5. VaultTypeOK'
  BY BatchLocks, VaultInUse
<1> QED BY <1>4, <1>5

LEMMA ExecuteType ==
  ASSUME VaultTypeOK, GasTypeOK, RegistryTypeOK, NEW x \in Accounts, NEW h \in Hashes,
         NEW n \in Nullifiers, NEW fillRef, NEW out \in AmountsOut, NEW cost \in GasCosts,
         ExecuteCommitment(x, h, n, fillRef, out, cost)
  PROVE  VaultTypeOK' /\ GasTypeOK' /\ RegistryTypeOK'
<1>1. /\ owner(h) \in Users /\ terms(h).tokenIn \in Tokens /\ terms(h).tokenOut \in Tokens
      /\ terms(h).size \in Nat
  BY PendingTyped DEF ExecuteCommitment
<1>2. out \in Nat /\ cost \in Nat
  BY RegistryAssumption
<1>3. VaultTypeOK'
  BY <1>1, <1>2, ReleaseType, VaultInUse DEF ExecuteCommitment
<1>4. GasTypeOK'
  <2>1. CASE UNCHANGED gasVars
    BY <2>1 DEF gasVars, GasTypeOK
  <2>2. CASE Debit(gasVault, owner(h), cost)
    BY <1>1, <1>2, <2>2, GasPayType, VaultInUse DEF Debit
  <2> QED BY <2>1, <2>2 DEF ExecuteCommitment, DebitGas
<1>5. RegistryTypeOK'
  BY SpentType DEF ExecuteCommitment, Terminal
<1> QED BY <1>3, <1>4, <1>5

LEMMA CancelType ==
  ASSUME VaultTypeOK, RegistryTypeOK, NEW u \in Users, NEW h \in Hashes,
         NEW n \in Nullifiers, CancelCommitment(u, h, n)
  PROVE  VaultTypeOK' /\ RegistryTypeOK'
<1>1. terms(h).tokenIn \in Tokens /\ terms(h).size \in Nat
  BY PendingTyped DEF CancelCommitment
<1>2. VaultTypeOK'
  BY <1>1, ReturnType, VaultInUse DEF CancelCommitment
<1>3. RegistryTypeOK'
  BY SpentType DEF CancelCommitment, Terminal
<1> QED BY <1>2, <1>3

\* A guardian's call leaves funds, commitments and nullifiers as they are.
LEMMA GuardianEffect ==
  ASSUME OracleTypeOK, RegistryTypeOK, NEW x \in Guardians, GuardianStep(x)
  PROVE  UNCHANGED chainVars /\ OracleTypeOK' /\ config' \in Config
<1>1. config \in Config /\ now \in Nat
  BY DEF RegistryTypeOK
<1>2. ASSUME NEW c \in Config, Configure(c)
      PROVE  UNCHANGED chainVars /\ OracleTypeOK' /\ config' \in Config
  BY <1>2 DEF Configure, OracleTypeOK, oracleVars
<1>3. /\ \A b \in BOOLEAN : [config EXCEPT !.paused = b] \in Config
      /\ \A a \in Adapters : [config EXCEPT !.dexAdapter = a] \in Config
      /\ \A g \in GasVaults : [config EXCEPT !.gasVault = g] \in Config
      /\ \A v \in Vaults : [config EXCEPT !.vault = v] \in Config
      /\ \A y \in Guardians : [config EXCEPT !.guardian = y] \in Config
      /\ \A k \in Kinds : [config EXCEPT !.verifiers = @ \cup {k}] \in Config
  BY <1>1 DEF Config
<1>4. ASSUME NEW t \in Tokens, NEW feed \in Feed \cup {NoFeed}, ConfigureFeed(t, feed)
      PROVE  UNCHANGED chainVars /\ OracleTypeOK' /\ config' \in Config
  BY <1>1, <1>4 DEF ConfigureFeed, SetPriceFeed, OracleTypeOK
<1>5. ASSUME NEW s \in Staleness, ConfigureStaleness(s)
      PROVE  UNCHANGED chainVars /\ OracleTypeOK' /\ config' \in Config
  BY <1>1, <1>5, OracleAssumption DEF ConfigureStaleness, SetOracleStaleness, OracleTypeOK
<1>6. \A t \in Tokens : \A a \in Answers[t] : [answer |-> a, updatedAt |-> now] \in Feed
  BY <1>1, OracleAssumption DEF Feed
<1>7. CASE Pause \/ Unpause
  BY <1>2, <1>3, <1>7 DEF Pause, Unpause
<1>8. CASE \/ \E a \in Adapters : SetDEXAdapter(a)
           \/ \E g \in GasVaults : SetGasVault(g)
           \/ \E v \in Vaults : SetCollateralVault(v)
           \/ \E y \in Guardians : SetGuardian(y)
           \/ \E k \in Kinds : SetVerifier(k)
  BY <1>2, <1>3, <1>8 DEF SetDEXAdapter, SetGasVault, SetCollateralVault, SetGuardian, SetVerifier
<1>9. CASE \/ \E t \in Tokens : ConfigureFeed(t, NoFeed)
           \/ \E t \in Tokens : \E a \in Answers[t] :
                ConfigureFeed(t, [answer |-> a, updatedAt |-> now])
  BY <1>4, <1>6, <1>9
<1> QED BY <1>5, <1>7, <1>8, <1>9 DEF GuardianStep

LEMMA SweepRegistryType ==
  ASSUME RegistryTypeOK, NEW H \in SUBSET Hashes, SweepExpired(H)
  PROVE  RegistryTypeOK'
<1> DEFINE S == {h \in H : Expired(h)}
<1>1. S \in SUBSET Hashes /\ \A h \in S : status(h) = "PENDING"
  BY DEF Expired
<1>2. ExpireAll(S)
  BY DEF SweepExpired
<1> HIDE DEF S
<1>3. /\ commitments' = [h \in Hashes |->
           IF h \in S THEN [commitments[h] EXCEPT !.status = "EXPIRED"] ELSE commitments[h]]
      /\ UNCHANGED <<nullifiers, config, now>>
  BY <1>2, Zenon DEF ExpireAll
<1>4. "EXPIRED" \in Terminal /\ nullifiers' \subseteq Nullifiers
  BY <1>3 DEF Terminal, RegistryTypeOK
<1> QED BY <1>1, <1>3, <1>4, StatusType, Zenon

\* What the types of state that a step leaves alone depend on.
LEMMA Frames ==
  /\ VaultTypeOK /\ UNCHANGED vaultVars => VaultTypeOK'
  /\ GasTypeOK /\ UNCHANGED gasVars => GasTypeOK'
  /\ OracleTypeOK /\ UNCHANGED oracleVars => OracleTypeOK'
  /\ RegistryTypeOK /\ UNCHANGED registryVars => RegistryTypeOK'
BY DEF vaultVars, gasVars, oracleVars, registryVars, VaultTypeOK, GasTypeOK, OracleTypeOK,
       RegistryTypeOK, status, owner, terms

(***************************************************************************)
(* The storage of registry, vaults, gas vaults and feeds stays well typed: *)
(* in particular no balance is ever below zero and every commitment that   *)
(* was registered has an owner and terms.                                  *)
(***************************************************************************)
THEOREM TypeCorrect == Spec => []TypeOK
<1>1. Init => TypeOK
  <2> SUFFICES ASSUME Init PROVE TypeOK
    OBVIOUS
  <2>1. VaultTypeOK
    BY DeploymentAssumption, VaultAssumption DEF Init, VaultInit, VaultTypeOK
  <2>2. GasTypeOK
    BY DeploymentAssumption DEF Init, GasInit, GasTypeOK
  <2>3. OracleTypeOK
    BY OracleAssumption, RegistryAssumption DEF Init, OracleTypeOK, Feed
  <2>4. RegistryTypeOK
    BY DEF Init, RegistryTypeOK, Unregistered, CommitmentRecord, Status, status
  <2> QED BY <2>1, <2>2, <2>3, <2>4, TypeParts
<1>2. TypeOK /\ [Next]_vars => TypeOK'
  <2> SUFFICES ASSUME TypeOK, [Next]_vars PROVE TypeOK'
    OBVIOUS
  <2>1. VaultTypeOK /\ GasTypeOK /\ OracleTypeOK /\ RegistryTypeOK
    BY TypeParts
  <2>2. SUFFICES VaultTypeOK' /\ GasTypeOK' /\ OracleTypeOK' /\ RegistryTypeOK'
    BY Zenon DEF TypeOK, RegistryTypeOK
  <2>3. CASE VaultStep
    BY <2>1, <2>3, VaultStepType, Frames DEF VaultStep
  <2>4. CASE GasStep
    BY <2>1, <2>4, GasStepType, Frames DEF GasStep
  <2>5. CASE OracleStep
    <3>1. UNCHANGED <<vaultVars, gasVars, registryVars>>
      BY <2>5 DEF OracleStep, chainVars, registryVars
    <3>2. OracleTypeOK'
      BY <2>1, <2>5, OracleAssumption
      DEF OracleStep, PublishAnswer, OracleTypeOK, RegistryTypeOK, Feed
    <3> QED BY <2>1, <3>1, <3>2, Frames
  <2>6. CASE Tick
    BY <2>1, <2>6, Frames DEF Tick, RegistryTypeOK, status, owner, terms
  <2>7. ASSUME NEW u \in Users, RegisterStep(u)
        PROVE  VaultTypeOK' /\ GasTypeOK' /\ OracleTypeOK' /\ RegistryTypeOK'
    <3>1. \A h \in Hashes : Offers[u][h] \subseteq Terms
      BY RegistryAssumption
    <3>2. ASSUME NEW h \in Hashes, NEW ts \in Offers[u][h], RegisterCommitment(u, h, ts)
          PROVE  VaultTypeOK' /\ GasTypeOK' /\ OracleTypeOK' /\ RegistryTypeOK'
      <4>1. UNCHANGED <<gasVars, oracleVars>>
        BY <3>2 DEF RegisterCommitment
      <4> QED BY <2>1, <3>1, <3>2, <4>1, RegisterType, Frames
    <3>3. ASSUME NEW hs \in Batches,
                 NEW offer \in [{hs[i] : i \in DOMAIN hs} -> UNION {Offers[u][h] : h \in Hashes}],
                 RegisterCommitmentBatch(u, hs, offer)
          PROVE  VaultTypeOK' /\ GasTypeOK' /\ OracleTypeOK' /\ RegistryTypeOK'
      <4>1. UNCHANGED <<gasVars, oracleVars>>
        BY <3>3 DEF RegisterCommitmentBatch
      <4>2. offer \in [{hs[i] : i \in DOMAIN hs} -> Terms]
        BY <3>1
      <4> QED BY <2>1, <3>3, <4>1, <4>2, BatchType, Frames
    <3> QED BY <2>7, <3>2, <3>3 DEF RegisterStep
  <2>8. ASSUME NEW x \in Accounts, ExecuteStep(x)
        PROVE  VaultTypeOK' /\ GasTypeOK' /\ OracleTypeOK' /\ RegistryTypeOK'
    <3>1. PICK h \in Hashes, n \in Nullifiers, out \in AmountsOut, cost \in GasCosts,
               fillRef \in 0..MaxTime : ExecuteCommitment(x, h, n, fillRef, out, cost)
      BY <2>8 DEF ExecuteStep
    <3>2. UNCHANGED oracleVars
      BY <3>1 DEF ExecuteCommitment
    <3> QED BY <2>1, <3>1, <3>2, ExecuteType, Frames
  <2>9. ASSUME NEW u \in Users, CancelStep(u)
        PROVE  VaultTypeOK' /\ GasTypeOK' /\ OracleTypeOK' /\ RegistryTypeOK'
    <3>1. PICK h \in Hashes, n \in Nullifiers : CancelCommitment(u, h, n)
      BY <2>9 DEF CancelStep
    <3>2. UNCHANGED <<gasVars, oracleVars>>
      BY <3>1 DEF CancelCommitment
    <3> QED BY <2>1, <3>1, <3>2, CancelType, Frames
  <2>10. ASSUME NEW H \in SUBSET Hashes, SweepExpired(H)
         PROVE  VaultTypeOK' /\ GasTypeOK' /\ OracleTypeOK' /\ RegistryTypeOK'
    <3>1. UNCHANGED <<gasVars, oracleVars>>
      BY <2>10 DEF SweepExpired, ExpireAll
    <3> QED BY <2>1, <2>10, <3>1, SweepType, SweepRegistryType, Frames
  <2>11. ASSUME NEW x \in Guardians, GuardianStep(x)
         PROVE  VaultTypeOK' /\ GasTypeOK' /\ OracleTypeOK' /\ RegistryTypeOK'
    <3>1. UNCHANGED chainVars /\ OracleTypeOK' /\ config' \in Config
      BY <2>1, <2>11, GuardianEffect
    <3>2. RegistryTypeOK'
      BY <2>1, <3>1 DEF chainVars, RegistryTypeOK, status, owner, terms
    <3> QED BY <2>1, <3>1, <3>2, Frames DEF chainVars
  <2>12. CASE UNCHANGED vars
    BY <2>1, <2>12, Frames DEF vars, chainVars, registryVars
  <2> QED BY <2>3, <2>4, <2>5, <2>6, <2>7, <2>8, <2>9, <2>10, <2>11, <2>12 DEF Next
<1> QED BY <1>1, <1>2, PTL DEF Spec

-----------------------------------------------------------------------------
(* Collateral stays earmarked. *)

\* A step that touches neither a commitment nor what is locked under it.
LEMMA EarmarkKept ==
  ASSUME NEW h \in Hashes, Earmarked(h), commitments'[h] = commitments[h],
         \A w \in Vaults, t \in Tokens : lockedBalance'[w][h][t] = lockedBalance[w][h][t]
  PROVE  Earmarked(h)'
<1>1. status(h)' = status(h) /\ terms(h)' = terms(h)
  BY DEF status, terms
<1>2. ASSUME NEW v \in Vaults, LockedAs(h, v)
      PROVE  LockedAs(h, v)'
  BY <1>1, <1>2 DEF LockedAs
<1> QED BY <1>1, <1>2 DEF Earmarked

\* A registration locks the size of a commitment under which nothing was locked.
LEMMA EarmarkNew ==
  ASSUME NEW h \in Hashes, Earmarked(h), status(h) # "PENDING", vault \in Vaults,
         NEW u, NEW ts \in Terms, ts.size > 0, commitments'[h] = Pending(u, ts),
         \A w \in Vaults, t \in Tokens :
           lockedBalance'[w][h][t] = IF w = vault /\ t = ts.tokenIn
                                     THEN lockedBalance[w][h][t] + ts.size
                                     ELSE lockedBalance[w][h][t]
  PROVE  Earmarked(h)'
<1>1. \A w \in Vaults, t \in Tokens : lockedBalance[w][h][t] = 0
  BY DEF Earmarked
<1>2. status(h)' = "PENDING" /\ terms(h)' = ts
  BY DEF Pending, status, terms
<1>3. ts.size \in Nat
  BY DEF Terms
<1>4. \A w \in Vaults, t \in Tokens :
        lockedBalance'[w][h][t] = IF w = vault /\ t = ts.tokenIn THEN ts.size ELSE 0
  BY <1>1, <1>3
<1>5. \E v \in Vaults : LockedAs(h, v)'
  BY <1>2, <1>4 DEF LockedAs
<1> QED BY <1>2, <1>5 DEF Earmarked

(***************************************************************************)
(* An exit takes the whole size out of the vault in use.  The vault's own  *)
(* check makes that vault the one the commitment is locked in, so nothing  *)
(* is left anywhere: this is where a size above zero is needed.            *)
(***************************************************************************)
LEMMA EarmarkGone ==
  ASSUME NEW h \in Hashes, Earmarked(h), status(h) = "PENDING", status(h)' # "PENDING",
         VaultTypeOK, vault \in Vaults,
         terms(h).tokenIn \in Tokens, terms(h).size \in Nat,
         lockedBalance[vault][h][terms(h).tokenIn] >= terms(h).size,
         \A w \in Vaults, t \in Tokens :
           lockedBalance'[w][h][t] = IF w = vault /\ t = terms(h).tokenIn
                                     THEN lockedBalance[w][h][t] - terms(h).size
                                     ELSE lockedBalance[w][h][t]
  PROVE  Earmarked(h)'
<1>1. PICK v \in Vaults : LockedAs(h, v)
  BY DEF Earmarked
<1>2. terms(h).size > 0
  BY DEF Earmarked
<1>3. vault = v
  BY <1>1, <1>2 DEF LockedAs
<1>4. \A w \in Vaults, t \in Tokens : lockedBalance'[w][h][t] = 0
  BY <1>1, <1>3 DEF LockedAs
<1> QED BY <1>4 DEF Earmarked

\* What one lock does to the locked balances, entry by entry.
LEMMA LockEntries ==
  ASSUME VaultTypeOK, NEW v \in Vaults, NEW h \in Hashes, NEW t \in Tokens, NEW a \in Nat,
         NEW u, LockCollateral(v, h, u, t, a)
  PROVE  \A w \in Vaults, k \in Hashes, s \in Tokens :
           lockedBalance'[w][k][s] = IF w = v /\ k = h /\ s = t
                                     THEN lockedBalance[w][k][s] + a
                                     ELSE lockedBalance[w][k][s]
BY DEF VaultTypeOK, LockCollateral

\* Execution and cancellation: one commitment leaves PENDING with its size.
LEMMA EarmarkExit ==
  ASSUME VaultTypeOK, RegistryTypeOK, CollateralEarmarked,
         NEW h \in Hashes, NEW n, NEW st \in Terminal,
         status(h) = "PENDING", MarkSpent(h, n, st),
         lockedBalance[vault][h][terms(h).tokenIn] >= terms(h).size,
         lockedBalance' = [lockedBalance EXCEPT ![vault][h][terms(h).tokenIn] =
                             @ - terms(h).size]
  PROVE  CollateralEarmarked'
<1>1. /\ vault \in Vaults
      /\ terms(h).tokenIn \in Tokens /\ terms(h).size \in Nat
  BY VaultInUse, PendingTyped
<1>2. \A w \in Vaults, k \in Hashes, s \in Tokens :
        lockedBalance'[w][k][s] = IF w = vault /\ k = h /\ s = terms(h).tokenIn
                                  THEN lockedBalance[w][k][s] - terms(h).size
                                  ELSE lockedBalance[w][k][s]
  BY <1>1 DEF VaultTypeOK
<1>3. SUFFICES ASSUME NEW k \in Hashes PROVE Earmarked(k)'
  BY DEF CollateralEarmarked
<1>4. Earmarked(k)
  BY DEF CollateralEarmarked
<1>5. CASE k = h
  <2>1. status(h)' # "PENDING"
    BY DEF MarkSpent, RegistryTypeOK, CommitmentRecord, status, Terminal
  <2> QED BY <1>1, <1>2, <1>4, <1>5, <2>1, EarmarkGone
<1>6. CASE k # h
  <2>1. commitments'[k] = commitments[k]
    BY <1>6 DEF MarkSpent, RegistryTypeOK
  <2> QED BY <1>2, <1>4, <1>6, <2>1, EarmarkKept
<1> QED BY <1>5, <1>6

(***************************************************************************)
(* A pending commitment always has exactly its size locked, in one vault,  *)
(* and any other commitment nothing, whatever the guardian reconfigures    *)
(* and in whatever order commitments are registered, filled, cancelled and *)
(* swept.  The invariant is inductive relative to type correctness.        *)
(***************************************************************************)
THEOREM EarmarkCorrect == Spec => []CollateralEarmarked
<1>1. Init => CollateralEarmarked
  BY DeploymentAssumption
  DEF Init, VaultInit, Unregistered, CollateralEarmarked, Earmarked, status
<1>2. TypeOK /\ CollateralEarmarked /\ [Next]_vars => CollateralEarmarked'
  <2> SUFFICES ASSUME TypeOK, CollateralEarmarked, [Next]_vars
               PROVE  CollateralEarmarked'
    OBVIOUS
  <2>1. VaultTypeOK /\ OracleTypeOK /\ RegistryTypeOK
    BY TypeParts
  <2>2. \A h \in Hashes : Earmarked(h)
    BY DEF CollateralEarmarked
  <2>3. CASE UNCHANGED <<lockedBalance, commitments>>
    BY <2>2, <2>3, EarmarkKept DEF CollateralEarmarked
  <2>4. CASE VaultStep
    BY <2>3, <2>4
    DEF VaultStep, registryVars, VaultDeposit, VaultWithdraw, SetVaultRegistry
  <2>5. CASE GasStep \/ OracleStep \/ Tick \/ UNCHANGED vars
    BY <2>3, <2>5 DEF GasStep, OracleStep, Tick, vars, chainVars, vaultVars, registryVars
  <2>6. ASSUME NEW x \in Guardians, GuardianStep(x)
        PROVE  CollateralEarmarked'
    BY <2>1, <2>3, <2>6, GuardianEffect DEF chainVars, vaultVars
  <2>7. ASSUME NEW u \in Users, RegisterStep(u)
        PROVE  CollateralEarmarked'
    <3>1. \A h \in Hashes : Offers[u][h] \subseteq Terms
      BY RegistryAssumption
    <3>2. ASSUME NEW h \in Hashes, NEW ts \in Terms, RegisterCommitment(u, h, ts)
          PROVE  CollateralEarmarked'
      <4>1. /\ vault \in Vaults /\ ts.tokenIn \in Tokens /\ ts.size \in Nat
            /\ LockCollateral(vault, h, u, ts.tokenIn, ts.size)
        BY <2>1, <3>2, VaultInUse DEF RegisterCommitment, Terms
      <4>2. \A w \in Vaults, k \in Hashes, s \in Tokens :
              lockedBalance'[w][k][s] = IF w = vault /\ k = h /\ s = ts.tokenIn
                                        THEN lockedBalance[w][k][s] + ts.size
                                        ELSE lockedBalance[w][k][s]
        BY <2>1, <4>1, LockEntries
      <4>3. /\ ts.size > 0 /\ status(h) # "PENDING" /\ commitments'[h] = Pending(u, ts)
            /\ \A k \in Hashes : k # h => commitments'[k] = commitments[k]
        BY <2>1, <3>2 DEF RegisterCommitment, Registrable, RegistryTypeOK
      <4>4. Earmarked(h)'
        BY <2>2, <4>1, <4>2, <4>3, EarmarkNew
      <4>5. \A k \in Hashes : k # h => Earmarked(k)'
        BY <2>2, <4>2, <4>3, EarmarkKept
      <4> QED BY <4>4, <4>5 DEF CollateralEarmarked
    <3>3. ASSUME NEW hs \in Batches, NEW offer \in [{hs[i] : i \in DOMAIN hs} -> Terms],
                 RegisterCommitmentBatch(u, hs, offer)
          PROVE  CollateralEarmarked'
      <4>1. vault \in Vaults
        BY <2>1, VaultInUse
      <4>2. \A w \in Vaults, h \in Hashes, t \in Tokens :
              lockedBalance'[w][h][t] =
                IF /\ w = vault
                   /\ \E i \in DOMAIN hs : hs[i] = h
                   /\ t = offer[h].tokenIn
                THEN lockedBalance[w][h][t] + offer[h].size
                ELSE lockedBalance[w][h][t]
        BY <2>1, <3>3, <4>1, BatchLocks
      <4>3. \A i \in DOMAIN hs : Registrable(hs[i], offer[hs[i]]) /\ offer[hs[i]] \in Terms
        BY <3>3, BatchSizes DEF RegisterCommitmentBatch
      <4>4. SUFFICES ASSUME NEW h \in Hashes PROVE Earmarked(h)'
        BY DEF CollateralEarmarked
      <4>5. commitments'[h] = IF \E i \in DOMAIN hs : hs[i] = h
                              THEN Pending(u, offer[h]) ELSE commitments[h]
        BY <3>3 DEF RegisterCommitmentBatch
      <4>6. CASE \E i \in DOMAIN hs : hs[i] = h
        <5>1. /\ offer[h] \in Terms /\ offer[h].size > 0 /\ status(h) # "PENDING"
              /\ commitments'[h] = Pending(u, offer[h])
          BY <4>3, <4>5, <4>6 DEF Registrable
        <5> QED BY <2>2, <4>1, <4>2, <4>6, <5>1, EarmarkNew
      <4>7. CASE ~ \E i \in DOMAIN hs : hs[i] = h
        BY <2>2, <4>2, <4>5, <4>7, EarmarkKept
      <4> QED BY <4>6, <4>7
    <3>4. ASSUME NEW hs \in Batches,
                 NEW offer \in [{hs[i] : i \in DOMAIN hs} -> UNION {Offers[u][h] : h \in Hashes}],
                 RegisterCommitmentBatch(u, hs, offer)
          PROVE  CollateralEarmarked'
      <4>1. offer \in [{hs[i] : i \in DOMAIN hs} -> Terms]
        BY <3>1
      <4> QED BY <3>3, <3>4, <4>1
    <3> QED BY <2>7, <3>1, <3>2, <3>4 DEF RegisterStep
  <2>8. ASSUME NEW x \in Accounts, ExecuteStep(x)
        PROVE  CollateralEarmarked'
    <3>1. PICK h \in Hashes, n \in Nullifiers, out \in AmountsOut, cost \in GasCosts,
               fillRef \in 0..MaxTime : ExecuteCommitment(x, h, n, fillRef, out, cost)
      BY <2>8 DEF ExecuteStep
    <3>2. /\ status(h) = "PENDING" /\ MarkSpent(h, n, "EXECUTED")
          /\ ReleaseAndSwap(vault, h, terms(h).tokenIn, terms(h).size,
                            owner(h), terms(h).tokenOut, out)
      BY <3>1 DEF ExecuteCommitment
    <3>3. "EXECUTED" \in Terminal
      BY DEF Terminal
    <3> QED BY <2>1, <3>2, <3>3, EarmarkExit DEF ReleaseAndSwap
  <2>9. ASSUME NEW u \in Users, CancelStep(u)
        PROVE  CollateralEarmarked'
    <3>1. PICK h \in Hashes, n \in Nullifiers : CancelCommitment(u, h, n)
      BY <2>9 DEF CancelStep
    <3>2. /\ status(h) = "PENDING" /\ MarkSpent(h, n, "CANCELLED")
          /\ ReturnCollateral(vault, h, u, terms(h).tokenIn, terms(h).size)
      BY <3>1 DEF CancelCommitment
    <3>3. "CANCELLED" \in Terminal
      BY DEF Terminal
    <3> QED BY <2>1, <3>2, <3>3, EarmarkExit DEF ReturnCollateral
  <2>10. ASSUME NEW H \in SUBSET Hashes, SweepExpired(H)
         PROVE  CollateralEarmarked'
    <3> DEFINE S == {h \in H : Expired(h)}
    <3>1. \A w \in Vaults, h \in Hashes, t \in Tokens :
            lockedBalance'[w][h][t] =
              IF w = vault /\ h \in H /\ Expired(h) /\ t = terms(h).tokenIn
              THEN lockedBalance[w][h][t] - terms(h).size
              ELSE lockedBalance[w][h][t]
      BY <2>1, <2>10, SweepType
    <3>2. /\ \A h \in S : lockedBalance[vault][h][terms(h).tokenIn] >= terms(h).size
          /\ commitments' = [h \in Hashes |->
               IF h \in S THEN [commitments[h] EXCEPT !.status = "EXPIRED"] ELSE commitments[h]]
      BY <2>10, Zenon DEF SweepExpired, ExpireAll
    <3>3. \A h : h \in S <=> h \in H /\ Expired(h)
      OBVIOUS
    <3> HIDE DEF S
    <3>4. SUFFICES ASSUME NEW h \in Hashes PROVE Earmarked(h)'
      BY DEF CollateralEarmarked
    <3>5. CASE h \in S
      <4>1. status(h) = "PENDING"
        BY <3>3, <3>5 DEF Expired
      <4>2. status(h)' # "PENDING"
        BY <2>1, <3>2, <3>5 DEF RegistryTypeOK, CommitmentRecord, status
      <4>3. terms(h).tokenIn \in Tokens /\ terms(h).size \in Nat /\ vault \in Vaults
        BY <2>1, <4>1, PendingTyped, VaultInUse
      <4>4. \A w \in Vaults, t \in Tokens :
              lockedBalance'[w][h][t] = IF w = vault /\ t = terms(h).tokenIn
                                        THEN lockedBalance[w][h][t] - terms(h).size
                                        ELSE lockedBalance[w][h][t]
        BY <3>1, <3>3, <3>5
      <4> QED BY <2>1, <2>2, <3>2, <3>5, <4>1, <4>2, <4>3, <4>4, EarmarkGone
    <3>6. CASE h \notin S
      <4>1. commitments'[h] = commitments[h]
        BY <3>2, <3>6
      <4>2. \A w \in Vaults, t \in Tokens : lockedBalance'[w][h][t] = lockedBalance[w][h][t]
        BY <3>1, <3>3, <3>6
      <4> QED BY <2>2, <4>1, <4>2, EarmarkKept
    <3> QED BY <3>5, <3>6
  <2> QED BY <2>4, <2>5, <2>6, <2>7, <2>8, <2>9, <2>10 DEF Next
<1> QED BY <1>1, <1>2, TypeCorrect, PTL DEF Spec

-----------------------------------------------------------------------------
(* Fills. *)

\* Only executeCommitment turns a commitment EXECUTED.
LEMMA OnlyExecution ==
  ASSUME TypeOK, [Next]_vars, NEW h \in Hashes, Executes(h)
  PROVE  \E x \in Accounts, n \in Nullifiers, out \in AmountsOut, cost \in GasCosts :
           \E fillRef \in 0..MaxTime : ExecuteCommitment(x, h, n, fillRef, out, cost)
<1> USE DEF Executes, status
<1>1. VaultTypeOK /\ OracleTypeOK /\ RegistryTypeOK
  BY TypeParts
<1>2. commitments \in [Hashes -> CommitmentRecord]
  BY <1>1 DEF RegistryTypeOK
<1>3. CASE VaultStep \/ GasStep \/ OracleStep \/ Tick \/ UNCHANGED vars
  BY <1>3 DEF VaultStep, GasStep, OracleStep, Tick, vars, chainVars, registryVars
<1>4. ASSUME NEW x \in Guardians, GuardianStep(x) PROVE FALSE
  BY <1>1, <1>4, GuardianEffect DEF chainVars
<1>5. ASSUME NEW u \in Users, RegisterStep(u) PROVE FALSE
  <2>1. ASSUME NEW k \in Hashes, NEW ts, RegisterCommitment(u, k, ts) PROVE FALSE
    BY <1>2, <2>1 DEF RegisterCommitment, Pending
  <2>2. ASSUME NEW hs, NEW offer, RegisterCommitmentBatch(u, hs, offer) PROVE FALSE
    <3>1. commitments'[h] = Pending(u, offer[h]) \/ commitments'[h] = commitments[h]
      BY <2>2 DEF RegisterCommitmentBatch
    <3> QED BY <3>1 DEF Pending
  <2> QED BY <1>5, <2>1, <2>2 DEF RegisterStep
<1>6. ASSUME NEW x \in Accounts, ExecuteStep(x)
      PROVE  \E n \in Nullifiers, out \in AmountsOut, cost \in GasCosts :
               \E fillRef \in 0..MaxTime : ExecuteCommitment(x, h, n, fillRef, out, cost)
  <2>1. PICK k \in Hashes, n \in Nullifiers, out \in AmountsOut, cost \in GasCosts,
             fillRef \in 0..MaxTime : ExecuteCommitment(x, k, n, fillRef, out, cost)
    BY <1>6 DEF ExecuteStep
  <2>2. k = h
    BY <1>2, <2>1 DEF ExecuteCommitment, MarkSpent
  <2> QED BY <2>1, <2>2
<1>7. ASSUME NEW u \in Users, CancelStep(u) PROVE FALSE
  <2>1. PICK k \in Hashes, n \in Nullifiers : CancelCommitment(u, k, n)
    BY <1>7 DEF CancelStep
  <2>2. commitments' = [commitments EXCEPT ![k].status = "CANCELLED"]
    BY <2>1 DEF CancelCommitment, MarkSpent
  <2> QED BY <1>2, <2>2 DEF CommitmentRecord
<1>8. ASSUME NEW H \in SUBSET Hashes, SweepExpired(H) PROVE FALSE
  <2> DEFINE S == {k \in H : Expired(k)}
  <2>1. commitments' = [k \in Hashes |->
          IF k \in S THEN [commitments[k] EXCEPT !.status = "EXPIRED"] ELSE commitments[k]]
    BY <1>8, Zenon DEF SweepExpired, ExpireAll
  <2> HIDE DEF S
  <2>2. CASE h \in S
    BY <1>2, <2>1, <2>2 DEF CommitmentRecord
  <2>3. CASE h \notin S
    BY <2>1, <2>3
  <2> QED BY <2>2, <2>3
<1> QED BY <1>3, <1>4, <1>5, <1>6, <1>7, <1>8 DEF Next

\* A spent nullifier stays spent.
LEMMA NullifiersGrow ==
  ASSUME TypeOK, [Next]_vars
  PROVE  nullifiers \subseteq nullifiers'
<1>1. OracleTypeOK /\ RegistryTypeOK
  BY TypeParts
<1>2. ASSUME NEW x \in Guardians, GuardianStep(x) PROVE nullifiers' = nullifiers
  BY <1>1, <1>2, GuardianEffect DEF chainVars
<1>3. CASE VaultStep \/ GasStep \/ OracleStep \/ Tick \/ UNCHANGED vars
  BY <1>3 DEF VaultStep, GasStep, OracleStep, Tick, vars, chainVars, registryVars
<1>4. ASSUME NEW u \in Users, RegisterStep(u) \/ CancelStep(u)
      PROVE  nullifiers \subseteq nullifiers'
  BY <1>4 DEF RegisterStep, RegisterCommitment, RegisterCommitmentBatch,
              CancelStep, CancelCommitment, MarkSpent
<1>5. ASSUME NEW x \in Accounts, ExecuteStep(x) PROVE nullifiers \subseteq nullifiers'
  BY <1>5 DEF ExecuteStep, ExecuteCommitment, MarkSpent
<1>6. ASSUME NEW H \in SUBSET Hashes, SweepExpired(H) PROVE nullifiers' = nullifiers
  BY <1>6, Zenon DEF SweepExpired, ExpireAll
<1> QED BY <1>2, <1>3, <1>4, <1>5, <1>6 DEF Next

(***************************************************************************)
(* No two commitments with the same secret and nonce are both executed.    *)
(***************************************************************************)
THEOREM OneFill == Spec => []OneFillPerNullifier
<1>1. Init => OneFillPerNullifier
  BY DEF Init, Unregistered, OneFillPerNullifier, status
<1>2. TypeOK /\ OneFillPerNullifier /\ [Next]_vars => OneFillPerNullifier'
  <2> SUFFICES ASSUME TypeOK, OneFillPerNullifier, [Next]_vars
               PROVE  OneFillPerNullifier'
    OBVIOUS
  <2>1. nullifiers \subseteq nullifiers'
    BY NullifiersGrow
  <2>2. ASSUME NEW h \in Hashes, Executes(h)
        PROVE  /\ Strategy[h].nullifier \in nullifiers'
               /\ Strategy[h].nullifier \notin nullifiers
               /\ \A k \in Hashes \ {h} : status(k)' = status(k)
    <3>1. PICK x \in Accounts, n \in Nullifiers, out \in AmountsOut, cost \in GasCosts :
            \E fillRef \in 0..MaxTime : ExecuteCommitment(x, h, n, fillRef, out, cost)
      BY <2>2, OnlyExecution
    <3>2. Strategy[h].nullifier = n /\ MarkSpent(h, n, "EXECUTED")
      BY <3>1 DEF ExecuteCommitment, Provable, NullifierMatches
    <3>3. commitments \in [Hashes -> CommitmentRecord]
      BY TypeParts DEF RegistryTypeOK
    <3> QED BY <3>2, <3>3 DEF MarkSpent, status
  <2>3. \A h \in Hashes : status(h)' = "EXECUTED" => status(h) = "EXECUTED" \/ Executes(h)
    BY DEF Executes
  <2>4. \A h \in Hashes : status(h)' = "EXECUTED" => Strategy[h].nullifier \in nullifiers'
    BY <2>1, <2>2, <2>3 DEF OneFillPerNullifier
  <2>5. ASSUME NEW h \in Hashes, NEW k \in Hashes, h # k,
               status(h)' = "EXECUTED", status(k)' = "EXECUTED"
        PROVE  Strategy[h].nullifier # Strategy[k].nullifier
    <3>1. CASE status(h) = "EXECUTED" /\ status(k) = "EXECUTED"
      BY <2>5, <3>1 DEF OneFillPerNullifier
    <3>2. CASE Executes(h)
      BY <2>2, <2>5, <3>2 DEF OneFillPerNullifier
    <3>3. CASE Executes(k)
      BY <2>2, <2>5, <3>3 DEF OneFillPerNullifier
    <3> QED BY <2>3, <2>5, <3>1, <3>2, <3>3
  <2> QED BY <2>4, <2>5 DEF OneFillPerNullifier
<1> QED BY <1>1, <1>2, TypeCorrect, PTL DEF Spec

(***************************************************************************)
(* Every fill is on the committed terms, before expiry, and when the       *)
(* private condition holds.                                                *)
(***************************************************************************)
THEOREM FillsCorrect == Spec => FillsOnTerms
<1>1. ASSUME TypeOK, [Next]_vars, NEW h \in Hashes, Executes(h)
      PROVE  FilledOnTerms(h)
  <2>1. PICK x \in Accounts, n \in Nullifiers, out \in AmountsOut, cost \in GasCosts,
             fillRef \in 0..MaxTime : ExecuteCommitment(x, h, n, fillRef, out, cost)
    BY <1>1, OnlyExecution
  <2>2. /\ now <= terms(h).expiry
        /\ Provable(h, terms(h), n, PublicRef(terms(h), fillRef))
        /\ FillRefAccepted(terms(h), fillRef)
    BY <2>1 DEF ExecuteCommitment
  <2>3. terms(h) = Strategy[h].terms
    BY <2>2 DEF Provable, CommitmentMatches
  <2>4. CASE terms(h).kind = "ORDER_FILL"
    BY <2>2, <2>3, <2>4 DEF FilledOnTerms, Provable, PublicRef
  <2>5. CASE terms(h).kind # "ORDER_FILL"
    <3>1. InWindow(h, fillRef) /\ fillRef <= now /\ now - fillRef <= FillRefMaxAge
      BY <2>2, <2>5 DEF Provable, PublicRef, FillRefAccepted
    <3>2. fillRef \in Nat /\ now \in Nat /\ FillRefMaxAge \in Nat
      BY <1>1, TypeParts, RegistryAssumption DEF RegistryTypeOK
    <3>3. Strategy[h].lo \in Nat /\ Strategy[h].hi \in Nat
      BY DeploymentAssumption DEF Preimages
    <3>4. Strategy[h].lo <= now /\ now <= Strategy[h].hi + FillRefMaxAge
      BY <3>1, <3>2, <3>3 DEF InWindow
    <3> QED BY <2>2, <2>3, <2>5, <3>4 DEF FilledOnTerms
  <2> QED BY <2>4, <2>5
<1>2. TypeOK /\ [Next]_vars => [\A h \in Hashes : Executes(h) => FilledOnTerms(h)]_vars
  BY <1>1
<1> QED BY <1>2, TypeCorrect, PTL DEF Spec, FillsOnTerms

(***************************************************************************)
(* Prepaid gas pays only for executions of the owner's own commitments.    *)
(***************************************************************************)
THEOREM GasCorrect == Spec => GasSpentOnOwnFills
<1> DEFINE Own(g, u) == /\ g = gasVault
                        /\ \E h \in Hashes : Executes(h) /\ owner(h) = u
                        /\ \A w \in Users \ {u} : gasBalance'[g][w] = gasBalance[g][w]
<1>1. ASSUME TypeOK, [Next]_vars, NEW g \in GasVaults, NEW u \in Users,
             gasBalance'[g][u] < gasBalance[g][u], commitments' # commitments
      PROVE  Own(g, u)
  <2>1. GasTypeOK /\ OracleTypeOK /\ RegistryTypeOK
    BY <1>1, TypeParts
  <2>2. gasBalance' # gasBalance
    BY <1>1, <2>1 DEF GasTypeOK
  <2>3. \E x \in Accounts : ExecuteStep(x)
    <3>1. ~ (VaultStep \/ GasStep \/ OracleStep \/ Tick \/ UNCHANGED vars)
      BY <1>1 DEF VaultStep, GasStep, OracleStep, Tick, vars, chainVars, registryVars
    <3>2. \A x \in Guardians : ~ GuardianStep(x)
      BY <1>1, <2>1, GuardianEffect DEF chainVars
    <3>3. \A y \in Users : ~ RegisterStep(y) /\ ~ CancelStep(y)
      BY <2>2 DEF RegisterStep, RegisterCommitment, RegisterCommitmentBatch,
                  CancelStep, CancelCommitment, gasVars
    <3>4. \A H \in SUBSET Hashes : ~ SweepExpired(H)
      BY <2>2, Zenon DEF SweepExpired, ExpireAll, gasVars
    <3> QED BY <1>1, <3>1, <3>2, <3>3, <3>4 DEF Next
  <2>4. PICK x \in Accounts, h \in Hashes, n \in Nullifiers, out \in AmountsOut,
             cost \in GasCosts, fillRef \in 0..MaxTime :
               ExecuteCommitment(x, h, n, fillRef, out, cost)
    BY <2>3 DEF ExecuteStep
  <2>5. Debit(gasVault, owner(h), cost)
    BY <2>2, <2>4 DEF ExecuteCommitment, DebitGas, gasVars
  <2>6. Executes(h)
    BY <2>1, <2>4 DEF ExecuteCommitment, MarkSpent, RegistryTypeOK, CommitmentRecord,
                      Executes, status
  <2>7. /\ g = gasVault /\ u = owner(h)
        /\ \A w \in Users \ {u} : gasBalance'[g][w] = gasBalance[g][w]
    BY <1>1, <2>1, <2>5 DEF Debit, GasPay, GasTypeOK
  <2> QED BY <2>6, <2>7
<1>2. TypeOK /\ [Next]_vars =>
        [\A g \in GasVaults, u \in Users :
           gasBalance'[g][u] < gasBalance[g][u] /\ commitments' # commitments => Own(g, u)]_vars
  BY <1>1
<1> QED BY <1>2, TypeCorrect, PTL DEF Spec, GasSpentOnOwnFills
=============================================================================
