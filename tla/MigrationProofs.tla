--------------------------- MODULE MigrationProofs ---------------------------
(***************************************************************************)
(* Proofs about the migration as users live it: what is locked, pending or *)
(* free in any of the vaults ever deployed, whatever the operator's        *)
(* scripts do meanwhile, and what the user's own script returns to him.    *)
(***************************************************************************)
EXTENDS MigrationWiring

\* The user's script ends with two balances read and withdrawn.
Finale == <<<<"read", "collateral">>, <<"withdraw", "collateral">>,
            <<"read", "gas">>, <<"withdraw", "gas">>>>

ToFinale(q) == \A i \in 1..Len(q) : IF Len(q) - i < 4 THEN q[i] = Finale[4 - (Len(q) - i)]
                                    ELSE q[i][1] \in {"sweep", "cancel"}

\* It deals with contracts that exist; while nobody else credits the user,
\* balances it has read can only fall, and what it has withdrawn is gone.
ReturnInv ==
  /\ ToFinale(returning.todo)
  /\ returning.todo # <<>> => /\ returning.registry \in DOMAIN registries
                              /\ returning.vault \in DOMAIN vaults
                              /\ returning.gasVault \in DOMAIN gasVaults
  /\ returning.alone =>
       /\ Len(returning.todo) = 3 => returning.read >= vaults[returning.vault].free
       /\ Len(returning.todo) \in {1, 2} => vaults[returning.vault].free = 0
       /\ Len(returning.todo) = 1 => returning.read >= gasVaults[returning.gasVault].balance

\* The inductive invariant.
IInv == TypeOK /\ WiringInv /\ PendingReachable /\ LocksBacked /\ ReturnInv

-----------------------------------------------------------------------------
(* What the operator's scripts leave alone: books, balances and locks. *)

ScriptKeeps ==
  /\ returning' = returning
  /\ \A r \in DOMAIN registries :
       /\ r \in DOMAIN registries' /\ registries'[r].vault = registries[r].vault
       /\ registries'[r].book = registries[r].book
  /\ \A r \in DOMAIN registries' :
       r \notin DOMAIN registries => \A h \in Hashes : registries'[r].book[h] = "NONE"
  /\ \A v \in DOMAIN vaults :
       /\ v \in DOMAIN vaults' /\ vaults'[v].free = vaults[v].free
       /\ vaults'[v].locked = vaults[v].locked
  /\ \A v \in DOMAIN vaults' :
       v \notin DOMAIN vaults => \A h \in Hashes : vaults'[v].locked[h] = 0
  /\ \A g \in DOMAIN gasVaults : /\ g \in DOMAIN gasVaults'
                                 /\ gasVaults'[g].balance = gasVaults[g].balance

\* The registries in which h is pending that use vault v.
Users(v, h) == {r \in DOMAIN registries : vaultOf(r) = v /\ h \in Pending(r)}

LEMMA UsersFinite ==
  ASSUME TypeOK, NEW v, NEW h
  PROVE  IsFiniteSet(Users(v, h)) /\ Cardinality(Users(v, h)) \in Nat
<1>1. Len(registries) \in Nat /\ DOMAIN registries = 1..Len(registries)
  BY LenProperties DEF TypeOK
<1>2. IsFiniteSet(1..Len(registries)) /\ Users(v, h) \in SUBSET (1..Len(registries))
  BY <1>1, FS_Interval DEF Users
<1> QED BY <1>2, FS_Subset, FS_CardinalityType

\* No one can have locked anything in a vault just deployed: no registry used it.
LEMMA LocksKept ==
  ASSUME TypeOK, VaultsExist, LocksBacked, ScriptKeeps
  PROVE  LocksBacked'
<1> SUFFICES ASSUME NEW v \in DOMAIN vaults', NEW h \in Hashes
             PROVE  vaults'[v].locked[h] = Cardinality(Users(v, h)')
  BY DEF LocksBacked, Users
<1>1. \A r \in DOMAIN registries' : h \in Pending(r)' =>
        r \in DOMAIN registries /\ h \in Pending(r)
  BY DEF ScriptKeeps, Pending
<1>2. \A r \in DOMAIN registries : /\ r \in DOMAIN registries' /\ vaultOf(r)' = vaultOf(r)
                                   /\ h \in Pending(r) => h \in Pending(r)'
  BY DEF ScriptKeeps, Pending, vaultOf
<1>3. Users(v, h)' = Users(v, h)
  BY <1>1, <1>2 DEF Users
<1>4. CASE v \in DOMAIN vaults
  BY <1>3, <1>4 DEF ScriptKeeps, LocksBacked, Users
<1>5. CASE v \notin DOMAIN vaults
  <2>1. Users(v, h) = {}
    BY <1>5 DEF Users, VaultsExist, vaultOf
  <2> QED BY <1>3, <1>5, <2>1, FS_EmptySet DEF ScriptKeeps
<1> QED BY <1>4, <1>5

LEMMA ObeysKept ==
  ASSUME \A r \in DOMAIN registries : r \in DOMAIN registries' /\ vaultOf(r)' = vaultOf(r),
         NEW r \in DOMAIN registries, vaultOf(r) \in DOMAIN vaults,
         vaults'[vaultOf(r)].registry = vaults[vaultOf(r)].registry,
         Obeys(vaults[vaultOf(r)], r, "vault")
  PROVE  Obeys(vaults[vaultOf(r)], r, "vault")'
BY DEF Obeys, vaultOf

\* While no vault is bound anew, pending commitments stay reachable.
LEMMA PendingKept ==
  ASSUME VaultsExist, PendingReachable, ScriptKeeps,
         \A v \in DOMAIN vaults : vaults'[v].registry = vaults[v].registry
  PROVE  PendingReachable'
<1> SUFFICES ASSUME NEW r \in DOMAIN registries', Pending(r)' # {}
             PROVE  Obeys(vaults[vaultOf(r)], r, "vault")'
  BY DEF PendingReachable
<1>1. /\ r \in DOMAIN registries /\ Pending(r) # {}
      /\ \A s \in DOMAIN registries : s \in DOMAIN registries' /\ vaultOf(s)' = vaultOf(s)
  BY DEF ScriptKeeps, Pending, vaultOf
<1>2. vaultOf(r) \in DOMAIN vaults /\ Obeys(vaults[vaultOf(r)], r, "vault")
  BY <1>1 DEF PendingReachable, VaultsExist, vaultOf
<1> QED BY <1>1, <1>2, ObeysKept

LEMMA ReturnKept ==
  ASSUME TypeOK, ReturnInv, ScriptKeeps
  PROVE  ReturnInv'
<1>1. returning' = returning
  BY DEF ScriptKeeps
<1>2. returning.todo \in Seq(UserSteps)
  BY DEF TypeOK
<1>3. returning.todo = <<>> => Len(returning.todo) = 0
  BY <1>2, EmptySeq
<1>4. ToFinale(returning.todo)'
  BY <1>1 DEF ReturnInv, ToFinale
<1>5. CASE returning.todo = <<>>
  BY <1>1, <1>3, <1>4, <1>5 DEF ReturnInv
<1>6. CASE returning.todo # <<>>
  BY <1>1, <1>4, <1>6 DEF ReturnInv, ScriptKeeps
<1> QED BY <1>5, <1>6

\* A bound vault obeys the newest registry, which uses it.
LEMMA PendingBound ==
  ASSUME TypeOK, WiringInv, PendingReachable, ScriptKeeps, BindVault
  PROVE  PendingReachable'
<1> SUFFICES ASSUME NEW r \in DOMAIN registries', Pending(r)' # {}
             PROVE  Obeys(vaults[vaultOf(r)], r, "vault")'
  BY DEF PendingReachable
<1>1. /\ r \in DOMAIN registries /\ Pending(r) # {}
      /\ \A s \in DOMAIN registries : s \in DOMAIN registries' /\ vaultOf(s)' = vaultOf(s)
  BY DEF ScriptKeeps, Pending, vaultOf
<1>2. /\ vaults' = [vaults EXCEPT ![draft.vault].registry = draft.registry]
      /\ registries' = registries /\ At("bind", "vault")
  BY DEF BindVault, VaultToBind
<1>3. <<"deploy", "registry">> \notin Ahead /\ script.todo # <<>> /\ <<"bind", "vault">> \in Ahead
  BY <1>2, RegistryDone, OrderCases
<1>4. /\ draft.registry \in DOMAIN registries /\ draft.registry = Len(registries)
      /\ registries[draft.registry].vault = draft.vault
  BY <1>3 DEF WiringInv, DraftExists, Todo, Configured
<1>5. DOMAIN registries = 1..Len(registries) /\ Len(registries) \in Nat
  BY LenProperties DEF TypeOK
<1>6. \A v \in DOMAIN vaults : vaults'[v].registry = IF v = draft.vault THEN draft.registry
                                                     ELSE vaults[v].registry
  <2>1. \A v \in DOMAIN vaults : vaults[v] \in VaultRecord
    BY LenProperties, ElementOfSeq DEF TypeOK
  <2> QED BY <1>2, <2>1 DEF VaultRecord
<1>7. vaultOf(r) \in DOMAIN vaults
  BY <1>1 DEF WiringInv, VaultsExist, vaultOf
<1>8. Obeys(vaults[vaultOf(r)], r, "vault")
  BY <1>1 DEF PendingReachable
<1>9. CASE vaultOf(r) # draft.vault
  BY <1>1, <1>6, <1>7, <1>8, <1>9, ObeysKept
<1>10. CASE vaultOf(r) = draft.vault
  <2>1. draft.registry >= r
    BY <1>1, <1>4, <1>5
  <2>2. vaults'[vaultOf(r)].registry = draft.registry
    BY <1>6, <1>7, <1>10
  <2>3. registries[draft.registry].vault = registries[r].vault
    BY <1>4, <1>10 DEF vaultOf
  <2> QED BY <2>1, <2>2, <2>3, <1>1, <1>2, <1>4 DEF Obeys, vaultOf
<1> QED BY <1>9, <1>10

\* Reconfiguring a registry leaves its book and its vault alone.
LEMMA ConfigureKeeps ==
  ASSUME TypeOK, NEW e, Configure(e), e.vault = Configured.vault, e.book = Configured.book
  PROVE  ScriptKeeps /\ UNCHANGED vaults
<1>1. /\ registries' = [registries EXCEPT ![draft.registry] = e]
      /\ UNCHANGED <<vaults, gasVaults, returning>>
  BY DEF Configure, Go
<1>2. \A r \in DOMAIN registries :
        /\ r \in DOMAIN registries' /\ registries'[r].vault = registries[r].vault
        /\ registries'[r].book = registries[r].book
  BY <1>1 DEF Configured
<1>3. DOMAIN registries' = DOMAIN registries
  BY <1>1
<1> QED BY <1>1, <1>2, <1>3 DEF ScriptKeeps

LEMMA ScriptStepKeeps ==
  ASSUME TypeOK, WiringInv, ScriptSteps
  PROVE  ScriptKeeps /\ (UNCHANGED vaults \/ BindVault \/ DeployVault)
<1>1. CASE DeployVault
  <2> DEFINE new == [registry |-> 0, free |-> 0, locked |-> [h \in Hashes |-> 0]]
  <2>1. vaults' = Append(vaults, new) /\ UNCHANGED <<registries, gasVaults, returning>>
    BY <1>1 DEF DeployVault, Go
  <2>2. \A h \in Hashes : new.locked[h] = 0
    OBVIOUS
  <2> HIDE DEF new
  <2>3. /\ DOMAIN vaults = 1..Len(vaults) /\ Len(vaults) \in Nat
        /\ DOMAIN vaults' = 1..(Len(vaults) + 1)
        /\ \A v \in DOMAIN vaults : vaults'[v] = vaults[v]
        /\ vaults'[Len(vaults) + 1] = new
    BY <2>1, LenProperties DEF TypeOK
  <2>4. \A v \in DOMAIN vaults' : v \notin DOMAIN vaults => vaults'[v] = new
    BY <2>3
  <2> QED BY <1>1, <2>1, <2>2, <2>3, <2>4 DEF ScriptKeeps
<1>2. CASE DeployGasVault
  <2>1. /\ gasVaults' = Append(gasVaults, [registry |-> 0, balance |-> 0])
        /\ UNCHANGED <<registries, vaults, returning>>
    BY <1>2 DEF DeployGasVault, Go
  <2>2. \A g \in DOMAIN gasVaults : g \in DOMAIN gasVaults' /\ gasVaults'[g] = gasVaults[g]
    BY <2>1, LenProperties DEF TypeOK
  <2> QED BY <2>1, <2>2 DEF ScriptKeeps
<1>3. CASE DeployRegistry
  <2> DEFINE new == [vault |-> draft.vault, gasVault |-> draft.gasVault,
                     adapter |-> draft.adapter, verifiers |-> [k \in Kinds |-> 0],
                     feeds |-> NoFile, book |-> [h \in Hashes |-> "NONE"]]
  <2>1. registries' = Append(registries, new) /\ UNCHANGED <<vaults, gasVaults, returning>>
    BY <1>3 DEF DeployRegistry, Go
  <2>2. \A h \in Hashes : new.book[h] = "NONE"
    OBVIOUS
  <2> HIDE DEF new
  <2>3. /\ DOMAIN registries = 1..Len(registries) /\ Len(registries) \in Nat
        /\ DOMAIN registries' = 1..(Len(registries) + 1)
        /\ \A r \in DOMAIN registries : registries'[r] = registries[r]
        /\ registries'[Len(registries) + 1] = new
    BY <2>1, LenProperties DEF TypeOK
  <2>4. \A r \in DOMAIN registries' : r \notin DOMAIN registries => registries'[r] = new
    BY <2>3
  <2> QED BY <2>1, <2>2, <2>3, <2>4 DEF ScriptKeeps
<1>4. ASSUME NEW x \in DOMAIN made, DeployOther(x) PROVE ScriptKeeps /\ UNCHANGED vaults
  BY <1>4 DEF DeployOther, Go, chainVars, ScriptKeeps
<1>5. CASE BindVault
  <2>1. /\ vaults' = [vaults EXCEPT ![draft.vault].registry = draft.registry]
        /\ UNCHANGED <<registries, gasVaults, returning>>
    BY <1>5 DEF BindVault, VaultToBind, Go
  <2>2. \A v \in DOMAIN vaults : vaults[v] \in VaultRecord
    BY LenProperties, ElementOfSeq DEF TypeOK
  <2>3. /\ DOMAIN vaults' = DOMAIN vaults
        /\ \A v \in DOMAIN vaults : /\ vaults'[v].free = vaults[v].free
                                    /\ vaults'[v].locked = vaults[v].locked
    BY <2>1, <2>2 DEF VaultRecord
  <2> QED BY <1>5, <2>1, <2>3 DEF ScriptKeeps
<1>6. CASE BindGasVault
  <2>1. /\ gasVaults' = [gasVaults EXCEPT ![draft.gasVault].registry = draft.registry]
        /\ UNCHANGED <<registries, vaults, returning>>
    BY <1>6 DEF BindGasVault, Go
  <2>2. \A g \in DOMAIN gasVaults : gasVaults[g] \in GasVaultRecord
    BY LenProperties, ElementOfSeq DEF TypeOK
  <2>3. \A g \in DOMAIN gasVaults : /\ g \in DOMAIN gasVaults'
                                    /\ gasVaults'[g].balance = gasVaults[g].balance
    BY <2>1, <2>2 DEF GasVaultRecord
  <2> QED BY <2>1, <2>3 DEF ScriptKeeps
<1>7. ASSUME NEW k \in Kinds, SetVerifier(k) PROVE ScriptKeeps /\ UNCHANGED vaults
  <2>1. PICK m : \/ /\ At("set", k)
                    /\ Configure([Configured EXCEPT !.verifiers[k] = m])
                 \/ /\ At("mock", k)
                    /\ Configure([Configured EXCEPT !.verifiers[k] = m])
    BY <1>7 DEF SetVerifier
  <2>2. Configured \in RegistryRecord
    BY <2>1, RegistryDone, OrderCases, ConfiguredTyped
  <2> QED BY <2>1, <2>2, ConfigureKeeps DEF RegistryRecord
<1>8. CASE SetFeeds
  <2>1. At("set", "feeds") /\ Configure([Configured EXCEPT !.feeds = script.feeds])
    BY <1>8 DEF SetFeeds
  <2>2. Configured \in RegistryRecord
    BY <2>1, RegistryDone, OrderCases, ConfiguredTyped
  <2> QED BY <2>1, <2>2, ConfigureKeeps DEF RegistryRecord
<1>9. CASE SetAdapter
  <2>1. At("set", "adapter") /\ Configure([Configured EXCEPT !.adapter = draft.adapter])
    BY <1>9 DEF SetAdapter
  <2>2. Configured \in RegistryRecord
    BY <2>1, RegistryDone, OrderCases, ConfiguredTyped
  <2> QED BY <2>1, <2>2, ConfigureKeeps DEF RegistryRecord
<1>10. CASE Write \/ EndEarly
  BY <1>10 DEF Write, EndEarly, chainVars, ScriptKeeps
<1> QED BY <1>1, <1>2, <1>3, <1>4, <1>5, <1>6, <1>7, <1>8, <1>9, <1>10 DEF ScriptSteps

\* Every step of every script of the operator keeps the invariant.
LEMMA OperatorSteps ==
  ASSUME IInv, Launches \/ ScriptSteps
  PROVE  IInv'
<1>1. TypeOK /\ WiringInv /\ VaultsExist /\ PendingReachable /\ LocksBacked /\ ReturnInv
  BY DEF IInv, WiringInv
<1>2. TypeOK' /\ WiringInv'
  BY <1>1, LaunchesWell, ScriptStepsWell
<1>3. CASE Launches
  <2>1. UNCHANGED <<registries, vaults, gasVaults, returning>>
    BY <1>1, <1>3, LaunchesWell
  <2>2. ScriptKeeps
    BY <2>1 DEF ScriptKeeps
  <2> QED BY <1>1, <1>2, <2>1, <2>2, LocksKept, PendingKept, ReturnKept DEF IInv
<1>4. CASE ScriptSteps
  <2>1. ScriptKeeps /\ (UNCHANGED vaults \/ BindVault \/ DeployVault)
    BY <1>1, <1>4, ScriptStepKeeps
  <2>2. LocksBacked' /\ ReturnInv'
    BY <1>1, <2>1, LocksKept, ReturnKept
  <2>3. CASE BindVault
    BY <1>1, <1>2, <2>1, <2>2, <2>3, PendingBound DEF IInv
  <2>4. CASE UNCHANGED vaults
    BY <1>1, <1>2, <2>1, <2>2, <2>4, PendingKept DEF IInv
  <2>5. CASE DeployVault
    <3>1. \A v \in DOMAIN vaults : vaults'[v].registry = vaults[v].registry
      BY <1>1, <2>5, VaultDeployed DEF WiringKept
    <3> QED BY <1>1, <1>2, <2>1, <2>2, <3>1, PendingKept DEF IInv
  <2> QED BY <2>1, <2>3, <2>4, <2>5
<1> QED BY <1>3, <1>4

-----------------------------------------------------------------------------
(* What users leave alone: the wiring. *)

UsersKeep ==
  /\ UNCHANGED operatorVars
  /\ Len(registries') = Len(registries) /\ DOMAIN registries' = DOMAIN registries
  /\ DOMAIN vaults' = DOMAIN vaults /\ DOMAIN gasVaults' = DOMAIN gasVaults
  /\ \A r \in DOMAIN registries :
       /\ registries'[r].vault = registries[r].vault
       /\ registries'[r].gasVault = registries[r].gasVault
       /\ registries'[r].adapter = registries[r].adapter
       /\ registries'[r].verifiers = registries[r].verifiers
       /\ registries'[r].feeds = registries[r].feeds
  /\ \A v \in DOMAIN vaults : vaults'[v].registry = vaults[v].registry
  /\ \A g \in DOMAIN gasVaults : gasVaults'[g].registry = gasVaults[g].registry

LEMMA WiringUntouched ==
  ASSUME TypeOK, TypeOK', WiringInv, UsersKeep
  PROVE  WiringInv'
<1>1. /\ script' = script /\ artifact' = artifact /\ made' = made
      /\ draft' = draft /\ Ahead' = Ahead
      /\ \A v, n : Todo(v, n)' <=> Todo(v, n)
  BY DEF UsersKeep, operatorVars, draft, Ahead, Todo
<1>2. \A x \in Kinds \cup {"adapter"} : made[x] \in Int
  BY MadeTyped
<1>3. WiringKept
  BY <1>1, <1>2 DEF WiringKept, UsersKeep
<1>4. ArtifactExists' /\ ArtifactTrue'
  BY <1>1, <1>3, ArtifactKept
<1>5. PlanSound'
  BY <1>1 DEF WiringInv, PlanSound
<1>6. VaultsExist'
  BY DEF WiringInv, VaultsExist, UsersKeep
<1>7. OnlyNewer'
  BY <1>1 DEF WiringInv, OnlyNewer
<1>8. DraftExists' /\ DraftTrue'
  <2>1. CASE script.todo = <<>>
    BY <1>1, <2>1 DEF DraftExists, DraftTrue
  <2>2. CASE script.todo # <<>> /\ Todo("deploy", "registry")
    <3>1. Todo("set", "feeds")
      BY <2>2 DEF WiringInv, PlanSound, Complete, Todo, DeployRegistryStep
    <3>2. /\ Known(draft) /\ script.feeds # NoFile
          /\ Todo("deploy", "vault") \/ draft.vault \in DOMAIN vaults
          /\ Todo("deploy", "gasVault") \/ draft.gasVault \in DOMAIN gasVaults
          /\ \A k \in Kinds : Todo("mock", k) => Todo("deploy", "mock") \/ draft.mock < 0
      BY <2>2, <3>1 DEF WiringInv, DraftExists, DraftTrue
    <3>3. Known(draft)'
      BY <3>2, <1>1 DEF Known
    <3> QED BY <1>1, <1>5, <2>2, <3>2, <3>3, RegistryAhead DEF UsersKeep
  <2>3. CASE script.todo # <<>> /\ ~Todo("deploy", "registry")
    <3>1. ~Todo("deploy", "vault") /\ ~Todo("deploy", "gasVault")
      BY <2>3 DEF WiringInv, PlanSound, Complete, Todo, DeployRegistryStep
    <3>2. /\ draft.vault \in DOMAIN vaults /\ draft.gasVault \in DOMAIN gasVaults
          /\ draft.registry \in DOMAIN registries
          /\ Configured.vault = draft.vault /\ Configured.gasVault = draft.gasVault
          /\ Todo("bind", "vault") \/ Todo("bind", "gasVault") =>
               draft.registry = Len(registries)
      BY <2>3, <3>1 DEF WiringInv, DraftExists
    <3>3. /\ Configured'.vault = Configured.vault /\ Configured'.gasVault = Configured.gasVault
          /\ Configured'.feeds = Configured.feeds
      BY <1>1, <3>2 DEF Configured, UsersKeep
    <3>4. DraftExists'
      BY <1>1, <3>2, <3>3 DEF DraftExists, UsersKeep
    <3>5. PICK d \in Deployment : d = draft
      BY DraftTyped
    <3>6. /\ Known(d) => Known(d)'
          /\ AdapterTrue(d) => AdapterTrue(d)'
          /\ \A k \in Kinds : VerifierTrue(d, k) => VerifierTrue(d, k)'
          /\ VaultObeys(d) => VaultObeys(d)'
          /\ GasVaultObeys(d) => GasVaultObeys(d)'
      BY <1>3, <3>2, <3>5, ClaimsKept
    <3>7. draft' = d
      BY <1>1, <3>5
    <3>8. /\ Known(draft) => Known(draft)'
          /\ AdapterTrue(draft) => AdapterTrue(draft)'
          /\ \A k \in Kinds : VerifierTrue(draft, k) => VerifierTrue(draft, k)'
          /\ VaultObeys(draft) => VaultObeys(draft)'
          /\ GasVaultObeys(draft) => GasVaultObeys(draft)'
      BY <3>5, <3>6, <3>7 DEF Known, AdapterTrue, VerifierTrue, VaultObeys, GasVaultObeys
    <3>9. DraftTrue
      BY DEF WiringInv
    <3>10. DraftTrue'
      BY <1>1, <2>3, <3>3, <3>8, <3>9 DEF DraftTrue
    <3> QED BY <3>4, <3>10
  <2> QED BY <2>1, <2>2, <2>3
<1> QED BY <1>4, <1>5, <1>6, <1>7, <1>8 DEF WiringInv

LEMMA PendingUntouched ==
  ASSUME TypeOK, VaultsExist, PendingReachable, UsersKeep,
         \A r \in DOMAIN registries : Pending(r)' # {} => Pending(r) # {} \/ Bound(r)
  PROVE  PendingReachable'
<1> SUFFICES ASSUME NEW r \in DOMAIN registries', Pending(r)' # {}
             PROVE  Obeys(vaults[vaultOf(r)], r, "vault")'
  BY DEF PendingReachable
<1>1. /\ r \in DOMAIN registries /\ (Pending(r) # {} \/ Bound(r))
      /\ \A s \in DOMAIN registries : s \in DOMAIN registries' /\ vaultOf(s)' = vaultOf(s)
  BY DEF UsersKeep, vaultOf
<1>2. vaultOf(r) \in DOMAIN vaults /\ vaults'[vaultOf(r)].registry = vaults[vaultOf(r)].registry
  BY <1>1 DEF VaultsExist, vaultOf, UsersKeep
<1>3. Obeys(vaults[vaultOf(r)], r, "vault")
  <2>1. r >= r
    BY <1>1, LenProperties DEF TypeOK
  <2> QED BY <2>1, <1>1 DEF PendingReachable, Bound, Obeys
<1> QED BY <1>1, <1>2, <1>3, ObeysKept

\* A registry's book and the locks of its vault move together.
BookMoved(r) ==
  /\ \A s \in DOMAIN registries : s # r => registries'[s].book = registries[s].book
  /\ \A v \in DOMAIN vaults, h \in Hashes :
       v # vaultOf(r) => vaults'[v].locked[h] = vaults[v].locked[h]
  /\ \A h \in Hashes :
       \/ /\ h \notin Pending(r) /\ h \in Pending(r)'
          /\ vaults'[vaultOf(r)].locked[h] = vaults[vaultOf(r)].locked[h] + 1
       \/ /\ h \in Pending(r) /\ h \notin Pending(r)'
          /\ vaults'[vaultOf(r)].locked[h] = vaults[vaultOf(r)].locked[h] - 1
       \/ /\ h \in Pending(r)' <=> h \in Pending(r)
          /\ vaults'[vaultOf(r)].locked[h] = vaults[vaultOf(r)].locked[h]

LEMMA LocksMoved ==
  ASSUME TypeOK, UsersKeep, LocksBacked, NEW r \in DOMAIN registries, BookMoved(r)
  PROVE  LocksBacked'
<1> SUFFICES ASSUME NEW v \in DOMAIN vaults, NEW h \in Hashes
             PROVE  vaults'[v].locked[h] = Cardinality(Users(v, h)')
  BY DEF LocksBacked, Users, UsersKeep
<1> DEFINE U == Users(v, h)
<1>0. vaults[v].locked[h] = Cardinality(U)
  BY DEF LocksBacked, Users
<1>1. IsFiniteSet(U) /\ Cardinality(U) \in Nat /\ vaults[v].locked[h] = Cardinality(U)
  BY <1>0, UsersFinite
<1>2. \A s \in DOMAIN registries : /\ vaultOf(s)' = vaultOf(s)
                                   /\ s # r => (h \in Pending(s)' <=> h \in Pending(s))
  BY DEF UsersKeep, BookMoved, vaultOf, Pending
<1>3. DOMAIN registries' = DOMAIN registries
  BY DEF UsersKeep
<1>4. CASE v # vaultOf(r) \/ (h \in Pending(r)' <=> h \in Pending(r))
  <2>1. Users(v, h)' = U
    BY <1>2, <1>3, <1>4 DEF Users
  <2>2. vaults'[v].locked[h] = vaults[v].locked[h]
    BY <1>4 DEF BookMoved
  <2> QED BY <1>1, <2>1, <2>2
<1>5. CASE v = vaultOf(r) /\ h \notin Pending(r) /\ h \in Pending(r)'
  <2>1. Users(v, h)' = U \cup {r} /\ r \notin U
    BY <1>2, <1>3, <1>5 DEF Users
  <2>2. vaults'[v].locked[h] = vaults[v].locked[h] + 1
    BY <1>5 DEF BookMoved
  <2>3. Cardinality(U \cup {r}) = Cardinality(U) + 1
    BY <1>1, <2>1, FS_AddElement
  <2> QED BY <1>1, <2>1, <2>2, <2>3
<1>6. CASE v = vaultOf(r) /\ h \in Pending(r) /\ h \notin Pending(r)'
  <2>1. Users(v, h)' = U \ {r} /\ r \in U
    BY <1>2, <1>3, <1>6 DEF Users
  <2>2. vaults'[v].locked[h] = vaults[v].locked[h] - 1
    BY <1>6 DEF BookMoved
  <2>3. Cardinality(U \ {r}) = Cardinality(U) - 1
    BY <1>1, <2>1, FS_RemoveElement
  <2> QED BY <1>1, <2>1, <2>2, <2>3
<1> QED BY <1>4, <1>5, <1>6

\* Steps that move no lock.
LEMMA LocksUntouched ==
  ASSUME LocksBacked, UsersKeep, registries' = registries,
         \A v \in DOMAIN vaults : vaults'[v].locked = vaults[v].locked
  PROVE  LocksBacked' /\ \A r : Pending(r)' = Pending(r)
BY DEF LocksBacked, UsersKeep, vaultOf, Pending

-----------------------------------------------------------------------------
(* What the contracts write. *)

LEMMA Records ==
  ASSUME TypeOK
  PROVE  /\ registries \in Seq(RegistryRecord) /\ DOMAIN registries = 1..Len(registries)
         /\ \A r \in DOMAIN registries : registries[r] \in RegistryRecord
         /\ vaults \in Seq(VaultRecord) /\ DOMAIN vaults = 1..Len(vaults)
         /\ \A v \in DOMAIN vaults : vaults[v] \in VaultRecord
         /\ gasVaults \in Seq(GasVaultRecord) /\ DOMAIN gasVaults = 1..Len(gasVaults)
         /\ \A g \in DOMAIN gasVaults : gasVaults[g] \in GasVaultRecord
<1>1. /\ registries \in Seq(RegistryRecord) /\ vaults \in Seq(VaultRecord)
      /\ gasVaults \in Seq(GasVaultRecord)
  BY DEF TypeOK
<1> QED BY <1>1, LenProperties, ElementOfSeq

LEMMA BookWritten ==
  ASSUME TypeOK, NEW r \in DOMAIN registries, NEW b \in [Hashes -> Status],
         registries' = [registries EXCEPT ![r].book = b]
  PROVE  /\ registries' \in Seq(RegistryRecord) /\ Len(registries') = Len(registries)
         /\ DOMAIN registries' = DOMAIN registries
         /\ \A s \in DOMAIN registries :
              /\ registries'[s].vault = registries[s].vault
              /\ registries'[s].gasVault = registries[s].gasVault
              /\ registries'[s].adapter = registries[s].adapter
              /\ registries'[s].verifiers = registries[s].verifiers
              /\ registries'[s].feeds = registries[s].feeds
              /\ registries'[s].book = IF s = r THEN b ELSE registries[s].book
<1> DEFINE e == [registries[r] EXCEPT !.book = b]
<1>1. registries[r] \in RegistryRecord
  BY Records
<1>2. /\ e \in RegistryRecord /\ e.vault = registries[r].vault
      /\ e.gasVault = registries[r].gasVault /\ e.adapter = registries[r].adapter
      /\ e.verifiers = registries[r].verifiers /\ e.feeds = registries[r].feeds
      /\ e.book = b
  BY <1>1 DEF RegistryRecord
<1>3. registries' = [registries EXCEPT ![r] = e]
  OBVIOUS
<1> HIDE DEF e
<1>4. registries' \in Seq(RegistryRecord) /\ Len(registries') = Len(registries)
  <2>1. registries \in Seq(RegistryRecord) /\ r \in 1..Len(registries)
    BY Records
  <2> QED BY <1>2, <1>3, <2>1, ExceptSeq
<1> QED BY <1>2, <1>3, <1>4

LEMMA VaultWritten ==
  ASSUME TypeOK, NEW v \in DOMAIN vaults, NEW e \in VaultRecord,
         e.registry = vaults[v].registry, vaults' = [vaults EXCEPT ![v] = e]
  PROVE  /\ vaults' \in Seq(VaultRecord) /\ DOMAIN vaults' = DOMAIN vaults
         /\ \A w \in DOMAIN vaults : /\ vaults'[w].registry = vaults[w].registry
                                     /\ vaults'[w] = IF w = v THEN e ELSE vaults[w]
<1>1. vaults \in Seq(VaultRecord) /\ v \in 1..Len(vaults)
  BY Records
<1>2. vaults' \in Seq(VaultRecord) /\ Len(vaults') = Len(vaults)
  BY <1>1, ExceptSeq
<1> QED BY <1>2

LEMMA GasVaultWritten ==
  ASSUME TypeOK, NEW g \in DOMAIN gasVaults, NEW b \in 0..MaxFree,
         gasVaults' = [gasVaults EXCEPT ![g].balance = b]
  PROVE  /\ gasVaults' \in Seq(GasVaultRecord) /\ DOMAIN gasVaults' = DOMAIN gasVaults
         /\ \A w \in DOMAIN gasVaults :
              /\ gasVaults'[w].registry = gasVaults[w].registry
              /\ gasVaults'[w].balance = IF w = g THEN b ELSE gasVaults[w].balance
<1> DEFINE e == [gasVaults[g] EXCEPT !.balance = b]
<1>1. gasVaults[g] \in GasVaultRecord
  BY Records
<1>2. e \in GasVaultRecord /\ e.registry = gasVaults[g].registry /\ e.balance = b
  BY <1>1 DEF GasVaultRecord
<1>3. gasVaults' = [gasVaults EXCEPT ![g] = e]
  OBVIOUS
<1> HIDE DEF e
<1>4. gasVaults' \in Seq(GasVaultRecord) /\ Len(gasVaults') = Len(gasVaults)
  <2>1. gasVaults \in Seq(GasVaultRecord) /\ g \in 1..Len(gasVaults)
    BY Records
  <2> QED BY <1>2, <1>3, <2>1, ExceptSeq
<1> QED BY <1>2, <1>3, <1>4

\* Free balances and prepaid gas only fall.
BalancesFall ==
  /\ \A v \in DOMAIN vaults : vaults'[v].free <= vaults[v].free
  /\ \A g \in DOMAIN gasVaults : gasVaults'[g].balance <= gasVaults[g].balance

LEMMA Registered ==
  ASSUME TypeOK, VaultsExist, NEW r \in DOMAIN registries, NEW h \in Hashes, Register(r, h)
  PROVE  /\ TypeOK' /\ UsersKeep /\ BookMoved(r) /\ BalancesFall /\ Bound(r)
         /\ \A s \in DOMAIN registries : s # r => Pending(s)' = Pending(s)
         /\ returning' = returning
<1> DEFINE v == vaultOf(r)
           b == [registries[r].book EXCEPT ![h] = "PENDING"]
           l == [vaults[v].locked EXCEPT ![h] = @ + 1]
           e == [vaults[v] EXCEPT !.free = @ - 1, !.locked = l]
<1>1. /\ registries[r].book[h] = "NONE" /\ Bound(r) /\ vaults[v].free >= 1
      /\ registries' = [registries EXCEPT ![r].book = b]
      /\ vaults' = [vaults EXCEPT ![v].free = @ - 1, ![v].locked = LockedMore(@, h)]
      /\ UNCHANGED <<gasVaults, made, artifact, script, returning>>
  BY DEF Register, operatorVars
<1>2. v \in DOMAIN vaults
  BY DEF VaultsExist, vaultOf
<1>3. registries[r] \in RegistryRecord /\ vaults[v] \in VaultRecord
  BY <1>2, Records
<1>4. /\ b \in [Hashes -> Status] /\ b[h] = "PENDING"
      /\ \A i \in Hashes : i # h => b[i] = registries[r].book[i]
  BY <1>3 DEF RegistryRecord, Status
<1>5. /\ vaults[v].free - 1 \in 0..MaxFree /\ l \in [Hashes -> Nat]
      /\ \A i \in Hashes : l[i] = IF i = h THEN vaults[v].locked[i] + 1 ELSE vaults[v].locked[i]
  BY <1>1, <1>3, MigrationAssumption DEF VaultRecord
<1>6. /\ vaults' = [vaults EXCEPT ![v] = e] /\ e \in VaultRecord
      /\ e.registry = vaults[v].registry /\ e.free = vaults[v].free - 1 /\ e.locked = l
  <2>1. vaults' = [vaults EXCEPT ![v] = e]
    BY <1>1, <1>2, <1>3 DEF LockedMore, VaultRecord
  <2> HIDE DEF l
  <2>2. /\ e \in VaultRecord
        /\ e.registry = vaults[v].registry /\ e.free = vaults[v].free - 1 /\ e.locked = l
    BY <1>3, <1>5 DEF VaultRecord
  <2> QED BY <2>1, <2>2
<1> HIDE DEF b, l, e
<1>7. /\ registries' \in Seq(RegistryRecord) /\ Len(registries') = Len(registries)
      /\ DOMAIN registries' = DOMAIN registries
      /\ \A s \in DOMAIN registries :
           /\ registries'[s].vault = registries[s].vault
           /\ registries'[s].gasVault = registries[s].gasVault
           /\ registries'[s].adapter = registries[s].adapter
           /\ registries'[s].verifiers = registries[s].verifiers
           /\ registries'[s].feeds = registries[s].feeds
           /\ registries'[s].book = IF s = r THEN b ELSE registries[s].book
  BY <1>1, <1>4, BookWritten
<1> HIDE DEF v
<1>8. /\ vaults' \in Seq(VaultRecord) /\ DOMAIN vaults' = DOMAIN vaults
      /\ \A w \in DOMAIN vaults :
           /\ vaults'[w].registry = vaults[w].registry
           /\ vaults'[w] = IF w = v THEN e ELSE vaults[w]
  BY <1>2, <1>6, VaultWritten
<1>9. TypeOK'
  BY <1>1, <1>7, <1>8 DEF TypeOK
<1>10. UsersKeep
  BY <1>1, <1>7, <1>8 DEF UsersKeep, operatorVars
<1>11. BookMoved(r)
  <2>1. \A i \in Hashes : /\ i \in Pending(r) <=> registries[r].book[i] = "PENDING"
                          /\ i \in Pending(r)' <=> b[i] = "PENDING"
    BY <1>7 DEF Pending
  <2>2. \A i \in Hashes : \/ i = h /\ i \notin Pending(r) /\ i \in Pending(r)'
                          \/ i # h /\ (i \in Pending(r)' <=> i \in Pending(r))
    BY <1>1, <1>4, <2>1
  <2>3. \A i \in Hashes : vaults'[v].locked[i] = IF i = h THEN vaults[v].locked[i] + 1
                                                 ELSE vaults[v].locked[i]
    BY <1>2, <1>5, <1>6, <1>8
  <2> QED BY <1>6, <1>7, <1>8, <2>2, <2>3 DEF BookMoved, v
<1>12. BalancesFall
  <2>1. \A w \in DOMAIN vaults : vaults[w].free \in Int
    BY Records DEF VaultRecord
  <2>2. \A g \in DOMAIN gasVaults : gasVaults[g].balance \in Int
    BY Records DEF GasVaultRecord
  <2> QED BY <1>1, <1>2, <1>6, <1>8, <2>1, <2>2 DEF BalancesFall
<1>13. \A s \in DOMAIN registries : s # r => Pending(s)' = Pending(s)
  BY <1>7 DEF Pending
<1> QED BY <1>1, <1>9, <1>10, <1>11, <1>12, <1>13

LEMMA Executed ==
  ASSUME TypeOK, VaultsExist, NEW r \in DOMAIN registries, NEW h \in Hashes,
         NEW byKeeper \in BOOLEAN, Execute(r, h, byKeeper)
  PROVE  /\ TypeOK' /\ UsersKeep /\ BookMoved(r) /\ BalancesFall
         /\ \A s \in DOMAIN registries : Pending(s)' \subseteq Pending(s)
         /\ returning' = returning
<1> DEFINE v == vaultOf(r)
           g == registries[r].gasVault
           b == [registries[r].book EXCEPT ![h] = "DONE"]
           l == [vaults[v].locked EXCEPT ![h] = @ - 1]
           e == [vaults[v] EXCEPT !.locked = l]
<1>1. /\ h \in Pending(r) /\ vaults[v].locked[h] >= 1
      /\ registries' = [registries EXCEPT ![r].book = b]
      /\ vaults' = [vaults EXCEPT ![v].locked[h] = @ - 1]
      /\ UNCHANGED <<made, artifact, script, returning>>
      /\ \/ UNCHANGED gasVaults
         \/ /\ gasVaults[g].balance >= 1
            /\ gasVaults' = [gasVaults EXCEPT ![g].balance = gasVaults[g].balance - 1]
  BY DEF Execute, operatorVars
<1>2. v \in DOMAIN vaults /\ g \in DOMAIN gasVaults
  BY DEF VaultsExist, vaultOf
<1>3. /\ registries[r] \in RegistryRecord /\ vaults[v] \in VaultRecord
      /\ gasVaults[g] \in GasVaultRecord
  BY <1>2, Records
<1>4. /\ b \in [Hashes -> Status] /\ b[h] = "DONE"
      /\ \A i \in Hashes : i # h => b[i] = registries[r].book[i]
  BY <1>3 DEF RegistryRecord, Status
<1>5. /\ vaults[v].free \in 0..MaxFree /\ l \in [Hashes -> Nat]
      /\ \A i \in Hashes : l[i] = IF i = h THEN vaults[v].locked[i] - 1 ELSE vaults[v].locked[i]
  BY <1>1, <1>3, MigrationAssumption DEF VaultRecord
<1>6. /\ vaults' = [vaults EXCEPT ![v] = e] /\ e \in VaultRecord
      /\ e.registry = vaults[v].registry /\ e.free = vaults[v].free /\ e.locked = l
  <2>1. vaults' = [vaults EXCEPT ![v] = e]
    BY <1>1
  <2> HIDE DEF l
  <2>2. /\ e \in VaultRecord
        /\ e.registry = vaults[v].registry /\ e.free = vaults[v].free /\ e.locked = l
    BY <1>3, <1>5 DEF VaultRecord
  <2> QED BY <2>1, <2>2
<1> HIDE DEF b, l, e
<1>7. /\ registries' \in Seq(RegistryRecord) /\ Len(registries') = Len(registries)
      /\ DOMAIN registries' = DOMAIN registries
      /\ \A s \in DOMAIN registries :
           /\ registries'[s].vault = registries[s].vault
           /\ registries'[s].gasVault = registries[s].gasVault
           /\ registries'[s].adapter = registries[s].adapter
           /\ registries'[s].verifiers = registries[s].verifiers
           /\ registries'[s].feeds = registries[s].feeds
           /\ registries'[s].book = IF s = r THEN b ELSE registries[s].book
  BY <1>1, <1>4, BookWritten
<1> HIDE DEF v
<1>8. /\ vaults' \in Seq(VaultRecord) /\ DOMAIN vaults' = DOMAIN vaults
      /\ \A w \in DOMAIN vaults :
           /\ vaults'[w].registry = vaults[w].registry
           /\ vaults'[w] = IF w = v THEN e ELSE vaults[w]
  BY <1>2, <1>6, VaultWritten
<1> HIDE DEF g
<1>9. /\ gasVaults' \in Seq(GasVaultRecord) /\ DOMAIN gasVaults' = DOMAIN gasVaults
      /\ \A w \in DOMAIN gasVaults :
           /\ gasVaults'[w].registry = gasVaults[w].registry
           /\ gasVaults'[w].balance <= gasVaults[w].balance
  <2>1. \A w \in DOMAIN gasVaults : gasVaults[w].balance \in 0..MaxFree
    BY Records DEF GasVaultRecord
  <2>2. CASE UNCHANGED gasVaults
    BY <2>1, <2>2, Records, MigrationAssumption
  <2>3. CASE /\ gasVaults[g].balance >= 1
             /\ gasVaults' = [gasVaults EXCEPT ![g].balance = gasVaults[g].balance - 1]
    <3>1. gasVaults[g].balance - 1 \in 0..MaxFree
      BY <1>2, <2>1, <2>3, MigrationAssumption
    <3>2. /\ gasVaults' \in Seq(GasVaultRecord) /\ DOMAIN gasVaults' = DOMAIN gasVaults
          /\ \A w \in DOMAIN gasVaults :
               /\ gasVaults'[w].registry = gasVaults[w].registry
               /\ gasVaults'[w].balance = IF w = g THEN gasVaults[g].balance - 1
                                          ELSE gasVaults[w].balance
      BY <1>2, <2>3, <3>1, GasVaultWritten
    <3> QED BY <2>1, <3>2, MigrationAssumption
  <2> QED BY <1>1, <2>2, <2>3
<1>10. TypeOK'
  BY <1>1, <1>7, <1>8, <1>9 DEF TypeOK
<1>11. UsersKeep
  BY <1>1, <1>7, <1>8, <1>9 DEF UsersKeep, operatorVars
<1>12. BookMoved(r)
  <2>1. \A i \in Hashes : /\ i \in Pending(r) <=> registries[r].book[i] = "PENDING"
                          /\ i \in Pending(r)' <=> b[i] = "PENDING"
    BY <1>7 DEF Pending
  <2>2. \A i \in Hashes : \/ i = h /\ i \in Pending(r) /\ i \notin Pending(r)'
                          \/ i # h /\ (i \in Pending(r)' <=> i \in Pending(r))
    BY <1>1, <1>4, <2>1
  <2>3. \A i \in Hashes : vaults'[v].locked[i] = IF i = h THEN vaults[v].locked[i] - 1
                                                 ELSE vaults[v].locked[i]
    BY <1>2, <1>5, <1>6, <1>8
  <2> QED BY <1>6, <1>7, <1>8, <2>2, <2>3 DEF BookMoved, v
<1>13. BalancesFall
  <2>1. \A w \in DOMAIN vaults : vaults[w].free \in Int
    BY Records DEF VaultRecord
  <2> QED BY <1>6, <1>8, <1>9, <2>1 DEF BalancesFall
<1>14. \A s \in DOMAIN registries : Pending(s)' \subseteq Pending(s)
  BY <1>4, <1>7 DEF Pending
<1> QED BY <1>1, <1>10, <1>11, <1>12, <1>13, <1>14

\* What the user's script may be in the middle of.
Runs == [todo : Seq(UserSteps), registry : Number, vault : Number, gasVault : Number,
         read : 0..MaxFree, alone : BOOLEAN]

LEMMA Released ==
  ASSUME TypeOK, VaultsExist, NEW r \in DOMAIN registries, NEW S \in SUBSET Hashes,
         S \subseteq Pending(r), Release(r, S), UNCHANGED <<gasVaults, operatorVars>>,
         returning' \in Runs
  PROVE  /\ TypeOK' /\ UsersKeep /\ BookMoved(r)
         /\ \A s \in DOMAIN registries : Pending(s)' \subseteq Pending(s)
<1> DEFINE v == vaultOf(r)
           b == [h \in Hashes |-> IF h \in S THEN "DONE" ELSE registries[r].book[h]]
           l == [h \in Hashes |-> IF h \in S THEN vaults[v].locked[h] - 1
                                  ELSE vaults[v].locked[h]]
           e == [vaults[v] EXCEPT !.free = @ + Cardinality(S), !.locked = l]
<1>1. /\ \A h \in S : h \in Pending(r) /\ vaults[v].locked[h] >= 1
      /\ vaults[v].free + Cardinality(S) <= MaxFree
      /\ registries' = [registries EXCEPT ![r].book = b]
      /\ vaults' = [vaults EXCEPT ![v].free = @ + Cardinality(S),
                      ![v].locked = [h \in Hashes |-> IF h \in S THEN @[h] - 1 ELSE @[h]]]
      /\ UNCHANGED <<gasVaults, made, artifact, script>>
  BY DEF Release, operatorVars
<1>2. v \in DOMAIN vaults
  BY DEF VaultsExist, vaultOf
<1>3. /\ registries[r] \in RegistryRecord /\ vaults[v] \in VaultRecord
  BY <1>2, Records
<1>4. /\ b \in [Hashes -> Status]
      /\ \A i \in Hashes : b[i] = IF i \in S THEN "DONE" ELSE registries[r].book[i]
  BY <1>3 DEF RegistryRecord, Status
<1>5. /\ l \in [Hashes -> Nat]
      /\ \A i \in Hashes : l[i] = IF i \in S THEN vaults[v].locked[i] - 1
                                  ELSE vaults[v].locked[i]
  BY <1>1, <1>3 DEF VaultRecord
<1>6. vaults[v].free + Cardinality(S) \in 0..MaxFree
  <2>1. Cardinality(S) \in Nat
    BY MigrationAssumption, FS_Subset, FS_CardinalityType
  <2> QED BY <1>1, <1>3, <2>1, MigrationAssumption DEF VaultRecord
<1>7. /\ vaults' = [vaults EXCEPT ![v] = e] /\ e \in VaultRecord
      /\ e.registry = vaults[v].registry /\ e.locked = l
  <2>1. vaults' = [vaults EXCEPT ![v] = e]
    BY <1>1, <1>2, <1>3 DEF VaultRecord
  <2> HIDE DEF l
  <2>2. /\ e \in VaultRecord /\ e.registry = vaults[v].registry /\ e.locked = l
    BY <1>3, <1>5, <1>6 DEF VaultRecord
  <2> QED BY <2>1, <2>2
<1> HIDE DEF b, l, e
<1>8. /\ registries' \in Seq(RegistryRecord) /\ Len(registries') = Len(registries)
      /\ DOMAIN registries' = DOMAIN registries
      /\ \A s \in DOMAIN registries :
           /\ registries'[s].vault = registries[s].vault
           /\ registries'[s].gasVault = registries[s].gasVault
           /\ registries'[s].adapter = registries[s].adapter
           /\ registries'[s].verifiers = registries[s].verifiers
           /\ registries'[s].feeds = registries[s].feeds
           /\ registries'[s].book = IF s = r THEN b ELSE registries[s].book
  BY <1>1, <1>4, BookWritten
<1> HIDE DEF v
<1>9. /\ vaults' \in Seq(VaultRecord) /\ DOMAIN vaults' = DOMAIN vaults
      /\ \A w \in DOMAIN vaults :
           /\ vaults'[w].registry = vaults[w].registry
           /\ vaults'[w] = IF w = v THEN e ELSE vaults[w]
  BY <1>2, <1>7, VaultWritten
<1>10. TypeOK'
  BY <1>1, <1>8, <1>9 DEF TypeOK, Runs
<1>11. UsersKeep
  BY <1>1, <1>8, <1>9 DEF UsersKeep, operatorVars
<1>12. BookMoved(r)
  <2>1. \A i \in Hashes : /\ i \in Pending(r) <=> registries[r].book[i] = "PENDING"
                          /\ i \in Pending(r)' <=> b[i] = "PENDING"
    BY <1>8 DEF Pending
  <2>2. \A i \in Hashes : \/ i \in S /\ i \in Pending(r) /\ i \notin Pending(r)'
                          \/ i \notin S /\ (i \in Pending(r)' <=> i \in Pending(r))
    BY <1>1, <1>4, <2>1
  <2>3. \A i \in Hashes : vaults'[v].locked[i] = IF i \in S THEN vaults[v].locked[i] - 1
                                                 ELSE vaults[v].locked[i]
    BY <1>2, <1>5, <1>7, <1>9
  <2> QED BY <1>7, <1>8, <1>9, <2>2, <2>3 DEF BookMoved, v
<1>13. \A s \in DOMAIN registries : Pending(s)' \subseteq Pending(s)
  BY <1>4, <1>8 DEF Pending
<1> QED BY <1>10, <1>11, <1>12, <1>13

-----------------------------------------------------------------------------
(* Trading. *)

\* Once somebody else credits the user, his script promises nothing.
LEMMA NotAlone ==
  ASSUME TypeOK, ReturnInv, Credited, UsersKeep
  PROVE  ReturnInv' /\ returning' \in Runs
<1>1. returning \in Runs /\ returning' = [returning EXCEPT !.alone = FALSE]
  BY DEF TypeOK, Credited, Runs
<1>2. /\ returning' \in Runs /\ returning'.alone = FALSE
      /\ returning'.todo = returning.todo /\ returning'.registry = returning.registry
      /\ returning'.vault = returning.vault /\ returning'.gasVault = returning.gasVault
  BY <1>1 DEF Runs
<1>3. ToFinale(returning.todo)'
  <2> DEFINE q == returning.todo
  <2>1. ToFinale(q) /\ returning'.todo = q
    BY <1>2 DEF ReturnInv
  <2> HIDE DEF q
  <2>2. PICK t : t = q
    OBVIOUS
  <2>3. ToFinale(t) /\ returning'.todo = t
    BY <2>1, <2>2
  <2> QED BY <2>3 DEF ToFinale
<1>4. returning.todo # <<>> => /\ returning.registry \in DOMAIN registries
                              /\ returning.vault \in DOMAIN vaults
                              /\ returning.gasVault \in DOMAIN gasVaults
  BY DEF ReturnInv
<1> QED BY <1>2, <1>3, <1>4 DEF ReturnInv, UsersKeep

\* Balances that only fall do not outgrow what the script has read.
LEMMA StillAlone ==
  ASSUME TypeOK, TypeOK', ReturnInv, UsersKeep, BalancesFall, returning' = returning
  PROVE  ReturnInv'
<1>1. ToFinale(returning.todo)' /\ returning \in Runs
  BY DEF ReturnInv, ToFinale, TypeOK, Runs
<1>2. returning.todo = <<>> => Len(returning.todo) = 0
  BY <1>1, EmptySeq DEF Runs
<1>3. CASE returning.todo = <<>>
  BY <1>1, <1>2, <1>3 DEF ReturnInv
<1>4. CASE returning.todo # <<>>
  <2>1. /\ returning.registry \in DOMAIN registries /\ returning.vault \in DOMAIN vaults
        /\ returning.gasVault \in DOMAIN gasVaults
    BY <1>4 DEF ReturnInv
  <2>2. /\ vaults[returning.vault].free \in 0..MaxFree
        /\ vaults'[returning.vault].free \in 0..MaxFree
        /\ gasVaults[returning.gasVault].balance \in 0..MaxFree
        /\ gasVaults'[returning.gasVault].balance \in 0..MaxFree
        /\ returning.read \in 0..MaxFree
    <3>1. /\ \A v \in DOMAIN vaults : vaults[v] \in VaultRecord
          /\ \A g \in DOMAIN gasVaults : gasVaults[g] \in GasVaultRecord
      BY Records
    <3>2. /\ \A v \in DOMAIN vaults' : vaults'[v] \in VaultRecord
          /\ \A g \in DOMAIN gasVaults' : gasVaults'[g] \in GasVaultRecord
      <4>1. vaults' \in Seq(VaultRecord) /\ gasVaults' \in Seq(GasVaultRecord)
        BY DEF TypeOK
      <4> QED BY <4>1, LenProperties, ElementOfSeq
    <3> QED BY <1>1, <2>1, <3>1, <3>2 DEF UsersKeep, VaultRecord, GasVaultRecord, Runs
  <2>3. /\ vaults'[returning.vault].free <= vaults[returning.vault].free
        /\ gasVaults'[returning.gasVault].balance <= gasVaults[returning.gasVault].balance
    BY <2>1 DEF BalancesFall
  <2> QED BY <1>1, <2>1, <2>2, <2>3, MigrationAssumption DEF ReturnInv, UsersKeep
<1> QED BY <1>3, <1>4

LEMMA Deposited ==
  ASSUME TypeOK, NEW v \in DOMAIN vaults, NEW f \in 0..MaxFree,
         vaults' = [vaults EXCEPT ![v].free = f],
         UNCHANGED <<registries, gasVaults, operatorVars>>, returning' \in Runs
  PROVE  /\ TypeOK' /\ UsersKeep
         /\ \A w \in DOMAIN vaults : /\ vaults'[w].locked = vaults[w].locked
                                     /\ vaults'[w].free = IF w = v THEN f ELSE vaults[w].free
<1> DEFINE e == [vaults[v] EXCEPT !.free = f]
<1>1. vaults[v] \in VaultRecord
  BY Records
<1>2. /\ e \in VaultRecord /\ e.registry = vaults[v].registry /\ e.locked = vaults[v].locked
      /\ e.free = f
  BY <1>1 DEF VaultRecord
<1>3. vaults' = [vaults EXCEPT ![v] = e]
  OBVIOUS
<1> HIDE DEF e
<1>4. /\ vaults' \in Seq(VaultRecord) /\ DOMAIN vaults' = DOMAIN vaults
      /\ \A w \in DOMAIN vaults : /\ vaults'[w].registry = vaults[w].registry
                                  /\ vaults'[w] = IF w = v THEN e ELSE vaults[w]
  BY <1>2, <1>3, VaultWritten
<1>5. TypeOK'
  BY <1>4 DEF TypeOK, Runs, operatorVars
<1>6. UsersKeep
  BY <1>4 DEF UsersKeep, operatorVars
<1> QED BY <1>2, <1>4, <1>5, <1>6

LEMMA GasDeposited ==
  ASSUME TypeOK, NEW g \in DOMAIN gasVaults, NEW b \in 0..MaxFree,
         gasVaults' = [gasVaults EXCEPT ![g].balance = b],
         UNCHANGED <<registries, vaults, operatorVars>>, returning' \in Runs
  PROVE  TypeOK' /\ UsersKeep
<1>1. /\ gasVaults' \in Seq(GasVaultRecord) /\ DOMAIN gasVaults' = DOMAIN gasVaults
      /\ \A w \in DOMAIN gasVaults : gasVaults'[w].registry = gasVaults[w].registry
  BY GasVaultWritten
<1> QED BY <1>1 DEF TypeOK, Runs, UsersKeep, operatorVars

LEMMA CreditedTyped == ASSUME TypeOK, Credited PROVE returning' \in Runs
BY DEF TypeOK, Credited, Runs

LEMMA TradingSteps ==
  ASSUME IInv, Trading
  PROVE  IInv'
<1>1. TypeOK /\ WiringInv /\ VaultsExist /\ PendingReachable /\ LocksBacked /\ ReturnInv
  BY DEF IInv, WiringInv
<1>2. ASSUME NEW v \in DOMAIN vaults, Deposit(v) PROVE IInv'
  <2>1. /\ vaults[v].free < MaxFree /\ vaults' = [vaults EXCEPT ![v].free = vaults[v].free + 1]
        /\ Credited /\ UNCHANGED <<registries, gasVaults, operatorVars>>
    BY <1>2 DEF Deposit
  <2>2. vaults[v].free + 1 \in 0..MaxFree
    BY <1>1, <2>1, Records, MigrationAssumption DEF VaultRecord
  <2>3. /\ TypeOK' /\ UsersKeep
        /\ \A w \in DOMAIN vaults : vaults'[w].locked = vaults[w].locked
    BY <1>1, <2>1, <2>2, CreditedTyped, Deposited
  <2>4. LocksBacked' /\ \A r : Pending(r)' = Pending(r)
    BY <1>1, <2>1, <2>3, LocksUntouched
  <2> QED BY <1>1, <2>1, <2>3, <2>4, WiringUntouched, PendingUntouched, NotAlone DEF IInv
<1>3. ASSUME NEW g \in DOMAIN gasVaults, DepositGas(g) PROVE IInv'
  <2>1. /\ gasVaults[g].balance < MaxFree
        /\ gasVaults' = [gasVaults EXCEPT ![g].balance = gasVaults[g].balance + 1]
        /\ Credited /\ UNCHANGED <<registries, vaults, operatorVars>>
    BY <1>3 DEF DepositGas
  <2>2. gasVaults[g].balance + 1 \in 0..MaxFree
    BY <1>1, <2>1, Records, MigrationAssumption DEF GasVaultRecord
  <2>3. TypeOK' /\ UsersKeep
    BY <1>1, <2>1, <2>2, CreditedTyped, GasDeposited
  <2>4. LocksBacked' /\ \A r : Pending(r)' = Pending(r)
    BY <1>1, <2>1, <2>3, LocksUntouched
  <2> QED BY <1>1, <2>1, <2>3, <2>4, WiringUntouched, PendingUntouched, NotAlone DEF IInv
<1>4. ASSUME NEW r \in DOMAIN registries, NEW h \in Hashes, Register(r, h) PROVE IInv'
  <2>1. /\ TypeOK' /\ UsersKeep /\ BookMoved(r) /\ BalancesFall /\ Bound(r)
        /\ \A s \in DOMAIN registries : s # r => Pending(s)' = Pending(s)
        /\ returning' = returning
    BY <1>1, <1>4, Registered
  <2> QED BY <1>1, <2>1, LocksMoved, WiringUntouched, PendingUntouched, StillAlone DEF IInv
<1>5. ASSUME NEW r \in DOMAIN registries, NEW h \in Hashes, NEW b \in BOOLEAN,
             Execute(r, h, b)
      PROVE  IInv'
  <2>1. /\ TypeOK' /\ UsersKeep /\ BookMoved(r) /\ BalancesFall
        /\ \A s \in DOMAIN registries : Pending(s)' \subseteq Pending(s)
        /\ returning' = returning
    BY <1>1, <1>5, Executed
  <2>2. PendingReachable'
    BY <1>1, <2>1, PendingUntouched
  <2> QED BY <1>1, <2>1, <2>2, LocksMoved, WiringUntouched, StillAlone DEF IInv
<1>6. ASSUME NEW r \in DOMAIN registries, NEW S \in SUBSET Hashes, S \subseteq Pending(r),
             Release(r, S), Credited, UNCHANGED <<gasVaults, operatorVars>>
      PROVE  IInv'
  <2>1. returning' \in Runs
    BY <1>1, <1>6, CreditedTyped
  <2>2. /\ TypeOK' /\ UsersKeep /\ BookMoved(r)
        /\ \A s \in DOMAIN registries : Pending(s)' \subseteq Pending(s)
    BY <1>1, <1>6, <2>1, Released
  <2>3. PendingReachable'
    BY <1>1, <2>2, PendingUntouched
  <2> QED BY <1>1, <1>6, <2>2, <2>3, LocksMoved, WiringUntouched, NotAlone DEF IInv
<1>7. ASSUME NEW r \in DOMAIN registries, NEW h \in Hashes, Cancel(r, h) PROVE IInv'
  <2>1. /\ h \in Pending(r) /\ Release(r, {h}) /\ Credited
        /\ UNCHANGED <<gasVaults, operatorVars>>
    BY <1>7 DEF Cancel
  <2>2. {h} \in SUBSET Hashes /\ {h} \subseteq Pending(r)
    BY <2>1
  <2> QED BY <1>6, <2>1, <2>2
<1>8. ASSUME NEW r \in DOMAIN registries, NEW S \in SUBSET Hashes, SweepExpired(r, S)
      PROVE  IInv'
  BY <1>6, <1>8 DEF SweepExpired
<1> QED BY <1>2, <1>3, <1>4, <1>5, <1>7, <1>8 DEF Trading

-----------------------------------------------------------------------------
(* The user's script. *)

LEMMA FinaleAt ==
  ASSUME NEW q \in Seq(UserSteps), ToFinale(q), q # <<>>
  PROVE  /\ Head(q) = <<"withdraw", "gas">> => Len(q) = 1
         /\ Head(q) = <<"read", "gas">> => Len(q) = 2
         /\ Head(q) = <<"withdraw", "collateral">> => Len(q) = 3
         /\ Head(q) = <<"read", "collateral">> => Len(q) = 4
         /\ Head(q)[1] \in {"sweep", "cancel"} => Len(q) > 4
<1>1. Len(q) \in Nat /\ Len(q) > 0 /\ Head(q) = q[1]
  BY EmptySeq, LenProperties
<1>2. IF Len(q) - 1 < 4 THEN q[1] = Finale[4 - (Len(q) - 1)]
      ELSE q[1][1] \in {"sweep", "cancel"}
  BY <1>1 DEF ToFinale
<1>3. /\ Finale[1] = <<"read", "collateral">> /\ Finale[2] = <<"withdraw", "collateral">>
      /\ Finale[3] = <<"read", "gas">> /\ Finale[4] = <<"withdraw", "gas">>
  BY DEF Finale
<1>4. \/ Len(q) = 1 /\ q[1] = <<"withdraw", "gas">>
      \/ Len(q) = 2 /\ q[1] = <<"read", "gas">>
      \/ Len(q) = 3 /\ q[1] = <<"withdraw", "collateral">>
      \/ Len(q) = 4 /\ q[1] = <<"read", "collateral">>
      \/ Len(q) > 4 /\ q[1][1] \in {"sweep", "cancel"}
  <2>1. CASE Len(q) - 1 < 4
    <3>1. PICK n \in Nat : n = Len(q)
      BY <1>1
    <3>2. n = 1 \/ n = 2 \/ n = 3 \/ n = 4
      BY <1>1, <2>1, <3>1
    <3>3. q[1] = Finale[4 - (n - 1)]
      BY <1>2, <2>1, <3>1
    <3>4. /\ n = 1 => 4 - (n - 1) = 4
          /\ n = 2 => 4 - (n - 1) = 3
          /\ n = 3 => 4 - (n - 1) = 2
          /\ n = 4 => 4 - (n - 1) = 1
      OBVIOUS
    <3> HIDE DEF Finale
    <3> QED BY <1>3, <3>1, <3>2, <3>3, <3>4
  <2>2. CASE ~(Len(q) - 1 < 4)
    BY <1>1, <1>2, <2>2
  <2> QED BY <2>1, <2>2
<1> QED BY <1>1, <1>4

LEMMA FinaleAhead ==
  ASSUME NEW q \in Seq(UserSteps), ToFinale(q), q # <<>>
  PROVE  Tail(q) \in Seq(UserSteps) /\ ToFinale(Tail(q)) /\ Len(Tail(q)) = Len(q) - 1
<1> DEFINE t == Tail(q)
<1>1. /\ t \in Seq(UserSteps) /\ Len(t) = Len(q) - 1 /\ Len(q) \in Nat
      /\ \A i \in 1..Len(t) : t[i] = q[i + 1]
  BY HeadTailProperties, LenProperties
<1> HIDE DEF t
<1>2. ASSUME NEW i \in 1..Len(t)
      PROVE  IF Len(t) - i < 4 THEN t[i] = Finale[4 - (Len(t) - i)]
             ELSE t[i][1] \in {"sweep", "cancel"}
  <2>1. i + 1 \in 1..Len(q) /\ Len(q) - (i + 1) = Len(t) - i
    BY <1>1
  <2>2. IF Len(q) - (i + 1) < 4 THEN q[i + 1] = Finale[4 - (Len(q) - (i + 1))]
        ELSE q[i + 1][1] \in {"sweep", "cancel"}
    BY <2>1 DEF ToFinale
  <2> QED BY <1>1, <2>1, <2>2
<1>3. ToFinale(t)
  BY <1>2 DEF ToFinale
<1> QED BY <1>1, <1>3 DEF t

\* The cancellations of the script's plan, in the order SetToSeq lists them.
Cancels(C) == [i \in 1..Cardinality(C) |-> <<"cancel", SetToSeq(C)[i]>>]

LEMMA CancelsTyped ==
  ASSUME NEW C \in SUBSET Hashes
  PROVE  /\ Cancels(C) \in Seq(UserSteps)
         /\ \A i \in 1..Len(Cancels(C)) : Cancels(C)[i][1] = "cancel"
<1> DEFINE n == Cardinality(C)
           f == SetToSeq(C)
<1>1. n \in Nat /\ ExistsBijection(1..n, C)
  BY MigrationAssumption, FS_Subset, FS_CardinalityType
<1>2. \E g \in [1..n -> C] : IsInjective(g)
  BY <1>1 DEF ExistsBijection, Bijection, Injection
<1>3. f \in [1..n -> C]
  BY <1>2 DEF SetToSeq
<1> HIDE DEF n, f
<1>4. Cancels(C) = [i \in 1..n |-> <<"cancel", f[i]>>]
  BY DEF Cancels, n, f
<1>5. \A i \in 1..n : <<"cancel", f[i]>> \in UserSteps /\ <<"cancel", f[i]>>[1] = "cancel"
  BY <1>3 DEF UserSteps
<1>6. Cancels(C) \in [1..n -> UserSteps]
  BY <1>4, <1>5
<1>7. Cancels(C) \in Seq(UserSteps)
  BY <1>1, <1>6, SeqDef
<1>8. Len(Cancels(C)) = n
  BY <1>1, <1>6, <1>7, LenProperties
<1> QED BY <1>4, <1>5, <1>7, <1>8

LEMMA PlanReturns ==
  ASSUME NEW E \in SUBSET Hashes, NEW C \in SUBSET Hashes
  PROVE  LET q == ReturnPlan(E, C)
         IN  q \in Seq(UserSteps) /\ ToFinale(q) /\ Len(q) >= 4 /\ q # <<>>
<1> DEFINE s == IF E = {} THEN <<>> ELSE <<<<"sweep", E>>>>
           c == Cancels(C)
           p == s \o c
           q == ReturnPlan(E, C)
<1>1. /\ s \in Seq(UserSteps) /\ \A i \in 1..Len(s) : s[i][1] \in {"sweep", "cancel"}
  <2>1. <<"sweep", E>> \in UserSteps
    BY DEF UserSteps
  <2>2. CASE E = {}
    BY <2>2
  <2>3. CASE E # {}
    <3>1. s = <<<<"sweep", E>>>>
      BY <2>3
    <3> HIDE DEF s
    <3>2. s \in Seq(UserSteps) /\ Len(s) = 1 /\ s[1] = <<"sweep", E>>
      BY <2>1, <3>1
    <3>3. <<"sweep", E>>[1] = "sweep"
      OBVIOUS
    <3> QED BY <3>2, <3>3
  <2> QED BY <2>2, <2>3
<1>2. c \in Seq(UserSteps) /\ \A i \in 1..Len(c) : c[i][1] \in {"sweep", "cancel"}
  BY CancelsTyped
<1>3. q = p \o Finale
  BY DEF ReturnPlan, Cancels, Finale
<1> HIDE DEF s, c, q
<1>4. /\ p \in Seq(UserSteps) /\ Len(p) = Len(s) + Len(c) /\ Len(s) \in Nat /\ Len(c) \in Nat
      /\ \A i \in 1..(Len(s) + Len(c)) : p[i] = IF i <= Len(s) THEN s[i] ELSE c[i - Len(s)]
  BY <1>1, <1>2, ConcatProperties, LenProperties
<1> HIDE DEF p
<1>5. \A i \in 1..Len(p) : p[i][1] \in {"sweep", "cancel"}
  <2> TAKE i \in 1..Len(p)
  <2>1. CASE i <= Len(s)
    BY <1>1, <1>4, <2>1
  <2>2. CASE ~(i <= Len(s))
    <3>1. i - Len(s) \in 1..Len(c) /\ p[i] = c[i - Len(s)]
      BY <1>4, <2>2
    <3> QED BY <1>2, <3>1
  <2> QED BY <2>1, <2>2
<1>6. Finale \in Seq(UserSteps) /\ Len(Finale) = 4
  <2>1. /\ <<"read", "collateral">> \in UserSteps /\ <<"withdraw", "collateral">> \in UserSteps
        /\ <<"read", "gas">> \in UserSteps /\ <<"withdraw", "gas">> \in UserSteps
    BY DEF UserSteps
  <2> QED BY <2>1 DEF Finale
<1>7. /\ q \in Seq(UserSteps) /\ Len(q) = Len(p) + 4 /\ Len(p) \in Nat
      /\ \A i \in 1..(Len(p) + 4) : q[i] = IF i <= Len(p) THEN p[i] ELSE Finale[i - Len(p)]
  <2>1. p \in Seq(UserSteps) /\ Len(p) \in Nat
    BY <1>4, LenProperties
  <2>2. /\ p \o Finale \in Seq(UserSteps) /\ Len(p \o Finale) = Len(p) + Len(Finale)
        /\ \A i \in 1..(Len(p) + Len(Finale)) :
             (p \o Finale)[i] = IF i <= Len(p) THEN p[i] ELSE Finale[i - Len(p)]
    BY <1>6, <2>1, ConcatProperties
  <2> QED BY <1>3, <1>6, <2>1, <2>2
<1>8. ASSUME NEW i \in 1..Len(q)
      PROVE  IF Len(q) - i < 4 THEN q[i] = Finale[4 - (Len(q) - i)]
             ELSE q[i][1] \in {"sweep", "cancel"}
  <2>1. CASE Len(q) - i < 4
    <3>1. 4 - (Len(q) - i) = i - Len(p) /\ ~(i <= Len(p))
      BY <1>7, <2>1
    <3> QED BY <1>7, <2>1, <3>1
  <2>2. CASE ~(Len(q) - i < 4)
    <3>1. i \in 1..Len(p) /\ q[i] = p[i]
      BY <1>7, <2>2
    <3> QED BY <1>5, <2>2, <3>1
  <2> QED BY <2>1, <2>2
<1>9. ToFinale(q)
  BY <1>8 DEF ToFinale
<1>10. q # <<>>
  BY <1>7, EmptySeq
<1> QED BY <1>7, <1>9, <1>10 DEF q

LEMMA Started ==
  ASSUME IInv, NEW l \in Lists, ReturnBalances(l[1], l[2])
  PROVE  returning' \in Runs /\ ReturnInv' /\ UNCHANGED <<chainVars, operatorVars>>
<1> DEFINE q == ReturnPlan(l[1], l[2])
<1>1. l[1] \in SUBSET Hashes /\ l[2] \in SUBSET Hashes
  BY MigrationAssumption
<1>2. q \in Seq(UserSteps) /\ ToFinale(q) /\ Len(q) >= 4 /\ q # <<>>
  BY <1>1, PlanReturns
<1>3. /\ artifact # NoFile /\ UNCHANGED <<chainVars, operatorVars>>
      /\ returning' = [NotReturning EXCEPT !.todo = q, !.alone = TRUE,
                         !.registry = artifact.registry, !.vault = artifact.vault,
                         !.gasVault = artifact.gasVault]
  BY DEF ReturnBalances
<1> HIDE DEF q
<1>4. PICK a \in Deployment : a = artifact
  BY <1>3, ArtifactTyped DEF IInv
<1>5. /\ a.registry \in DOMAIN registries /\ a.vault \in DOMAIN vaults
      /\ a.gasVault \in DOMAIN gasVaults
      /\ a.registry \in Number /\ a.vault \in Number /\ a.gasVault \in Number
  BY <1>3, <1>4 DEF IInv, WiringInv, ArtifactExists, Deployment
<1>6. returning' = [todo |-> q, registry |-> a.registry, vault |-> a.vault,
                    gasVault |-> a.gasVault, read |-> 0, alone |-> TRUE]
  BY <1>3, <1>4 DEF NotReturning
<1>7. 0 \in 0..MaxFree
  BY MigrationAssumption
<1>8. returning' \in Runs
  BY <1>2, <1>5, <1>6, <1>7 DEF Runs
<1>9. /\ returning'.todo = q /\ returning'.registry = a.registry
      /\ returning'.vault = a.vault /\ returning'.gasVault = a.gasVault
  BY <1>6
<1>10. ToFinale(returning.todo)'
  <2>1. PICK t : t = q
    OBVIOUS
  <2>2. ToFinale(t) /\ returning'.todo = t
    BY <1>2, <1>9, <2>1
  <2> QED BY <2>2 DEF ToFinale
<1>11. Len(returning'.todo) \notin {1, 2, 3}
  <2>1. PICK n \in Nat : n = Len(q)
    BY <1>2, LenProperties
  <2>2. n >= 4
    BY <1>2, <2>1
  <2>3. Len(returning'.todo) = n
    BY <1>9, <2>1
  <2> QED BY <2>2, <2>3
<1>12. /\ registries' = registries /\ vaults' = vaults /\ gasVaults' = gasVaults
  BY <1>3 DEF chainVars
<1> QED BY <1>3, <1>5, <1>8, <1>9, <1>10, <1>11, <1>12 DEF ReturnInv

\* A call done, the script goes on.
LEMMA WentOn ==
  ASSUME TypeOK, ReturnInv, NEW v, NEW x, NextIs(v, x), NEW b \in 0..MaxFree, GoOn(b)
  PROVE  /\ returning' \in Runs /\ ToFinale(returning.todo)'
         /\ returning.todo \in Seq(UserSteps) /\ returning.todo # <<>>
         /\ Head(returning.todo) = <<v, x>> /\ ToFinale(returning.todo)
         /\ Len(returning'.todo) = Len(returning.todo) - 1
         /\ returning'.registry = returning.registry /\ returning'.vault = returning.vault
         /\ returning'.gasVault = returning.gasVault /\ returning'.read = b
         /\ returning'.alone = returning.alone
         /\ returning.registry \in DOMAIN registries /\ returning.vault \in DOMAIN vaults
         /\ returning.gasVault \in DOMAIN gasVaults
         /\ UNCHANGED operatorVars
<1>1. /\ returning \in Runs /\ returning.todo # <<>> /\ ToFinale(returning.todo)
      /\ Head(returning.todo) = <<v, x>>
      /\ returning' = [returning EXCEPT !.todo = Tail(@), !.read = b]
      /\ UNCHANGED operatorVars
  BY DEF TypeOK, Runs, ReturnInv, NextIs, GoOn
<1>2. PICK t : t = Tail(returning.todo)
  OBVIOUS
<1>3. /\ returning.todo \in Seq(UserSteps) /\ t \in Seq(UserSteps) /\ ToFinale(t)
      /\ Len(t) = Len(returning.todo) - 1
  <2>1. returning.todo \in Seq(UserSteps)
    BY <1>1 DEF Runs
  <2> QED BY <1>1, <1>2, <2>1, FinaleAhead
<1>4. returning' = [todo |-> t, registry |-> returning.registry, vault |-> returning.vault,
                    gasVault |-> returning.gasVault, read |-> b, alone |-> returning.alone]
  BY <1>1, <1>2 DEF Runs
<1>5. returning' \in Runs
  BY <1>1, <1>3, <1>4 DEF Runs
<1>6. returning'.todo = t
  BY <1>4
<1>7. ToFinale(returning.todo)'
  BY <1>3, <1>6 DEF ToFinale
<1>8. /\ returning.registry \in DOMAIN registries /\ returning.vault \in DOMAIN vaults
      /\ returning.gasVault \in DOMAIN gasVaults
  BY <1>1 DEF ReturnInv
<1> QED BY <1>1, <1>3, <1>4, <1>5, <1>7, <1>8

LEMMA Over ==
  ASSUME returning' = NotReturning
  PROVE  returning' \in Runs /\ ReturnInv'
<1>1. 0 \in Number /\ 0 \in 0..MaxFree
  BY MigrationAssumption DEF Number
<1>2. <<>> \in Seq(UserSteps) /\ Len(<<>>) = 0
  OBVIOUS
<1>3. returning' \in Runs /\ returning'.todo = <<>> /\ returning'.alone = FALSE
  BY <1>1, <1>2 DEF NotReturning, Runs
<1>4. ToFinale(returning.todo)'
  BY <1>2, <1>3 DEF ToFinale
<1> QED BY <1>3, <1>4 DEF ReturnInv

\* While a script only reads, or ends, nothing else changes.
LEMMA OnlyReturning ==
  ASSUME IInv, UNCHANGED <<chainVars, operatorVars>>, returning' \in Runs, ReturnInv'
  PROVE  IInv'
<1>1. TypeOK /\ WiringInv /\ VaultsExist /\ PendingReachable /\ LocksBacked
  BY DEF IInv, WiringInv
<1>2. registries' = registries /\ vaults' = vaults /\ gasVaults' = gasVaults
  BY DEF chainVars
<1>3. TypeOK'
  BY <1>1, <1>2 DEF TypeOK, Runs, operatorVars
<1>4. UsersKeep
  BY <1>2 DEF UsersKeep
<1>5. LocksBacked' /\ \A r : Pending(r)' = Pending(r)
  BY <1>1, <1>2, <1>4, LocksUntouched
<1> QED BY <1>1, <1>3, <1>4, <1>5, WiringUntouched, PendingUntouched DEF IInv

\* What is released goes to the user's free balance while the script still has
\* to read it.
LEMMA ReleasedByScript ==
  ASSUME IInv, NEW x, NEW v \in {"sweep", "cancel"}, NextIs(v, x), NEW S \in SUBSET Hashes,
         S \subseteq Pending(returning.registry), Release(returning.registry, S),
         GoOn(0), UNCHANGED gasVaults
  PROVE  IInv'
<1>1. TypeOK /\ WiringInv /\ VaultsExist /\ PendingReachable /\ LocksBacked /\ ReturnInv
  BY DEF IInv, WiringInv
<1>2. 0 \in 0..MaxFree
  BY MigrationAssumption
<1>3. /\ returning' \in Runs /\ ToFinale(returning.todo)'
      /\ returning.todo \in Seq(UserSteps) /\ returning.todo # <<>>
      /\ Head(returning.todo) = <<v, x>> /\ ToFinale(returning.todo)
      /\ Len(returning'.todo) = Len(returning.todo) - 1
      /\ returning'.registry = returning.registry /\ returning'.vault = returning.vault
      /\ returning'.gasVault = returning.gasVault
      /\ returning.registry \in DOMAIN registries /\ returning.vault \in DOMAIN vaults
      /\ returning.gasVault \in DOMAIN gasVaults
      /\ UNCHANGED operatorVars
  BY <1>1, <1>2, WentOn
<1>4. Len(returning'.todo) \notin {1, 2, 3}
  <2>1. Head(returning.todo)[1] = v
    BY <1>3
  <2>2. PICK n \in Nat : n = Len(returning.todo)
    BY <1>3, LenProperties
  <2>3. n > 4
    BY <1>3, <2>1, <2>2, FinaleAt
  <2>4. Len(returning'.todo) = n - 1
    BY <1>3, <2>2
  <2> QED BY <2>3, <2>4
<1>5. PICK r \in DOMAIN registries : r = returning.registry
  BY <1>3
<1>6. /\ TypeOK' /\ UsersKeep /\ BookMoved(r)
      /\ \A s \in DOMAIN registries : Pending(s)' \subseteq Pending(s)
  BY <1>1, <1>3, <1>5, Released
<1>7. ReturnInv'
  BY <1>3, <1>4, <1>6 DEF ReturnInv, UsersKeep
<1>8. PendingReachable'
  BY <1>1, <1>6, PendingUntouched
<1> QED BY <1>1, <1>6, <1>7, <1>8, LocksMoved, WiringUntouched DEF IInv

LEMMA FreeRead ==
  ASSUME IInv, ReadFree
  PROVE  IInv'
<1> DEFINE f == vaults[returning.vault].free
<1>1. /\ TypeOK /\ ReturnInv /\ NextIs("read", "collateral") /\ GoOn(f) /\ UNCHANGED chainVars
  BY DEF IInv, ReadFree
<1>2. f \in 0..MaxFree
  <2>1. returning.vault \in DOMAIN vaults
    BY <1>1 DEF ReturnInv, NextIs
  <2> QED BY <1>1, <2>1, Records DEF VaultRecord
<1>3. /\ returning' \in Runs /\ ToFinale(returning.todo)'
      /\ returning.todo \in Seq(UserSteps) /\ returning.todo # <<>>
      /\ Head(returning.todo) = <<"read", "collateral">> /\ ToFinale(returning.todo)
      /\ Len(returning'.todo) = Len(returning.todo) - 1
      /\ returning'.registry = returning.registry /\ returning'.vault = returning.vault
      /\ returning'.gasVault = returning.gasVault /\ returning'.read = f
      /\ returning.registry \in DOMAIN registries /\ returning.vault \in DOMAIN vaults
      /\ returning.gasVault \in DOMAIN gasVaults
      /\ UNCHANGED operatorVars
  BY <1>1, <1>2, WentOn
<1>4. Len(returning'.todo) = 3
  <2>1. Len(returning.todo) = 4
    BY <1>3, FinaleAt
  <2> QED BY <1>3, <2>1
<1>5. registries' = registries /\ vaults' = vaults /\ gasVaults' = gasVaults
  BY <1>1 DEF chainVars
<1>6. vaults'[returning'.vault].free = f
  BY <1>3, <1>5
<1>7. ReturnInv'
  <2>1. PICK n \in Int : n = f
    BY <1>2, MigrationAssumption
  <2>2. returning'.read = n /\ vaults'[returning'.vault].free = n /\ n >= n
    BY <1>3, <1>6, <2>1
  <2>3. returning'.read >= vaults'[returning'.vault].free
    BY <2>2
  <2>4. Len(returning'.todo) \notin {1, 2}
    BY <1>4
  <2>5. /\ returning'.registry \in DOMAIN registries' /\ returning'.vault \in DOMAIN vaults'
        /\ returning'.gasVault \in DOMAIN gasVaults'
    BY <1>3, <1>5
  <2> HIDE DEF f
  <2> QED BY <1>3, <2>3, <2>4, <2>5 DEF ReturnInv
<1> QED BY <1>1, <1>3, <1>7, OnlyReturning

LEMMA GasRead ==
  ASSUME IInv, ReadGas
  PROVE  IInv'
<1> DEFINE b == gasVaults[returning.gasVault].balance
<1>1. /\ TypeOK /\ ReturnInv /\ NextIs("read", "gas") /\ GoOn(b) /\ UNCHANGED chainVars
  BY DEF IInv, ReadGas
<1>2. b \in 0..MaxFree
  <2>1. returning.gasVault \in DOMAIN gasVaults
    BY <1>1 DEF ReturnInv, NextIs
  <2> QED BY <1>1, <2>1, Records DEF GasVaultRecord
<1>3. /\ returning' \in Runs /\ ToFinale(returning.todo)'
      /\ returning.todo \in Seq(UserSteps) /\ returning.todo # <<>>
      /\ Head(returning.todo) = <<"read", "gas">> /\ ToFinale(returning.todo)
      /\ Len(returning'.todo) = Len(returning.todo) - 1
      /\ returning'.registry = returning.registry /\ returning'.vault = returning.vault
      /\ returning'.gasVault = returning.gasVault /\ returning'.read = b
      /\ returning'.alone = returning.alone
      /\ returning.registry \in DOMAIN registries /\ returning.vault \in DOMAIN vaults
      /\ returning.gasVault \in DOMAIN gasVaults
      /\ UNCHANGED operatorVars
  BY <1>1, <1>2, WentOn
<1>4. Len(returning.todo) = 2 /\ Len(returning'.todo) = 1
  <2>1. Len(returning.todo) = 2
    BY <1>3, FinaleAt
  <2> QED BY <1>3, <2>1
<1>5. registries' = registries /\ vaults' = vaults /\ gasVaults' = gasVaults
  BY <1>1 DEF chainVars
<1>6. /\ gasVaults'[returning'.gasVault].balance = b
      /\ returning.alone => vaults'[returning'.vault].free = 0
  BY <1>1, <1>3, <1>4, <1>5 DEF ReturnInv
<1> HIDE DEF b
<1>7. ReturnInv'
  BY <1>2, <1>3, <1>4, <1>5, <1>6, MigrationAssumption DEF ReturnInv
<1> QED BY <1>1, <1>3, <1>7, OnlyReturning

\* As much as was read is withdrawn, or nothing: alone, the user has not more.
LEMMA FreeWithdrawn ==
  ASSUME IInv, WithdrawFree
  PROVE  IInv'
<1> DEFINE v == returning.vault
           f == vaults[v].free - returning.read
<1>1. /\ TypeOK /\ WiringInv /\ VaultsExist /\ PendingReachable /\ LocksBacked /\ ReturnInv
      /\ NextIs("withdraw", "collateral") /\ GoOn(0)
      /\ vaults[v].free >= returning.read
      /\ vaults' = [vaults EXCEPT ![v].free = f]
      /\ UNCHANGED <<registries, gasVaults>>
  BY DEF IInv, WiringInv, WithdrawFree, Pays
<1>2. 0 \in 0..MaxFree
  BY MigrationAssumption
<1>3. /\ returning' \in Runs /\ ToFinale(returning.todo)'
      /\ returning.todo \in Seq(UserSteps) /\ returning.todo # <<>>
      /\ Head(returning.todo) = <<"withdraw", "collateral">> /\ ToFinale(returning.todo)
      /\ Len(returning'.todo) = Len(returning.todo) - 1
      /\ returning'.registry = returning.registry /\ returning'.vault = v
      /\ returning'.gasVault = returning.gasVault
      /\ returning'.alone = returning.alone
      /\ returning.registry \in DOMAIN registries /\ v \in DOMAIN vaults
      /\ returning.gasVault \in DOMAIN gasVaults
      /\ UNCHANGED operatorVars
  BY <1>1, <1>2, WentOn
<1>4. Len(returning.todo) = 3 /\ Len(returning'.todo) = 2
  <2>1. Len(returning.todo) = 3
    BY <1>3, FinaleAt
  <2> QED BY <1>3, <2>1
<1>5. /\ vaults[v].free \in 0..MaxFree /\ returning.read \in 0..MaxFree /\ f \in 0..MaxFree
  <2>1. vaults[v].free \in 0..MaxFree /\ returning.read \in 0..MaxFree
    BY <1>1, <1>3, Records DEF VaultRecord, TypeOK
  <2> QED BY <1>1, <2>1, MigrationAssumption
<1>6. returning.alone => f = 0
  <2>1. returning.alone => returning.read >= vaults[v].free
    BY <1>1, <1>4 DEF ReturnInv
  <2> QED BY <1>1, <1>5, <2>1, MigrationAssumption
<1> HIDE DEF f, v
<1>7. /\ TypeOK' /\ UsersKeep
      /\ \A w \in DOMAIN vaults : /\ vaults'[w].locked = vaults[w].locked
                                  /\ vaults'[w].free = IF w = v THEN f ELSE vaults[w].free
  <2>1. /\ v \in DOMAIN vaults /\ f \in 0..MaxFree /\ returning' \in Runs
        /\ vaults' = [vaults EXCEPT ![v].free = f]
        /\ UNCHANGED <<registries, gasVaults, operatorVars>>
    BY <1>1, <1>3, <1>5
  <2> QED BY <1>1, <2>1, Deposited, Zenon
<1>8. LocksBacked' /\ \A r : Pending(r)' = Pending(r)
  BY <1>1, <1>7, LocksUntouched
<1>9. ReturnInv'
  BY <1>3, <1>4, <1>6, <1>7 DEF ReturnInv, UsersKeep, v
<1> QED BY <1>1, <1>7, <1>8, <1>9, WiringUntouched, PendingUntouched DEF IInv

LEMMA GasWithdrawn ==
  ASSUME IInv, WithdrawGas
  PROVE  /\ IInv'
         /\ returning.alone => /\ vaults'[returning.vault].free = 0
                               /\ gasVaults'[returning.gasVault].balance = 0
<1> DEFINE g == returning.gasVault
           b == gasVaults[g].balance - returning.read
<1>1. /\ TypeOK /\ WiringInv /\ VaultsExist /\ PendingReachable /\ LocksBacked /\ ReturnInv
      /\ NextIs("withdraw", "gas") /\ returning' = NotReturning
      /\ gasVaults[g].balance >= returning.read
      /\ gasVaults' = [gasVaults EXCEPT ![g].balance = b]
      /\ UNCHANGED <<registries, vaults, operatorVars>>
  BY DEF IInv, WiringInv, WithdrawGas, Pays
<1>2. returning' \in Runs /\ ReturnInv'
  BY <1>1, Over
<1>3. /\ returning.todo \in Seq(UserSteps) /\ returning.todo # <<>> /\ ToFinale(returning.todo)
      /\ Head(returning.todo) = <<"withdraw", "gas">>
      /\ returning.vault \in DOMAIN vaults /\ g \in DOMAIN gasVaults
  BY <1>1 DEF TypeOK, ReturnInv, NextIs
<1>4. Len(returning.todo) = 1
  BY <1>3, FinaleAt
<1>5. /\ gasVaults[g].balance \in 0..MaxFree /\ returning.read \in 0..MaxFree
      /\ b \in 0..MaxFree
  <2>1. gasVaults[g].balance \in 0..MaxFree /\ returning.read \in 0..MaxFree
    BY <1>1, <1>3, Records DEF GasVaultRecord, TypeOK
  <2> QED BY <1>1, <2>1, MigrationAssumption
<1>6. returning.alone => vaults[returning.vault].free = 0 /\ b = 0
  <2>1. returning.alone => /\ returning.read >= gasVaults[g].balance
                           /\ vaults[returning.vault].free = 0
    BY <1>1, <1>4 DEF ReturnInv
  <2> QED BY <1>1, <1>5, <2>1, MigrationAssumption
<1>7. gasVaults'[g].balance = b
  BY <1>1, <1>3, Records DEF GasVaultRecord
<1> HIDE DEF b, g
<1>8. TypeOK' /\ UsersKeep
  BY <1>1, <1>2, <1>3, <1>5, GasDeposited
<1>9. LocksBacked' /\ \A r : Pending(r)' = Pending(r)
  BY <1>1, <1>8, LocksUntouched
<1>10. IInv'
  BY <1>1, <1>2, <1>8, <1>9, WiringUntouched, PendingUntouched DEF IInv
<1> QED BY <1>1, <1>6, <1>7, <1>10 DEF g

LEMMA ReturningSteps ==
  ASSUME IInv, Returning
  PROVE  IInv'
<1>1. ASSUME NEW l \in Lists, ReturnBalances(l[1], l[2]) PROVE IInv'
  BY <1>1, Started, OnlyReturning
<1>2. CASE ReturnSweep
  BY <1>2, ReleasedByScript DEF ReturnSweep
<1>3. CASE ReturnCancel
  <2>1. PICK h \in Hashes : /\ NextIs("cancel", h) /\ h \in Pending(returning.registry)
                            /\ Release(returning.registry, {h})
                            /\ GoOn(0) /\ UNCHANGED gasVaults
    BY <1>3 DEF ReturnCancel
  <2>2. {h} \in SUBSET Hashes /\ {h} \subseteq Pending(returning.registry)
    BY <2>1
  <2> QED BY <2>1, <2>2, ReleasedByScript
<1>4. CASE ReturnEndsEarly
  BY <1>4, Over, OnlyReturning DEF ReturnEndsEarly
<1> QED BY <1>1, <1>2, <1>3, <1>4, FreeRead, GasRead, FreeWithdrawn, GasWithdrawn
        DEF Returning

-----------------------------------------------------------------------------
(* The invariant, and what follows. *)

LEMMA Initially == Init => IInv
<1> SUFFICES ASSUME Init PROVE IInv
  OBVIOUS
<1>1. /\ registries = <<>> /\ vaults = <<>> /\ gasVaults = <<>>
      /\ made = [x \in Kinds \cup {"mock", "adapter"} |-> 0]
      /\ artifact = NoFile /\ script = Idle /\ returning = NotReturning
  BY DEF Init
<1>2. 0 \in Number /\ 0 \in 0..MaxFree
  BY MigrationAssumption DEF Number
<1>3. NotReturning \in Runs
  BY <1>2 DEF NotReturning, Runs
<1>4. TypeOK
  <2>1. /\ registries \in Seq(RegistryRecord) /\ vaults \in Seq(VaultRecord)
        /\ gasVaults \in Seq(GasVaultRecord)
    BY <1>1
  <2>2. made \in [Kinds \cup {"mock", "adapter"} -> Number]
    BY <1>1, <1>2
  <2> QED BY <1>1, <1>3, <2>1, <2>2, IdleSound DEF TypeOK, Runs
<1>5. DOMAIN registries = {} /\ DOMAIN vaults = {} /\ script.todo = <<>>
  BY <1>1, IdleSound
<1>6. Ahead = {} /\ InOrder(script.todo)
  BY <1>5, NoPlan DEF Ahead
<1>7. WiringInv
  BY <1>1, <1>5, <1>6 DEF WiringInv, PlanSound, Complete, DraftExists, DraftTrue, OnlyNewer,
     ArtifactExists, ArtifactTrue, VaultsExist
<1>8. PendingReachable /\ LocksBacked
  BY <1>5 DEF PendingReachable, LocksBacked
<1>9. ReturnInv
  <2>1. returning.todo = <<>> /\ Len(<<>>) = 0 /\ returning.alone = FALSE
    BY <1>1 DEF NotReturning
  <2> QED BY <2>1 DEF ReturnInv, ToFinale
<1> QED BY <1>4, <1>7, <1>8, <1>9 DEF IInv

LEMMA Inductive == IInv /\ [Next]_vars => IInv'
<1> SUFFICES ASSUME IInv, [Next]_vars PROVE IInv'
  OBVIOUS
<1>1. CASE Next
  BY <1>1, OperatorSteps, TradingSteps, ReturningSteps DEF Next
<1>2. CASE UNCHANGED vars
  <2>1. /\ UNCHANGED <<chainVars, operatorVars>> /\ returning' = returning
        /\ script' = script
    BY <1>2 DEF vars, operatorVars
  <2>2. returning' \in Runs
    BY <2>1 DEF IInv, TypeOK, Runs
  <2>3. ReturnInv'
    <3>1. registries' = registries /\ vaults' = vaults /\ gasVaults' = gasVaults
      BY <2>1 DEF chainVars
    <3> QED BY <2>1, <3>1 DEF IInv, ReturnInv, ToFinale
  <2> QED BY <2>1, <2>2, <2>3, OnlyReturning
<1> QED BY <1>1, <1>2

LEMMA Invariant == Spec => []IInv
BY Initially, Inductive, PTL DEF Spec

(***************************************************************************)
(* Every contract, file and script has the type declared for it, so that   *)
(* no step of a script or of a user refers to a record that is not one.    *)
(***************************************************************************)
THEOREM MigrationTyped == Spec => []TypeOK
<1>1. IInv => TypeOK
  BY DEF IInv
<1> QED BY <1>1, Invariant, PTL

(***************************************************************************)
(* Whatever deploy.ts, redeploy-registry.ts and the verifier scripts were  *)
(* told to reuse or skip and wherever they ended, the registry named in    *)
(* deployments/<network>.json uses the contracts named beside it, and its  *)
(* vaults obey it, unless a newer contract took their place.               *)
(***************************************************************************)
THEOREM ArtifactAlwaysTrue == Spec => []ArtifactTrue
<1>1. IInv => ArtifactTrue
  BY DEF IInv, WiringInv
<1> QED BY <1>1, Invariant, PTL

(***************************************************************************)
(* A pending commitment's vault obeys its registry, unless the operator's  *)
(* scripts gave that vault to a later one, at every moment of every script *)
(* and however many were interrupted.                                      *)
(***************************************************************************)
THEOREM PendingAlwaysReachable == Spec => []PendingReachable
<1>1. IInv => PendingReachable
  BY DEF IInv
<1> QED BY <1>1, Invariant, PTL

(***************************************************************************)
(* Whichever registries a vault was passed between, it locks for each hash *)
(* exactly one unit per registry where the hash is pending.                *)
(***************************************************************************)
THEOREM LocksAlwaysBacked == Spec => []LocksBacked
<1>1. IInv => LocksBacked
  BY DEF IInv
<1> QED BY <1>1, Invariant, PTL

(***************************************************************************)
(* return-vault-balances.ts, when it ends well, leaves neither collateral  *)
(* nor prepaid gas behind in the vaults of the artifact it read, whatever  *)
(* was registered, executed or redeployed meanwhile, unless the user was   *)
(* credited from elsewhere.                                                *)
(***************************************************************************)
THEOREM BalancesAreReturned == Spec => BalancesReturned
<1>1. IInv /\ [Next]_vars =>
        [WithdrawGas /\ returning.alone =>
           /\ vaults'[returning.vault].free = 0
           /\ gasVaults'[returning.gasVault].balance = 0]_vars
  BY GasWithdrawn
<1> QED BY <1>1, Invariant, PTL DEF Spec, BalancesReturned
=============================================================================
