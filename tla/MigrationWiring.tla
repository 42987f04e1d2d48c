--------------------------- MODULE MigrationWiring ---------------------------
(***************************************************************************)
(* Proofs about the deployment scripts, for any number of deployments, any *)
(* reuse of earlier contracts and any interruption, while users trade.     *)
(* The invariant compares a script's draft with the chain: each claim the  *)
(* artifact will make holds already or a step still to do makes it hold.   *)
(***************************************************************************)
EXTENDS Migration, TLAPS, SequenceTheorems, FiniteSetTheorems

DeployRegistryStep == <<"deploy", "registry">>

\* The steps the operator's script has still to do.
Ahead == Range(script.todo)
Todo(verb, x) == <<verb, x>> \in Ahead

\* Of two steps, which comes first in every plan that has both: contracts
\* before the registry, the registry before its configuration, a verifier
\* before its registration, the file last.
Before(x, y) ==
  \/ x[1] = "deploy" /\ x # DeployRegistryStep /\ y = DeployRegistryStep
  \/ x = DeployRegistryStep /\ y[1] \in {"bind", "set", "mock"}
  \/ x[1] = "deploy" /\ y[1] \in {"set", "mock"} /\ x[2] \in {y[2], "mock"}
  \/ x[1] # "write" /\ y[1] = "write"

InOrder(q) == \A i, j \in 1..Len(q) : Before(q[i], q[j]) => i < j

\* What is deployed is put to use, and a new registry is wired completely.
Complete(S) ==
  /\ <<"deploy", "vault">> \in S => DeployRegistryStep \in S
  /\ <<"deploy", "gasVault">> \in S => DeployRegistryStep \in S
  /\ <<"deploy", "adapter">> \in S => DeployRegistryStep \in S \/ <<"set", "adapter">> \in S
  /\ \A k \in Kinds : <<"deploy", k>> \in S => <<"set", k>> \in S
  /\ DeployRegistryStep \in S =>
       /\ <<"bind", "vault">> \in S /\ <<"bind", "gasVault">> \in S
       /\ \A x \in Kinds \cup {"feeds"} : <<"set", x>> \in S

PlanSound == InOrder(script.todo) /\ Complete(Ahead)

\* The claims of a deployment record d, one by one.
VaultObeys(d) == Obeys(vaults[d.vault], d.registry, "vault")
GasVaultObeys(d) == Obeys(gasVaults[d.gasVault], d.registry, "gasVault")
AdapterTrue(d) == registries[d.registry].adapter >= d.adapter
VerifierTrue(d, k) == \/ registries[d.registry].verifiers[k] >= d.verifiers[k]
                      \/ registries[d.registry].verifiers[k] < 0
Known(d) == d.adapter <= made["adapter"] /\ \A k \in Kinds : d.verifiers[k] <= made[k]

\* Vaults and registry of the draft exist, or are still to be deployed; only
\* the newest registry is given vaults.
DraftExists ==
  script.todo # <<>> =>
    /\ Todo("deploy", "vault") \/ draft.vault \in DOMAIN vaults
    /\ Todo("deploy", "gasVault") \/ draft.gasVault \in DOMAIN gasVaults
    /\ Todo("deploy", "registry") \/
         /\ draft.registry \in DOMAIN registries
         /\ Configured.vault = draft.vault /\ Configured.gasVault = draft.gasVault
         /\ Todo("bind", "vault") \/ Todo("bind", "gasVault") =>
              draft.registry = Len(registries)

\* A claim of the draft holds, or its step is still to do.
DraftTrue ==
  script.todo # <<>> =>
    /\ Known(draft)
    /\ Todo("bind", "vault") \/ VaultObeys(draft)
    /\ Todo("bind", "gasVault") \/ GasVaultObeys(draft)
    /\ IF Todo("set", "feeds") THEN script.feeds # NoFile ELSE Configured.feeds # NoFile
    /\ Todo("deploy", "registry") \/ Todo("set", "adapter") \/ AdapterTrue(draft)
    /\ \A k \in Kinds : /\ Todo("set", k) \/ VerifierTrue(draft, k)
                        /\ Todo("mock", k) => Todo("deploy", "mock") \/ draft.mock < 0

\* What a script changes in the registry the artifact names, it has newly
\* deployed.
OnlyNewer ==
  artifact # NoFile =>
    /\ Todo("set", "adapter") => \/ Todo("deploy", "adapter")
                                 \/ draft.adapter > artifact.adapter
    /\ \A k \in Kinds : Todo("set", k) => \/ Todo("deploy", "registry")
                                          \/ Todo("deploy", k)
                                          \/ draft.registry # artifact.registry
                                          \/ draft.verifiers[k] > artifact.verifiers[k]

\* The artifact names contracts that exist.
ArtifactExists ==
  artifact # NoFile =>
    /\ artifact.registry \in DOMAIN registries /\ artifact.vault \in DOMAIN vaults
    /\ artifact.gasVault \in DOMAIN gasVaults
    /\ Known(artifact)

\* A registry's vaults exist.
VaultsExist == \A r \in DOMAIN registries : /\ registries[r].vault \in DOMAIN vaults
                                            /\ registries[r].gasVault \in DOMAIN gasVaults

\* The wiring: what users cannot change.
WiringInv == /\ PlanSound /\ DraftExists /\ DraftTrue /\ OnlyNewer
             /\ ArtifactExists /\ ArtifactTrue /\ VaultsExist

-----------------------------------------------------------------------------
(* Plans: sequences of steps in order. *)

\* Deploying is not setting, and so on: the order as a relation on steps.
LEMMA OrderFacts ==
  /\ \A x \in Steps : ~Before(x, x)
  /\ DeployRegistryStep \in Steps
  /\ \A v \in {"deploy", "bind", "set", "mock", "write"} :
       \A n \in Kinds \cup {"vault", "gasVault", "registry", "adapter", "mock", "feeds",
                            "all", "but feeds"} : <<v, n>> \in Steps
<1>1. \A x \in Steps : x[1] \in {"deploy", "bind", "set", "mock", "write"}
  BY DEF Steps
<1>2. ASSUME NEW x \in Steps PROVE ~Before(x, x)
  BY <1>1 DEF Before, DeployRegistryStep
<1> QED BY <1>2 DEF Steps, DeployRegistryStep

LEMMA Single ==
  ASSUME NEW x \in Steps
  PROVE  <<x>> \in Seq(Steps) /\ Range(<<x>>) = {x} /\ InOrder(<<x>>)
<1>1. <<x>> \in Seq(Steps) /\ Len(<<x>>) = 1 /\ <<x>>[1] = x /\ DOMAIN <<x>> = 1..1
  OBVIOUS
<1> HIDE DEF Steps
<1>2. ~Before(x, x)
  BY OrderFacts
<1> QED BY <1>1, <1>2 DEF Range, InOrder

LEMMA NoPlan == <<>> \in Seq(Steps) /\ Range(<<>>) = {} /\ InOrder(<<>>)
BY DEF Range, InOrder

\* Two plans in a row are in order if no step of the second comes before one
\* of the first.
LEMMA Join ==
  ASSUME NEW s \in Seq(Steps), NEW t \in Seq(Steps)
  PROVE  /\ s \o t \in Seq(Steps)
         /\ Range(s \o t) = Range(s) \cup Range(t)
         /\ InOrder(s) /\ InOrder(t) /\ (\A x \in Range(s), y \in Range(t) : ~Before(y, x))
              => InOrder(s \o t)
<1> DEFINE q == s \o t
<1>1. /\ q \in Seq(Steps) /\ Len(q) = Len(s) + Len(t)
      /\ \A i \in 1..(Len(s) + Len(t)) : q[i] = IF i <= Len(s) THEN s[i] ELSE t[i - Len(s)]
  BY ConcatProperties
<1>2. /\ Len(s) \in Nat /\ Len(t) \in Nat
      /\ DOMAIN s = 1..Len(s) /\ DOMAIN t = 1..Len(t) /\ DOMAIN q = 1..Len(q)
  BY <1>1, LenProperties
<1> HIDE DEF q
<1>3. \A i \in 1..Len(s) : s[i] \in Range(s) /\ q[i] = s[i]
  BY <1>1, <1>2 DEF Range
<1>4. ASSUME NEW i \in 1..Len(t)
      PROVE  t[i] \in Range(t) /\ q[i + Len(s)] = t[i] /\ i + Len(s) \in 1..Len(q)
  <2>1. t[i] \in Range(t)
    BY <1>2 DEF Range
  <2>2. i + Len(s) \in 1..(Len(s) + Len(t)) /\ ~(i + Len(s) <= Len(s)) /\ i + Len(s) - Len(s) = i
    BY <1>2
  <2> QED BY <2>1, <2>2, <1>1
<1>5. \A i \in 1..Len(q) : i \in 1..Len(s) \/ i - Len(s) \in 1..Len(t)
  BY <1>1, <1>2
<1>6. ASSUME NEW x \in Range(q) PROVE x \in Range(s) \cup Range(t)
  <2>1. PICK i \in 1..Len(q) : x = q[i]
    BY <1>2 DEF Range
  <2>2. CASE i \in 1..Len(s)
    BY <2>1, <2>2, <1>3
  <2>3. CASE i \notin 1..Len(s)
    BY <2>1, <2>3, <1>1, <1>2, <1>4, <1>5
  <2> QED BY <2>2, <2>3
<1>7. ASSUME NEW x \in Range(s) \cup Range(t) PROVE x \in Range(q)
  <2>1. CASE x \in Range(s)
    <3>1. PICK i \in 1..Len(s) : x = s[i]
      BY <2>1, <1>2 DEF Range
    <3>2. q[i] = x /\ i \in DOMAIN q
      BY <3>1, <1>1, <1>2, <1>3
    <3> QED BY <3>2 DEF Range
  <2>2. CASE x \in Range(t)
    <3>1. PICK i \in 1..Len(t) : x = t[i]
      BY <2>2, <1>2 DEF Range
    <3>2. q[i + Len(s)] = x /\ i + Len(s) \in DOMAIN q
      BY <3>1, <1>2, <1>4
    <3> QED BY <3>2 DEF Range
  <2> QED BY <2>1, <2>2
<1>8. ASSUME InOrder(s), InOrder(t), \A x \in Range(s), y \in Range(t) : ~Before(y, x)
      PROVE  InOrder(q)
  <2> SUFFICES ASSUME NEW i \in 1..Len(q), NEW j \in 1..Len(q), Before(q[i], q[j])
               PROVE  i < j
    BY DEF InOrder
  <2>1. CASE i \in 1..Len(s) /\ j \in 1..Len(s)
    BY <2>1, <1>3, <1>8 DEF InOrder
  <2>2. CASE i \in 1..Len(s) /\ j \notin 1..Len(s)
    BY <2>2, <1>1, <1>2
  <2>3. CASE i \notin 1..Len(s) /\ j \in 1..Len(s)
    <3>1. q[i] = t[i - Len(s)] /\ t[i - Len(s)] \in Range(t)
      BY <2>3, <1>1, <1>2, <1>4, <1>5
    <3>2. q[j] \in Range(s)
      BY <2>3, <1>3
    <3> QED BY <3>1, <3>2, <1>8
  <2>4. CASE i \notin 1..Len(s) /\ j \notin 1..Len(s)
    <3>1. /\ i - Len(s) \in 1..Len(t) /\ j - Len(s) \in 1..Len(t)
          /\ q[i] = t[i - Len(s)] /\ q[j] = t[j - Len(s)]
      BY <2>4, <1>1, <1>2, <1>5
    <3>2. i - Len(s) < j - Len(s)
      BY <3>1, <1>8 DEF InOrder
    <3> QED BY <3>2, <1>2, <1>1
  <2> QED BY <2>1, <2>2, <2>3, <2>4
<1> QED BY <1>1, <1>6, <1>7, <1>8 DEF q

LEMMA UnlessPlan ==
  ASSUME NEW S, NEW x, NEW q \in Seq(Steps), InOrder(q)
  PROVE  /\ Unless(S, x, q) \in Seq(Steps) /\ InOrder(Unless(S, x, q))
         /\ Range(Unless(S, x, q)) = IF x \in S THEN {} ELSE Range(q)
BY NoPlan DEF Unless

LEMMA Two ==
  ASSUME NEW x \in Steps, NEW y \in Steps, ~Before(y, x)
  PROVE  <<x, y>> \in Seq(Steps) /\ InOrder(<<x, y>>) /\ Range(<<x, y>>) = {x, y}
<1>1. /\ <<x, y>> \in Seq(Steps) /\ Len(<<x, y>>) = 2 /\ DOMAIN <<x, y>> = 1..2
      /\ <<x, y>>[1] = x /\ <<x, y>>[2] = y
  OBVIOUS
<1>2. ~Before(x, x) /\ ~Before(y, y)
  BY OrderFacts
<1>3. Range(<<x, y>>) = {x, y}
  BY <1>1 DEF Range
<1> QED BY <1>1, <1>2, <1>3 DEF InOrder

\* The steps of a script that makes a registry, in order.
Wiring == {DeployRegistryStep, <<"bind", "vault">>, <<"bind", "gasVault">>,
           <<"set", "ORDER_FILL">>, <<"set", "DCA">>, <<"set", "feeds">>}

LEMMA WirePlan == Wire \in Seq(Steps) /\ InOrder(Wire) /\ Range(Wire) = Wiring
<1>1. /\ Len(Wire) = 6 /\ DOMAIN Wire = 1..6
      /\ Wire[1] = DeployRegistryStep /\ Wire[2] = <<"bind", "vault">>
      /\ Wire[3] = <<"bind", "gasVault">> /\ Wire[4] = <<"set", "ORDER_FILL">>
      /\ Wire[5] = <<"set", "DCA">> /\ Wire[6] = <<"set", "feeds">>
  BY DEF Wire, DeployRegistryStep
<1>2. Wiring \subseteq Steps
  BY OrderFacts DEF Wiring, Kinds
<1>3. Wire \in Seq(Steps)
  BY <1>2 DEF Wire, Wiring, DeployRegistryStep
<1>4. Range(Wire) = Wiring
  BY <1>1 DEF Range, Wiring
<1>5. \A x \in Wiring, y \in Wiring : Before(x, y) => x = DeployRegistryStep /\ y # DeployRegistryStep
  BY DEF Wiring, Before, DeployRegistryStep
<1>6. ASSUME NEW i \in 1..6, NEW j \in 1..6, Before(Wire[i], Wire[j])
      PROVE  i < j
  <2>1. Wire[i] = DeployRegistryStep /\ Wire[j] # DeployRegistryStep
    BY <1>1, <1>4, <1>5, <1>6 DEF Range
  <2>2. i = 1 /\ j # 1
    BY <2>1, <1>1 DEF DeployRegistryStep
  <2> QED BY <2>2
<1> QED BY <1>1, <1>3, <1>4, <1>6 DEF InOrder

\* The head of a plan, done, leaves a plan in which nothing had to come before
\* it.
LEMMA Popped ==
  ASSUME NEW q \in Seq(Steps), q # <<>>
  PROVE  /\ Tail(q) \in Seq(Steps) /\ Head(q) \in Steps
         /\ Range(q) = {Head(q)} \cup Range(Tail(q))
         /\ InOrder(q) => InOrder(Tail(q)) /\ \A y \in Range(Tail(q)) : ~Before(y, Head(q))
<1> DEFINE t == Tail(q)
<1>1. /\ Len(q) \in Nat \ {0} /\ Head(q) = q[1] /\ q[1] \in Steps /\ t \in Seq(Steps)
      /\ Len(t) = Len(q) - 1
      /\ \A i \in 1..Len(t) : t[i] = q[i + 1]
  BY HeadTailProperties, EmptySeq, LenProperties, ElementOfSeq
<1>2. DOMAIN q = 1..Len(q) /\ DOMAIN t = 1..Len(t)
  BY <1>1, LenProperties
<1> HIDE DEF t
<1>3. Range(t) \subseteq Range(q) /\ q[1] \in Range(q)
  BY <1>1, <1>2 DEF Range
<1>4. \A i \in 1..Len(q) : i = 1 \/ (i - 1 \in 1..Len(t) /\ q[i] = t[i - 1])
  BY <1>1
<1>5. Range(q) \subseteq {q[1]} \cup Range(t)
  BY <1>2, <1>4 DEF Range
<1>6. ASSUME InOrder(q) PROVE InOrder(t)
  <2>1. ASSUME NEW i \in 1..Len(t), NEW j \in 1..Len(t), Before(t[i], t[j]) PROVE i < j
    <3>1. i + 1 \in 1..Len(q) /\ j + 1 \in 1..Len(q) /\ Before(q[i + 1], q[j + 1])
      BY <2>1, <1>1
    <3>2. i + 1 < j + 1
      BY <3>1, <1>6 DEF InOrder
    <3> QED BY <3>2
  <2> QED BY <2>1 DEF InOrder
<1>7. ASSUME InOrder(q), NEW y \in Range(t), Before(y, q[1]) PROVE FALSE
  <2>1. PICK i \in 1..Len(t) : y = t[i]
    BY <1>2 DEF Range
  <2>2. i + 1 \in 1..Len(q) /\ 1 \in 1..Len(q) /\ Before(q[i + 1], q[1])
    BY <2>1, <1>1, <1>7
  <2>3. i + 1 < 1
    BY <2>2, <1>7 DEF InOrder
  <2> QED BY <2>3, <1>1
<1> QED BY <1>1, <1>3, <1>5, <1>6, <1>7 DEF t

-----------------------------------------------------------------------------
(* The plans of the five scripts. *)

Makes == {<<"deploy", n>> : n \in Kinds \cup {"vault", "gasVault", "adapter", "mock"}}

\* Deployments other than the registry's may come in any order.
LEMMA MakesInAnyOrder ==
  /\ Makes \subseteq Steps
  /\ \A x \in Makes : x[1] = "deploy" /\ x # DeployRegistryStep
  /\ \A x, y \in Makes : ~Before(x, y)
<1>1. ASSUME NEW x \in Makes
      PROVE  x \in Steps /\ x[1] = "deploy" /\ x # DeployRegistryStep
  <2>1. PICK n \in Kinds \cup {"vault", "gasVault", "adapter", "mock"} : x = <<"deploy", n>>
    BY DEF Makes
  <2>2. n # "registry"
    BY DEF Kinds
  <2> QED BY <2>1, <2>2 DEF Steps, DeployRegistryStep
<1> QED BY <1>1 DEF Before

LEMMA MakePlan ==
  ASSUME NEW S, NEW n \in Kinds \cup {"vault", "gasVault", "adapter", "mock"}
  PROVE  LET u == Unless(S, n, <<<<"deploy", n>>>>)
         IN  /\ u \in Seq(Steps) /\ InOrder(u)
             /\ Range(u) = IF n \in S THEN {} ELSE {<<"deploy", n>>}
<1>1. <<"deploy", n>> \in Steps
  BY DEF Steps
<1> DEFINE q == <<<<"deploy", n>>>>
<1>2. q \in Seq(Steps) /\ Range(q) = {<<"deploy", n>>} /\ InOrder(q)
  BY <1>1, Single
<1> HIDE DEF q
<1>3. /\ Unless(S, n, q) \in Seq(Steps) /\ InOrder(Unless(S, n, q))
      /\ Range(Unless(S, n, q)) = IF n \in S THEN {} ELSE Range(q)
  BY <1>2, UnlessPlan
<1> QED BY <1>2, <1>3 DEF q

LEMMA JoinMakes ==
  ASSUME NEW s \in Seq(Steps), NEW t \in Seq(Steps), InOrder(s), InOrder(t),
         Range(s) \subseteq Makes, Range(t) \subseteq Makes
  PROVE  /\ s \o t \in Seq(Steps) /\ InOrder(s \o t)
         /\ Range(s \o t) = Range(s) \cup Range(t)
         /\ Range(s \o t) \subseteq Makes
BY Join, MakesInAnyOrder

\* Deployments, then a registry with its wiring, then the file.
LEMMA WithWire ==
  ASSUME NEW s \in Seq(Steps), InOrder(s), Range(s) \subseteq Makes,
         NEW n \in {"all", "but feeds"}
  PROVE  /\ s \o Wire \o <<<<"write", n>>>> \in Seq(Steps)
         /\ InOrder(s \o Wire \o <<<<"write", n>>>>)
         /\ Range(s \o Wire \o <<<<"write", n>>>>)
              = Range(s) \cup Wiring \cup {<<"write", n>>}
<1> DEFINE w == <<<<"write", n>>>>
<1>0. ASSUME NEW y \in Wiring
      PROVE  y[1] # "write" /\ (y[1] = "deploy" => y = DeployRegistryStep)
  <2>1. CASE y = DeployRegistryStep
    BY <2>1 DEF DeployRegistryStep
  <2>2. CASE y # DeployRegistryStep
    <3>1. \/ y = <<"bind", "vault">> \/ y = <<"bind", "gasVault">>
          \/ y = <<"set", "ORDER_FILL">> \/ y = <<"set", "DCA">> \/ y = <<"set", "feeds">>
      BY <2>2 DEF Wiring
    <3>2. \A v, m : <<v, m>>[1] = v
      OBVIOUS
    <3>3. y[1] = "bind" \/ y[1] = "set"
      BY <3>1, <3>2, Zenon
    <3> QED BY <3>3
  <2> QED BY <2>1, <2>2
<1>1. ASSUME NEW x \in Makes, NEW y \in Wiring PROVE ~Before(y, x)
  <2>1. x[1] = "deploy"
    BY MakesInAnyOrder
  <2>2. y[1] # "deploy" \/ y = DeployRegistryStep
    BY <1>0
  <2> QED BY <2>1, <2>2 DEF Before
<1>2. s \o Wire \in Seq(Steps) /\ InOrder(s \o Wire) /\ Range(s \o Wire) = Range(s) \cup Wiring
  BY <1>1, WirePlan, Join
<1>3. <<"write", n>> \in Steps /\ \A x \in Makes \cup Wiring : ~Before(<<"write", n>>, x)
  BY <1>0, MakesInAnyOrder DEF Steps, Before, DeployRegistryStep
<1>4. w \in Seq(Steps) /\ InOrder(w) /\ Range(w) = {<<"write", n>>}
  BY <1>3, Single
<1> HIDE DEF w
<1>5. \A x \in Range(s \o Wire), y \in Range(w) : ~Before(y, x)
  BY <1>2, <1>3, <1>4
<1>6. /\ s \o Wire \o w \in Seq(Steps) /\ InOrder(s \o Wire \o w)
      /\ Range(s \o Wire \o w) = Range(s) \cup Wiring \cup {<<"write", n>>}
  BY <1>2, <1>4, <1>5, Join
<1> QED BY <1>6 DEF w

\* What deploy.ts deploys besides the registry.
Five == {"ORDER_FILL", "DCA", "adapter", "vault", "gasVault"}

LEMMA DeployPlan ==
  ASSUME NEW reuse
  PROVE  LET plan == Unless(reuse, "ORDER_FILL", <<<<"deploy", "ORDER_FILL">>>>)
                     \o Unless(reuse, "DCA", <<<<"deploy", "DCA">>>>)
                     \o Unless(reuse, "adapter", <<<<"deploy", "adapter">>>>)
                     \o Unless(reuse, "vault", <<<<"deploy", "vault">>>>)
                     \o Unless(reuse, "gasVault", <<<<"deploy", "gasVault">>>>)
                     \o Wire \o <<<<"write", "all">>>>
         IN  /\ plan \in Seq(Steps) /\ InOrder(plan)
             /\ Range(plan) = {<<"deploy", n>> : n \in Five \ reuse} \cup Wiring
                                \cup {<<"write", "all">>}
<1> DEFINE u(n) == Unless(reuse, n, <<<<"deploy", n>>>>)
           D(n) == IF n \in reuse THEN {} ELSE {<<"deploy", n>>}
           p1 == u("ORDER_FILL")
           p2 == p1 \o u("DCA")
           p3 == p2 \o u("adapter")
           p4 == p3 \o u("vault")
           p5 == p4 \o u("gasVault")
<1>1. ASSUME NEW n \in Five
      PROVE  /\ u(n) \in Seq(Steps) /\ InOrder(u(n)) /\ Range(u(n)) = D(n)
             /\ D(n) \subseteq Makes
  <2>1. n \in Kinds \cup {"vault", "gasVault", "adapter", "mock"}
    BY DEF Five, Kinds
  <2>2. <<"deploy", n>> \in Makes
    BY <2>1 DEF Makes
  <2> QED BY <2>1, <2>2, MakePlan
<1>2. Five = {"ORDER_FILL", "DCA", "adapter", "vault", "gasVault"}
  BY DEF Five
<1> HIDE DEF u, D
<1>3. /\ p1 \in Seq(Steps) /\ InOrder(p1) /\ Range(p1) \subseteq Makes
      /\ Range(p1) = D("ORDER_FILL")
  BY <1>1, <1>2
<1> HIDE DEF p1
<1>4. /\ p2 \in Seq(Steps) /\ InOrder(p2) /\ Range(p2) \subseteq Makes
      /\ Range(p2) = D("ORDER_FILL") \cup D("DCA")
  <2>1. /\ u("DCA") \in Seq(Steps) /\ InOrder(u("DCA"))
        /\ Range(u("DCA")) = D("DCA") /\ Range(u("DCA")) \subseteq Makes
    BY <1>1, <1>2
  <2> QED BY <2>1, <1>3, JoinMakes
<1> HIDE DEF p2
<1>5. /\ p3 \in Seq(Steps) /\ InOrder(p3) /\ Range(p3) \subseteq Makes
      /\ Range(p3) = D("ORDER_FILL") \cup D("DCA") \cup D("adapter")
  <2>1. /\ u("adapter") \in Seq(Steps) /\ InOrder(u("adapter"))
        /\ Range(u("adapter")) = D("adapter") /\ Range(u("adapter")) \subseteq Makes
    BY <1>1, <1>2
  <2> QED BY <2>1, <1>4, JoinMakes
<1> HIDE DEF p3
<1>6. /\ p4 \in Seq(Steps) /\ InOrder(p4) /\ Range(p4) \subseteq Makes
      /\ Range(p4) = D("ORDER_FILL") \cup D("DCA") \cup D("adapter") \cup D("vault")
  <2>1. /\ u("vault") \in Seq(Steps) /\ InOrder(u("vault"))
        /\ Range(u("vault")) = D("vault") /\ Range(u("vault")) \subseteq Makes
    BY <1>1, <1>2
  <2> QED BY <2>1, <1>5, JoinMakes
<1> HIDE DEF p4
<1>7. /\ p5 \in Seq(Steps) /\ InOrder(p5) /\ Range(p5) \subseteq Makes
      /\ Range(p5) = D("ORDER_FILL") \cup D("DCA") \cup D("adapter") \cup D("vault")
                       \cup D("gasVault")
  <2>1. /\ u("gasVault") \in Seq(Steps) /\ InOrder(u("gasVault"))
        /\ Range(u("gasVault")) = D("gasVault") /\ Range(u("gasVault")) \subseteq Makes
    BY <1>1, <1>2
  <2> QED BY <2>1, <1>6, JoinMakes
<1>8. Range(p5) = {<<"deploy", n>> : n \in Five \ reuse}
  BY <1>7, <1>2 DEF D
<1> HIDE DEF p5
<1>9. LET plan == p5 \o Wire \o <<<<"write", "all">>>>
      IN  /\ plan \in Seq(Steps) /\ InOrder(plan)
          /\ Range(plan) = {<<"deploy", n>> : n \in Five \ reuse} \cup Wiring
                             \cup {<<"write", "all">>}
  BY <1>7, <1>8, WithWire
<1> QED BY <1>9 DEF p5, p4, p3, p2, p1, u

LEMMA RedeployPlan ==
  ASSUME NEW skip
  PROVE  LET plan == Unless(skip, "vault", <<<<"deploy", "vault">>>>)
                     \o Unless(skip, "gasVault", <<<<"deploy", "gasVault">>>>)
                     \o Wire \o <<<<"write", "but feeds">>>>
         IN  /\ plan \in Seq(Steps) /\ InOrder(plan)
             /\ Range(plan) = {<<"deploy", n>> : n \in {"vault", "gasVault"} \ skip}
                                \cup Wiring \cup {<<"write", "but feeds">>}
<1> DEFINE u(n) == Unless(skip, n, <<<<"deploy", n>>>>)
           p == u("vault") \o u("gasVault")
<1>1. ASSUME NEW n \in {"vault", "gasVault"}
      PROVE  /\ u(n) \in Seq(Steps) /\ InOrder(u(n)) /\ Range(u(n)) \subseteq Makes
             /\ Range(u(n)) = IF n \in skip THEN {} ELSE {<<"deploy", n>>}
  <2>1. <<"deploy", n>> \in Makes /\ n \in Kinds \cup {"vault", "gasVault", "adapter", "mock"}
    BY DEF Makes
  <2>2. /\ u(n) \in Seq(Steps) /\ InOrder(u(n))
        /\ Range(u(n)) = IF n \in skip THEN {} ELSE {<<"deploy", n>>}
    BY <2>1, MakePlan
  <2>3. Range(u(n)) \subseteq Makes
    BY <2>1, <2>2
  <2> QED BY <2>2, <2>3
<1> HIDE DEF u
<1>2. /\ p \in Seq(Steps) /\ InOrder(p) /\ Range(p) \subseteq Makes
      /\ Range(p) = Range(u("vault")) \cup Range(u("gasVault"))
  BY <1>1, JoinMakes
<1>3. Range(p) = {<<"deploy", n>> : n \in {"vault", "gasVault"} \ skip}
  BY <1>1, <1>2
<1> HIDE DEF p
<1>4. LET plan == p \o Wire \o <<<<"write", "but feeds">>>>
      IN  /\ plan \in Seq(Steps) /\ InOrder(plan)
          /\ Range(plan) = {<<"deploy", n>> : n \in {"vault", "gasVault"} \ skip} \cup Wiring
                             \cup {<<"write", "but feeds">>}
  BY <1>2, <1>3, WithWire
<1> QED BY <1>4 DEF p, u

\* A kind's verifier is deployed and set; the file is last.
LEMMA VerifiersPlan ==
  ASSUME NEW skip
  PROVE  LET plan == Unless(skip, "ORDER_FILL",
                            <<<<"deploy", "ORDER_FILL">>, <<"set", "ORDER_FILL">>>>)
                     \o Unless(skip, "DCA", <<<<"deploy", "DCA">>, <<"set", "DCA">>>>)
                     \o <<<<"write", "but feeds">>>>
         IN  /\ plan \in Seq(Steps) /\ InOrder(plan)
             /\ Range(plan) = {<<"deploy", k>> : k \in Kinds \ skip}
                                \cup {<<"set", k>> : k \in Kinds \ skip}
                                \cup {<<"write", "but feeds">>}
<1> DEFINE q(k) == <<<<"deploy", k>>, <<"set", k>>>>
           u(k) == Unless(skip, k, q(k))
           D(k) == IF k \in skip THEN {} ELSE {<<"deploy", k>>, <<"set", k>>}
           p == u("ORDER_FILL") \o u("DCA")
           w == <<<<"write", "but feeds">>>>
<1>1. ASSUME NEW k \in Kinds
      PROVE  /\ u(k) \in Seq(Steps) /\ InOrder(u(k)) /\ Range(u(k)) = D(k)
             /\ D(k) \subseteq Steps
  <2>1. <<"deploy", k>> \in Steps /\ <<"set", k>> \in Steps
    BY OrderFacts
  <2>2. ~Before(<<"set", k>>, <<"deploy", k>>)
    BY DEF Before, DeployRegistryStep
  <2>3. q(k) \in Seq(Steps) /\ InOrder(q(k)) /\ Range(q(k)) = {<<"deploy", k>>, <<"set", k>>}
    BY <2>1, <2>2, Two
  <2> HIDE DEF q
  <2> QED BY <2>1, <2>3, UnlessPlan
<1> HIDE DEF q, u
<1>2. \A x \in D("ORDER_FILL"), y \in D("DCA") : ~Before(y, x)
  BY DEF Before, DeployRegistryStep
<1>3. \A x \in D("ORDER_FILL") \cup D("DCA") : ~Before(<<"write", "but feeds">>, x)
  BY DEF Before, DeployRegistryStep
<1>4. w \in Seq(Steps) /\ InOrder(w) /\ Range(w) = {<<"write", "but feeds">>}
  BY OrderFacts, Single
<1>5. {<<"deploy", k>> : k \in Kinds \ skip} \cup {<<"set", k>> : k \in Kinds \ skip}
        = D("ORDER_FILL") \cup D("DCA")
  BY DEF Kinds
<1> HIDE DEF D, w
<1>6. /\ p \in Seq(Steps) /\ InOrder(p) /\ Range(p) = D("ORDER_FILL") \cup D("DCA")
  BY <1>1, <1>2, Join DEF Kinds
<1> HIDE DEF p
<1>7. /\ p \o w \in Seq(Steps) /\ InOrder(p \o w)
      /\ Range(p \o w) = D("ORDER_FILL") \cup D("DCA") \cup {<<"write", "but feeds">>}
  BY <1>3, <1>4, <1>6, Join
<1> QED BY <1>5, <1>7 DEF p, w, u, q

\* A mock is deployed, put in place of the verifiers not skipped, and the file
\* written unless there are none.
LEMMA MockPlan ==
  ASSUME NEW skip \in SUBSET Kinds
  PROVE  LET plan == <<<<"deploy", "mock">>>>
                     \o Unless(skip, "ORDER_FILL", <<<<"mock", "ORDER_FILL">>>>)
                     \o Unless(skip, "DCA", <<<<"mock", "DCA">>>>)
                     \o (IF skip = Kinds THEN <<>> ELSE <<<<"write", "but feeds">>>>)
         IN  /\ plan \in Seq(Steps) /\ InOrder(plan)
             /\ Range(plan) \subseteq {<<"deploy", "mock">>, <<"mock", "ORDER_FILL">>,
                                       <<"mock", "DCA">>, <<"write", "but feeds">>}
             /\ <<"deploy", "mock">> \in Range(plan)
<1> DEFINE u(k) == Unless(skip, k, <<<<"mock", k>>>>)
           m == <<<<"deploy", "mock">>>>
           p2 == m \o u("ORDER_FILL")
           p3 == p2 \o u("DCA")
           w == IF skip = Kinds THEN <<>> ELSE <<<<"write", "but feeds">>>>
<1>1. ASSUME NEW k \in Kinds
      PROVE  /\ u(k) \in Seq(Steps) /\ InOrder(u(k)) /\ Range(u(k)) \subseteq {<<"mock", k>>}
  <2> DEFINE q == <<<<"mock", k>>>>
  <2>1. q \in Seq(Steps) /\ InOrder(q) /\ Range(q) = {<<"mock", k>>}
    BY OrderFacts, Single
  <2> HIDE DEF q
  <2>2. /\ Unless(skip, k, q) \in Seq(Steps) /\ InOrder(Unless(skip, k, q))
        /\ Range(Unless(skip, k, q)) = IF k \in skip THEN {} ELSE Range(q)
    BY <2>1, UnlessPlan
  <2> QED BY <2>1, <2>2 DEF q
<1>2. m \in Seq(Steps) /\ InOrder(m) /\ Range(m) = {<<"deploy", "mock">>}
  BY OrderFacts, Single
<1>3. w \in Seq(Steps) /\ InOrder(w) /\ Range(w) \subseteq {<<"write", "but feeds">>}
  BY OrderFacts, Single, NoPlan
<1> HIDE DEF u, m, w
<1>4. \A x \in {<<"deploy", "mock">>, <<"mock", "ORDER_FILL">>, <<"mock", "DCA">>} :
        /\ ~Before(<<"write", "but feeds">>, x)
        /\ ~Before(<<"mock", "ORDER_FILL">>, x) /\ ~Before(<<"mock", "DCA">>, x)
  BY DEF Before, DeployRegistryStep
<1>5. /\ p2 \in Seq(Steps) /\ InOrder(p2) /\ <<"deploy", "mock">> \in Range(p2)
      /\ Range(p2) \subseteq {<<"deploy", "mock">>, <<"mock", "ORDER_FILL">>}
  <2>1. /\ u("ORDER_FILL") \in Seq(Steps) /\ InOrder(u("ORDER_FILL"))
        /\ Range(u("ORDER_FILL")) \subseteq {<<"mock", "ORDER_FILL">>}
    BY <1>1 DEF Kinds
  <2>2. \A x \in Range(m), y \in Range(u("ORDER_FILL")) : ~Before(y, x)
    BY <1>2, <1>4, <2>1
  <2>3. p2 \in Seq(Steps) /\ InOrder(p2) /\ Range(p2) = Range(m) \cup Range(u("ORDER_FILL"))
    BY <1>2, <2>1, <2>2, Join
  <2> QED BY <1>2, <2>1, <2>3
<1> HIDE DEF p2
<1>6. /\ p3 \in Seq(Steps) /\ InOrder(p3) /\ <<"deploy", "mock">> \in Range(p3)
      /\ Range(p3) \subseteq {<<"deploy", "mock">>, <<"mock", "ORDER_FILL">>, <<"mock", "DCA">>}
  <2>1. /\ u("DCA") \in Seq(Steps) /\ InOrder(u("DCA"))
        /\ Range(u("DCA")) \subseteq {<<"mock", "DCA">>}
    BY <1>1 DEF Kinds
  <2>2. \A x \in Range(p2), y \in Range(u("DCA")) : ~Before(y, x)
    BY <1>4, <1>5, <2>1
  <2>3. p3 \in Seq(Steps) /\ InOrder(p3) /\ Range(p3) = Range(p2) \cup Range(u("DCA"))
    BY <1>5, <2>1, <2>2, Join
  <2> QED BY <1>5, <2>1, <2>3
<1> HIDE DEF p3
<1>7. /\ p3 \o w \in Seq(Steps) /\ InOrder(p3 \o w)
      /\ Range(p3 \o w) = Range(p3) \cup Range(w)
  <2>1. \A x \in Range(p3), y \in Range(w) : ~Before(y, x)
    BY <1>3, <1>4, <1>6
  <2> QED BY <2>1, <1>3, <1>6, Join
<1>8. LET plan == p3 \o w
      IN  /\ plan \in Seq(Steps) /\ InOrder(plan)
          /\ Range(plan) \subseteq {<<"deploy", "mock">>, <<"mock", "ORDER_FILL">>,
                                    <<"mock", "DCA">>, <<"write", "but feeds">>}
          /\ <<"deploy", "mock">> \in Range(plan)
  BY <1>3, <1>6, <1>7
<1> QED BY <1>8 DEF p3, p2, m, u, w

LEMMA FeeTierPlan ==
  LET plan == <<<<"deploy", "adapter">>, <<"set", "adapter">>, <<"write", "but feeds">>>>
  IN  /\ plan \in Seq(Steps) /\ InOrder(plan)
      /\ Range(plan) = {<<"deploy", "adapter">>, <<"set", "adapter">>, <<"write", "but feeds">>}
<1> DEFINE x == <<"deploy", "adapter">>
           y == <<"set", "adapter">>
           z == <<"write", "but feeds">>
<1>1. x \in Steps /\ y \in Steps /\ z \in Steps
  BY OrderFacts
<1>2. ~Before(y, x) /\ ~Before(z, x) /\ ~Before(z, y)
  BY DEF Before, DeployRegistryStep
<1>3. ~Before(x, x) /\ ~Before(y, y) /\ ~Before(z, z)
  BY <1>1, OrderFacts
<1> HIDE DEF x, y, z
<1> DEFINE p == <<x, y, z>>
<1>4. /\ p \in Seq(Steps) /\ Len(p) = 3 /\ DOMAIN p = 1..3
      /\ p[1] = x /\ p[2] = y /\ p[3] = z
  BY <1>1
<1> HIDE DEF p
<1>5. ASSUME NEW i \in 1..3, NEW j \in 1..3, Before(p[i], p[j])
      PROVE  i < j
  <2>1. (i = 1 \/ i = 2 \/ i = 3) /\ (j = 1 \/ j = 2 \/ j = 3)
    OBVIOUS
  <2> QED BY <2>1, <1>2, <1>3, <1>4, <1>5
<1>6. InOrder(p)
  BY <1>4, <1>5 DEF InOrder
<1>7. Range(p) = {x, y, z}
  BY <1>4 DEF Range
<1> QED BY <1>4, <1>6, <1>7 DEF p, x, y, z

-----------------------------------------------------------------------------
(* Launches: the invariant holds of every script when it starts. *)

LEMMA Named == \A x, v, n : x = <<v, n>> => x[1] = v /\ x[2] = n
OBVIOUS

\* The steps of a script that makes a registry.
LEMMA MakesRegistry ==
  ASSUME NEW X \in SUBSET Five, NEW w \in {"all", "but feeds"}, NEW S,
         S = {<<"deploy", n>> : n \in X} \cup Wiring \cup {<<"write", w>>}
  PROVE  /\ Complete(S)
         /\ <<"deploy", "registry">> \in S
         /\ \A n \in X : <<"deploy", n>> \in S
         /\ <<"bind", "vault">> \in S /\ <<"bind", "gasVault">> \in S
         /\ \A x \in Kinds \cup {"feeds"} : <<"set", x>> \in S
         /\ <<"set", "adapter">> \notin S
         /\ \A k \in Kinds : <<"mock", k>> \notin S
<1>1. Wiring \subseteq S
  BY Zenon
<1>2. /\ <<"deploy", "registry">> \in S
      /\ <<"bind", "vault">> \in S /\ <<"bind", "gasVault">> \in S
      /\ <<"set", "ORDER_FILL">> \in S /\ <<"set", "DCA">> \in S /\ <<"set", "feeds">> \in S
  BY <1>1 DEF Wiring, DeployRegistryStep
<1>3. \A x \in Kinds \cup {"feeds"} : <<"set", x>> \in S
  BY <1>2 DEF Kinds
<1>4. ASSUME NEW x \in S
      PROVE  x[1] # "mock" /\ (x[1] = "set" => x[2] # "adapter")
  <2>1. CASE x \in {<<"deploy", m>> : m \in X}
    <3>1. PICK m \in X : x = <<"deploy", m>>
      BY <2>1
    <3> QED BY <3>1
  <2>2. CASE x \in Wiring
    <3>1. \/ x = <<"deploy", "registry">> \/ x = <<"bind", "vault">>
          \/ x = <<"bind", "gasVault">> \/ x = <<"set", "ORDER_FILL">>
          \/ x = <<"set", "DCA">> \/ x = <<"set", "feeds">>
      BY <2>2 DEF Wiring, DeployRegistryStep
    <3>2. /\ x = <<"deploy", "registry">> => x[1] = "deploy"
          /\ x = <<"bind", "vault">> => x[1] = "bind"
          /\ x = <<"bind", "gasVault">> => x[1] = "bind"
          /\ x = <<"set", "ORDER_FILL">> => x[1] = "set" /\ x[2] = "ORDER_FILL"
          /\ x = <<"set", "DCA">> => x[1] = "set" /\ x[2] = "DCA"
          /\ x = <<"set", "feeds">> => x[1] = "set" /\ x[2] = "feeds"
      BY Named, Zenon
    <3> QED BY <3>1, <3>2
  <2>3. CASE x = <<"write", w>>
    BY <2>3
  <2> QED BY <2>1, <2>2, <2>3
<1>5. <<"set", "adapter">> \notin S
  BY <1>4
<1>6. \A k \in Kinds : <<"mock", k>> \notin S
  BY <1>4
<1>7. Complete(S)
  BY <1>2, <1>3 DEF Complete, DeployRegistryStep
<1> QED BY <1>2, <1>3, <1>5, <1>6, <1>7

\* A launch changes nothing but the script.
LEMMA Launched ==
  ASSUME TypeOK, WiringInv, NEW d \in Deployment, NEW f \in Feeds \cup {NoFile},
         NEW q \in Seq(Steps), Launch(d, f, q)
  PROVE  /\ TypeOK' /\ ArtifactExists' /\ ArtifactTrue' /\ VaultsExist'
         /\ script'.todo = q /\ script'.draft = d /\ script'.feeds = f /\ Ahead' = Range(q)
<1>1. script' = [todo |-> q, draft |-> d, feeds |-> f]
  BY DEF Launch
<1>2. script'.todo = q /\ script'.draft = d /\ script'.feeds = f /\ Ahead' = Range(q)
  BY <1>1 DEF Ahead
<1>3. UNCHANGED <<registries, vaults, gasVaults, made, artifact, returning>>
  BY DEF Launch, chainVars
<1>4. TypeOK'
  BY <1>1, <1>3 DEF TypeOK
<1>5. ArtifactExists' /\ ArtifactTrue' /\ VaultsExist'
  BY <1>3 DEF WiringInv, ArtifactExists, ArtifactTrue, VaultsExist, Known, Obeys
<1> QED BY <1>2, <1>4, <1>5

LEMMA ArtifactTyped ==
  ASSUME TypeOK, artifact # NoFile
  PROVE  artifact \in Deployment
BY DEF TypeOK

\* A script that makes a registry starts well if its draft knows only what
\* exists.
LEMMA RegistryLaunched ==
  ASSUME TypeOK, WiringInv, NEW d \in Deployment, NEW f \in Feeds,
         NEW q \in Seq(Steps), InOrder(q), Launch(d, f, q),
         NEW X \in SUBSET Five, NEW w \in {"all", "but feeds"},
         Range(q) = {<<"deploy", n>> : n \in X} \cup Wiring \cup {<<"write", w>>},
         "vault" \in X \/ d.vault \in DOMAIN vaults,
         "gasVault" \in X \/ d.gasVault \in DOMAIN gasVaults,
         Known(d)
  PROVE  TypeOK' /\ WiringInv'
<1> DEFINE S == Range(q)
<1>1. /\ TypeOK' /\ ArtifactExists' /\ ArtifactTrue' /\ VaultsExist'
      /\ script'.todo = q /\ script'.draft = d /\ script'.feeds = f /\ Ahead' = S
  BY Launched
<1>2. /\ Complete(S)
      /\ <<"deploy", "registry">> \in S
      /\ \A n \in X : <<"deploy", n>> \in S
      /\ <<"bind", "vault">> \in S /\ <<"bind", "gasVault">> \in S
      /\ \A x \in Kinds \cup {"feeds"} : <<"set", x>> \in S
      /\ <<"set", "adapter">> \notin S
      /\ \A k \in Kinds : <<"mock", k>> \notin S
  BY MakesRegistry
<1> HIDE DEF S
<1>3. UNCHANGED <<registries, vaults, gasVaults, made, artifact>>
  BY DEF Launch, chainVars
<1>4. PlanSound'
  BY <1>1, <1>2 DEF PlanSound
<1>5. DraftExists'
  BY <1>1, <1>2, <1>3 DEF DraftExists, Todo, draft
<1>6. Known(d)'
  BY <1>3 DEF Known
<1>7. DraftTrue'
  BY <1>1, <1>2, <1>3, <1>6, MigrationAssumption DEF DraftTrue, Todo, draft, Known
<1>8. OnlyNewer'
  BY <1>1, <1>2 DEF OnlyNewer, Todo
<1> QED BY <1>1, <1>4, <1>5, <1>7, <1>8 DEF WiringInv

\* A script that changes the registry of the artifact starts well if it first
\* deploys what it sets.
LEMMA ChangeLaunched ==
  ASSUME TypeOK, WiringInv, artifact # NoFile,
         NEW q \in Seq(Steps), InOrder(q), Launch(artifact, NoFile, q),
         <<"deploy", "registry">> \notin Range(q), <<"deploy", "vault">> \notin Range(q),
         <<"deploy", "gasVault">> \notin Range(q), <<"bind", "vault">> \notin Range(q),
         <<"bind", "gasVault">> \notin Range(q), <<"set", "feeds">> \notin Range(q),
         <<"set", "adapter">> \in Range(q) <=> <<"deploy", "adapter">> \in Range(q),
         \A k \in Kinds : /\ <<"set", k>> \in Range(q) <=> <<"deploy", k>> \in Range(q)
                          /\ <<"mock", k>> \in Range(q) => <<"deploy", "mock">> \in Range(q)
  PROVE  TypeOK' /\ WiringInv'
<1> DEFINE S == Range(q)
<1>1. /\ TypeOK' /\ ArtifactExists' /\ ArtifactTrue' /\ VaultsExist'
      /\ script'.todo = q /\ script'.draft = artifact /\ Ahead' = S
  BY Launched, ArtifactTyped
<1>2. UNCHANGED <<registries, vaults, gasVaults, made, artifact>>
  BY DEF Launch, chainVars
<1>3. PlanSound'
  BY <1>1 DEF PlanSound, Complete, DeployRegistryStep
<1>4. /\ artifact.vault \in DOMAIN vaults /\ artifact.gasVault \in DOMAIN gasVaults
      /\ artifact.registry \in DOMAIN registries /\ Known(artifact)
      /\ registries[artifact.registry].vault = artifact.vault
      /\ registries[artifact.registry].gasVault = artifact.gasVault
      /\ registries[artifact.registry].feeds # NoFile
      /\ VaultObeys(artifact) /\ GasVaultObeys(artifact) /\ AdapterTrue(artifact)
      /\ \A k \in Kinds : VerifierTrue(artifact, k)
  BY DEF WiringInv, ArtifactExists, ArtifactTrue, VaultObeys, GasVaultObeys, AdapterTrue,
         VerifierTrue
<1>5. DraftExists'
  BY <1>1, <1>2, <1>4 DEF DraftExists, Todo, draft, Configured
<1>6. DraftTrue'
  BY <1>1, <1>2, <1>4 DEF DraftTrue, Todo, draft, Configured, Known, VaultObeys,
     GasVaultObeys, AdapterTrue, VerifierTrue, Obeys
<1>7. OnlyNewer'
  BY <1>1 DEF OnlyNewer, Todo
<1> QED BY <1>1, <1>3, <1>5, <1>6, <1>7 DEF WiringInv

LEMMA LaunchDeploy ==
  ASSUME TypeOK, WiringInv, NEW reuse, NEW f \in Feeds, Deploy(reuse, f)
  PROVE  TypeOK' /\ WiringInv'
<1> DEFINE old == IF artifact = NoFile THEN Blank ELSE artifact
           kept == [old EXCEPT !.verifiers = [k \in Kinds |-> IF k \in reuse THEN @[k] ELSE 0],
                               !.mock = 0]
           plan == Unless(reuse, "ORDER_FILL", <<<<"deploy", "ORDER_FILL">>>>)
                   \o Unless(reuse, "DCA", <<<<"deploy", "DCA">>>>)
                   \o Unless(reuse, "adapter", <<<<"deploy", "adapter">>>>)
                   \o Unless(reuse, "vault", <<<<"deploy", "vault">>>>)
                   \o Unless(reuse, "gasVault", <<<<"deploy", "gasVault">>>>)
                   \o Wire \o <<<<"write", "all">>>>
<1>1. (reuse # {} => artifact # NoFile) /\ Launch(kept, f, plan)
  BY DEF Deploy
<1>2. /\ plan \in Seq(Steps) /\ InOrder(plan)
      /\ Range(plan) = {<<"deploy", n>> : n \in Five \ reuse} \cup Wiring
                         \cup {<<"write", "all">>}
  BY DeployPlan
<1>3. 0 \in Number /\ 0 \in Verifier /\ \A x \in Kinds \cup {"adapter"} : 0 <= made[x]
  BY MigrationAssumption DEF TypeOK, Number, Verifier, Kinds
<1>4. Blank \in Deployment
  BY <1>3 DEF Blank, Deployment
<1>5. old \in Deployment
  BY <1>4, ArtifactTyped
<1>6. Known(old)
  BY <1>3 DEF WiringInv, ArtifactExists, Known, Blank
<1>7. artifact # NoFile => old.vault \in DOMAIN vaults /\ old.gasVault \in DOMAIN gasVaults
  BY DEF WiringInv, ArtifactExists
<1> HIDE DEF old
<1>8. /\ kept \in Deployment
      /\ kept.vault = old.vault /\ kept.gasVault = old.gasVault /\ kept.adapter = old.adapter
      /\ \A k \in Kinds : kept.verifiers[k] = IF k \in reuse THEN old.verifiers[k] ELSE 0
  BY <1>3, <1>5 DEF Deployment
<1> HIDE DEF kept, plan
<1>9. Known(kept)
  BY <1>3, <1>6, <1>8 DEF Known
<1>10. /\ "vault" \in Five \ reuse \/ kept.vault \in DOMAIN vaults
       /\ "gasVault" \in Five \ reuse \/ kept.gasVault \in DOMAIN gasVaults
  BY <1>1, <1>7, <1>8 DEF Five
<1> QED BY <1>1, <1>2, <1>8, <1>9, <1>10, RegistryLaunched

LEMMA LaunchRedeployRegistry ==
  ASSUME TypeOK, WiringInv, NEW skip, NEW env \in Feeds \cup {NoFile},
         RedeployRegistry(skip, env)
  PROVE  TypeOK' /\ WiringInv'
<1> DEFINE plan == Unless(skip, "vault", <<<<"deploy", "vault">>>>)
                   \o Unless(skip, "gasVault", <<<<"deploy", "gasVault">>>>)
                   \o Wire \o <<<<"write", "but feeds">>>>
           X == {"vault", "gasVault"} \ skip
<1>1. artifact # NoFile /\ FeedsFor(env) # NoFile /\ Launch(artifact, FeedsFor(env), plan)
  BY DEF RedeployRegistry
<1>2. /\ plan \in Seq(Steps) /\ InOrder(plan)
      /\ Range(plan) = {<<"deploy", n>> : n \in X} \cup Wiring \cup {<<"write", "but feeds">>}
  BY RedeployPlan
<1> HIDE DEF plan
<1>3. artifact \in Deployment /\ FeedsFor(env) \in Feeds
  BY <1>1, ArtifactTyped DEF FeedsFor, Deployment
<1>4. /\ artifact.vault \in DOMAIN vaults /\ artifact.gasVault \in DOMAIN gasVaults
      /\ Known(artifact)
  BY <1>1 DEF WiringInv, ArtifactExists
<1>5. X \in SUBSET Five
  BY DEF Five
<1> HIDE DEF X
<1> QED BY <1>1, <1>2, <1>3, <1>4, <1>5, RegistryLaunched

LEMMA LaunchRedeployVerifiers ==
  ASSUME TypeOK, WiringInv, NEW skip, RedeployVerifiers(skip)
  PROVE  TypeOK' /\ WiringInv'
<1> DEFINE plan == Unless(skip, "ORDER_FILL",
                          <<<<"deploy", "ORDER_FILL">>, <<"set", "ORDER_FILL">>>>)
                   \o Unless(skip, "DCA", <<<<"deploy", "DCA">>, <<"set", "DCA">>>>)
                   \o <<<<"write", "but feeds">>>>
<1>1. artifact # NoFile /\ Launch(artifact, NoFile, plan)
  BY DEF RedeployVerifiers
<1>2. /\ plan \in Seq(Steps) /\ InOrder(plan)
      /\ Range(plan) = {<<"deploy", k>> : k \in Kinds \ skip}
                         \cup {<<"set", k>> : k \in Kinds \ skip}
                         \cup {<<"write", "but feeds">>}
  BY VerifiersPlan
<1> HIDE DEF plan
<1>3. ASSUME NEW x \in Range(plan)
      PROVE  x[1] \in {"deploy", "set", "write"} /\ (x[1] # "write" => x[2] \in Kinds \ skip)
  <2>1. CASE x \in {<<"deploy", k>> : k \in Kinds \ skip}
    <3>1. PICK k \in Kinds \ skip : x = <<"deploy", k>>
      BY <2>1
    <3> QED BY <3>1
  <2>2. CASE x \in {<<"set", k>> : k \in Kinds \ skip}
    <3>1. PICK k \in Kinds \ skip : x = <<"set", k>>
      BY <2>2
    <3> QED BY <3>1
  <2>3. CASE x = <<"write", "but feeds">>
    BY <2>3
  <2> QED BY <1>2, <2>1, <2>2, <2>3
<1>4. /\ <<"deploy", "registry">> \notin Range(plan) /\ <<"deploy", "vault">> \notin Range(plan)
      /\ <<"deploy", "gasVault">> \notin Range(plan) /\ <<"bind", "vault">> \notin Range(plan)
      /\ <<"bind", "gasVault">> \notin Range(plan) /\ <<"set", "feeds">> \notin Range(plan)
      /\ <<"set", "adapter">> \notin Range(plan) /\ <<"deploy", "adapter">> \notin Range(plan)
  BY <1>3 DEF Kinds
<1>5. ASSUME NEW k \in Kinds
      PROVE  /\ <<"set", k>> \in Range(plan) <=> <<"deploy", k>> \in Range(plan)
             /\ <<"mock", k>> \notin Range(plan)
  <2>1. k \in skip => <<"set", k>> \notin Range(plan) /\ <<"deploy", k>> \notin Range(plan)
    BY <1>3
  <2>2. k \notin skip => <<"set", k>> \in Range(plan) /\ <<"deploy", k>> \in Range(plan)
    BY <1>2
  <2>3. <<"mock", k>> \notin Range(plan)
    BY <1>3
  <2> QED BY <2>1, <2>2, <2>3
<1> QED BY <1>1, <1>2, <1>4, <1>5, ChangeLaunched

LEMMA LaunchSwapToMock ==
  ASSUME TypeOK, WiringInv, NEW skip \in SUBSET Kinds, SwapToMock(skip)
  PROVE  TypeOK' /\ WiringInv'
<1> DEFINE plan == <<<<"deploy", "mock">>>>
                   \o Unless(skip, "ORDER_FILL", <<<<"mock", "ORDER_FILL">>>>)
                   \o Unless(skip, "DCA", <<<<"mock", "DCA">>>>)
                   \o (IF skip = Kinds THEN <<>> ELSE <<<<"write", "but feeds">>>>)
<1>1. artifact # NoFile /\ Launch(artifact, NoFile, plan)
  BY DEF SwapToMock
<1>2. /\ plan \in Seq(Steps) /\ InOrder(plan)
      /\ Range(plan) \subseteq {<<"deploy", "mock">>, <<"mock", "ORDER_FILL">>,
                                <<"mock", "DCA">>, <<"write", "but feeds">>}
      /\ <<"deploy", "mock">> \in Range(plan)
  BY MockPlan
<1> HIDE DEF plan
<1>3. ASSUME NEW x \in Range(plan)
      PROVE  x[1] = "mock" \/ x[1] = "write" \/ (x[1] = "deploy" /\ x[2] = "mock")
  <2>1. \/ x = <<"deploy", "mock">> \/ x = <<"mock", "ORDER_FILL">>
        \/ x = <<"mock", "DCA">> \/ x = <<"write", "but feeds">>
    BY <1>2
  <2>2. \/ x[1] = "deploy" /\ x[2] = "mock"
        \/ x[1] = "mock"
        \/ x[1] = "write"
    BY <2>1, Named, Zenon
  <2> QED BY <2>2
<1>4. /\ <<"deploy", "registry">> \notin Range(plan) /\ <<"deploy", "vault">> \notin Range(plan)
      /\ <<"deploy", "gasVault">> \notin Range(plan) /\ <<"bind", "vault">> \notin Range(plan)
      /\ <<"bind", "gasVault">> \notin Range(plan) /\ <<"set", "feeds">> \notin Range(plan)
      /\ <<"set", "adapter">> \notin Range(plan) /\ <<"deploy", "adapter">> \notin Range(plan)
  BY <1>3
<1>5. ASSUME NEW k \in Kinds
      PROVE  <<"set", k>> \notin Range(plan) /\ <<"deploy", k>> \notin Range(plan)
  BY <1>3 DEF Kinds
<1> QED BY <1>1, <1>2, <1>4, <1>5, ChangeLaunched

LEMMA LaunchSwapFeeTier ==
  ASSUME TypeOK, WiringInv, SwapFeeTier
  PROVE  TypeOK' /\ WiringInv'
<1> DEFINE plan == <<<<"deploy", "adapter">>, <<"set", "adapter">>, <<"write", "but feeds">>>>
<1>1. artifact # NoFile /\ Launch(artifact, NoFile, plan)
  BY DEF SwapFeeTier
<1>2. /\ plan \in Seq(Steps) /\ InOrder(plan)
      /\ Range(plan) = {<<"deploy", "adapter">>, <<"set", "adapter">>,
                        <<"write", "but feeds">>}
  BY FeeTierPlan
<1> HIDE DEF plan
<1>3. ASSUME NEW x \in Range(plan)
      PROVE  x[1] = "write" \/ (x[1] # "mock" /\ x[2] = "adapter")
  <2>1. \/ x = <<"deploy", "adapter">> \/ x = <<"set", "adapter">>
        \/ x = <<"write", "but feeds">>
    BY <1>2
  <2>2. \/ x[1] = "deploy" /\ x[2] = "adapter"
        \/ x[1] = "set" /\ x[2] = "adapter"
        \/ x[1] = "write"
    BY <2>1, Named, Zenon
  <2> QED BY <2>2
<1>4. /\ <<"deploy", "registry">> \notin Range(plan) /\ <<"deploy", "vault">> \notin Range(plan)
      /\ <<"deploy", "gasVault">> \notin Range(plan) /\ <<"bind", "vault">> \notin Range(plan)
      /\ <<"bind", "gasVault">> \notin Range(plan) /\ <<"set", "feeds">> \notin Range(plan)
  BY <1>3
<1>5. <<"set", "adapter">> \in Range(plan) /\ <<"deploy", "adapter">> \in Range(plan)
  BY <1>2
<1>6. ASSUME NEW k \in Kinds
      PROVE  /\ <<"set", k>> \notin Range(plan) /\ <<"deploy", k>> \notin Range(plan)
             /\ <<"mock", k>> \notin Range(plan)
  BY <1>3 DEF Kinds
<1> QED BY <1>1, <1>2, <1>4, <1>5, <1>6, ChangeLaunched

-----------------------------------------------------------------------------
(* A step of the operator's script: what is still to do. *)

LEMMA OrderCases ==
  /\ \A n \in {"vault", "gasVault", "adapter"} :
       Before(<<"deploy", n>>, <<"deploy", "registry">>)
  /\ Before(<<"deploy", "adapter">>, <<"set", "adapter">>)
  /\ \A k \in Kinds : /\ Before(<<"deploy", k>>, <<"set", k>>)
                      /\ Before(<<"deploy", k>>, <<"deploy", "registry">>)
                      /\ Before(<<"deploy", "mock">>, <<"mock", k>>)
                      /\ Before(<<"deploy", "registry">>, <<"mock", k>>)
  /\ \A n \in {"vault", "gasVault"} : Before(<<"deploy", "registry">>, <<"bind", n>>)
  /\ \A n \in Kinds \cup {"adapter", "feeds"} : Before(<<"deploy", "registry">>, <<"set", n>>)
BY DEF Before, DeployRegistryStep, Kinds

LEMMA StepDone ==
  ASSUME TypeOK, PlanSound, NEW v, NEW n, At(v, n), script'.todo = Tail(script.todo)
  PROVE  /\ script.todo # <<>> /\ script'.todo \in Seq(Steps)
         /\ <<v, n>> \in Steps /\ <<v, n>> \in Ahead
         /\ \A x \in Ahead' : x \in Ahead /\ ~Before(x, <<v, n>>)
         /\ \A x \in Ahead : x = <<v, n>> \/ x \in Ahead'
         /\ PlanSound'
<1>1. script.todo \in Seq(Steps) /\ script.todo # <<>> /\ Head(script.todo) = <<v, n>>
  BY DEF TypeOK, At
<1>2. /\ Tail(script.todo) \in Seq(Steps) /\ <<v, n>> \in Steps
      /\ Ahead = {<<v, n>>} \cup Ahead'
      /\ InOrder(script'.todo)
      /\ \A x \in Ahead' : ~Before(x, <<v, n>>)
  BY <1>1, Popped DEF PlanSound, Ahead
<1> DEFINE h == <<v, n>>
<1>3. Complete(Ahead')
  <2>1. \A x \in Ahead' : x \in Ahead
    BY <1>2
  <2>2. \A x, y : Before(x, y) /\ x \in Ahead' /\ y \in Ahead => y \in Ahead'
    BY <1>2
  <2> HIDE DEF h
  <2>3. Complete(Ahead)
    BY DEF PlanSound
  <2>4. /\ <<"deploy", "vault">> \in Ahead' => DeployRegistryStep \in Ahead'
        /\ <<"deploy", "gasVault">> \in Ahead' => DeployRegistryStep \in Ahead'
    BY <2>1, <2>2, <2>3, OrderCases DEF Complete, DeployRegistryStep
  <2>5. <<"deploy", "adapter">> \in Ahead' =>
          DeployRegistryStep \in Ahead' \/ <<"set", "adapter">> \in Ahead'
    BY <2>1, <2>2, <2>3, OrderCases DEF Complete, DeployRegistryStep
  <2>6. \A k \in Kinds : <<"deploy", k>> \in Ahead' => <<"set", k>> \in Ahead'
    BY <2>1, <2>2, <2>3, OrderCases DEF Complete
  <2>7. DeployRegistryStep \in Ahead' =>
          /\ <<"bind", "vault">> \in Ahead' /\ <<"bind", "gasVault">> \in Ahead'
          /\ \A x \in Kinds \cup {"feeds"} : <<"set", x>> \in Ahead'
    BY <2>1, <2>2, <2>3, OrderCases DEF Complete, DeployRegistryStep
  <2> QED BY <2>4, <2>5, <2>6, <2>7 DEF Complete
<1> QED BY <1>1, <1>2, <1>3 DEF PlanSound

\* There is room for the number of one contract more.
LEMMA RoomFor ==
  ASSUME TypeOK, Room
  PROVE  /\ Len(registries) + 1 \in Number /\ Len(vaults) + 1 \in Number
         /\ Len(gasVaults) + 1 \in Number
         /\ \A x \in DOMAIN made : made[x] + 1 \in Number /\ -(made[x] + 1) \in Verifier
<1>1. Len(registries) \in Nat /\ Len(vaults) \in Nat /\ Len(gasVaults) \in Nat
  BY LenProperties DEF TypeOK
<1>2. /\ DOMAIN made = {"ORDER_FILL", "DCA", "mock", "adapter"}
      /\ \A x \in DOMAIN made : made[x] \in Nat
  BY DEF TypeOK, Number, Kinds
<1>3. /\ made["ORDER_FILL"] \in Nat /\ made["DCA"] \in Nat /\ made["mock"] \in Nat
      /\ made["adapter"] \in Nat
  BY <1>2
<1> DEFINE a == Len(registries)
           b == Len(vaults)
           c == Len(gasVaults)
           d == made["ORDER_FILL"]
           e == made["DCA"]
           f == made["mock"]
           g == made["adapter"]
<1>4. /\ a + b + c + d + e + f + g < MaxContracts /\ MaxContracts \in Nat
      /\ a \in Nat /\ b \in Nat /\ c \in Nat /\ d \in Nat /\ e \in Nat /\ f \in Nat /\ g \in Nat
  BY <1>1, <1>3, MigrationAssumption DEF Room
<1> HIDE DEF a, b, c, d, e, f, g
<1>5. \A n \in {a, b, c, d, e, f, g} : n \in Nat /\ n < MaxContracts
  BY <1>4
<1>6. \A n \in {a, b, c, d, e, f, g} : n + 1 \in Number /\ -(n + 1) \in Verifier
  BY <1>4, <1>5 DEF Number, Verifier
<1>7. \A x \in DOMAIN made : made[x] \in {d, e, f, g}
  BY <1>2 DEF d, e, f, g
<1> QED BY <1>6, <1>7 DEF a, b, c

\* What is deployed keeps its wiring.
WiringKept ==
  /\ \A r \in DOMAIN registries :
       /\ r \in DOMAIN registries'
       /\ registries'[r].vault = registries[r].vault
       /\ registries'[r].gasVault = registries[r].gasVault
       /\ registries'[r].adapter = registries[r].adapter
       /\ registries'[r].verifiers = registries[r].verifiers
       /\ registries'[r].feeds = registries[r].feeds
  /\ \A v \in DOMAIN vaults : v \in DOMAIN vaults' /\ vaults'[v].registry = vaults[v].registry
  /\ \A g \in DOMAIN gasVaults : /\ g \in DOMAIN gasVaults'
                                 /\ gasVaults'[g].registry = gasVaults[g].registry
  /\ \A x \in Kinds \cup {"adapter"} : made[x] <= made'[x]

LEMMA MadeTyped ==
  ASSUME TypeOK
  PROVE  \A x \in Kinds \cup {"mock", "adapter"} : made[x] \in Int
<1>1. Number \subseteq Int
  BY MigrationAssumption DEF Number
<1>2. made \in [Kinds \cup {"mock", "adapter"} -> Number]
  BY DEF TypeOK
<1> QED BY <1>1, <1>2

\* Then a claim about contracts that exist stays true.
LEMMA ClaimsKept ==
  ASSUME TypeOK, TypeOK', WiringKept, NEW d \in Deployment
  PROVE  /\ Known(d) => Known(d)'
         /\ d.registry \in DOMAIN registries =>
              /\ AdapterTrue(d) => AdapterTrue(d)'
              /\ \A k \in Kinds : VerifierTrue(d, k) => VerifierTrue(d, k)'
              /\ d.vault \in DOMAIN vaults /\ VaultObeys(d) => VaultObeys(d)'
              /\ d.gasVault \in DOMAIN gasVaults /\ GasVaultObeys(d) => GasVaultObeys(d)'
<1>2. \A x \in Kinds \cup {"adapter"} : made[x] \in Int /\ made'[x] \in Int
  <2>1. Number \subseteq Int
    BY MigrationAssumption DEF Number
  <2>2. made' \in [Kinds \cup {"mock", "adapter"} -> Number]
    BY DEF TypeOK
  <2> QED BY <2>1, <2>2, MadeTyped
<1>3. d.adapter \in Int /\ \A k \in Kinds : d.verifiers[k] \in Int
  BY MigrationAssumption DEF Deployment, Number
<1>4. Known(d) => Known(d)'
  BY <1>2, <1>3 DEF Known, WiringKept
<1>5. ASSUME d.registry \in DOMAIN registries
      PROVE  /\ AdapterTrue(d) => AdapterTrue(d)'
             /\ \A k \in Kinds : VerifierTrue(d, k) => VerifierTrue(d, k)'
  BY <1>2, <1>3, <1>5 DEF AdapterTrue, VerifierTrue, WiringKept
<1>6. ASSUME d.registry \in DOMAIN registries
      PROVE  /\ d.vault \in DOMAIN vaults /\ VaultObeys(d) => VaultObeys(d)'
             /\ d.gasVault \in DOMAIN gasVaults /\ GasVaultObeys(d) => GasVaultObeys(d)'
  BY <1>6 DEF VaultObeys, GasVaultObeys, Obeys, WiringKept
<1> QED BY <1>4, <1>5, <1>6

LEMMA ArtifactKept ==
  ASSUME TypeOK, TypeOK', WiringKept, WiringInv, UNCHANGED artifact
  PROVE  ArtifactExists' /\ ArtifactTrue'
<1> SUFFICES ASSUME artifact # NoFile
             PROVE  ArtifactExists' /\ ArtifactTrue'
  BY DEF ArtifactExists, ArtifactTrue
<1> DEFINE d == artifact
<1>1. /\ d.registry \in DOMAIN registries /\ d.vault \in DOMAIN vaults
      /\ d.gasVault \in DOMAIN gasVaults /\ Known(d)
      /\ registries[d.registry].vault = d.vault /\ registries[d.registry].gasVault = d.gasVault
      /\ registries[d.registry].feeds # NoFile
      /\ VaultObeys(d) /\ GasVaultObeys(d) /\ AdapterTrue(d)
      /\ \A k \in Kinds : VerifierTrue(d, k)
  BY DEF WiringInv, ArtifactExists, ArtifactTrue, VaultObeys, GasVaultObeys, AdapterTrue,
         VerifierTrue
<1>2. PICK e \in Deployment : e = d
  BY ArtifactTyped
<1>3. /\ Known(e)' /\ VaultObeys(e)' /\ GasVaultObeys(e)' /\ AdapterTrue(e)'
      /\ \A k \in Kinds : VerifierTrue(e, k)'
  BY <1>1, <1>2, ClaimsKept DEF Known, VaultObeys, GasVaultObeys, AdapterTrue, VerifierTrue
<1>4. artifact' = e
  BY <1>2
<1>5. ArtifactExists'
  BY <1>1, <1>2, <1>3, <1>4 DEF ArtifactExists, Known, WiringKept
<1>6. ArtifactTrue'
  BY <1>1, <1>2, <1>3, <1>4 DEF ArtifactTrue, VaultObeys, GasVaultObeys, AdapterTrue,
     VerifierTrue, WiringKept
<1> QED BY <1>5, <1>6

-----------------------------------------------------------------------------
(* The steps that deploy. *)

LEMMA Gone ==
  ASSUME TypeOK, NEW v, NEW n, At(v, n), NEW d \in Deployment, Go(d)
  PROVE  /\ script'.todo = Tail(script.todo) /\ draft' = d /\ script'.feeds = script.feeds
         /\ artifact' = artifact /\ returning' = returning
         /\ script' \in [todo : Seq(Steps), draft : Deployment, feeds : Feeds \cup {NoFile}]
<1>1. /\ script.todo \in Seq(Steps) /\ script.todo # <<>>
      /\ script.feeds \in Feeds \cup {NoFile}
      /\ script = [todo |-> script.todo, draft |-> script.draft, feeds |-> script.feeds]
  BY DEF TypeOK, At
<1>2. Tail(script.todo) \in Seq(Steps)
  BY <1>1, HeadTailProperties
<1>3. script' = [todo |-> Tail(script.todo), draft |-> d, feeds |-> script.feeds]
  BY <1>1 DEF Go
<1> QED BY <1>1, <1>2, <1>3 DEF Go, draft

LEMMA DraftTyped == ASSUME TypeOK PROVE draft \in Deployment /\ script.draft = draft
BY DEF TypeOK, draft

LEMMA DraftNumbers ==
  ASSUME TypeOK
  PROVE  draft.adapter \in Int /\ \A k \in Kinds : draft.verifiers[k] \in Int
BY MigrationAssumption, DraftTyped DEF Deployment, Number

\* While the registry is still to be deployed, most claims are still to come.
LEMMA RegistryAhead ==
  ASSUME PlanSound', Todo("deploy", "registry")',
         Known(draft)', script'.feeds # NoFile,
         Todo("deploy", "vault")' \/ draft'.vault \in DOMAIN vaults',
         Todo("deploy", "gasVault")' \/ draft'.gasVault \in DOMAIN gasVaults',
         \A k \in Kinds : Todo("mock", k)' => Todo("deploy", "mock")' \/ draft'.mock < 0
  PROVE  DraftExists' /\ DraftTrue'
<1>1. /\ Todo("bind", "vault")' /\ Todo("bind", "gasVault")'
      /\ \A x \in Kinds \cup {"feeds"} : Todo("set", x)'
  BY DEF PlanSound, Complete, Todo, DeployRegistryStep
<1>2. DraftExists'
  BY DEF DraftExists
<1>3. DraftTrue'
  BY <1>1 DEF DraftTrue
<1> QED BY <1>2, <1>3

LEMMA VaultDeployed ==
  ASSUME TypeOK, WiringInv, DeployVault
  PROVE  TypeOK' /\ WiringInv' /\ WiringKept
<1> DEFINE n == Len(vaults) + 1
           new == [registry |-> 0, free |-> 0, locked |-> [h \in Hashes |-> 0]]
           d == [draft EXCEPT !.vault = n]
<1>1. /\ At("deploy", "vault") /\ Room /\ vaults' = Append(vaults, new) /\ Go(d)
      /\ UNCHANGED <<registries, gasVaults, made>>
  BY DEF DeployVault
<1>2. /\ d \in Deployment /\ d.gasVault = draft.gasVault /\ d.mock = draft.mock /\ d.vault = n
      /\ d.adapter = draft.adapter /\ d.verifiers = draft.verifiers
  BY <1>1, DraftTyped, RoomFor DEF Deployment
<1>3. new \in VaultRecord
  BY MigrationAssumption DEF VaultRecord, Number
<1>4. /\ vaults \in Seq(VaultRecord) /\ vaults' \in Seq(VaultRecord) /\ Len(vaults') = n
      /\ \A v \in 1..Len(vaults) : vaults'[v] = vaults[v]
      /\ vaults'[n] = new /\ Len(vaults) \in Nat
  <2>1. vaults \in Seq(VaultRecord)
    BY DEF TypeOK
  <2> HIDE DEF new
  <2> QED BY <2>1, <1>1, <1>3, AppendProperties, LenProperties
<1>5. DOMAIN vaults = 1..Len(vaults) /\ DOMAIN vaults' = 1..n
  BY <1>4, LenProperties
<1> HIDE DEF new, d, n
<1>6. /\ script'.todo = Tail(script.todo) /\ draft' = d /\ script'.feeds = script.feeds
      /\ artifact' = artifact /\ returning' = returning
      /\ script' \in [todo : Seq(Steps), draft : Deployment, feeds : Feeds \cup {NoFile}]
  BY <1>1, <1>2, Gone
<1>7. TypeOK'
  BY <1>1, <1>4, <1>6 DEF TypeOK
<1>8. WiringKept
  BY <1>1, <1>4, <1>5, MadeTyped DEF WiringKept
<1>9. /\ script.todo # <<>> /\ PlanSound'
      /\ <<"deploy", "vault">> \in Ahead
      /\ \A x \in Ahead' : x \in Ahead /\ ~Before(x, <<"deploy", "vault">>)
      /\ \A x \in Ahead : x = <<"deploy", "vault">> \/ x \in Ahead'
  BY <1>1, <1>6, StepDone DEF WiringInv
<1>10. <<"deploy", "registry">> \in Ahead /\ <<"deploy", "registry">> \in Ahead'
  BY <1>9 DEF WiringInv, PlanSound, Complete, DeployRegistryStep
<1>11. <<"set", "feeds">> \in Ahead
  BY <1>10 DEF WiringInv, PlanSound, Complete, DeployRegistryStep
<1>12. /\ Known(draft) /\ script.feeds # NoFile
       /\ <<"deploy", "gasVault">> \in Ahead \/ draft.gasVault \in DOMAIN gasVaults
       /\ \A k \in Kinds : <<"mock", k>> \in Ahead =>
            <<"deploy", "mock">> \in Ahead \/ draft.mock < 0
  BY <1>9, <1>11 DEF WiringInv, DraftExists, DraftTrue, Todo
<1>13. /\ Known(draft)' /\ script'.feeds # NoFile
       /\ Todo("deploy", "registry")'
       /\ draft'.vault \in DOMAIN vaults'
       /\ Todo("deploy", "gasVault")' \/ draft'.gasVault \in DOMAIN gasVaults'
       /\ \A k \in Kinds : Todo("mock", k)' => Todo("deploy", "mock")' \/ draft'.mock < 0
  BY <1>1, <1>2, <1>4, <1>5, <1>6, <1>9, <1>10, <1>12 DEF Known, Todo, n
<1>14. DraftExists' /\ DraftTrue'
  BY <1>9, <1>13, RegistryAhead
<1>15. OnlyNewer'
  BY <1>1, <1>2, <1>6, <1>9, <1>10 DEF WiringInv, OnlyNewer, Todo
<1>16. ArtifactExists' /\ ArtifactTrue'
  BY <1>6, <1>7, <1>8, ArtifactKept
<1>17. VaultsExist'
  BY <1>1, <1>8 DEF WiringInv, VaultsExist, WiringKept
<1> QED BY <1>7, <1>8, <1>9, <1>14, <1>15, <1>16, <1>17 DEF WiringInv

LEMMA GasVaultDeployed ==
  ASSUME TypeOK, WiringInv, DeployGasVault
  PROVE  TypeOK' /\ WiringInv' /\ WiringKept
<1> DEFINE n == Len(gasVaults) + 1
           new == [registry |-> 0, balance |-> 0]
           d == [draft EXCEPT !.gasVault = n]
<1>1. /\ At("deploy", "gasVault") /\ Room /\ gasVaults' = Append(gasVaults, new) /\ Go(d)
      /\ UNCHANGED <<registries, vaults, made>>
  BY DEF DeployGasVault
<1>2. /\ d \in Deployment /\ d.vault = draft.vault /\ d.mock = draft.mock /\ d.gasVault = n
      /\ d.adapter = draft.adapter /\ d.verifiers = draft.verifiers
  BY <1>1, DraftTyped, RoomFor DEF Deployment
<1>3. new \in GasVaultRecord
  BY MigrationAssumption DEF GasVaultRecord, Number
<1>4. /\ gasVaults \in Seq(GasVaultRecord) /\ gasVaults' \in Seq(GasVaultRecord)
      /\ Len(gasVaults') = n
      /\ \A g \in 1..Len(gasVaults) : gasVaults'[g] = gasVaults[g]
      /\ gasVaults'[n] = new /\ Len(gasVaults) \in Nat
  <2>1. gasVaults \in Seq(GasVaultRecord)
    BY DEF TypeOK
  <2> HIDE DEF new
  <2> QED BY <2>1, <1>1, <1>3, AppendProperties, LenProperties
<1>5. DOMAIN gasVaults = 1..Len(gasVaults) /\ DOMAIN gasVaults' = 1..n
  BY <1>4, LenProperties
<1> HIDE DEF new, d, n
<1>6. /\ script'.todo = Tail(script.todo) /\ draft' = d /\ script'.feeds = script.feeds
      /\ artifact' = artifact /\ returning' = returning
      /\ script' \in [todo : Seq(Steps), draft : Deployment, feeds : Feeds \cup {NoFile}]
  BY <1>1, <1>2, Gone
<1>7. TypeOK'
  BY <1>1, <1>4, <1>6 DEF TypeOK
<1>8. WiringKept
  BY <1>1, <1>4, <1>5, MadeTyped DEF WiringKept
<1>9. /\ script.todo # <<>> /\ PlanSound'
      /\ <<"deploy", "gasVault">> \in Ahead
      /\ \A x \in Ahead' : x \in Ahead /\ ~Before(x, <<"deploy", "gasVault">>)
      /\ \A x \in Ahead : x = <<"deploy", "gasVault">> \/ x \in Ahead'
  BY <1>1, <1>6, StepDone DEF WiringInv
<1>10. <<"deploy", "registry">> \in Ahead /\ <<"deploy", "registry">> \in Ahead'
  BY <1>9 DEF WiringInv, PlanSound, Complete, DeployRegistryStep
<1>11. <<"set", "feeds">> \in Ahead
  BY <1>10 DEF WiringInv, PlanSound, Complete, DeployRegistryStep
<1>12. /\ Known(draft) /\ script.feeds # NoFile
       /\ <<"deploy", "vault">> \in Ahead \/ draft.vault \in DOMAIN vaults
       /\ \A k \in Kinds : <<"mock", k>> \in Ahead =>
            <<"deploy", "mock">> \in Ahead \/ draft.mock < 0
  BY <1>9, <1>11 DEF WiringInv, DraftExists, DraftTrue, Todo
<1>13. /\ Known(draft)' /\ script'.feeds # NoFile
       /\ Todo("deploy", "registry")'
       /\ Todo("deploy", "vault")' \/ draft'.vault \in DOMAIN vaults'
       /\ draft'.gasVault \in DOMAIN gasVaults'
       /\ \A k \in Kinds : Todo("mock", k)' => Todo("deploy", "mock")' \/ draft'.mock < 0
  BY <1>1, <1>2, <1>4, <1>5, <1>6, <1>9, <1>10, <1>12 DEF Known, Todo, n
<1>14. DraftExists' /\ DraftTrue'
  BY <1>9, <1>13, RegistryAhead
<1>15. OnlyNewer'
  BY <1>1, <1>2, <1>6, <1>9, <1>10 DEF WiringInv, OnlyNewer, Todo
<1>16. ArtifactExists' /\ ArtifactTrue'
  BY <1>6, <1>7, <1>8, ArtifactKept
<1>17. VaultsExist'
  BY <1>1, <1>8 DEF WiringInv, VaultsExist, WiringKept
<1> QED BY <1>7, <1>8, <1>9, <1>14, <1>15, <1>16, <1>17 DEF WiringInv

LEMMA RegistryDeployed ==
  ASSUME TypeOK, WiringInv, DeployRegistry
  PROVE  TypeOK' /\ WiringInv' /\ WiringKept
<1> DEFINE n == Len(registries) + 1
           new == [vault |-> draft.vault, gasVault |-> draft.gasVault,
                   adapter |-> draft.adapter, verifiers |-> [k \in Kinds |-> 0],
                   feeds |-> NoFile, book |-> [h \in Hashes |-> "NONE"]]
           d == [draft EXCEPT !.registry = n]
           DR == <<"deploy", "registry">>
<1>1. /\ At("deploy", "registry") /\ Room /\ registries' = Append(registries, new) /\ Go(d)
      /\ UNCHANGED <<vaults, gasVaults, made>>
  BY DEF DeployRegistry
<1>2. /\ d \in Deployment /\ d.vault = draft.vault /\ d.gasVault = draft.gasVault
      /\ d.mock = draft.mock /\ d.registry = n
      /\ d.adapter = draft.adapter /\ d.verifiers = draft.verifiers
  BY <1>1, DraftTyped, RoomFor DEF Deployment
<1>3. /\ new \in RegistryRecord /\ new.vault = draft.vault /\ new.gasVault = draft.gasVault
      /\ new.adapter = draft.adapter
  <2>1. draft.vault \in Number /\ draft.gasVault \in Number /\ draft.adapter \in Number
    BY DraftTyped DEF Deployment
  <2>2. 0 \in Verifier
    BY MigrationAssumption DEF Verifier
  <2> QED BY <2>1, <2>2 DEF RegistryRecord, Status
<1>4. /\ registries \in Seq(RegistryRecord) /\ registries' \in Seq(RegistryRecord)
      /\ Len(registries') = n
      /\ \A r \in 1..Len(registries) : registries'[r] = registries[r]
      /\ registries'[n] = new /\ Len(registries) \in Nat
  <2>1. registries \in Seq(RegistryRecord)
    BY DEF TypeOK
  <2> HIDE DEF new
  <2> QED BY <2>1, <1>1, <1>3, AppendProperties, LenProperties
<1>5. DOMAIN registries = 1..Len(registries) /\ DOMAIN registries' = 1..n
  BY <1>4, LenProperties
<1> HIDE DEF new, d
<1>6. /\ script'.todo = Tail(script.todo) /\ draft' = d /\ script'.feeds = script.feeds
      /\ artifact' = artifact /\ returning' = returning
      /\ script' \in [todo : Seq(Steps), draft : Deployment, feeds : Feeds \cup {NoFile}]
  BY <1>1, <1>2, Gone
<1>7. TypeOK'
  BY <1>1, <1>4, <1>6 DEF TypeOK
<1>8. WiringKept
  BY <1>1, <1>4, <1>5, MadeTyped DEF WiringKept
<1>9. /\ script.todo # <<>> /\ PlanSound' /\ DR \in Ahead
      /\ \A x \in Ahead' : x \in Ahead /\ ~Before(x, DR)
      /\ \A x \in Ahead : x = DR \/ x \in Ahead'
  BY <1>1, <1>6, StepDone DEF WiringInv
<1>10. /\ <<"bind", "vault">> \in Ahead' /\ <<"bind", "gasVault">> \in Ahead'
       /\ \A x \in Kinds \cup {"feeds"} : <<"set", x>> \in Ahead /\ <<"set", x>> \in Ahead'
  BY <1>9 DEF WiringInv, PlanSound, Complete, DeployRegistryStep
<1>11. <<"deploy", "vault">> \notin Ahead /\ <<"deploy", "gasVault">> \notin Ahead
  BY <1>9, OrderCases
<1>12. /\ Known(draft) /\ script.feeds # NoFile
       /\ draft.vault \in DOMAIN vaults /\ draft.gasVault \in DOMAIN gasVaults
       /\ \A k \in Kinds : <<"mock", k>> \in Ahead =>
            <<"deploy", "mock">> \in Ahead \/ draft.mock < 0
  BY <1>9, <1>10, <1>11 DEF WiringInv, DraftExists, DraftTrue, Todo
<1>13. DraftExists'
  <2>1. /\ draft'.vault \in DOMAIN vaults' /\ draft'.gasVault \in DOMAIN gasVaults'
        /\ draft'.registry \in DOMAIN registries' /\ draft'.registry = Len(registries')
        /\ registries'[draft'.registry].vault = draft'.vault
        /\ registries'[draft'.registry].gasVault = draft'.gasVault
    BY <1>1, <1>2, <1>3, <1>4, <1>5, <1>6, <1>12
  <2> QED BY <2>1 DEF DraftExists, Configured
<1>14. DraftTrue'
  <2>1. Known(draft)' /\ script'.feeds # NoFile
    BY <1>1, <1>2, <1>6, <1>12 DEF Known
  <2>2. AdapterTrue(draft)'
    BY <1>2, <1>3, <1>4, <1>6, DraftNumbers DEF AdapterTrue
  <2>3. \A k \in Kinds : Todo("mock", k)' => Todo("deploy", "mock")' \/ draft'.mock < 0
    BY <1>2, <1>6, <1>9, <1>12 DEF Todo
  <2> QED BY <2>1, <2>2, <2>3, <1>10 DEF DraftTrue, Todo
<1>15. OnlyNewer'
  <2>1. artifact # NoFile => draft'.registry # artifact.registry
    BY <1>2, <1>4, <1>5, <1>6 DEF WiringInv, ArtifactExists
  <2> QED BY <2>1, <1>1, <1>2, <1>6, <1>9 DEF WiringInv, OnlyNewer, Todo
<1>16. ArtifactExists' /\ ArtifactTrue'
  BY <1>6, <1>7, <1>8, ArtifactKept
<1>17. VaultsExist'
  <2>1. \A r \in DOMAIN registries' : r \in DOMAIN registries \/ r = n
    BY <1>4, <1>5
  <2> QED BY <2>1, <1>1, <1>3, <1>4, <1>8, <1>12 DEF WiringInv, VaultsExist, WiringKept
<1> QED BY <1>7, <1>8, <1>9, <1>13, <1>14, <1>15, <1>16, <1>17 DEF WiringInv

\* A claim of the draft about existing contracts, carried over a step that
\* leaves the draft's registry and vaults.
LEMMA DraftObeysKept ==
  ASSUME TypeOK, TypeOK', WiringKept,
         draft'.registry = draft.registry, draft'.vault = draft.vault,
         draft'.gasVault = draft.gasVault, draft.registry \in DOMAIN registries,
         draft.vault \in DOMAIN vaults, draft.gasVault \in DOMAIN gasVaults
  PROVE  /\ VaultObeys(draft) => VaultObeys(draft)'
         /\ GasVaultObeys(draft) => GasVaultObeys(draft)'
         /\ registries'[draft'.registry].vault = registries[draft.registry].vault
         /\ registries'[draft'.registry].gasVault = registries[draft.registry].gasVault
         /\ registries'[draft'.registry].feeds = registries[draft.registry].feeds
<1>1. PICK e \in Deployment : e = draft
  BY DraftTyped
<1>2. /\ VaultObeys(e) => VaultObeys(e)'
      /\ GasVaultObeys(e) => GasVaultObeys(e)'
  BY <1>1, ClaimsKept
<1>3. draft'.registry = e.registry /\ draft'.vault = e.vault /\ draft'.gasVault = e.gasVault
  BY <1>1
<1>4. /\ VaultObeys(draft) <=> VaultObeys(e)
      /\ GasVaultObeys(draft) <=> GasVaultObeys(e)
  BY <1>1 DEF VaultObeys, GasVaultObeys
<1>5. /\ VaultObeys(draft)' <=> VaultObeys(e)'
      /\ GasVaultObeys(draft)' <=> GasVaultObeys(e)'
  BY <1>3 DEF VaultObeys, GasVaultObeys
<1> QED BY <1>2, <1>4, <1>5 DEF WiringKept

LEMMA OtherDeployed ==
  ASSUME TypeOK, WiringInv, NEW x \in DOMAIN made, DeployOther(x)
  PROVE  TypeOK' /\ WiringInv' /\ WiringKept
<1> DEFINE d == CASE x = "mock" -> [draft EXCEPT !.mock = -(made[x] + 1)]
                  [] x = "adapter" -> [draft EXCEPT !.adapter = made[x] + 1]
                  [] OTHER -> [draft EXCEPT !.verifiers[x] = made[x] + 1]
           h == <<"deploy", x>>
<1>1. /\ At("deploy", x) /\ Room /\ made' = [made EXCEPT ![x] = @ + 1] /\ Go(d)
      /\ UNCHANGED <<registries, vaults, gasVaults>>
  BY DEF DeployOther, chainVars
<1>2. /\ DOMAIN made = Kinds \cup {"mock", "adapter"} /\ DOMAIN made' = DOMAIN made
      /\ \A y \in DOMAIN made : made[y] \in Nat /\ made[y] + 1 \in Number
                                /\ -(made[y] + 1) \in Verifier /\ -(made[y] + 1) < 0
  <2>1. DOMAIN made = Kinds \cup {"mock", "adapter"} /\ DOMAIN made' = DOMAIN made
    BY <1>1 DEF TypeOK
  <2>2. \A y \in DOMAIN made : made[y] \in Nat
    BY MigrationAssumption DEF TypeOK, Number
  <2>3. \A n \in Nat : -(n + 1) < 0
    OBVIOUS
  <2> QED BY <2>1, <2>2, <2>3, <1>1, RoomFor
<1>3. /\ \A y \in DOMAIN made : made'[y] = IF y = x THEN made[y] + 1 ELSE made[y]
      /\ x # "registry" /\ x # "vault" /\ x # "gasVault"
      /\ x \notin Kinds => x = "mock" \/ x = "adapter"
      /\ "mock" \notin Kinds /\ "adapter" \notin Kinds
  BY <1>1, <1>2 DEF Kinds
<1>4. /\ d \in Deployment
      /\ d.registry = draft.registry /\ d.vault = draft.vault /\ d.gasVault = draft.gasVault
      /\ d.mock = IF x = "mock" THEN -(made[x] + 1) ELSE draft.mock
      /\ d.adapter = IF x = "adapter" THEN made[x] + 1 ELSE draft.adapter
      /\ \A k \in Kinds : d.verifiers[k] = IF x = k THEN made[x] + 1 ELSE draft.verifiers[k]
  <2>1. CASE x = "mock"
    BY <2>1, <1>2, <1>3, DraftTyped DEF Deployment
  <2>2. CASE x = "adapter"
    BY <2>2, <1>2, <1>3, DraftTyped DEF Deployment
  <2>3. CASE x \in Kinds
    <3>1. d = [draft EXCEPT !.verifiers[x] = made[x] + 1]
      BY <2>3, <1>3
    <3> HIDE DEF d
    <3> QED BY <2>3, <3>1, <1>2, <1>3, DraftTyped DEF Deployment
  <2> QED BY <1>3, <2>1, <2>2, <2>3
<1> HIDE DEF d, h
<1>5. /\ script'.todo = Tail(script.todo) /\ draft' = d /\ script'.feeds = script.feeds
      /\ artifact' = artifact /\ returning' = returning
      /\ script' \in [todo : Seq(Steps), draft : Deployment, feeds : Feeds \cup {NoFile}]
  BY <1>1, <1>4, Gone
<1>6. TypeOK'
  BY <1>1, <1>2, <1>3, <1>5 DEF TypeOK
<1>7. WiringKept
  BY <1>1, <1>2, <1>3 DEF WiringKept
<1>8. /\ script.todo # <<>> /\ PlanSound' /\ h \in Ahead
      /\ \A y \in Ahead' : y \in Ahead /\ ~Before(y, h)
      /\ \A y \in Ahead : y = h \/ y \in Ahead'
  BY <1>1, <1>5, StepDone DEF WiringInv, h
<1>9. /\ <<"deploy", "registry">> # h /\ <<"deploy", "vault">> # h /\ <<"deploy", "gasVault">> # h
      /\ \A n : <<"set", n>> # h /\ <<"bind", n>> # h /\ <<"mock", n>> # h
      /\ \A n : <<"deploy", n>> = h => n = x
  BY <1>3 DEF h
<1>10. /\ Known(draft)
       /\ <<"deploy", "vault">> \in Ahead' \/ draft.vault \in DOMAIN vaults
       /\ <<"deploy", "gasVault">> \in Ahead' \/ draft.gasVault \in DOMAIN gasVaults
       /\ \A k \in Kinds : <<"mock", k>> \in Ahead =>
            <<"deploy", "mock">> \in Ahead \/ draft.mock < 0
  BY <1>8, <1>9 DEF WiringInv, DraftExists, DraftTrue, Todo
<1>11. Known(draft)'
  <2>1. \A k \in Kinds : made[k] \in Nat /\ draft.verifiers[k] \in Int /\ k \in DOMAIN made
    BY <1>2, DraftTyped DEF Deployment, Number
  <2>2. made["adapter"] \in Nat /\ draft.adapter \in Int /\ "adapter" \in DOMAIN made
    BY <1>2, DraftTyped DEF Deployment, Number
  <2> QED BY <2>1, <2>2, <1>3, <1>4, <1>5, <1>10 DEF Known
<1>12. \A k \in Kinds : Todo("mock", k)' => Todo("deploy", "mock")' \/ draft'.mock < 0
  <2>1. x = "mock" => draft'.mock < 0
    BY <1>2, <1>4, <1>5
  <2>2. x # "mock" => /\ <<"deploy", "mock">> \in Ahead => <<"deploy", "mock">> \in Ahead'
                      /\ draft'.mock = draft.mock
    BY <1>4, <1>5, <1>8, <1>9
  <2> QED BY <2>1, <2>2, <1>8, <1>10 DEF Todo
<1>13. x \in Kinds => <<"set", x>> \in Ahead'
  BY <1>8, <1>9 DEF WiringInv, PlanSound, Complete, h
<1>14. x = "adapter" => <<"deploy", "registry">> \in Ahead' \/ <<"set", "adapter">> \in Ahead'
  BY <1>8, <1>9 DEF WiringInv, PlanSound, Complete, h, DeployRegistryStep
<1>15. DraftExists' /\ DraftTrue'
  <2>1. CASE <<"deploy", "registry">> \in Ahead'
    <3>1. script'.feeds # NoFile
      <4>1. <<"set", "feeds">> \in Ahead
        BY <2>1, <1>8 DEF PlanSound, Complete, DeployRegistryStep
      <4> QED BY <4>1, <1>5, <1>8 DEF WiringInv, DraftTrue, Todo
    <3> QED BY <2>1, <3>1, <1>1, <1>4, <1>5, <1>8, <1>10, <1>11, <1>12, RegistryAhead DEF Todo
  <2>2. CASE <<"deploy", "registry">> \notin Ahead'
    <3>1. <<"deploy", "registry">> \notin Ahead
      BY <2>2, <1>8, <1>9
    <3>2. <<"deploy", "vault">> \notin Ahead /\ <<"deploy", "gasVault">> \notin Ahead
      BY <3>1 DEF WiringInv, PlanSound, Complete, DeployRegistryStep
    <3>3. /\ draft.vault \in DOMAIN vaults /\ draft.gasVault \in DOMAIN gasVaults
          /\ draft.registry \in DOMAIN registries
          /\ Configured.vault = draft.vault /\ Configured.gasVault = draft.gasVault
          /\ Todo("bind", "vault") \/ Todo("bind", "gasVault") =>
               draft.registry = Len(registries)
      BY <3>1, <3>2, <1>8 DEF WiringInv, DraftExists, Todo
    <3>4. /\ VaultObeys(draft) => VaultObeys(draft)'
          /\ GasVaultObeys(draft) => GasVaultObeys(draft)'
          /\ Configured' = Configured
      BY <3>3, <1>1, <1>4, <1>5, <1>6, <1>7, DraftObeysKept DEF Configured
    <3>5. DraftExists'
      BY <3>3, <3>4, <1>1, <1>4, <1>5, <1>8 DEF DraftExists, Todo
    <3>6. /\ Todo("bind", "vault")' \/ VaultObeys(draft)'
          /\ Todo("bind", "gasVault")' \/ GasVaultObeys(draft)'
          /\ IF Todo("set", "feeds")' THEN script'.feeds # NoFile ELSE Configured'.feeds # NoFile
      BY <3>4, <1>5, <1>8, <1>9 DEF WiringInv, DraftTrue, Todo
    <3>7. Todo("set", "adapter")' \/ AdapterTrue(draft)'
      <4>1. CASE x = "adapter"
        BY <4>1, <2>2, <1>14 DEF Todo
      <4>2. CASE x # "adapter"
        <5>1. made'["adapter"] = made["adapter"] /\ draft'.adapter = draft.adapter
          BY <4>2, <1>2, <1>3, <1>4, <1>5
        <5>2. AdapterTrue(draft) => AdapterTrue(draft)'
          BY <5>1, <3>4 DEF AdapterTrue, Configured
        <5> QED BY <5>2, <3>1, <1>8, <1>9 DEF WiringInv, DraftTrue, Todo
      <4> QED BY <4>1, <4>2
    <3>8. ASSUME NEW k \in Kinds
          PROVE  Todo("set", k)' \/ VerifierTrue(draft, k)'
      <4>1. CASE x = k
        BY <4>1, <1>13 DEF Todo
      <4>2. CASE x # k
        <5>1. made'[k] = made[k] /\ draft'.verifiers[k] = draft.verifiers[k]
          BY <4>2, <1>2, <1>3, <1>4, <1>5
        <5>2. VerifierTrue(draft, k) => VerifierTrue(draft, k)'
          BY <5>1, <3>4 DEF VerifierTrue, Configured
        <5> QED BY <5>2, <1>8, <1>9 DEF WiringInv, DraftTrue, Todo
      <4> QED BY <4>1, <4>2
    <3> QED BY <3>5, <3>6, <3>7, <3>8, <1>11, <1>12 DEF DraftTrue
  <2> QED BY <2>1, <2>2
<1>16. OnlyNewer'
  <2> SUFFICES ASSUME artifact # NoFile PROVE OnlyNewer'
    BY <1>5 DEF OnlyNewer
  <2>1. /\ artifact.adapter \in Int /\ artifact.adapter <= made["adapter"]
        /\ \A k \in Kinds : artifact.verifiers[k] \in Int /\ artifact.verifiers[k] <= made[k]
    BY ArtifactTyped DEF WiringInv, ArtifactExists, Known, Deployment, Number
  <2>2. /\ made["adapter"] \in Nat /\ "adapter" \in DOMAIN made
        /\ \A k \in Kinds : made[k] \in Nat /\ k \in DOMAIN made
    BY <1>2
  <2>3. Todo("set", "adapter")' => \/ Todo("deploy", "adapter")'
                                   \/ draft'.adapter > artifact.adapter
    <3>1. CASE x = "adapter"
      BY <3>1, <2>1, <2>2, <1>4, <1>5
    <3>2. CASE x # "adapter"
      BY <3>2, <1>4, <1>5, <1>8, <1>9 DEF WiringInv, OnlyNewer, Todo
    <3> QED BY <3>1, <3>2
  <2>4. ASSUME NEW k \in Kinds, Todo("set", k)'
        PROVE  \/ Todo("deploy", "registry")' \/ Todo("deploy", k)'
               \/ draft'.registry # artifact.registry
               \/ draft'.verifiers[k] > artifact.verifiers[k]
    <3>1. \/ <<"deploy", "registry">> \in Ahead \/ <<"deploy", k>> \in Ahead
          \/ draft.registry # artifact.registry
          \/ draft.verifiers[k] > artifact.verifiers[k]
      BY <2>4, <1>8 DEF WiringInv, OnlyNewer, Todo
    <3>2. CASE <<"deploy", "registry">> \in Ahead
      BY <3>2, <1>8, <1>9 DEF Todo
    <3>3. CASE <<"deploy", k>> \in Ahead /\ k # x
      <4>1. <<"deploy", k>> # h
        BY <3>3, <1>9
      <4> QED BY <3>3, <4>1, <1>8 DEF Todo
    <3>4. CASE k = x
      BY <3>4, <2>1, <2>2, <1>4, <1>5
    <3>5. CASE draft.registry # artifact.registry
      BY <3>5, <1>4, <1>5
    <3>6. CASE k # x /\ draft.verifiers[k] > artifact.verifiers[k]
      BY <3>6, <1>4, <1>5
    <3> QED BY <3>1, <3>2, <3>3, <3>4, <3>5, <3>6
  <2> QED BY <2>3, <2>4, <1>5 DEF OnlyNewer
<1>17. ArtifactExists' /\ ArtifactTrue'
  BY <1>5, <1>6, <1>7, ArtifactKept
<1>18. VaultsExist'
  BY <1>1 DEF WiringInv, VaultsExist
<1> QED BY <1>6, <1>7, <1>8, <1>15, <1>16, <1>17, <1>18 DEF WiringInv

-----------------------------------------------------------------------------
(* The steps that bind, set, write and end. *)

\* A vault is given to the newest registry, which uses it.
LEMMA VaultBound ==
  ASSUME TypeOK, WiringInv, BindVault
  PROVE  TypeOK' /\ WiringInv'
<1> DEFINE h == <<"bind", "vault">>
<1>1. /\ At("bind", "vault") /\ Go(draft)
      /\ vaults' = [vaults EXCEPT ![draft.vault].registry = draft.registry]
      /\ UNCHANGED <<registries, gasVaults, made>>
  BY DEF BindVault, VaultToBind
<1>2. /\ script'.todo = Tail(script.todo) /\ draft' = draft /\ script'.feeds = script.feeds
      /\ artifact' = artifact /\ returning' = returning
      /\ script' \in [todo : Seq(Steps), draft : Deployment, feeds : Feeds \cup {NoFile}]
  BY <1>1, DraftTyped, Gone
<1>3. /\ script.todo # <<>> /\ PlanSound' /\ h \in Ahead
      /\ \A y \in Ahead' : y \in Ahead /\ ~Before(y, h)
      /\ \A y \in Ahead : y = h \/ y \in Ahead'
  BY <1>1, <1>2, StepDone DEF WiringInv, h
<1>4. <<"deploy", "registry">> \notin Ahead
  BY <1>3, OrderCases
<1>5. <<"deploy", "vault">> \notin Ahead /\ <<"deploy", "gasVault">> \notin Ahead
  BY <1>4 DEF WiringInv, PlanSound, Complete, DeployRegistryStep
<1>6. /\ draft.vault \in DOMAIN vaults /\ draft.gasVault \in DOMAIN gasVaults
      /\ draft.registry \in DOMAIN registries /\ draft.registry = Len(registries)
      /\ Configured.vault = draft.vault /\ Configured.gasVault = draft.gasVault
  BY <1>3, <1>4, <1>5 DEF WiringInv, DraftExists, Todo
<1>7. draft.registry \in Number
  BY DraftTyped DEF Deployment
<1>8. /\ vaults' \in Seq(VaultRecord) /\ DOMAIN vaults' = DOMAIN vaults
      /\ \A v \in DOMAIN vaults : vaults'[v].registry = IF v = draft.vault THEN draft.registry
                                                        ELSE vaults[v].registry
  <2> DEFINE w == [vaults[draft.vault] EXCEPT !.registry = draft.registry]
  <2>1. /\ vaults \in Seq(VaultRecord) /\ DOMAIN vaults = 1..Len(vaults)
        /\ \A v \in DOMAIN vaults : vaults[v] \in VaultRecord
    BY LenProperties, ElementOfSeq DEF TypeOK
  <2>2. w \in VaultRecord /\ w.registry = draft.registry
    BY <2>1, <1>6, <1>7 DEF VaultRecord
  <2>3. vaults' = [vaults EXCEPT ![draft.vault] = w]
    BY <1>1
  <2> HIDE DEF w
  <2>4. vaults' \in Seq(VaultRecord) /\ Len(vaults') = Len(vaults)
    BY <2>1, <2>2, <2>3, <1>6, ExceptSeq
  <2> QED BY <2>1, <2>2, <2>3, <2>4
<1> HIDE DEF h
<1>9. TypeOK'
  BY <1>1, <1>2, <1>8 DEF TypeOK
<1>10. DraftExists'
  BY <1>1, <1>2, <1>3, <1>6, <1>8 DEF DraftExists, Configured, Todo
<1>11. ASSUME NEW d \in Deployment, d.registry \in DOMAIN registries, d.vault \in DOMAIN vaults,
              VaultObeys(d), registries[d.registry].vault = d.vault
       PROVE  VaultObeys(d)'
  <2>1. CASE d.vault = draft.vault
    <3>1. Len(registries) \in Nat /\ DOMAIN registries = 1..Len(registries)
      BY LenProperties DEF TypeOK
    <3>2. draft.registry >= d.registry
      BY <3>1, <1>6, <1>11
    <3>3. vaults'[d.vault].registry = draft.registry
      BY <2>1, <1>6, <1>8
    <3>4. registries'[draft.registry].vault = registries'[d.registry].vault
      BY <2>1, <1>1, <1>6, <1>11 DEF Configured
    <3> QED BY <3>2, <3>3, <3>4, <1>1, <1>6 DEF VaultObeys, Obeys
  <2>2. CASE d.vault # draft.vault
    BY <2>2, <1>1, <1>8, <1>11 DEF VaultObeys, Obeys
  <2> QED BY <2>1, <2>2
<1>12. DraftTrue'
  <2>1. VaultObeys(draft)'
    <3>1. Len(registries) \in Nat
      BY LenProperties DEF TypeOK
    <3>2. vaults'[draft.vault].registry = draft.registry
      BY <1>6, <1>8
    <3>3. draft.registry >= draft.registry
      BY <3>1, <1>6
    <3> QED BY <3>2, <3>3, <1>1, <1>2, <1>6 DEF VaultObeys, Obeys
  <2>2. GasVaultObeys(draft) => GasVaultObeys(draft)'
    BY <1>1, <1>2 DEF GasVaultObeys, Obeys
  <2>3. Todo("bind", "gasVault") => Todo("bind", "gasVault")'
    BY <1>3 DEF Todo, h
  <2>4. \A n : Todo("set", n) <=> Todo("set", n)'
    BY <1>3 DEF Todo, h
  <2>5. \A k \in Kinds : Todo("mock", k)' => Todo("deploy", "mock")' \/ draft'.mock < 0
    BY <1>2, <1>3 DEF WiringInv, DraftTrue, Todo, h
  <2>6. Known(draft)' /\ (AdapterTrue(draft) => AdapterTrue(draft)')
    BY <1>1, <1>2, <1>3 DEF WiringInv, DraftTrue, Known, AdapterTrue
  <2>7. \A k \in Kinds : VerifierTrue(draft, k) => VerifierTrue(draft, k)'
    BY <1>1, <1>2 DEF VerifierTrue
  <2>8. Configured' = Configured
    BY <1>1, <1>2 DEF Configured
  <2>9. ~Todo("deploy", "registry")
    BY <1>4 DEF Todo
  <2> QED BY <2>1, <2>2, <2>3, <2>4, <2>5, <2>6, <2>7, <2>8, <2>9, <1>2, <1>3
          DEF WiringInv, DraftTrue
<1>13. OnlyNewer'
  <2>1. \A n : /\ Todo("set", n)' => Todo("set", n)
               /\ Todo("deploy", n) => Todo("deploy", n)'
    BY <1>3 DEF Todo, h
  <2> QED BY <2>1, <1>1, <1>2 DEF WiringInv, OnlyNewer
<1>14. ArtifactExists'
  BY <1>1, <1>2, <1>8 DEF WiringInv, ArtifactExists, Known
<1>15. ArtifactTrue'
  <2> SUFFICES ASSUME artifact # NoFile PROVE ArtifactTrue'
    BY <1>2 DEF ArtifactTrue
  <2>1. PICK d \in Deployment : d = artifact
    BY ArtifactTyped
  <2>2. /\ d.registry \in DOMAIN registries /\ d.vault \in DOMAIN vaults /\ VaultObeys(d)
        /\ registries[d.registry].vault = d.vault
    BY <2>1 DEF WiringInv, ArtifactExists, ArtifactTrue, VaultObeys
  <2>3. VaultObeys(d)'
    BY <2>2, <1>11
  <2> QED BY <2>1, <2>3, <1>1, <1>2 DEF WiringInv, ArtifactTrue, VaultObeys, Obeys
<1>16. VaultsExist'
  BY <1>1, <1>8 DEF WiringInv, VaultsExist
<1> QED BY <1>3, <1>9, <1>10, <1>12, <1>13, <1>14, <1>15, <1>16 DEF WiringInv

LEMMA GasVaultBound ==
  ASSUME TypeOK, WiringInv, BindGasVault
  PROVE  TypeOK' /\ WiringInv'
<1> DEFINE h == <<"bind", "gasVault">>
<1>1. /\ At("bind", "gasVault") /\ Go(draft)
      /\ gasVaults' = [gasVaults EXCEPT ![draft.gasVault].registry = draft.registry]
      /\ UNCHANGED <<registries, vaults, made>>
  BY DEF BindGasVault
<1>2. /\ script'.todo = Tail(script.todo) /\ draft' = draft /\ script'.feeds = script.feeds
      /\ artifact' = artifact /\ returning' = returning
      /\ script' \in [todo : Seq(Steps), draft : Deployment, feeds : Feeds \cup {NoFile}]
  BY <1>1, DraftTyped, Gone
<1>3. /\ script.todo # <<>> /\ PlanSound' /\ h \in Ahead
      /\ \A y \in Ahead' : y \in Ahead /\ ~Before(y, h)
      /\ \A y \in Ahead : y = h \/ y \in Ahead'
  BY <1>1, <1>2, StepDone DEF WiringInv, h
<1>4. <<"deploy", "registry">> \notin Ahead
  BY <1>3, OrderCases
<1>5. <<"deploy", "vault">> \notin Ahead /\ <<"deploy", "gasVault">> \notin Ahead
  BY <1>4 DEF WiringInv, PlanSound, Complete, DeployRegistryStep
<1>6. /\ draft.vault \in DOMAIN vaults /\ draft.gasVault \in DOMAIN gasVaults
      /\ draft.registry \in DOMAIN registries /\ draft.registry = Len(registries)
      /\ Configured.vault = draft.vault /\ Configured.gasVault = draft.gasVault
  BY <1>3, <1>4, <1>5 DEF WiringInv, DraftExists, Todo
<1>7. draft.registry \in Number
  BY DraftTyped DEF Deployment
<1>8. /\ gasVaults' \in Seq(GasVaultRecord) /\ DOMAIN gasVaults' = DOMAIN gasVaults
      /\ \A v \in DOMAIN gasVaults : gasVaults'[v].registry = IF v = draft.gasVault THEN draft.registry
                                                        ELSE gasVaults[v].registry
  <2> DEFINE w == [gasVaults[draft.gasVault] EXCEPT !.registry = draft.registry]
  <2>1. /\ gasVaults \in Seq(GasVaultRecord) /\ DOMAIN gasVaults = 1..Len(gasVaults)
        /\ \A v \in DOMAIN gasVaults : gasVaults[v] \in GasVaultRecord
    BY LenProperties, ElementOfSeq DEF TypeOK
  <2>2. w \in GasVaultRecord /\ w.registry = draft.registry
    BY <2>1, <1>6, <1>7 DEF GasVaultRecord
  <2>3. gasVaults' = [gasVaults EXCEPT ![draft.gasVault] = w]
    BY <1>1
  <2> HIDE DEF w
  <2>4. gasVaults' \in Seq(GasVaultRecord) /\ Len(gasVaults') = Len(gasVaults)
    BY <2>1, <2>2, <2>3, <1>6, ExceptSeq
  <2> QED BY <2>1, <2>2, <2>3, <2>4
<1> HIDE DEF h
<1>9. TypeOK'
  BY <1>1, <1>2, <1>8 DEF TypeOK
<1>10. DraftExists'
  BY <1>1, <1>2, <1>3, <1>6, <1>8 DEF DraftExists, Configured, Todo
<1>11. ASSUME NEW d \in Deployment, d.registry \in DOMAIN registries, d.gasVault \in DOMAIN gasVaults,
              GasVaultObeys(d), registries[d.registry].gasVault = d.gasVault
       PROVE  GasVaultObeys(d)'
  <2>1. CASE d.gasVault = draft.gasVault
    <3>1. Len(registries) \in Nat /\ DOMAIN registries = 1..Len(registries)
      BY LenProperties DEF TypeOK
    <3>2. draft.registry >= d.registry
      BY <3>1, <1>6, <1>11
    <3>3. gasVaults'[d.gasVault].registry = draft.registry
      BY <2>1, <1>6, <1>8
    <3>4. registries'[draft.registry].gasVault = registries'[d.registry].gasVault
      BY <2>1, <1>1, <1>6, <1>11 DEF Configured
    <3> QED BY <3>2, <3>3, <3>4, <1>1, <1>6 DEF GasVaultObeys, Obeys
  <2>2. CASE d.gasVault # draft.gasVault
    BY <2>2, <1>1, <1>8, <1>11 DEF GasVaultObeys, Obeys
  <2> QED BY <2>1, <2>2
<1>12. DraftTrue'
  <2>1. GasVaultObeys(draft)'
    <3>1. Len(registries) \in Nat
      BY LenProperties DEF TypeOK
    <3>2. gasVaults'[draft.gasVault].registry = draft.registry
      BY <1>6, <1>8
    <3>3. draft.registry >= draft.registry
      BY <3>1, <1>6
    <3> QED BY <3>2, <3>3, <1>1, <1>2, <1>6 DEF GasVaultObeys, Obeys
  <2>2. VaultObeys(draft) => VaultObeys(draft)'
    BY <1>1, <1>2 DEF VaultObeys, Obeys
  <2>3. Todo("bind", "vault") => Todo("bind", "vault")'
    BY <1>3 DEF Todo, h
  <2>4. \A n : Todo("set", n) <=> Todo("set", n)'
    BY <1>3 DEF Todo, h
  <2>5. \A k \in Kinds : Todo("mock", k)' => Todo("deploy", "mock")' \/ draft'.mock < 0
    BY <1>2, <1>3 DEF WiringInv, DraftTrue, Todo, h
  <2>6. Known(draft)' /\ (AdapterTrue(draft) => AdapterTrue(draft)')
    BY <1>1, <1>2, <1>3 DEF WiringInv, DraftTrue, Known, AdapterTrue
  <2>7. \A k \in Kinds : VerifierTrue(draft, k) => VerifierTrue(draft, k)'
    BY <1>1, <1>2 DEF VerifierTrue
  <2>8. Configured' = Configured
    BY <1>1, <1>2 DEF Configured
  <2>9. ~Todo("deploy", "registry")
    BY <1>4 DEF Todo
  <2> QED BY <2>1, <2>2, <2>3, <2>4, <2>5, <2>6, <2>7, <2>8, <2>9, <1>2, <1>3
          DEF WiringInv, DraftTrue
<1>13. OnlyNewer'
  <2>1. \A n : /\ Todo("set", n)' => Todo("set", n)
               /\ Todo("deploy", n) => Todo("deploy", n)'
    BY <1>3 DEF Todo, h
  <2> QED BY <2>1, <1>1, <1>2 DEF WiringInv, OnlyNewer
<1>14. ArtifactExists'
  BY <1>1, <1>2, <1>8 DEF WiringInv, ArtifactExists, Known
<1>15. ArtifactTrue'
  <2> SUFFICES ASSUME artifact # NoFile PROVE ArtifactTrue'
    BY <1>2 DEF ArtifactTrue
  <2>1. PICK d \in Deployment : d = artifact
    BY ArtifactTyped
  <2>2. /\ d.registry \in DOMAIN registries /\ d.gasVault \in DOMAIN gasVaults /\ GasVaultObeys(d)
        /\ registries[d.registry].gasVault = d.gasVault
    BY <2>1 DEF WiringInv, ArtifactExists, ArtifactTrue, GasVaultObeys
  <2>3. GasVaultObeys(d)'
    BY <2>2, <1>11
  <2> QED BY <2>1, <2>3, <1>1, <1>2 DEF WiringInv, ArtifactTrue, GasVaultObeys, Obeys
<1>16. VaultsExist'
  BY <1>1, <1>8 DEF WiringInv, VaultsExist
<1> QED BY <1>3, <1>9, <1>10, <1>12, <1>13, <1>14, <1>15, <1>16 DEF WiringInv

\* The registry of the draft, reconfigured.
LEMMA Reconfigured ==
  ASSUME TypeOK, WiringInv, NEW v, NEW n, At(v, n), NEW e \in RegistryRecord, Configure(e),
         <<"deploy", "registry">> \notin Ahead, v # "deploy", v # "bind",
         e.vault = Configured.vault, e.gasVault = Configured.gasVault
  PROVE  /\ TypeOK' /\ PlanSound' /\ DraftExists' /\ ArtifactExists' /\ VaultsExist'
         /\ script.todo # <<>> /\ script'.feeds = script.feeds
         /\ draft.registry \in DOMAIN registries
         /\ \A r \in DOMAIN registries : registries'[r] = IF r = draft.registry THEN e
                                                          ELSE registries[r]
         /\ Configured' = e /\ draft' = draft
         /\ \A y \in Ahead' : y \in Ahead /\ ~Before(y, <<v, n>>)
         /\ \A y \in Ahead : y = <<v, n>> \/ y \in Ahead'
         /\ Known(draft)'
         /\ Todo("bind", "vault")' \/ VaultObeys(draft)'
         /\ Todo("bind", "gasVault")' \/ GasVaultObeys(draft)'
         /\ artifact # NoFile => VaultObeys(artifact)' /\ GasVaultObeys(artifact)'
         /\ UNCHANGED <<vaults, gasVaults, made, artifact, returning>>
<1> DEFINE h == <<v, n>>
<1>1. /\ registries' = [registries EXCEPT ![draft.registry] = e] /\ Go(draft)
      /\ UNCHANGED <<vaults, gasVaults, made>>
  BY DEF Configure
<1>2. /\ script'.todo = Tail(script.todo) /\ draft' = draft /\ script'.feeds = script.feeds
      /\ artifact' = artifact /\ returning' = returning
      /\ script' \in [todo : Seq(Steps), draft : Deployment, feeds : Feeds \cup {NoFile}]
  BY <1>1, DraftTyped, Gone
<1>3. /\ script.todo # <<>> /\ PlanSound' /\ h \in Ahead
      /\ \A y \in Ahead' : y \in Ahead /\ ~Before(y, h)
      /\ \A y \in Ahead : y = h \/ y \in Ahead'
  BY <1>2, StepDone DEF WiringInv, h
<1>4. \A m : /\ <<"deploy", m>> # h /\ <<"bind", m>> # h
  BY DEF h
<1>5. <<"deploy", "vault">> \notin Ahead /\ <<"deploy", "gasVault">> \notin Ahead
  BY DEF WiringInv, PlanSound, Complete, DeployRegistryStep
<1>6. /\ draft.vault \in DOMAIN vaults /\ draft.gasVault \in DOMAIN gasVaults
      /\ draft.registry \in DOMAIN registries
      /\ Configured.vault = draft.vault /\ Configured.gasVault = draft.gasVault
      /\ Todo("bind", "vault") \/ Todo("bind", "gasVault") => draft.registry = Len(registries)
  BY <1>3, <1>5 DEF WiringInv, DraftExists, Todo
<1>7. /\ registries' \in Seq(RegistryRecord) /\ Len(registries') = Len(registries)
      /\ DOMAIN registries' = DOMAIN registries
      /\ \A r \in DOMAIN registries : registries'[r] = IF r = draft.registry THEN e
                                                       ELSE registries[r]
  <2>1. registries \in Seq(RegistryRecord) /\ DOMAIN registries = 1..Len(registries)
    BY LenProperties DEF TypeOK
  <2>2. registries' \in Seq(RegistryRecord) /\ Len(registries') = Len(registries)
    BY <2>1, <1>1, <1>6, ExceptSeq
  <2> QED BY <2>1, <2>2, <1>1
<1>8. \A r \in DOMAIN registries : /\ registries'[r].vault = registries[r].vault
                                   /\ registries'[r].gasVault = registries[r].gasVault
  BY <1>6, <1>7 DEF Configured
<1> HIDE DEF h
<1>9. TypeOK'
  BY <1>1, <1>2, <1>7 DEF TypeOK
<1>10. Configured' = e
  BY <1>2, <1>6, <1>7 DEF Configured
<1>11. DraftExists'
  BY <1>1, <1>2, <1>3, <1>4, <1>6, <1>7, <1>10 DEF DraftExists, Todo
<1>12. DOMAIN registries' = DOMAIN registries
  BY <1>7
<1>13. /\ VaultObeys(draft) => VaultObeys(draft)'
       /\ GasVaultObeys(draft) => GasVaultObeys(draft)'
  BY <1>1, <1>2, <1>6, <1>8, <1>12 DEF VaultObeys, GasVaultObeys, Obeys
<1>14. /\ Todo("bind", "vault")' \/ VaultObeys(draft)'
       /\ Todo("bind", "gasVault")' \/ GasVaultObeys(draft)'
  BY <1>3, <1>4, <1>13 DEF WiringInv, DraftTrue, Todo
<1>15. Known(draft)'
  BY <1>1, <1>2, <1>3 DEF WiringInv, DraftTrue, Known
<1>16. ArtifactExists' /\ VaultsExist'
  BY <1>1, <1>2, <1>7, <1>8 DEF WiringInv, ArtifactExists, VaultsExist, Known
<1>17. artifact # NoFile => VaultObeys(artifact)' /\ GasVaultObeys(artifact)'
  BY <1>1, <1>2, <1>8, <1>12
     DEF WiringInv, ArtifactExists, ArtifactTrue, VaultObeys, GasVaultObeys, Obeys
<1> QED BY <1>1, <1>2, <1>3, <1>6, <1>7, <1>9, <1>10, <1>11, <1>14, <1>15, <1>16, <1>17 DEF h

\* Then the draft's other claims, and the artifact's, follow from what is set.
LEMMA ReconfiguredWell ==
  ASSUME TypeOK, WiringInv, NEW v, NEW n, At(v, n), NEW e \in RegistryRecord, Configure(e),
         <<"deploy", "registry">> \notin Ahead, v # "deploy", v # "bind",
         e.vault = Configured.vault, e.gasVault = Configured.gasVault,
         \/ <<v, n>> # <<"set", "feeds">> /\ e.feeds = Configured.feeds
         \/ <<v, n>> = <<"set", "feeds">> /\ e.feeds = script.feeds,
         \/ <<v, n>> # <<"set", "adapter">> /\ e.adapter = Configured.adapter
         \/ <<v, n>> = <<"set", "adapter">> /\ e.adapter = draft.adapter,
         \A k \in Kinds : \/ <<v, n>> # <<"set", k>> /\ e.verifiers[k] = Configured.verifiers[k]
                          \/ <<v, n>> = <<"set", k>> /\ e.verifiers[k] = draft.verifiers[k]
                          \/ <<v, n>> # <<"set", k>> /\ e.verifiers[k] < 0
  PROVE  TypeOK' /\ WiringInv'
<1> DEFINE h == <<v, n>>
<1>1. /\ TypeOK' /\ PlanSound' /\ DraftExists' /\ ArtifactExists' /\ VaultsExist'
      /\ script.todo # <<>> /\ script'.feeds = script.feeds
      /\ draft.registry \in DOMAIN registries
      /\ \A r \in DOMAIN registries : registries'[r] = IF r = draft.registry THEN e
                                                       ELSE registries[r]
      /\ Configured' = e /\ draft' = draft
      /\ \A y \in Ahead' : y \in Ahead /\ ~Before(y, h)
      /\ \A y \in Ahead : y = h \/ y \in Ahead'
      /\ Known(draft)'
      /\ Todo("bind", "vault")' \/ VaultObeys(draft)'
      /\ Todo("bind", "gasVault")' \/ GasVaultObeys(draft)'
      /\ artifact # NoFile => VaultObeys(artifact)' /\ GasVaultObeys(artifact)'
      /\ UNCHANGED <<vaults, gasVaults, made, artifact, returning>>
  BY Reconfigured
<1>2. h \in Ahead
  <2>1. script.todo \in Seq(Steps) /\ script.todo # <<>> /\ Head(script.todo) = h
    BY DEF TypeOK, At
  <2> QED BY <2>1, Popped DEF Ahead
<1>3. \A m : <<"deploy", m>> # h
  BY DEF h
<1>4. /\ \/ h # <<"set", "feeds">> /\ e.feeds = Configured.feeds
         \/ h = <<"set", "feeds">> /\ e.feeds = script.feeds
      /\ \/ h # <<"set", "adapter">> /\ e.adapter = Configured.adapter
         \/ h = <<"set", "adapter">> /\ e.adapter = draft.adapter
      /\ \A k \in Kinds : \/ h # <<"set", k>> /\ e.verifiers[k] = Configured.verifiers[k]
                          \/ h = <<"set", k>> /\ e.verifiers[k] = draft.verifiers[k]
                          \/ h # <<"set", k>> /\ e.verifiers[k] < 0
  OBVIOUS
<1> HIDE DEF h
<1>5. IF Todo("set", "feeds")' THEN script'.feeds # NoFile ELSE Configured'.feeds # NoFile
  BY <1>1, <1>2, <1>4 DEF WiringInv, DraftTrue, Todo
<1>6. Todo("set", "adapter")' \/ AdapterTrue(draft)'
  <2>1. registries'[draft'.registry] = e
    BY <1>1
  <2>2. CASE h = <<"set", "adapter">>
    BY <2>1, <2>2, <1>1, <1>4, DraftNumbers DEF AdapterTrue
  <2>3. CASE h # <<"set", "adapter">>
    <3>1. Todo("set", "adapter") \/ AdapterTrue(draft)
      BY <1>1 DEF WiringInv, DraftTrue, Todo
    <3>2. AdapterTrue(draft) => AdapterTrue(draft)'
      BY <2>1, <2>3, <1>1, <1>4 DEF AdapterTrue, Configured
    <3> QED BY <3>1, <3>2, <2>3, <1>1 DEF Todo
  <2> QED BY <2>2, <2>3
<1>7. ASSUME NEW k \in Kinds
      PROVE  /\ Todo("set", k)' \/ VerifierTrue(draft, k)'
             /\ Todo("mock", k)' => Todo("deploy", "mock")' \/ draft'.mock < 0
  <2>1. registries'[draft'.registry] = e
    BY <1>1
  <2>2. Todo("set", k)' \/ VerifierTrue(draft, k)'
    <3>1. CASE h = <<"set", k>>
      BY <2>1, <3>1, <1>1, <1>4, DraftNumbers DEF VerifierTrue
    <3>2. CASE h # <<"set", k>>
      <4>1. Todo("set", k) \/ VerifierTrue(draft, k)
        BY <1>1 DEF WiringInv, DraftTrue
      <4>2. VerifierTrue(draft, k) => VerifierTrue(draft, k)'
        BY <2>1, <3>2, <1>1, <1>4 DEF VerifierTrue, Configured
      <4> QED BY <4>1, <4>2, <3>2, <1>1 DEF Todo
    <3> QED BY <3>1, <3>2
  <2>3. Todo("mock", k)' => Todo("deploy", "mock")' \/ draft'.mock < 0
    BY <1>1, <1>3 DEF WiringInv, DraftTrue, Todo
  <2> QED BY <2>2, <2>3
<1>8. DraftTrue'
  BY <1>1, <1>5, <1>6, <1>7 DEF DraftTrue
<1>9. OnlyNewer'
  <2>1. \A m : Todo("deploy", m) => Todo("deploy", m)'
    BY <1>1, <1>3 DEF Todo
  <2>2. \A m : Todo("set", m)' => Todo("set", m)
    BY <1>1 DEF Todo
  <2> QED BY <2>1, <2>2, <1>1 DEF WiringInv, OnlyNewer
<1>10. ArtifactTrue'
  <2> SUFFICES ASSUME artifact # NoFile PROVE ArtifactTrue'
    BY <1>1 DEF ArtifactTrue
  <2>1. PICK a \in Deployment : a = artifact
    BY ArtifactTyped
  <2>2. /\ artifact' = a /\ a.registry \in DOMAIN registries
        /\ registries[a.registry].vault = a.vault /\ registries[a.registry].gasVault = a.gasVault
        /\ registries[a.registry].feeds # NoFile /\ AdapterTrue(a)
        /\ \A k \in Kinds : VerifierTrue(a, k)
    BY <2>1, <1>1 DEF WiringInv, ArtifactExists, ArtifactTrue, AdapterTrue, VerifierTrue
  <2>3. VaultObeys(a)' /\ GasVaultObeys(a)'
    BY <2>1, <2>2, <1>1 DEF VaultObeys, GasVaultObeys
  <2>4. /\ registries'[a.registry].vault = a.vault
        /\ registries'[a.registry].gasVault = a.gasVault
        /\ registries'[a.registry].feeds # NoFile
    BY <2>2, <1>1, <1>2, <1>4 DEF Configured, WiringInv, DraftTrue, Todo
  <2>5. AdapterTrue(a)'
    <3>1. CASE a.registry = draft.registry /\ h = <<"set", "adapter">>
      <4>1. <<"deploy", "adapter">> \notin Ahead
        BY <3>1, <1>1, <1>3, OrderCases
      <4>2. draft.adapter > a.adapter
        BY <4>1, <3>1, <2>1, <1>2 DEF WiringInv, OnlyNewer, Todo
      <4> QED BY <4>2, <3>1, <2>1, <2>2, <1>1, <1>4, DraftNumbers, MigrationAssumption
              DEF AdapterTrue, Deployment, Number
    <3>2. CASE a.registry # draft.registry \/ h # <<"set", "adapter">>
      BY <3>2, <2>2, <1>1, <1>4 DEF AdapterTrue, Configured
    <3> QED BY <3>1, <3>2
  <2>6. ASSUME NEW k \in Kinds PROVE VerifierTrue(a, k)'
    <3>1. CASE a.registry = draft.registry /\ h = <<"set", k>>
      <4>1. <<"deploy", k>> \notin Ahead
        BY <3>1, <1>1, <1>3, OrderCases
      <4>2. draft.verifiers[k] > a.verifiers[k]
        BY <4>1, <3>1, <2>1, <1>2 DEF WiringInv, OnlyNewer, Todo
      <4> QED BY <4>2, <3>1, <2>1, <2>2, <1>1, <1>4, DraftNumbers, MigrationAssumption
              DEF VerifierTrue, Deployment, Number
    <3>2. CASE a.registry # draft.registry \/ h # <<"set", k>>
      BY <3>2, <2>2, <1>1, <1>4 DEF VerifierTrue, Configured
    <3> QED BY <3>1, <3>2
  <2> QED BY <2>2, <2>3, <2>4, <2>5, <2>6 DEF ArtifactTrue, VaultObeys, GasVaultObeys,
        AdapterTrue, VerifierTrue
<1> QED BY <1>1, <1>8, <1>9, <1>10 DEF WiringInv

LEMMA ConfiguredTyped ==
  ASSUME TypeOK, WiringInv, script.todo # <<>>, <<"deploy", "registry">> \notin Ahead
  PROVE  Configured \in RegistryRecord
<1>1. draft.registry \in DOMAIN registries
  BY DEF WiringInv, DraftExists, Todo
<1>2. registries \in Seq(RegistryRecord) /\ DOMAIN registries = 1..Len(registries)
  BY LenProperties DEF TypeOK
<1> QED BY <1>1, <1>2, ElementOfSeq DEF Configured

\* A step that comes after the registry finds it deployed.
LEMMA RegistryDone ==
  ASSUME TypeOK, WiringInv, NEW v, NEW n, At(v, n), v # "deploy",
         Before(<<"deploy", "registry">>, <<v, n>>)
  PROVE  script.todo # <<>> /\ <<"deploy", "registry">> \notin Ahead /\ <<v, n>> \in Ahead
<1>1. script.todo \in Seq(Steps) /\ script.todo # <<>> /\ Head(script.todo) = <<v, n>>
  BY DEF TypeOK, At
<1>2. /\ Ahead = {<<v, n>>} \cup Range(Tail(script.todo))
      /\ \A y \in Range(Tail(script.todo)) : ~Before(y, <<v, n>>)
  BY <1>1, Popped DEF Ahead, WiringInv, PlanSound
<1>3. <<"deploy", "registry">> # <<v, n>>
  OBVIOUS
<1> QED BY <1>1, <1>2, <1>3

LEMMA VerifierSet ==
  ASSUME TypeOK, WiringInv, NEW k \in Kinds, SetVerifier(k)
  PROVE  TypeOK' /\ WiringInv'
<1>0. draft \in Deployment /\ draft.verifiers[k] \in Verifier /\ draft.mock \in Verifier
  BY DraftTyped, MigrationAssumption DEF Deployment, Number, Verifier
<1>1. CASE At("set", k) /\ Configure([Configured EXCEPT !.verifiers[k] = draft.verifiers[k]])
  <2> DEFINE e == [Configured EXCEPT !.verifiers[k] = draft.verifiers[k]]
  <2>1. <<"deploy", "registry">> \notin Ahead /\ Configured \in RegistryRecord
    BY <1>1, RegistryDone, OrderCases, ConfiguredTyped
  <2>2. /\ e \in RegistryRecord /\ e.vault = Configured.vault
        /\ e.gasVault = Configured.gasVault /\ e.feeds = Configured.feeds
        /\ e.adapter = Configured.adapter
        /\ \A j \in Kinds : e.verifiers[j] = IF j = k THEN draft.verifiers[k]
                                             ELSE Configured.verifiers[j]
    BY <2>1, <1>0 DEF RegistryRecord
  <2>3. /\ <<"set", k>> # <<"set", "feeds">> /\ <<"set", k>> # <<"set", "adapter">>
        /\ \A j \in Kinds : j # k => <<"set", k>> # <<"set", j>>
    BY DEF Kinds
  <2>4. At("set", k) /\ Configure(e)
    BY <1>1
  <2> HIDE DEF e
  <2>5. \A j \in Kinds :
          \/ <<"set", k>> # <<"set", j>> /\ e.verifiers[j] = Configured.verifiers[j]
          \/ <<"set", k>> = <<"set", j>> /\ e.verifiers[j] = draft.verifiers[j]
    BY <2>2, <2>3
  <2> QED BY <2>1, <2>2, <2>3, <2>4, <2>5, ReconfiguredWell
<1>2. CASE At("mock", k) /\ Configure([Configured EXCEPT !.verifiers[k] = draft.mock])
  <2> DEFINE e == [Configured EXCEPT !.verifiers[k] = draft.mock]
  <2>1. /\ <<"deploy", "registry">> \notin Ahead /\ Configured \in RegistryRecord
        /\ <<"mock", k>> \in Ahead
    BY <1>2, RegistryDone, OrderCases, ConfiguredTyped
  <2>2. /\ e \in RegistryRecord /\ e.vault = Configured.vault
        /\ e.gasVault = Configured.gasVault /\ e.feeds = Configured.feeds
        /\ e.adapter = Configured.adapter
        /\ \A j \in Kinds : e.verifiers[j] = IF j = k THEN draft.mock
                                             ELSE Configured.verifiers[j]
    BY <2>1, <1>0 DEF RegistryRecord
  <2>3. draft.mock < 0
    <3>1. <<"deploy", "mock">> \notin Ahead
      <4>1. script.todo \in Seq(Steps) /\ script.todo # <<>> /\ Head(script.todo) = <<"mock", k>>
        BY <1>2 DEF TypeOK, At
      <4>2. /\ Ahead = {<<"mock", k>>} \cup Range(Tail(script.todo))
            /\ \A y \in Range(Tail(script.todo)) : ~Before(y, <<"mock", k>>)
        BY <4>1, Popped DEF Ahead, WiringInv, PlanSound
      <4>3. <<"deploy", "mock">> # <<"mock", k>>
        OBVIOUS
      <4> QED BY <4>2, <4>3, OrderCases
    <3> QED BY <3>1, <2>1, <1>2 DEF WiringInv, DraftTrue, Todo, At
  <2>4. \A j : <<"mock", k>> # <<"set", j>>
    OBVIOUS
  <2>5. At("mock", k) /\ Configure(e)
    BY <1>2
  <2> HIDE DEF e
  <2>6. \A j \in Kinds : <<"mock", k>> # <<"set", j>> /\ (e.verifiers[j] = Configured.verifiers[j]
                                                       \/ e.verifiers[j] < 0)
    BY <2>2, <2>3, <2>4
  <2> QED BY <2>1, <2>2, <2>4, <2>5, <2>6, ReconfiguredWell
<1> QED BY <1>1, <1>2 DEF SetVerifier

LEMMA FeedsSet ==
  ASSUME TypeOK, WiringInv, SetFeeds
  PROVE  TypeOK' /\ WiringInv'
<1> DEFINE e == [Configured EXCEPT !.feeds = script.feeds]
<1>1. At("set", "feeds") /\ Configure(e)
  BY DEF SetFeeds
<1>2. <<"deploy", "registry">> \notin Ahead /\ Configured \in RegistryRecord
  BY <1>1, RegistryDone, OrderCases, ConfiguredTyped
<1>3. script.feeds \in Feeds \cup {NoFile}
  BY DEF TypeOK
<1>4. /\ e \in RegistryRecord /\ e.vault = Configured.vault
      /\ e.gasVault = Configured.gasVault /\ e.feeds = script.feeds
      /\ e.adapter = Configured.adapter /\ e.verifiers = Configured.verifiers
  BY <1>2, <1>3 DEF RegistryRecord
<1>5. /\ <<"set", "feeds">> # <<"set", "adapter">>
      /\ \A k \in Kinds : <<"set", "feeds">> # <<"set", k>>
  BY DEF Kinds
<1> HIDE DEF e
<1> QED BY <1>1, <1>2, <1>4, <1>5, ReconfiguredWell

LEMMA AdapterSet ==
  ASSUME TypeOK, WiringInv, SetAdapter
  PROVE  TypeOK' /\ WiringInv'
<1> DEFINE e == [Configured EXCEPT !.adapter = draft.adapter]
<1>1. At("set", "adapter") /\ Configure(e)
  BY DEF SetAdapter
<1>2. <<"deploy", "registry">> \notin Ahead /\ Configured \in RegistryRecord
  BY <1>1, RegistryDone, OrderCases, ConfiguredTyped
<1>3. draft.adapter \in Number
  BY DraftTyped DEF Deployment
<1>4. /\ e \in RegistryRecord /\ e.vault = Configured.vault
      /\ e.gasVault = Configured.gasVault /\ e.adapter = draft.adapter
      /\ e.feeds = Configured.feeds /\ e.verifiers = Configured.verifiers
  BY <1>2, <1>3 DEF RegistryRecord
<1>5. /\ <<"set", "adapter">> # <<"set", "feeds">>
      /\ \A k \in Kinds : <<"set", "adapter">> # <<"set", k>>
  BY DEF Kinds
<1> HIDE DEF e
<1> QED BY <1>1, <1>2, <1>4, <1>5, ReconfiguredWell

\* A script that is over leaves nothing to do.
LEMMA IdleSound ==
  /\ Idle \in [todo : Seq(Steps), draft : Deployment, feeds : Feeds \cup {NoFile}]
  /\ Idle.todo = <<>>
<1>1. MaxContracts \in Nat
  BY MigrationAssumption
<1>2. 0 \in Number /\ 0 \in Verifier
  BY <1>1 DEF Number, Verifier
<1>3. [k \in Kinds |-> 0] \in [Kinds -> Number]
  BY <1>2
<1>4. Blank \in Deployment
  BY <1>2, <1>3 DEF Blank, Deployment
<1>5. <<>> \in Seq(Steps)
  BY NoPlan
<1> QED BY <1>4, <1>5 DEF Idle

LEMMA PlanOver ==
  ASSUME TypeOK, script' = Idle
  PROVE  PlanSound' /\ DraftExists' /\ DraftTrue' /\ OnlyNewer' /\ Ahead' = {}
<1>1. script'.todo = <<>>
  BY IdleSound
<1>2. Ahead' = {} /\ InOrder(script'.todo)
  BY <1>1, NoPlan DEF Ahead
<1>3. PlanSound'
  BY <1>2 DEF PlanSound, Complete
<1>4. DraftExists' /\ DraftTrue'
  BY <1>1 DEF DraftExists, DraftTrue
<1>5. OnlyNewer'
  BY <1>2 DEF OnlyNewer, Todo
<1> QED BY <1>2, <1>3, <1>4, <1>5

\* The artifact, written last, says what the draft claims.
LEMMA Written ==
  ASSUME TypeOK, WiringInv, Write
  PROVE  TypeOK' /\ WiringInv'
<1>1. PICK n \in {"all", "but feeds"} :
        At("write", n) /\ artifact' = IF n = "all" THEN [draft EXCEPT !.feeds = script.feeds]
                                      ELSE draft
  BY DEF Write
<1>2. /\ script' = Idle /\ UNCHANGED <<registries, vaults, gasVaults, made, returning>>
  BY DEF Write, chainVars
<1>3. /\ script.todo \in Seq(Steps) /\ script.todo # <<>> /\ Head(script.todo) = <<"write", n>>
  BY <1>1 DEF TypeOK, At
<1>4. ASSUME NEW y \in Ahead PROVE y[1] = "write"
  <2>1. /\ Ahead = {<<"write", n>>} \cup Range(Tail(script.todo))
        /\ \A z \in Range(Tail(script.todo)) : ~Before(z, <<"write", n>>)
    BY <1>3, Popped DEF Ahead, WiringInv, PlanSound
  <2>2. <<"write", n>>[1] = "write"
    OBVIOUS
  <2>3. CASE y = <<"write", n>>
    BY <2>2, <2>3
  <2>4. CASE y \in Range(Tail(script.todo))
    <3>1. ~Before(y, <<"write", n>>)
      BY <2>1, <2>4
    <3> QED BY <3>1, <2>2 DEF Before
  <2> QED BY <2>1, <2>3, <2>4
<1>5. \A m : /\ <<"deploy", m>> \notin Ahead /\ <<"bind", m>> \notin Ahead
             /\ <<"set", m>> \notin Ahead
  BY <1>4
<1>6. draft \in Deployment /\ script.feeds \in Feeds \cup {NoFile}
  BY DraftTyped DEF TypeOK
<1>7. /\ artifact' \in Deployment
      /\ artifact'.registry = draft.registry /\ artifact'.vault = draft.vault
      /\ artifact'.gasVault = draft.gasVault /\ artifact'.adapter = draft.adapter
      /\ artifact'.verifiers = draft.verifiers
  BY <1>1, <1>6 DEF Deployment
<1>9. TypeOK'
  BY <1>2, <1>7, IdleSound DEF TypeOK
<1>12. PlanSound' /\ DraftExists' /\ DraftTrue' /\ OnlyNewer'
  BY <1>2, PlanOver
<1>13. /\ draft.registry \in DOMAIN registries /\ draft.vault \in DOMAIN vaults
       /\ draft.gasVault \in DOMAIN gasVaults
       /\ registries[draft.registry].vault = draft.vault
       /\ registries[draft.registry].gasVault = draft.gasVault
  BY <1>3, <1>5 DEF WiringInv, DraftExists, Todo, Configured
<1>14. /\ Known(draft) /\ VaultObeys(draft) /\ GasVaultObeys(draft)
       /\ registries[draft.registry].feeds # NoFile
       /\ AdapterTrue(draft) /\ \A k \in Kinds : VerifierTrue(draft, k)
  BY <1>3, <1>5 DEF WiringInv, DraftTrue, Todo, Configured
<1>15. ArtifactExists'
  BY <1>2, <1>7, <1>13, <1>14 DEF ArtifactExists, Known
<1>16. ArtifactTrue'
  BY <1>2, <1>7, <1>13, <1>14 DEF ArtifactTrue, VaultObeys, GasVaultObeys, AdapterTrue,
     VerifierTrue, Obeys
<1>17. VaultsExist'
  BY <1>2 DEF WiringInv, VaultsExist
<1> QED BY <1>9, <1>12, <1>15, <1>16, <1>17 DEF WiringInv

LEMMA EndedEarly ==
  ASSUME TypeOK, WiringInv, EndEarly
  PROVE  TypeOK' /\ WiringInv'
<1>1. /\ script' = Idle
      /\ UNCHANGED <<registries, vaults, gasVaults, made, artifact, returning>>
  BY DEF EndEarly, chainVars
<1>3. TypeOK'
  BY <1>1, IdleSound DEF TypeOK
<1>5. PlanSound' /\ DraftExists' /\ DraftTrue' /\ OnlyNewer'
  BY <1>1, PlanOver
<1>7. ArtifactExists' /\ ArtifactTrue' /\ VaultsExist'
  BY <1>1 DEF WiringInv, ArtifactExists, ArtifactTrue, VaultsExist, Known, Obeys
<1> QED BY <1>3, <1>5, <1>7 DEF WiringInv

LEMMA LaunchesWell ==
  ASSUME TypeOK, WiringInv, Launches
  PROVE  /\ TypeOK' /\ WiringInv'
         /\ UNCHANGED <<registries, vaults, gasVaults, returning>>
<1>1. TypeOK' /\ WiringInv'
  BY LaunchDeploy, LaunchRedeployRegistry, LaunchRedeployVerifiers, LaunchSwapToMock,
     LaunchSwapFeeTier DEF Launches
<1>2. UNCHANGED <<registries, vaults, gasVaults, returning>>
  BY DEF Launches, Deploy, RedeployRegistry, RedeployVerifiers, SwapToMock, SwapFeeTier,
         Launch, chainVars
<1> QED BY <1>1, <1>2

LEMMA ScriptStepsWell ==
  ASSUME TypeOK, WiringInv, ScriptSteps
  PROVE  TypeOK' /\ WiringInv'
BY VaultDeployed, GasVaultDeployed, RegistryDeployed, OtherDeployed, VaultBound,
   GasVaultBound, VerifierSet, FeedsSet, AdapterSet, Written, EndedEarly DEF ScriptSteps
=============================================================================
