---------------------------- MODULE LedgerProofs ----------------------------
(***************************************************************************)
(* Proofs about the funds in CommitmentRegistry, for every number of       *)
(* users, tokens, hashes and vaults: every vault holds what it owes, and   *)
(* the registry with its vaults keeps the promise of CommitmentLedger.     *)
(* Both are about sums of balances, so the first part proves the facts     *)
(* about sums over finite sets that the library does not have.             *)
(***************************************************************************)
EXTENDS CommitmentRegistryProofs, WellFoundedInduction

-----------------------------------------------------------------------------
(* Induction over finite sets and numbers, and the sums of the library. *)

(***************************************************************************)
(* Induction on the subsets of a finite set, with a set of subsets in the  *)
(* place of a predicate: a set Q that contains a subset whenever it        *)
(* contains what is left of it without any one element contains S.         *)
(***************************************************************************)
LEMMA SubsetInduction ==
  ASSUME NEW S, IsFiniteSet(S), NEW Q,
         \A T \in SUBSET S : (\A x \in T : T \ {x} \in Q) => T \in Q
  PROVE  S \in Q
<1> DEFINE Bad == (SUBSET S) \ Q
           Less == StrictSubsetOrdering(S)
<1>1. SUFFICES ASSUME S \notin Q PROVE FALSE
  OBVIOUS
<1>2. IsWellFoundedOn(Less, SUBSET S)
  BY FS_StrictSubsetOrderingWellFounded, FS_FiniteSubsetsOfFinite
<1>3. \A T, U \in SUBSET S : <<T, U>> \in Less <=> T \subseteq U /\ T # U
  BY DEF StrictSubsetOrdering
<1>4. Bad \subseteq SUBSET S /\ Bad # {}
  BY <1>1
<1> HIDE DEF Bad, Less
<1>5. PICK T \in Bad : \A U \in Bad : ~ (<<U, T>> \in Less)
  BY <1>2, <1>4, WFMin
<1>6. \A x \in T : T \ {x} \in Q
  <2> SUFFICES ASSUME NEW x \in T PROVE T \ {x} \in Q
    OBVIOUS
  <2> DEFINE U == T \ {x}
  <2>1. x \notin U /\ U \subseteq T
    OBVIOUS
  <2>2. T \in SUBSET S /\ U \in SUBSET S /\ U # T
    BY <1>4, <2>1
  <2> HIDE DEF U
  <2>3. <<U, T>> \in Less
    BY <1>3, <2>1, <2>2
  <2>4. U \notin Bad
    BY <1>5, <2>3
  <2> QED BY <2>2, <2>4 DEF Bad, U
<1>7. T \in SUBSET S /\ T \notin Q
  BY <1>5 DEF Bad
<1> QED BY <1>6, <1>7, Zenon

\* The same for the numbers up to n.
LEMMA UpToInduction ==
  ASSUME NEW n \in Nat, NEW Q, 0 \in Q, \A i \in 0..(n-1) : i \in Q => i + 1 \in Q
  PROVE  n \in Q
<1> DEFINE Bad == (0..n) \ Q
           Less == OpToRel(<, Nat)
<1>1. SUFFICES ASSUME n \notin Q PROVE FALSE
  OBVIOUS
<1>2. IsWellFoundedOn(Less, Nat)
  BY NatLessThanWellFounded
<1>3. \A i, j \in Nat : <<i, j>> \in Less <=> i < j
  BY DEF OpToRel
<1>4. Bad \subseteq Nat /\ Bad # {}
  BY <1>1
<1> HIDE DEF Bad, Less
<1>5. PICK i \in Bad : \A j \in Bad : ~ (<<j, i>> \in Less)
  BY <1>2, <1>4, WFMin
<1>6. i \in 1..n /\ i \notin Q
  BY <1>5 DEF Bad
<1>7. i - 1 \in 0..(n-1) /\ i - 1 \notin Bad
  <2>1. i \in Nat /\ i - 1 \in Nat /\ i - 1 < i /\ i - 1 \in 0..(n-1)
    BY <1>6
  <2> QED BY <1>3, <1>5, <2>1
<1>8. i - 1 \in Q
  BY <1>7, <1>6 DEF Bad
<1> QED BY <1>6, <1>7, <1>8

\* The equation a sum is defined by, for a function on the sets of D.
SumRec(f, D, it) ==
  it = [s \in D |-> IF s = {} THEN 0
                    ELSE f[CHOOSE x \in s : TRUE] + it[s \ {CHOOSE x \in s : TRUE}]]

SumIter(f, S) == CHOOSE it : SumRec(f, SUBSET S, it)

LEMMA SumUnfold ==
  ASSUME NEW f, NEW S
  PROVE  SumFunctionOnSet(f, S) = SumIter(f, S)[S]
BY DEF SumFunctionOnSet, FoldFunctionOnSet, MapThenFoldSet, SumIter, SumRec

\* What the choice of an element gives.
LEMMA Chosen ==
  ASSUME NEW S, S # {}
  PROVE  (CHOOSE x \in S : TRUE) \in S
OBVIOUS

\* A function with that equation exists: built for larger and larger sets.
LEMMA SumRecExists ==
  ASSUME NEW f, NEW S, IsFiniteSet(S)
  PROVE  \E it : SumRec(f, SUBSET S, it)
<1> DEFINE n == Cardinality(S)
           Small(i) == {s \in SUBSET S : Cardinality(s) <= i}
           Q == {i \in 0..n : \E it : SumRec(f, Small(i), it)}
<1>1. /\ n \in Nat
      /\ \A s \in SUBSET S : /\ IsFiniteSet(s) /\ Cardinality(s) \in Nat
                             /\ Cardinality(s) <= n
                             /\ Cardinality(s) = 0 <=> s = {}
  BY FS_CardinalityType, FS_Subset, FS_EmptySet
<1>2. ASSUME NEW s \in SUBSET S, s # {}
      PROVE  LET r == s \ {CHOOSE x \in s : TRUE}
             IN  r \in SUBSET S /\ Cardinality(r) = Cardinality(s) - 1
  BY <1>1, <1>2, FS_RemoveElement
<1>3. 0 \in Q
  <2> DEFINE it == [s \in Small(0) |-> 0]
  <2>1. \A s \in Small(0) : s = {}
    BY <1>1
  <2> HIDE DEF Small
  <2>2. SumRec(f, Small(0), it)
    BY <2>1 DEF SumRec
  <2> QED BY <1>1, <2>2
<1>4. ASSUME NEW i \in 0..(n-1), i \in Q PROVE i + 1 \in Q
  <2>1. PICK it : SumRec(f, Small(i), it)
    BY <1>4
  <2> DEFINE next(s) == IF s = {} THEN 0
                        ELSE f[CHOOSE x \in s : TRUE] + it[s \ {CHOOSE x \in s : TRUE}]
             jt == [s \in Small(i+1) |-> next(s)]
  <2>2. \A s \in Small(i) : it[s] = next(s) /\ s \in Small(i+1)
    BY <1>1, <2>1 DEF SumRec
  <2>3. \A s \in Small(i+1) : s # {} => s \ {CHOOSE x \in s : TRUE} \in Small(i)
    BY <1>1, <1>2
  <2> HIDE DEF Small, next
  <2>4. \A s \in Small(i) : jt[s] = it[s]
    BY <2>2
  <2> HIDE DEF jt
  <2>5. ASSUME NEW s \in Small(i+1)
        PROVE  next(s) = IF s = {} THEN 0
                         ELSE f[CHOOSE x \in s : TRUE] + jt[s \ {CHOOSE x \in s : TRUE}]
    <3>1. CASE s = {}
      BY <3>1 DEF next
    <3>2. CASE s # {}
      <4>1. it[s \ {CHOOSE x \in s : TRUE}] = jt[s \ {CHOOSE x \in s : TRUE}]
        BY <2>3, <2>4, <3>2
      <4> QED BY <3>2, <4>1 DEF next
    <3> QED BY <3>1, <3>2
  <2>6. SumRec(f, Small(i+1), jt)
    BY <2>5 DEF SumRec, jt
  <2>7. i + 1 \in 0..n
    BY <1>1
  <2> QED BY <2>6, <2>7
<1> HIDE DEF Q
<1>5. n \in Q
  BY <1>1, <1>3, <1>4, UpToInduction
<1>6. Small(n) = SUBSET S
  BY <1>1
<1> QED BY <1>5, <1>6 DEF Q

\* Such functions agree where both are defined.
LEMMA SumIterAgrees ==
  ASSUME NEW f, NEW S, IsFiniteSet(S), NEW T \in SUBSET S
  PROVE  SumIter(f, S)[T] = SumIter(f, T)[T]
<1> DEFINE it == SumIter(f, S)
           jt == SumIter(f, T)
<1>0. IsFiniteSet(T) /\ SumRec(f, SUBSET S, it) /\ SumRec(f, SUBSET T, jt)
  BY FS_Subset, SumRecExists DEF SumIter
<1> HIDE DEF it, jt
<1> DEFINE Q == {U \in SUBSET T : it[U] = jt[U]}
<1>1. IsFiniteSet(T)
  BY <1>0
<1>2. ASSUME NEW U \in SUBSET T, \A x \in U : U \ {x} \in Q PROVE U \in Q
  <2>1. /\ it[U] = IF U = {} THEN 0
                   ELSE f[CHOOSE x \in U : TRUE] + it[U \ {CHOOSE x \in U : TRUE}]
        /\ jt[U] = IF U = {} THEN 0
                   ELSE f[CHOOSE x \in U : TRUE] + jt[U \ {CHOOSE x \in U : TRUE}]
    BY <1>0 DEF SumRec
  <2> QED BY <1>2, <2>1, Chosen
<1> HIDE DEF Q
<1>3. T \in Q
  BY <1>1, <1>2, SubsetInduction
<1> QED BY <1>3 DEF Q, it, jt

\* The sum over a set and the sum over it without the element chosen first.
LEMMA SumChosen ==
  ASSUME NEW f, NEW S, IsFiniteSet(S)
  PROVE  SumFunctionOnSet(f, S) =
           IF S = {} THEN 0 ELSE LET c == CHOOSE x \in S : TRUE
                                 IN  f[c] + SumFunctionOnSet(f, S \ {c})
<1> DEFINE c == CHOOSE x \in S : TRUE
           T == S \ {c}
<1>1. T \in SUBSET S
  OBVIOUS
<1>2. SumRec(f, SUBSET S, SumIter(f, S))
  BY SumRecExists DEF SumIter
<1>3. SumIter(f, S)[S] = IF S = {} THEN 0 ELSE f[c] + SumIter(f, S)[T]
  BY <1>2 DEF SumRec
<1>4. SumIter(f, S)[T] = SumIter(f, T)[T]
  BY <1>1, SumIterAgrees
<1> QED BY <1>3, <1>4, SumUnfold

-----------------------------------------------------------------------------
(* Sums of integers. *)

LEMMA SumEmpty ==
  ASSUME NEW f
  PROVE  SumFunctionOnSet(f, {}) = 0
BY SumChosen, FS_EmptySet

LEMMA SumSome ==
  ASSUME NEW S, IsFiniteSet(S), S # {}
  PROVE  \E c \in S : \A f : SumFunctionOnSet(f, S) = f[c] + SumFunctionOnSet(f, S \ {c})
<1> DEFINE c == CHOOSE x \in S : TRUE
<1>1. c \in S
  OBVIOUS
<1>2. ASSUME NEW f PROVE SumFunctionOnSet(f, S) = f[c] + SumFunctionOnSet(f, S \ {c})
  BY SumChosen
<1> QED BY <1>1, <1>2

LEMMA SumType ==
  ASSUME NEW S, IsFiniteSet(S), NEW f, \A x \in S : f[x] \in Int
  PROVE  SumFunctionOnSet(f, S) \in Int
<1> DEFINE Q == {T \in SUBSET S : SumFunctionOnSet(f, T) \in Int}
<1>1. ASSUME NEW T \in SUBSET S, \A x \in T : T \ {x} \in Q PROVE T \in Q
  <2>1. IsFiniteSet(T)
    BY FS_Subset
  <2>2. CASE T = {}
    BY <2>2, SumEmpty
  <2>3. CASE T # {}
    <3>1. PICK c \in T : SumFunctionOnSet(f, T) = f[c] + SumFunctionOnSet(f, T \ {c})
      BY <2>1, <2>3, SumSome
    <3>2. SumFunctionOnSet(f, T \ {c}) \in Int /\ f[c] \in Int
      BY <1>1
    <3> QED BY <3>1, <3>2
  <2> QED BY <2>2, <2>3
<1> HIDE DEF Q
<1>2. S \in Q
  BY <1>1, SubsetInduction
<1> QED BY <1>2 DEF Q

\* Any element may be added last.
LEMMA SumRemove ==
  ASSUME NEW S, IsFiniteSet(S), NEW f, \A x \in S : f[x] \in Int, NEW y \in S
  PROVE  SumFunctionOnSet(f, S) = f[y] + SumFunctionOnSet(f, S \ {y})
<1> DEFINE Sum(T) == SumFunctionOnSet(f, T)
           Q == {T \in SUBSET S : \A x \in T : Sum(T) = f[x] + Sum(T \ {x})}
<1>1. \A T \in SUBSET S : IsFiniteSet(T) /\ Sum(T) \in Int
  BY FS_Subset, SumType
<1>2. \A T \in SUBSET S : T # {} => \E c \in T : Sum(T) = f[c] + Sum(T \ {c})
  BY <1>1, SumSome
<1> HIDE DEF Sum
<1>3. ASSUME NEW T \in SUBSET S, \A x \in T : T \ {x} \in Q PROVE T \in Q
  <2>1. SUFFICES ASSUME NEW x \in T PROVE Sum(T) = f[x] + Sum(T \ {x})
    OBVIOUS
  <2>2. PICK c \in T : Sum(T) = f[c] + Sum(T \ {c})
    BY <1>2
  <2>3. CASE c = x
    BY <2>2, <2>3
  <2>4. CASE c # x
    <3> DEFINE Tx == T \ {x}
               Tc == T \ {c}
               R == Tc \ {x}
    <3>1. Tx \in Q /\ Tc \in Q /\ c \in Tx /\ x \in Tc /\ R = Tx \ {c} /\ R \in SUBSET S
      BY <1>3, <2>4
    <3>2. Sum(Tc) = f[x] + Sum(R) /\ Sum(Tx) = f[c] + Sum(R)
      BY <3>1
    <3>3. Sum(R) \in Int /\ f[x] \in Int /\ f[c] \in Int /\ Sum(T) = f[c] + Sum(Tc)
      BY <1>1, <2>2, <3>1
    <3> HIDE DEF R, Tx, Tc
    <3>4. Sum(T) = f[x] + Sum(Tx)
      BY <3>2, <3>3
    <3> QED BY <3>4 DEF Tx
  <2> QED BY <2>3, <2>4
<1> HIDE DEF Q
<1>4. S \in Q
  BY <1>3, SubsetInduction
<1> QED BY <1>4 DEF Q, Sum

\* Functions that agree on S have the same sum over S.
LEMMA SumEqual ==
  ASSUME NEW S, IsFiniteSet(S), NEW f, NEW g, \A x \in S : f[x] = g[x]
  PROVE  SumFunctionOnSet(f, S) = SumFunctionOnSet(g, S)
<1> DEFINE Q == {T \in SUBSET S : SumFunctionOnSet(f, T) = SumFunctionOnSet(g, T)}
<1>1. ASSUME NEW T \in SUBSET S, \A x \in T : T \ {x} \in Q PROVE T \in Q
  <2>1. IsFiniteSet(T)
    BY FS_Subset
  <2>2. CASE T = {}
    BY <2>2, SumEmpty
  <2>3. CASE T # {}
    <3>1. PICK c \in T : /\ SumFunctionOnSet(f, T) = f[c] + SumFunctionOnSet(f, T \ {c})
                         /\ SumFunctionOnSet(g, T) = g[c] + SumFunctionOnSet(g, T \ {c})
      BY <2>1, <2>3, SumSome
    <3>2. SumFunctionOnSet(f, T \ {c}) = SumFunctionOnSet(g, T \ {c}) /\ f[c] = g[c]
      BY <1>1
    <3> QED BY <3>1, <3>2
  <2> QED BY <2>2, <2>3
<1> HIDE DEF Q
<1>2. S \in Q
  BY <1>1, SubsetInduction
<1> QED BY <1>2 DEF Q

\* The sum of natural numbers is one, and no less than any of them.
LEMMA SumNat ==
  ASSUME NEW S, IsFiniteSet(S), NEW f, \A x \in S : f[x] \in Nat
  PROVE  /\ SumFunctionOnSet(f, S) \in Nat
         /\ \A x \in S : f[x] <= SumFunctionOnSet(f, S)
<1> DEFINE Sum(T) == SumFunctionOnSet(f, T)
           Q == {T \in SUBSET S : Sum(T) \in Nat}
<1>1. \A T \in SUBSET S : \A x \in T : Sum(T) = f[x] + Sum(T \ {x})
  BY FS_Subset, SumRemove
<1>2. Sum({}) = 0
  BY SumEmpty
<1> HIDE DEF Sum
<1>3. ASSUME NEW T \in SUBSET S, \A x \in T : T \ {x} \in Q PROVE T \in Q
  <2>1. CASE T = {}
    BY <1>2, <2>1
  <2>2. ASSUME NEW x \in T PROVE T \in Q
    <3>1. Sum(T \ {x}) \in Nat /\ f[x] \in Nat /\ Sum(T) = f[x] + Sum(T \ {x})
      BY <1>1, <1>3
    <3> QED BY <3>1
  <2> QED BY <2>1, <2>2
<1> HIDE DEF Q
<1>4. \A T \in SUBSET S : T \in Q
  <2> SUFFICES ASSUME NEW T \in SUBSET S PROVE T \in Q
    OBVIOUS
  <2>1. IsFiniteSet(T) /\ \A U \in SUBSET T : U \in SUBSET S
    BY FS_Subset
  <2> QED BY <1>3, <2>1, SubsetInduction
<1>5. \A T \in SUBSET S : Sum(T) \in Nat
  BY <1>4 DEF Q
<1>6. ASSUME NEW x \in S PROVE f[x] <= Sum(S)
  <2>1. Sum(S) = f[x] + Sum(S \ {x}) /\ Sum(S \ {x}) \in Nat
    BY <1>1, <1>5
  <2> QED BY <2>1
<1> QED BY <1>5, <1>6 DEF Sum

\* What a change of one summand does to the sum.
LEMMA SumChange ==
  ASSUME NEW S, IsFiniteSet(S), NEW f, NEW g, NEW y \in S, NEW d \in Int,
         \A x \in S : f[x] \in Int,
         g[y] = f[y] + d, \A x \in S \ {y} : g[x] = f[x]
  PROVE  SumFunctionOnSet(g, S) = SumFunctionOnSet(f, S) + d
<1> DEFINE R == S \ {y}
<1>1. IsFiniteSet(R) /\ R \subseteq S
  BY FS_Subset
<1>2. \A x \in S : g[x] \in Int
  OBVIOUS
<1>3. SumFunctionOnSet(g, R) = SumFunctionOnSet(f, R)
  BY <1>1, SumEqual
<1>4. SumFunctionOnSet(f, R) \in Int
  BY <1>1, SumType
<1>5. /\ SumFunctionOnSet(f, S) = f[y] + SumFunctionOnSet(f, R)
      /\ SumFunctionOnSet(g, S) = g[y] + SumFunctionOnSet(g, R)
  BY <1>2, SumRemove
<1> QED BY <1>3, <1>4, <1>5

\* Sums add up pointwise.
LEMMA SumPlus ==
  ASSUME NEW S, IsFiniteSet(S), NEW f, NEW g, NEW h,
         \A x \in S : f[x] \in Int /\ g[x] \in Int /\ h[x] = f[x] + g[x]
  PROVE  SumFunctionOnSet(h, S) = SumFunctionOnSet(f, S) + SumFunctionOnSet(g, S)
<1> DEFINE F(T) == SumFunctionOnSet(f, T)
           G(T) == SumFunctionOnSet(g, T)
           H(T) == SumFunctionOnSet(h, T)
           Q == {T \in SUBSET S : H(T) = F(T) + G(T)}
<1>1. \A x \in S : h[x] \in Int
  OBVIOUS
<1>2. \A T \in SUBSET S : /\ F(T) \in Int /\ G(T) \in Int
                          /\ \A x \in T : /\ F(T) = f[x] + F(T \ {x})
                                          /\ G(T) = g[x] + G(T \ {x})
                                          /\ H(T) = h[x] + H(T \ {x})
  BY <1>1, FS_Subset, SumType, SumRemove
<1>3. F({}) = 0 /\ G({}) = 0 /\ H({}) = 0
  BY SumEmpty
<1> HIDE DEF F, G, H
<1>4. ASSUME NEW T \in SUBSET S, \A x \in T : T \ {x} \in Q PROVE T \in Q
  <2>1. CASE T = {}
    BY <1>3, <2>1
  <2>2. ASSUME NEW x \in T PROVE T \in Q
    <3>1. H(T \ {x}) = F(T \ {x}) + G(T \ {x}) /\ T \ {x} \in SUBSET S
      BY <1>4
    <3> QED BY <1>2, <3>1
  <2> QED BY <2>1, <2>2
<1> HIDE DEF Q
<1>5. S \in Q
  BY <1>4, SubsetInduction
<1> QED BY <1>5 DEF Q, F, G, H

\* Summands that are zero outside T do not count.
LEMMA SumFilter ==
  ASSUME NEW S, IsFiniteSet(S), NEW T \in SUBSET S, NEW f, NEW g,
         \A x \in T : f[x] \in Int /\ g[x] = f[x], \A x \in S \ T : g[x] = 0
  PROVE  SumFunctionOnSet(g, S) = SumFunctionOnSet(f, T)
<1> DEFINE F(U) == SumFunctionOnSet(f, U \cap T)
           G(U) == SumFunctionOnSet(g, U)
           Q == {U \in SUBSET S : G(U) = F(U)}
<1>1. \A x \in S : g[x] \in Int
  OBVIOUS
<1>2. \A U \in SUBSET S : \A x \in U : G(U) = g[x] + G(U \ {x})
  BY <1>1, FS_Subset, SumRemove
<1>3. \A U \in SUBSET S : \A x \in U \cap T : F(U) = f[x] + F(U \ {x})
  <2> SUFFICES ASSUME NEW U \in SUBSET S, NEW x \in U \cap T
               PROVE  F(U) = f[x] + F(U \ {x})
    OBVIOUS
  <2>1. IsFiniteSet(U \cap T) /\ (U \cap T) \ {x} = (U \ {x}) \cap T
    BY FS_Subset
  <2>2. F(U) = f[x] + SumFunctionOnSet(f, (U \cap T) \ {x})
    BY <2>1, SumRemove
  <2> QED BY <2>1, <2>2
<1>4. \A U \in SUBSET S : \A x \in U \ T : F(U \ {x}) = F(U)
  <2> SUFFICES ASSUME NEW U \in SUBSET S, NEW x \in U \ T PROVE F(U \ {x}) = F(U)
    OBVIOUS
  <2>1. U \cap T = (U \ {x}) \cap T
    OBVIOUS
  <2> QED BY <2>1
<1>5. F({}) = 0 /\ G({}) = 0
  <2>1. {} \cap T = {}
    OBVIOUS
  <2> QED BY <2>1, SumEmpty
<1>6. \A U \in SUBSET S : F(U) \in Int
  <2> SUFFICES ASSUME NEW U \in SUBSET S PROVE F(U) \in Int
    OBVIOUS
  <2>1. IsFiniteSet(U \cap T)
    BY FS_Subset
  <2> QED BY <2>1, SumType
<1> HIDE DEF F, G
<1>7. ASSUME NEW U \in SUBSET S, \A x \in U : U \ {x} \in Q PROVE U \in Q
  <2>1. CASE U = {}
    BY <1>5, <2>1
  <2>2. ASSUME NEW x \in U PROVE U \in Q
    <3>1. G(U \ {x}) = F(U \ {x}) /\ F(U \ {x}) \in Int
      BY <1>6, <1>7
    <3>2. CASE x \in T
      BY <1>2, <1>3, <3>1, <3>2
    <3>3. CASE x \notin T
      BY <1>2, <1>4, <3>1, <3>3
    <3> QED BY <3>2, <3>3
  <2> QED BY <2>1, <2>2
<1> HIDE DEF Q
<1>8. S \in Q
  BY <1>7, SubsetInduction
<1>9. S \cap T = T
  OBVIOUS
<1> QED BY <1>8, <1>9 DEF Q, F, G

\* A sum over indices is a sum over what a sequence without repetition lists.
LEMMA SumListed ==
  ASSUME NEW I, IsFiniteSet(I), NEW s, \A i, j \in I : s[i] = s[j] => i = j,
         NEW f, NEW g, \A i \in I : g[i] \in Int /\ f[s[i]] = g[i]
  PROVE  SumFunctionOnSet(f, {s[i] : i \in I}) = SumFunctionOnSet(g, I)
<1> DEFINE Img(J) == {s[i] : i \in J}
           F(J) == SumFunctionOnSet(f, Img(J))
           G(J) == SumFunctionOnSet(g, J)
           Q == {J \in SUBSET I : F(J) = G(J)}
<1>1. \A J \in SUBSET I : IsFiniteSet(J) /\ IsFiniteSet(Img(J))
  <2> SUFFICES ASSUME NEW J \in SUBSET I PROVE IsFiniteSet(J) /\ IsFiniteSet(Img(J))
    OBVIOUS
  <2> DEFINE m == [i \in J |-> s[i]]
  <2>1. IsFiniteSet(J)
    BY FS_Subset
  <2>2. m \in Surjection(J, Img(J))
    BY DEF Surjection
  <2> QED BY <2>1, <2>2, FS_Surjection
<1>2. \A J \in SUBSET I : \A i \in J : G(J) = g[i] + G(J \ {i})
  BY <1>1, SumRemove
<1>3. ASSUME NEW J \in SUBSET I, NEW i \in J
      PROVE  F(J) = g[i] + F(J \ {i})
  <2>1. s[i] \in Img(J) /\ Img(J) \ {s[i]} = Img(J \ {i})
    OBVIOUS
  <2>2. \A y \in Img(J) : f[y] \in Int
    OBVIOUS
  <2>3. IsFiniteSet(Img(J)) /\ f[s[i]] = g[i]
    BY <1>1
  <2> HIDE DEF Img
  <2>4. F(J) = f[s[i]] + SumFunctionOnSet(f, Img(J) \ {s[i]})
    BY <2>1, <2>2, <2>3, SumRemove
  <2> QED BY <2>1, <2>3, <2>4
<1>4. F({}) = 0 /\ G({}) = 0
  <2>1. Img({}) = {}
    OBVIOUS
  <2> QED BY <2>1, SumEmpty
<1> HIDE DEF F, G
<1>5. ASSUME NEW J \in SUBSET I, \A i \in J : J \ {i} \in Q PROVE J \in Q
  <2>1. CASE J = {}
    BY <1>4, <2>1
  <2>2. ASSUME NEW i \in J PROVE J \in Q
    <3>1. F(J \ {i}) = G(J \ {i})
      BY <1>5
    <3> QED BY <1>2, <1>3, <3>1
  <2> QED BY <2>1, <2>2
<1> HIDE DEF Q
<1>6. I \in Q
  BY <1>5, SubsetInduction
<1> QED BY <1>6 DEF Q, F, G

\* A finite set of summands, each counted for its owner, adds up to the whole.
Shares(g, S, own, U) == [u \in U |-> SumFunctionOnSet(g, {x \in S : own[x] = u})]

LEMMA SumByOwner ==
  ASSUME NEW S, IsFiniteSet(S), NEW U, IsFiniteSet(U), NEW own, NEW g,
         \A x \in S : own[x] \in U /\ g[x] \in Int
  PROVE  SumFunctionOnSet(Shares(g, S, own, U), U) = SumFunctionOnSet(g, S)
<1> DEFINE Of(T, u) == {x \in T : own[x] = u}
           Share(T) == [u \in U |-> SumFunctionOnSet(g, Of(T, u))]
           F(T) == SumFunctionOnSet(Share(T), U)
           G(T) == SumFunctionOnSet(g, T)
           Q == {T \in SUBSET S : F(T) = G(T)}
<1>1. \A T \in SUBSET S : IsFiniteSet(T) /\ \A u \in U : IsFiniteSet(Of(T, u))
  BY FS_Subset
<1>2. \A T \in SUBSET S : \A u \in U : Share(T)[u] \in Int
  BY <1>1, SumType
<1>3. \A T \in SUBSET S : G(T) \in Int /\ \A x \in T : G(T) = g[x] + G(T \ {x})
  BY <1>1, SumType, SumRemove
<1>4. ASSUME NEW T \in SUBSET S, NEW x \in T
      PROVE  F(T) = F(T \ {x}) + g[x]
  <2> DEFINE R == T \ {x}
             o == own[x]
  <2>1. o \in U /\ x \in Of(T, o) /\ Of(T, o) \ {x} = Of(R, o) /\ R \in SUBSET S
    OBVIOUS
  <2>2. \A u \in U \ {o} : Of(T, u) = Of(R, u)
    OBVIOUS
  <2>3. \A y \in Of(T, o) : g[y] \in Int
    OBVIOUS
  <2> HIDE DEF Of, R
  <2>4. Share(T)[o] = Share(R)[o] + g[x]
    <3> HIDE DEF o
    <3>1. SumFunctionOnSet(g, Of(T, o)) = g[x] + SumFunctionOnSet(g, Of(R, o))
      <4>1. IsFiniteSet(Of(T, o))
        BY <1>1, <2>1
      <4>2. SumFunctionOnSet(g, Of(T, o)) = g[x] + SumFunctionOnSet(g, Of(T, o) \ {x})
        BY <2>1, <2>3, <4>1, SumRemove
      <4> QED BY <2>1, <4>2
    <3>2. Share(R)[o] \in Int /\ g[x] \in Int
      BY <1>2, <2>1
    <3> QED BY <2>1, <3>1, <3>2
  <2>5. \A u \in U \ {o} : Share(T)[u] = Share(R)[u]
    BY <2>2
  <2>6. g[x] \in Int /\ \A u \in U : Share(R)[u] \in Int
    BY <1>2, <2>1
  <2> HIDE DEF Share, o
  <2> DEFINE f == Share(R)
             h == Share(T)
  <2> HIDE DEF f, h
  <2>7. SumFunctionOnSet(h, U) = SumFunctionOnSet(f, U) + g[x]
    <3>1. h[o] = f[o] + g[x] /\ \A u \in U \ {o} : h[u] = f[u]
      BY <2>4, <2>5 DEF f, h
    <3>2. \A u \in U : f[u] \in Int
      BY <2>6 DEF f
    <3> QED BY <2>1, <2>6, <3>1, <3>2, SumChange
  <2> QED BY <2>7 DEF R, f, h
<1>5. F({}) = 0 /\ G({}) = 0
  <2>1. \A u \in U : Of({}, u) = {}
    OBVIOUS
  <2>2. \A u \in U : Share({})[u] = 0
    BY <2>1, SumEmpty
  <2> HIDE DEF Share
  <2>3. SumFunctionOnSet(Share({}), U) = SumFunctionOnSet(Share({}), {})
    BY <2>2, SumFilter
  <2> QED BY <2>3, SumEmpty
<1> HIDE DEF F, G
<1>6. ASSUME NEW T \in SUBSET S, \A x \in T : T \ {x} \in Q PROVE T \in Q
  <2>1. CASE T = {}
    BY <1>5, <2>1
  <2>2. ASSUME NEW x \in T PROVE T \in Q
    <3>1. F(T \ {x}) = G(T \ {x}) /\ G(T \ {x}) \in Int /\ g[x] \in Int
      BY <1>3, <1>6
    <3> QED BY <1>3, <1>4, <3>1
  <2> QED BY <2>1, <2>2
<1> HIDE DEF Q
<1>7. S \in Q
  BY <1>6, SubsetInduction
<1>8. F(S) = G(S)
  BY <1>7 DEF Q
<1> QED BY <1>8 DEF F, G, Shares

\* A sum with at most one summand.
LEMMA SumOne ==
  ASSUME NEW f, NEW x, f[x] \in Int
  PROVE  SumFunctionOnSet(f, {x}) = f[x]
<1>1. IsFiniteSet({x}) /\ {x} \ {x} = {}
  BY FS_Singleton
<1>2. SumFunctionOnSet(f, {x}) = f[x] + SumFunctionOnSet(f, {})
  BY <1>1, SumRemove
<1> QED BY <1>2, SumEmpty

\* The sum of a function is that over its domain.
LEMMA SumWhole ==
  ASSUME NEW S, NEW f, DOMAIN f = S
  PROVE  SumFunction(f) = SumFunctionOnSet(f, S)
BY DEF SumFunction

-----------------------------------------------------------------------------
(* What a call moves, entry by entry and in total. *)

WalletMoves(u, t, d) ==
  \A x \in Users, s \in Tokens :
    wallet'[x][s] = IF x = u /\ s = t THEN wallet[x][s] + d ELSE wallet[x][s]

TokensMove(v, t, d) ==
  \A w \in Vaults, s \in Tokens :
    vaultTokens'[w][s] = IF w = v /\ s = t THEN vaultTokens[w][s] + d ELSE vaultTokens[w][s]

FreeMoves(v, u, t, d) ==
  \A w \in Vaults, x \in Users, s \in Tokens :
    freeBalance'[w][x][s] = IF w = v /\ x = u /\ s = t
                            THEN freeBalance[w][x][s] + d ELSE freeBalance[w][x][s]

LockedMoves(v, h, t, d) ==
  \A w \in Vaults, k \in Hashes, s \in Tokens :
    lockedBalance'[w][k][s] = IF w = v /\ k = h /\ s = t
                              THEN lockedBalance[w][k][s] + d ELSE lockedBalance[w][k][s]

LEMMA DepositMoves ==
  ASSUME VaultTypeOK, NEW v \in Vaults, NEW u \in Users, NEW t \in Tokens, NEW a \in Nat,
         VaultDeposit(v, u, t, a)
  PROVE  /\ WalletMoves(u, t, -a) /\ TokensMove(v, t, a) /\ FreeMoves(v, u, t, a)
         /\ UNCHANGED lockedBalance
BY DEF VaultTypeOK, VaultDeposit, WalletMoves, TokensMove, FreeMoves

LEMMA WithdrawMoves ==
  ASSUME VaultTypeOK, NEW v \in Vaults, NEW u \in Users, NEW t \in Tokens, NEW a \in Nat,
         VaultWithdraw(v, u, t, a)
  PROVE  /\ WalletMoves(u, t, a) /\ TokensMove(v, t, -a) /\ FreeMoves(v, u, t, -a)
         /\ UNCHANGED lockedBalance
BY DEF VaultTypeOK, VaultWithdraw, WalletMoves, TokensMove, FreeMoves

LEMMA LockMoves ==
  ASSUME VaultTypeOK, NEW v \in Vaults, NEW h \in Hashes, NEW u \in Users, NEW t \in Tokens,
         NEW a \in Nat, LockCollateral(v, h, u, t, a)
  PROVE  /\ FreeMoves(v, u, t, -a) /\ LockedMoves(v, h, t, a)
         /\ UNCHANGED <<wallet, vaultTokens>>
BY DEF VaultTypeOK, LockCollateral, FreeMoves, LockedMoves

LEMMA ReturnMoves ==
  ASSUME VaultTypeOK, NEW v \in Vaults, NEW h \in Hashes, NEW u \in Users, NEW t \in Tokens,
         NEW a \in Nat, ReturnCollateral(v, h, u, t, a)
  PROVE  /\ FreeMoves(v, u, t, a) /\ LockedMoves(v, h, t, -a)
         /\ UNCHANGED <<wallet, vaultTokens>>
BY DEF VaultTypeOK, ReturnCollateral, FreeMoves, LockedMoves

LEMMA SwapMoves ==
  ASSUME VaultTypeOK, NEW v \in Vaults, NEW h \in Hashes, NEW u \in Users, NEW t \in Tokens,
         NEW s \in Tokens, NEW a \in Nat, NEW out \in Nat,
         ReleaseAndSwap(v, h, t, a, u, s, out)
  PROVE  /\ WalletMoves(u, s, out) /\ TokensMove(v, t, -a) /\ LockedMoves(v, h, t, -a)
         /\ UNCHANGED freeBalance
BY DEF VaultTypeOK, ReleaseAndSwap, WalletMoves, TokensMove, LockedMoves

\* What the users of vault v have in it in token t, free and locked.
FreeOf(v, t) == [u \in Users |-> freeBalance[v][u][t]]
LockedOf(v, t) == [h \in Hashes |-> lockedBalance[v][h][t]]
TotalFree(v, t) == SumFunctionOnSet(FreeOf(v, t), Users)
TotalLocked(v, t) == SumFunctionOnSet(LockedOf(v, t), Hashes)

LEMMA TotalsType ==
  ASSUME VaultTypeOK, NEW v \in Vaults, NEW t \in Tokens
  PROVE  /\ \A u \in Users : FreeOf(v, t)[u] \in Int
         /\ \A h \in Hashes : LockedOf(v, t)[h] \in Int
         /\ TotalFree(v, t) \in Int /\ TotalLocked(v, t) \in Int
<1>1. \A u \in Users : FreeOf(v, t)[u] \in Int
  BY DEF VaultTypeOK, FreeOf
<1>2. \A h \in Hashes : LockedOf(v, t)[h] \in Int
  BY DEF VaultTypeOK, LockedOf
<1> QED BY <1>1, <1>2, DeploymentAssumption, SumType DEF TotalFree, TotalLocked

\* Totals move with the entries.
LEMMA TotalFreeMoves ==
  ASSUME VaultTypeOK, NEW v \in Vaults, NEW u \in Users, NEW t \in Tokens, NEW d \in Int,
         FreeMoves(v, u, t, d), NEW w \in Vaults, NEW s \in Tokens
  PROVE  TotalFree(w, s)' = IF w = v /\ s = t THEN TotalFree(w, s) + d ELSE TotalFree(w, s)
<1> DEFINE f == FreeOf(w, s)
           g == FreeOf(w, s)'
<1>1. \A x \in Users : f[x] \in Int
  BY TotalsType
<1>2. \A x \in Users : g[x] = IF w = v /\ x = u /\ s = t THEN f[x] + d ELSE f[x]
  BY DEF FreeMoves, FreeOf
<1> HIDE DEF f, g
<1>3. SumFunctionOnSet(g, Users) = IF w = v /\ s = t THEN SumFunctionOnSet(f, Users) + d
                                   ELSE SumFunctionOnSet(f, Users)
  <2>1. CASE w = v /\ s = t
    BY <1>1, <1>2, <2>1, DeploymentAssumption, SumChange
  <2>2. CASE ~ (w = v /\ s = t)
    BY <1>2, <2>2, DeploymentAssumption, SumEqual
  <2> QED BY <2>1, <2>2
<1> QED BY <1>3 DEF TotalFree, f, g

LEMMA TotalLockedMoves ==
  ASSUME VaultTypeOK, NEW v \in Vaults, NEW h \in Hashes, NEW t \in Tokens, NEW d \in Int,
         LockedMoves(v, h, t, d), NEW w \in Vaults, NEW s \in Tokens
  PROVE  TotalLocked(w, s)' = IF w = v /\ s = t THEN TotalLocked(w, s) + d
                              ELSE TotalLocked(w, s)
<1> DEFINE f == LockedOf(w, s)
           g == LockedOf(w, s)'
<1>1. \A x \in Hashes : f[x] \in Int
  BY TotalsType
<1>2. \A x \in Hashes : g[x] = IF w = v /\ x = h /\ s = t THEN f[x] + d ELSE f[x]
  BY DEF LockedMoves, LockedOf
<1> HIDE DEF f, g
<1>3. SumFunctionOnSet(g, Hashes) = IF w = v /\ s = t THEN SumFunctionOnSet(f, Hashes) + d
                                    ELSE SumFunctionOnSet(f, Hashes)
  <2>1. CASE w = v /\ s = t
    <3>1. g[h] = f[h] + d /\ \A x \in Hashes \ {h} : g[x] = f[x]
      BY <1>2, <2>1
    <3> QED BY <1>1, <2>1, <3>1, DeploymentAssumption, SumChange
  <2>2. CASE ~ (w = v /\ s = t)
    BY <1>2, <2>2, DeploymentAssumption, SumEqual
  <2> QED BY <2>1, <2>2
<1> QED BY <1>3 DEF TotalLocked, f, g

-----------------------------------------------------------------------------
(* What a batch registration moves. *)

BatchTotal(hs, offer) ==
  SumFunctionOnSet([i \in DOMAIN hs |-> offer[hs[i]].size], DOMAIN hs)

\* The batch locks the sum of its sizes, counted per call or per hash.
LEMMA BatchSum ==
  ASSUME NEW hs \in Batches, NEW offer \in [{hs[i] : i \in DOMAIN hs} -> Terms],
         \A i, j \in DOMAIN hs : hs[i] = hs[j] => i = j
  PROVE  /\ BatchTotal(hs, offer) \in Nat
         /\ \A f : (\A i \in DOMAIN hs : f[hs[i]] = offer[hs[i]].size)
                     => SumFunctionOnSet(f, {hs[i] : i \in DOMAIN hs}) = BatchTotal(hs, offer)
<1> DEFINE g == [i \in DOMAIN hs |-> offer[hs[i]].size]
<1>1. /\ IsFiniteSet(DOMAIN hs)
      /\ \A i \in DOMAIN hs : g[i] \in Nat
  <2>1. /\ Len(hs) \in Nat /\ DOMAIN hs = 1..Len(hs)
        /\ \A i \in DOMAIN hs : offer[hs[i]] \in Terms
    BY BatchSizes
  <2>2. 1 \in Int /\ Len(hs) \in Int
    BY <2>1
  <2>3. IsFiniteSet(1..Len(hs))
    BY <2>2, FS_Interval, Zenon
  <2> QED BY <2>1, <2>3 DEF Terms
<1>2. BatchTotal(hs, offer) \in Nat
  BY <1>1, SumNat DEF BatchTotal
<1>3. ASSUME NEW f, \A i \in DOMAIN hs : f[hs[i]] = offer[hs[i]].size
      PROVE  SumFunctionOnSet(f, {hs[i] : i \in DOMAIN hs}) = BatchTotal(hs, offer)
  <2>1. \A i \in DOMAIN hs : g[i] \in Int /\ f[hs[i]] = g[i]
    BY <1>1, <1>3
  <2> HIDE DEF g
  <2>2. SumFunctionOnSet(f, {hs[i] : i \in DOMAIN hs}) = SumFunctionOnSet(g, DOMAIN hs)
    BY <1>1, <2>1, SumListed
  <2> QED BY <2>2 DEF BatchTotal, g
<1> QED BY <1>2, <1>3

\* Its owner's free balance covers that sum and falls by it.
LEMMA BatchFree ==
  ASSUME VaultTypeOK, vault \in Vaults, NEW u \in Users, NEW hs \in Batches,
         NEW offer \in [{hs[i] : i \in DOMAIN hs} -> Terms],
         RegisterCommitmentBatch(u, hs, offer)
  PROVE  /\ offer[hs[1]].tokenIn \in Tokens
         /\ freeBalance[vault][u][offer[hs[1]].tokenIn] >= BatchTotal(hs, offer)
         /\ FreeMoves(vault, u, offer[hs[1]].tokenIn, -BatchTotal(hs, offer))
         /\ UNCHANGED <<wallet, vaultTokens>>
<1> DEFINE sizes == [i \in DOMAIN hs |-> offer[hs[i]].size]
           t == offer[hs[1]].tokenIn
           n == Len(sizes)
           left == BalanceAfter(freeBalance[vault][u][t], sizes)
           total == BatchTotal(hs, offer)
<1>1. n \in Nat /\ DOMAIN hs = 1..n /\ t \in Tokens /\ total \in Nat
  <2>1. \A i, j \in DOMAIN hs : hs[i] = hs[j] => i = j
    BY DEF RegisterCommitmentBatch
  <2> QED BY <2>1, BatchSizes, BatchSum DEF Terms
<1>2. /\ left \in [0..n -> Nat]
      /\ freeBalance' = [freeBalance EXCEPT ![vault][u][t] = left[n]]
      /\ UNCHANGED <<wallet, vaultTokens>>
  BY DEF RegisterCommitmentBatch, LockBatch
<1>3. left[n] = freeBalance[vault][u][t] - total
  BY <1>1 DEF BalanceAfter, BatchTotal
<1> HIDE DEF left, n, t, total
<1>4. left[n] \in Nat
  BY <1>1, <1>2
<1>5. freeBalance[vault][u][t] \in Nat
  BY <1>1 DEF VaultTypeOK
<1>6. freeBalance[vault][u][t] >= total
  BY <1>1, <1>3, <1>4, <1>5
<1>7. FreeMoves(vault, u, t, -total)
  <2>1. \A w \in Vaults, x \in Users, s \in Tokens :
          freeBalance'[w][x][s] = IF w = vault /\ x = u /\ s = t
                                  THEN left[n] ELSE freeBalance[w][x][s]
    <3>1. freeBalance \in [Vaults -> [Users -> [Tokens -> Nat]]]
      BY DEF VaultTypeOK
    <3> DEFINE rest == left[n]
    <3>2. freeBalance' = [freeBalance EXCEPT ![vault][u][t] = rest] /\ t \in Tokens
      BY <1>1, <1>2
    <3> HIDE DEF rest
    <3>3. \A w \in Vaults, x \in Users, s \in Tokens :
            freeBalance'[w][x][s] = IF w = vault /\ x = u /\ s = t
                                    THEN rest ELSE freeBalance[w][x][s]
      BY <3>1, <3>2
    <3> QED BY <3>3 DEF rest
  <2>2. left[n] = freeBalance[vault][u][t] + (-total)
    BY <1>1, <1>3, <1>5
  <2> QED BY <2>1, <2>2 DEF FreeMoves
<1> QED BY <1>1, <1>2, <1>6, <1>7 DEF t, total

\* What is locked in the vault in use rises by it.
LEMMA BatchLockedTotal ==
  ASSUME VaultTypeOK, vault \in Vaults, NEW u \in Users, NEW hs \in Batches,
         NEW offer \in [{hs[i] : i \in DOMAIN hs} -> Terms],
         RegisterCommitmentBatch(u, hs, offer), NEW w \in Vaults, NEW s \in Tokens
  PROVE  TotalLocked(w, s)' = IF w = vault /\ s = offer[hs[1]].tokenIn
                              THEN TotalLocked(w, s) + BatchTotal(hs, offer)
                              ELSE TotalLocked(w, s)
<1> DEFINE Hit == {hs[i] : i \in DOMAIN hs}
           t == offer[hs[1]].tokenIn
           f == LockedOf(w, s)
           g == LockedOf(w, s)'
           size == [h \in Hit |-> offer[h].size]
           more == [h \in Hashes |-> IF h \in Hit THEN size[h] ELSE 0]
<1>1. /\ Hit \subseteq Hashes /\ \A h \in Hit : size[h] \in Int
      /\ \A h \in Hit : offer[h].tokenIn = t
  <2>1. /\ Len(hs) \in Nat /\ DOMAIN hs = 1..Len(hs) /\ Len(hs) >= 1
        /\ \A i \in DOMAIN hs : hs[i] \in Hashes /\ offer[hs[i]] \in Terms
    BY BatchSizes
  <2>2. \A i \in DOMAIN hs : offer[hs[i]].tokenIn = t
    BY <2>1 DEF RegisterCommitmentBatch
  <2>3. \A h \in Hit : \E i \in DOMAIN hs : h = hs[i]
    OBVIOUS
  <2>4. \A h \in Hit : h \in Hashes /\ offer[h].tokenIn = t /\ offer[h].size \in Int
    <3> HIDE DEF Hit, t
    <3> QED BY <2>1, <2>2, <2>3 DEF Terms
  <2> QED BY <2>4
<1>2. \A h \in Hashes : f[h] \in Int
  BY TotalsType
<1>3. \A h \in Hashes : g[h] = IF w = vault /\ h \in Hit /\ s = t THEN f[h] + size[h] ELSE f[h]
  <2>1. \A h \in Hashes :
          lockedBalance'[w][h][s] =
            IF w = vault /\ (\E i \in DOMAIN hs : hs[i] = h) /\ s = offer[h].tokenIn
            THEN lockedBalance[w][h][s] + offer[h].size ELSE lockedBalance[w][h][s]
    BY BatchLocks
  <2> QED BY <1>1, <2>1 DEF LockedOf
<1>4. SumFunctionOnSet(size, Hit) = BatchTotal(hs, offer)
  <2>1. /\ \A i, j \in DOMAIN hs : hs[i] = hs[j] => i = j
        /\ \A i \in DOMAIN hs : size[hs[i]] = offer[hs[i]].size
    BY DEF RegisterCommitmentBatch
  <2> HIDE DEF size
  <2> QED BY <2>1, BatchSum
<1> HIDE DEF f, g, t, Hit, size
<1>5. SumFunctionOnSet(more, Hashes) = SumFunctionOnSet(size, Hit)
  BY <1>1, DeploymentAssumption, SumFilter
<1>6. CASE w = vault /\ s = t
  <2>1. \A h \in Hashes : f[h] \in Int /\ more[h] \in Int /\ g[h] = f[h] + more[h]
    BY <1>1, <1>2, <1>3, <1>6
  <2> HIDE DEF more
  <2>2. SumFunctionOnSet(g, Hashes) = SumFunctionOnSet(f, Hashes) + SumFunctionOnSet(more, Hashes)
    BY <2>1, DeploymentAssumption, SumPlus
  <2> QED BY <1>4, <1>5, <1>6, <2>2 DEF TotalLocked, f, g, t
<1>7. CASE ~ (w = vault /\ s = t)
  <2>1. SumFunctionOnSet(g, Hashes) = SumFunctionOnSet(f, Hashes)
    BY <1>3, <1>7, DeploymentAssumption, SumEqual
  <2> QED BY <1>7, <2>1 DEF TotalLocked, f, g, t
<1> QED BY <1>6, <1>7 DEF t

-----------------------------------------------------------------------------
(* What a sweep moves. *)

Swept(H) == {h \in H : Expired(h)}

\* The sizes that a set of commitments holds in one token.
SizesIn(S, t) ==
  SumFunctionOnSet([h \in Hashes |-> terms(h).size], {h \in S : terms(h).tokenIn = t})

LEMMA SweptTyped ==
  ASSUME RegistryTypeOK, NEW H \in SUBSET Hashes
  PROVE  /\ Swept(H) \in SUBSET Hashes
         /\ \A h \in Swept(H) : status(h) = "PENDING" /\ now > terms(h).expiry
BY DEF Swept, Expired

\* The refunds of all users are the sizes of the commitments.
LEMMA RefundTotal ==
  ASSUME RegistryTypeOK, NEW S \in SUBSET Hashes, \A h \in S : status(h) = "PENDING",
         NEW t \in Tokens
  PROVE  /\ \A u \in Users : Refund(S, u, t) \in Nat
         /\ SizesIn(S, t) \in Nat
         /\ SumFunctionOnSet([u \in Users |-> Refund(S, u, t)], Users) = SizesIn(S, t)
<1> DEFINE T == {h \in S : terms(h).tokenIn = t}
           own == [h \in Hashes |-> owner(h)]
           g == [h \in Hashes |-> terms(h).size]
           r == [u \in Users |-> Refund(S, u, t)]
           Of(u) == {h \in T : own[h] = u}
<1>1. T \subseteq Hashes /\ IsFiniteSet(T) /\ \A u : Of(u) \subseteq T /\ IsFiniteSet(Of(u))
  BY DeploymentAssumption, FS_Subset
<1>2. \A h \in T : own[h] \in Users /\ g[h] \in Nat
  BY PendingTyped
<1>3. ASSUME NEW u \in Users PROVE r[u] = SumFunctionOnSet(g, Of(u)) /\ r[u] \in Nat
  <2> DEFINE Mine == {h \in S : owner(h) = u /\ terms(h).tokenIn = t}
             f == [h \in Mine |-> terms(h).size]
  <2>1. Refund(S, u, t) = SumFunctionOnSet(f, Mine)
    <3>1. Refund(S, u, t) = SumFunction(f) /\ DOMAIN f = Mine
      BY DEF Refund
    <3> HIDE DEF f, Mine
    <3> QED BY <3>1, SumWhole
  <2>2. Mine = Of(u)
    OBVIOUS
  <2>3. \A h \in Of(u) : f[h] = g[h] /\ g[h] \in Nat
    BY <1>2, <2>2
  <2> HIDE DEF f, g, Mine, Of
  <2>4. SumFunctionOnSet(f, Of(u)) = SumFunctionOnSet(g, Of(u))
    BY <1>1, <2>3, SumEqual
  <2>5. SumFunctionOnSet(g, Of(u)) \in Nat
    BY <1>1, <2>3, SumNat
  <2> QED BY <2>1, <2>2, <2>4, <2>5
<1> HIDE DEF g, own, r, T
<1>4. SumFunctionOnSet(r, Users) = SumFunctionOnSet(g, T)
  <2>1. \A h \in T : own[h] \in Users /\ g[h] \in Int
    BY <1>2
  <2>2. \A u \in Users : r[u] = Shares(g, T, own, Users)[u]
    BY <1>3 DEF Shares
  <2>3. IsFiniteSet(Users) /\ IsFiniteSet(T)
    BY <1>1, DeploymentAssumption
  <2>4. SumFunctionOnSet(r, Users) = SumFunctionOnSet(Shares(g, T, own, Users), Users)
    BY <2>2, <2>3, SumEqual
  <2> QED BY <2>1, <2>3, <2>4, SumByOwner
<1>5. SumFunctionOnSet(g, T) \in Nat
  BY <1>1, <1>2, SumNat
<1> QED BY <1>3, <1>4, <1>5 DEF SizesIn, g, T, r

\* What the sweep credits, entry by entry.
LEMMA SweepFree ==
  ASSUME VaultTypeOK, RegistryTypeOK, NEW H \in SUBSET Hashes, SweepExpired(H)
  PROVE  /\ \A w \in Vaults, u \in Users, t \in Tokens :
              freeBalance'[w][u][t] = IF w = vault
                                      THEN freeBalance[w][u][t] + Refund(Swept(H), u, t)
                                      ELSE freeBalance[w][u][t]
         /\ UNCHANGED <<wallet, vaultTokens>>
<1> DEFINE credited == [u \in Users |-> [t \in Tokens |->
                         freeBalance[vault][u][t] + Refund(Swept(H), u, t)]]
<1>1. ExpireAll(Swept(H))
  BY DEF SweepExpired, Swept
<1>2. /\ freeBalance' = [freeBalance EXCEPT ![vault] = credited]
      /\ UNCHANGED <<wallet, vaultTokens>>
  BY <1>1 DEF ExpireAll
<1>3. \A u \in Users, t \in Tokens :
        credited[u][t] = freeBalance[vault][u][t] + Refund(Swept(H), u, t)
  OBVIOUS
<1> HIDE DEF credited
<1> QED BY <1>2, <1>3, VaultInUse DEF VaultTypeOK

LEMMA SweepTotals ==
  ASSUME VaultTypeOK, RegistryTypeOK, NEW H \in SUBSET Hashes, SweepExpired(H),
         NEW w \in Vaults, NEW t \in Tokens
  PROVE  LET d == IF w = vault THEN SizesIn(Swept(H), t) ELSE 0
         IN  TotalFree(w, t)' = TotalFree(w, t) + d /\ TotalLocked(w, t)' = TotalLocked(w, t) - d
<1> DEFINE S == Swept(H)
           T == {h \in S : terms(h).tokenIn = t}
           f == FreeOf(w, t)
           g == FreeOf(w, t)'
           r == [u \in Users |-> Refund(S, u, t)]
           k == LockedOf(w, t)
           l == LockedOf(w, t)'
           size == [h \in Hashes |-> terms(h).size]
           less == [h \in Hashes |-> IF h \in T THEN size[h] ELSE 0]
<1>1. /\ S \in SUBSET Hashes /\ \A h \in S : status(h) = "PENDING"
      /\ T \in SUBSET Hashes
  BY SweptTyped
<1>2. /\ \A u \in Users : r[u] \in Nat
      /\ SizesIn(S, t) \in Nat
      /\ SumFunctionOnSet(r, Users) = SizesIn(S, t)
  BY <1>1, RefundTotal
<1>3. /\ \A u \in Users : f[u] \in Int
      /\ \A h \in Hashes : k[h] \in Int
      /\ TotalFree(w, t) \in Int /\ TotalLocked(w, t) \in Int
  BY TotalsType
<1>4. \A u \in Users : g[u] = IF w = vault THEN f[u] + r[u] ELSE f[u]
  <2>1. \A u \in Users : freeBalance'[w][u][t] = IF w = vault
                                      THEN freeBalance[w][u][t] + Refund(S, u, t)
                                      ELSE freeBalance[w][u][t]
    BY SweepFree
  <2> QED BY <2>1 DEF FreeOf
<1>5. \A h \in T : size[h] \in Int
  BY <1>1, PendingTyped
<1>6. \A h \in Hashes : l[h] = IF w = vault /\ h \in T THEN k[h] - size[h] ELSE k[h]
  <2>1. \A h \in Hashes :
          lockedBalance'[w][h][t] =
            IF w = vault /\ h \in H /\ Expired(h) /\ t = terms(h).tokenIn
            THEN lockedBalance[w][h][t] - terms(h).size ELSE lockedBalance[w][h][t]
    BY SweepType
  <2> QED BY <2>1 DEF LockedOf, Swept
<1> HIDE DEF f, g, r, k, l, size
<1>7. SumFunctionOnSet(less, Hashes) = SizesIn(S, t)
  <2>1. SumFunctionOnSet(less, Hashes) = SumFunctionOnSet(size, T)
    BY <1>1, <1>5, DeploymentAssumption, SumFilter
  <2> QED BY <2>1 DEF SizesIn, size
<1>8. \A h \in Hashes : less[h] \in Int
  BY <1>1, <1>5
<1>9. CASE w = vault
  <2>1. SumFunctionOnSet(g, Users) = SumFunctionOnSet(f, Users) + SumFunctionOnSet(r, Users)
    BY <1>2, <1>3, <1>4, <1>9, DeploymentAssumption, SumPlus
  <2>2. SumFunctionOnSet(k, Hashes) = SumFunctionOnSet(l, Hashes) + SumFunctionOnSet(less, Hashes)
    <3>1. \A h \in Hashes : l[h] \in Int /\ less[h] \in Int /\ k[h] = l[h] + less[h]
      BY <1>3, <1>5, <1>6, <1>8, <1>9
    <3> HIDE DEF less
    <3> QED BY <3>1, DeploymentAssumption, SumPlus
  <2>3. SumFunctionOnSet(l, Hashes) \in Int
    BY <1>3, <1>5, <1>6, DeploymentAssumption, SumType
  <2>4. /\ TotalFree(w, t)' = SumFunctionOnSet(g, Users)
        /\ TotalFree(w, t) = SumFunctionOnSet(f, Users)
        /\ TotalLocked(w, t)' = SumFunctionOnSet(l, Hashes)
        /\ TotalLocked(w, t) = SumFunctionOnSet(k, Hashes)
    BY DEF TotalFree, TotalLocked, f, g, k, l
  <2> QED BY <1>2, <1>3, <1>7, <1>9, <2>1, <2>2, <2>3, <2>4
<1>10. CASE w # vault
  <2>1. SumFunctionOnSet(g, Users) = SumFunctionOnSet(f, Users)
    BY <1>4, <1>10, DeploymentAssumption, SumEqual
  <2>2. SumFunctionOnSet(l, Hashes) = SumFunctionOnSet(k, Hashes)
    BY <1>6, <1>10, DeploymentAssumption, SumEqual
  <2>3. TotalFree(w, t)' = TotalFree(w, t) /\ TotalLocked(w, t)' = TotalLocked(w, t)
    BY <2>1, <2>2 DEF TotalFree, TotalLocked, f, g, k, l
  <2> QED BY <1>3, <1>10, <2>3
<1> QED BY <1>9, <1>10

-----------------------------------------------------------------------------
(* Every vault holds what it owes. *)

VaultSolvent(v, t) == vaultTokens[v][t] = TotalFree(v, t) + TotalLocked(v, t)
GasSolvent(g) == gasEth[g] = SumFunctionOnSet(gasBalance[g], Users)

LEMMA SolventParts ==
  ASSUME GasTypeOK
  PROVE  Solvent <=> /\ \A v \in Vaults, t \in Tokens : VaultSolvent(v, t)
                     /\ \A g \in GasVaults : GasSolvent(g)
<1>1. \A v \in Vaults, t \in Tokens :
        /\ SumFunction([u \in Users |-> freeBalance[v][u][t]]) = TotalFree(v, t)
        /\ SumFunction([h \in Hashes |-> lockedBalance[v][h][t]]) = TotalLocked(v, t)
  BY SumWhole DEF TotalFree, TotalLocked, FreeOf, LockedOf
<1>2. \A g \in GasVaults : SumFunction(gasBalance[g]) = SumFunctionOnSet(gasBalance[g], Users)
  BY SumWhole DEF GasTypeOK
<1> QED BY <1>1, <1>2 DEF Solvent, VaultSolvent, GasSolvent

LEMMA SolventPartsNext ==
  ASSUME GasTypeOK', \A v \in Vaults, t \in Tokens : VaultSolvent(v, t)',
         \A g \in GasVaults : GasSolvent(g)'
  PROVE  Solvent'
<1>1. \A v \in Vaults, t \in Tokens :
        /\ SumFunction([u \in Users |-> freeBalance'[v][u][t]]) = TotalFree(v, t)'
        /\ SumFunction([h \in Hashes |-> lockedBalance'[v][h][t]]) = TotalLocked(v, t)'
  BY SumWhole DEF TotalFree, TotalLocked, FreeOf, LockedOf
<1>2. \A g \in GasVaults : SumFunction(gasBalance'[g]) = SumFunctionOnSet(gasBalance'[g], Users)
  BY SumWhole DEF GasTypeOK
<1> QED BY <1>1, <1>2 DEF Solvent, VaultSolvent, GasSolvent

LEMMA SumZero ==
  ASSUME NEW S, IsFiniteSet(S), NEW f, \A x \in S : f[x] = 0
  PROVE  SumFunctionOnSet(f, S) = 0
<1>1. SumFunctionOnSet(f, S) = SumFunctionOnSet(f, {})
  BY SumFilter
<1> QED BY <1>1, SumEmpty

LEMMA InitSolvent ==
  ASSUME Init, TypeOK
  PROVE  Solvent
<1>1. GasTypeOK
  BY TypeParts
<1>2. ASSUME NEW v \in Vaults, NEW t \in Tokens PROVE VaultSolvent(v, t)
  <2>1. \A u \in Users : FreeOf(v, t)[u] = 0
    BY DEF Init, VaultInit, FreeOf
  <2>2. \A h \in Hashes : LockedOf(v, t)[h] = 0
    BY DEF Init, VaultInit, LockedOf
  <2>3. TotalFree(v, t) = 0 /\ TotalLocked(v, t) = 0
    BY <2>1, <2>2, DeploymentAssumption, SumZero DEF TotalFree, TotalLocked
  <2> QED BY <2>3 DEF VaultSolvent, Init, VaultInit
<1>3. ASSUME NEW g \in GasVaults PROVE GasSolvent(g)
  <2>1. gasEth[g] = 0 /\ \A u \in Users : gasBalance[g][u] = 0
    BY DEF Init, GasInit
  <2> QED BY <2>1, DeploymentAssumption, SumZero DEF GasSolvent
<1> QED BY <1>1, <1>2, <1>3, SolventParts

\* A call that moves tokens between free and locked, or with the outside.
LEMMA VaultBalanced ==
  ASSUME VaultTypeOK, NEW v \in Vaults, NEW t \in Tokens, VaultSolvent(v, t),
         NEW d \in Int, NEW e \in Int,
         TotalFree(v, t)' = TotalFree(v, t) + d,
         TotalLocked(v, t)' = TotalLocked(v, t) + e,
         vaultTokens'[v][t] = vaultTokens[v][t] + (d + e)
  PROVE  VaultSolvent(v, t)'
BY TotalsType DEF VaultSolvent

LEMMA VaultUntouched ==
  ASSUME NEW v \in Vaults, NEW t \in Tokens, VaultSolvent(v, t),
         UNCHANGED <<freeBalance, lockedBalance, vaultTokens>>
  PROVE  VaultSolvent(v, t)'
BY DEF VaultSolvent, TotalFree, TotalLocked, FreeOf, LockedOf

\* Totals of what a call leaves alone.
LEMMA TotalsKept ==
  /\ UNCHANGED freeBalance => \A v, t : TotalFree(v, t)' = TotalFree(v, t)
  /\ UNCHANGED lockedBalance => \A v, t : TotalLocked(v, t)' = TotalLocked(v, t)
BY DEF TotalFree, TotalLocked, FreeOf, LockedOf

LEMMA VaultStepSolvent ==
  ASSUME VaultTypeOK, VaultStep, NEW w \in Vaults, NEW s \in Tokens, VaultSolvent(w, s)
  PROVE  VaultSolvent(w, s)'
<1>1. ASSUME NEW v \in Vaults, NEW u \in Users, NEW t \in Tokens, NEW d \in Int,
             TokensMove(v, t, d), FreeMoves(v, u, t, d), UNCHANGED lockedBalance
      PROVE  VaultSolvent(w, s)'
  <2> DEFINE c == IF w = v /\ s = t THEN d ELSE 0
  <2>1. TotalFree(w, s)' = TotalFree(w, s) + c
    BY <1>1, TotalFreeMoves, TotalsType
  <2>2. TotalLocked(w, s)' = TotalLocked(w, s) + 0
    BY <1>1, TotalsKept, TotalsType
  <2>3. vaultTokens'[w][s] = vaultTokens[w][s] + (c + 0)
    BY <1>1 DEF TokensMove, VaultTypeOK
  <2>4. c \in Int /\ 0 \in Int
    OBVIOUS
  <2> HIDE DEF c
  <2> QED BY <2>1, <2>2, <2>3, <2>4, VaultBalanced
<1>2. ASSUME NEW v \in Vaults, NEW u \in Users, NEW t \in Tokens, NEW a \in Amounts,
             VaultDeposit(v, u, t, a)
      PROVE  VaultSolvent(w, s)'
  BY <1>1, <1>2, DepositMoves, VaultAssumption
<1>3. ASSUME NEW v \in Vaults, NEW u \in Users, NEW t \in Tokens, NEW a \in Amounts,
             VaultWithdraw(v, u, t, a)
      PROVE  VaultSolvent(w, s)'
  <2>1. a \in Nat /\ -a \in Int
    BY VaultAssumption
  <2>2. TokensMove(v, t, -a) /\ FreeMoves(v, u, t, -a) /\ UNCHANGED lockedBalance
    BY <1>3, <2>1, WithdrawMoves
  <2> QED BY <1>1, <2>1, <2>2
<1>4. ASSUME NEW v \in Vaults, NEW r \in Registries, SetVaultRegistry(v, r)
      PROVE  VaultSolvent(w, s)'
  BY <1>4, VaultUntouched DEF SetVaultRegistry
<1> QED BY <1>2, <1>3, <1>4 DEF VaultStep

\* A lock or a return of one commitment.
LEMMA TransferSolvent ==
  ASSUME VaultTypeOK, NEW w \in Vaults, NEW s \in Tokens, VaultSolvent(w, s),
         NEW v \in Vaults, NEW u \in Users, NEW h \in Hashes, NEW t \in Tokens,
         NEW a \in Int, FreeMoves(v, u, t, a), LockedMoves(v, h, t, -a),
         UNCHANGED vaultTokens
  PROVE  VaultSolvent(w, s)'
<1> DEFINE c == IF w = v /\ s = t THEN a ELSE 0
<1>1. TotalFree(w, s)' = TotalFree(w, s) + c
  BY TotalFreeMoves, TotalsType
<1>2. TotalLocked(w, s)' = TotalLocked(w, s) + (-c)
  <2>1. -a \in Int
    OBVIOUS
  <2> QED BY <2>1, TotalLockedMoves, TotalsType
<1>3. vaultTokens'[w][s] = vaultTokens[w][s] + (c + (-c))
  BY DEF VaultTypeOK
<1>4. c \in Int /\ -c \in Int
  OBVIOUS
<1> HIDE DEF c
<1> QED BY <1>1, <1>2, <1>3, <1>4, VaultBalanced

LEMMA RegisterSolvent ==
  ASSUME VaultTypeOK, RegistryTypeOK, NEW w \in Vaults, NEW s \in Tokens, VaultSolvent(w, s),
         NEW u \in Users, NEW h \in Hashes, NEW ts \in Terms, RegisterCommitment(u, h, ts)
  PROVE  VaultSolvent(w, s)'
<1>1. ts.tokenIn \in Tokens /\ ts.size \in Nat /\ vault \in Vaults
  BY VaultInUse DEF Terms
<1> DEFINE a == -ts.size
<1>2. a \in Int /\ -a = ts.size
  BY <1>1
<1>3. FreeMoves(vault, u, ts.tokenIn, a) /\ LockedMoves(vault, h, ts.tokenIn, -a)
      /\ UNCHANGED vaultTokens
  BY <1>1, <1>2, LockMoves DEF RegisterCommitment
<1> HIDE DEF a
<1> QED BY <1>1, <1>2, <1>3, TransferSolvent

LEMMA BatchSolvent ==
  ASSUME VaultTypeOK, RegistryTypeOK, NEW w \in Vaults, NEW s \in Tokens, VaultSolvent(w, s),
         NEW u \in Users, NEW hs \in Batches, NEW offer \in [{hs[i] : i \in DOMAIN hs} -> Terms],
         RegisterCommitmentBatch(u, hs, offer)
  PROVE  VaultSolvent(w, s)'
<1> DEFINE t == offer[hs[1]].tokenIn
           total == BatchTotal(hs, offer)
           c == IF w = vault /\ s = t THEN total ELSE 0
<1>1. vault \in Vaults /\ t \in Tokens /\ FreeMoves(vault, u, t, -total)
      /\ UNCHANGED vaultTokens
  BY VaultInUse, BatchFree
<1>2. total \in Nat /\ -total \in Int
  <2>1. \A i, j \in DOMAIN hs : hs[i] = hs[j] => i = j
    BY DEF RegisterCommitmentBatch
  <2>2. total \in Nat
    BY <2>1, BatchSum
  <2> HIDE DEF total
  <2> QED BY <2>2
<1>3. TotalLocked(w, s)' = IF w = vault /\ s = t THEN TotalLocked(w, s) + total
                           ELSE TotalLocked(w, s)
  BY <1>1, BatchLockedTotal
<1> HIDE DEF t, total
<1>4. TotalFree(w, s)' = TotalFree(w, s) + (-c)
  BY <1>1, <1>2, TotalFreeMoves, TotalsType
<1>5. TotalLocked(w, s)' = TotalLocked(w, s) + c
  BY <1>3, <1>2, TotalsType
<1>6. c \in Int /\ -c \in Int
  BY <1>2
<1>7. vaultTokens'[w][s] = vaultTokens[w][s] + (-c + c)
  BY <1>1, <1>6 DEF VaultTypeOK
<1> HIDE DEF c
<1> QED BY <1>4, <1>5, <1>6, <1>7, VaultBalanced

LEMMA ExecuteSolvent ==
  ASSUME VaultTypeOK, RegistryTypeOK, NEW w \in Vaults, NEW s \in Tokens, VaultSolvent(w, s),
         NEW x, NEW h \in Hashes, NEW n, NEW fillRef, NEW out \in AmountsOut, NEW cost,
         ExecuteCommitment(x, h, n, fillRef, out, cost)
  PROVE  VaultSolvent(w, s)'
<1> DEFINE t == terms(h).tokenIn
           a == terms(h).size
           c == IF w = vault /\ s = t THEN -a ELSE 0
<1>1. /\ vault \in Vaults /\ t \in Tokens /\ a \in Nat
      /\ TokensMove(vault, t, -a) /\ LockedMoves(vault, h, t, -a) /\ UNCHANGED freeBalance
  <2>1. /\ status(h) # "NONE"
        /\ ReleaseAndSwap(vault, h, t, a, owner(h), terms(h).tokenOut, out)
    BY DEF ExecuteCommitment
  <2>2. /\ owner(h) \in Users /\ t \in Tokens /\ terms(h).tokenOut \in Tokens
        /\ a \in Nat /\ vault \in Vaults /\ out \in Nat
    BY <2>1, PendingTyped, VaultInUse, RegistryAssumption
  <2> HIDE DEF t, a
  <2> QED BY <2>1, <2>2, SwapMoves
<1> HIDE DEF t, a
<1>2. -a \in Int
  BY <1>1
<1>3. TotalFree(w, s)' = TotalFree(w, s) + 0
  BY <1>1, TotalsKept, TotalsType
<1>4. TotalLocked(w, s)' = TotalLocked(w, s) + c
  BY <1>1, <1>2, TotalLockedMoves, TotalsType
<1>5. vaultTokens'[w][s] = vaultTokens[w][s] + (0 + c)
  BY <1>1, <1>2 DEF TokensMove, VaultTypeOK
<1>6. c \in Int /\ 0 \in Int
  BY <1>2
<1> HIDE DEF c
<1> QED BY <1>3, <1>4, <1>5, <1>6, VaultBalanced

LEMMA CancelSolvent ==
  ASSUME VaultTypeOK, RegistryTypeOK, NEW w \in Vaults, NEW s \in Tokens, VaultSolvent(w, s),
         NEW u \in Users, NEW h \in Hashes, NEW n, CancelCommitment(u, h, n)
  PROVE  VaultSolvent(w, s)'
<1>1. terms(h).tokenIn \in Tokens /\ terms(h).size \in Nat /\ vault \in Vaults
  BY PendingTyped, VaultInUse DEF CancelCommitment
<1>2. ReturnCollateral(vault, h, u, terms(h).tokenIn, terms(h).size)
  BY DEF CancelCommitment
<1> QED BY <1>1, <1>2, ReturnMoves, TransferSolvent

LEMMA SweepSolvent ==
  ASSUME VaultTypeOK, RegistryTypeOK, NEW w \in Vaults, NEW s \in Tokens, VaultSolvent(w, s),
         NEW H \in SUBSET Hashes, SweepExpired(H)
  PROVE  VaultSolvent(w, s)'
<1> DEFINE c == IF w = vault THEN SizesIn(Swept(H), s) ELSE 0
<1>1. c \in Int /\ -c \in Int
  <2>1. SizesIn(Swept(H), s) \in Nat
    BY SweptTyped, RefundTotal
  <2> QED BY <2>1
<1>2. TotalFree(w, s)' = TotalFree(w, s) + c /\ TotalLocked(w, s)' = TotalLocked(w, s) - c
  BY SweepTotals
<1>3. UNCHANGED vaultTokens
  BY SweepFree
<1> HIDE DEF c
<1>4. TotalLocked(w, s)' = TotalLocked(w, s) + (-c)
  BY <1>1, <1>2, TotalsType
<1>5. vaultTokens'[w][s] = vaultTokens[w][s] + (c + (-c))
  BY <1>1, <1>3 DEF VaultTypeOK
<1> QED BY <1>1, <1>2, <1>4, <1>5, VaultBalanced

\* A gas vault that takes in or pays out for one user.
GasMoves(g, u, d) ==
  \A k \in GasVaults :
    /\ gasEth'[k] = IF k = g THEN gasEth[k] + d ELSE gasEth[k]
    /\ \A x \in Users : gasBalance'[k][x] = IF k = g /\ x = u THEN gasBalance[k][x] + d
                                            ELSE gasBalance[k][x]

LEMMA GasBalanced ==
  ASSUME GasTypeOK, NEW g \in GasVaults, NEW u \in Users, NEW d \in Int, GasMoves(g, u, d),
         NEW k \in GasVaults, GasSolvent(k)
  PROVE  GasSolvent(k)'
<1> DEFINE f == gasBalance[k]
           h == gasBalance'[k]
<1>1. /\ \A x \in Users : f[x] \in Int
      /\ \A x \in Users : h[x] = IF k = g /\ x = u THEN f[x] + d ELSE f[x]
      /\ gasEth'[k] = IF k = g THEN gasEth[k] + d ELSE gasEth[k]
      /\ gasEth[k] = SumFunctionOnSet(f, Users)
  BY DEF GasMoves, GasTypeOK, GasSolvent
<1> HIDE DEF f, h
<1>2. CASE k = g
  <2>1. SumFunctionOnSet(h, Users) = SumFunctionOnSet(f, Users) + d
    BY <1>1, <1>2, DeploymentAssumption, SumChange
  <2> QED BY <1>1, <1>2, <2>1 DEF GasSolvent, h
<1>3. CASE k # g
  <2>1. SumFunctionOnSet(h, Users) = SumFunctionOnSet(f, Users)
    BY <1>1, <1>3, DeploymentAssumption, SumEqual
  <2> QED BY <1>1, <1>3, <2>1 DEF GasSolvent, h
<1> QED BY <1>2, <1>3

LEMMA GasUntouched ==
  ASSUME NEW k \in GasVaults, GasSolvent(k), UNCHANGED <<gasBalance, gasEth>>
  PROVE  GasSolvent(k)'
BY DEF GasSolvent

LEMMA GasPaySolvent ==
  ASSUME GasTypeOK, NEW g \in GasVaults, NEW u \in Users, NEW a \in Nat, GasPay(g, u, a),
         NEW k \in GasVaults, GasSolvent(k)
  PROVE  GasSolvent(k)'
<1>1. -a \in Int /\ GasMoves(g, u, -a)
  BY DEF GasPay, GasTypeOK, GasMoves
<1> QED BY <1>1, GasBalanced

LEMMA GasStepSolvent ==
  ASSUME GasTypeOK, GasStep, NEW k \in GasVaults, GasSolvent(k)
  PROVE  GasSolvent(k)'
<1>1. ASSUME NEW g \in GasVaults, NEW u \in Users, NEW a \in GasAmounts, GasDeposit(g, u, a)
      PROVE  GasSolvent(k)'
  <2>1. a \in Int /\ GasMoves(g, u, a)
    BY <1>1, GasAssumption DEF GasDeposit, GasTypeOK, GasMoves
  <2> QED BY <2>1, GasBalanced
<1>2. ASSUME NEW g \in GasVaults, NEW u \in Users, NEW a \in GasAmounts, GasWithdraw(g, u, a)
      PROVE  GasSolvent(k)'
  BY <1>2, GasPaySolvent, GasAssumption DEF GasWithdraw
<1>3. ASSUME NEW g \in GasVaults, NEW r \in Registries, SetGasRegistry(g, r)
      PROVE  GasSolvent(k)'
  BY <1>3, GasUntouched DEF SetGasRegistry
<1> QED BY <1>1, <1>2, <1>3 DEF GasStep

(***************************************************************************)
(* Every vault holds, in every token, exactly the free and locked balances *)
(* it owes, and every gas vault the prepaid ETH, however many users, open  *)
(* commitments and vaults there are, and whatever the guardian does.       *)
(***************************************************************************)
THEOREM SolventCorrect == Spec => []Solvent
<1>1. Init /\ TypeOK => Solvent
  BY InitSolvent
<1>2. TypeOK /\ TypeOK' /\ Solvent /\ [Next]_vars => Solvent'
  <2> SUFFICES ASSUME TypeOK, TypeOK', Solvent, [Next]_vars PROVE Solvent'
    OBVIOUS
  <2>1. /\ VaultTypeOK /\ GasTypeOK /\ OracleTypeOK /\ RegistryTypeOK
        /\ GasTypeOK'
    BY TypeParts DEF TypeOK
  <2>2. /\ \A v \in Vaults, t \in Tokens : VaultSolvent(v, t)
        /\ \A g \in GasVaults : GasSolvent(g)
    BY <2>1, SolventParts
  <2>3. SUFFICES /\ \A v \in Vaults, t \in Tokens : VaultSolvent(v, t)'
                 /\ \A g \in GasVaults : GasSolvent(g)'
    BY <2>1, SolventPartsNext
  <2>4. UNCHANGED vaultVars => \A v \in Vaults, t \in Tokens : VaultSolvent(v, t)'
    BY <2>2, VaultUntouched DEF vaultVars
  <2>5. UNCHANGED gasVars => \A g \in GasVaults : GasSolvent(g)'
    BY <2>2, GasUntouched DEF gasVars
  <2>6. CASE VaultStep
    BY <2>1, <2>2, <2>5, <2>6, VaultStepSolvent DEF VaultStep
  <2>7. CASE GasStep
    BY <2>1, <2>2, <2>4, <2>7, GasStepSolvent DEF GasStep
  <2>8. CASE OracleStep \/ Tick \/ UNCHANGED vars
    BY <2>4, <2>5, <2>8 DEF OracleStep, Tick, vars, chainVars
  <2>9. ASSUME NEW u \in Users, RegisterStep(u)
        PROVE  /\ \A v \in Vaults, t \in Tokens : VaultSolvent(v, t)'
               /\ \A g \in GasVaults : GasSolvent(g)'
    <3>1. \A h \in Hashes : Offers[u][h] \subseteq Terms
      BY RegistryAssumption
    <3>2. ASSUME NEW h \in Hashes, NEW ts \in Offers[u][h], RegisterCommitment(u, h, ts)
          PROVE  /\ \A v \in Vaults, t \in Tokens : VaultSolvent(v, t)'
                 /\ UNCHANGED gasVars
      BY <2>1, <2>2, <3>1, <3>2, RegisterSolvent DEF RegisterCommitment
    <3>3. ASSUME NEW hs \in Batches,
                 NEW offer \in [{hs[i] : i \in DOMAIN hs} -> UNION {Offers[u][h] : h \in Hashes}],
                 RegisterCommitmentBatch(u, hs, offer)
          PROVE  /\ \A v \in Vaults, t \in Tokens : VaultSolvent(v, t)'
                 /\ UNCHANGED gasVars
      <4>1. offer \in [{hs[i] : i \in DOMAIN hs} -> Terms]
        BY <3>1
      <4>2. UNCHANGED gasVars
        BY <3>3 DEF RegisterCommitmentBatch
      <4> QED BY <2>1, <2>2, <3>3, <4>1, <4>2, BatchSolvent
    <3> QED BY <2>5, <2>9, <3>2, <3>3 DEF RegisterStep
  <2>10. ASSUME NEW x \in Accounts, ExecuteStep(x)
         PROVE  /\ \A v \in Vaults, t \in Tokens : VaultSolvent(v, t)'
                /\ \A g \in GasVaults : GasSolvent(g)'
    <3>1. PICK h \in Hashes, n \in Nullifiers, out \in AmountsOut, cost \in GasCosts,
               fillRef \in 0..MaxTime : ExecuteCommitment(x, h, n, fillRef, out, cost)
      BY <2>10 DEF ExecuteStep
    <3>2. \A v \in Vaults, t \in Tokens : VaultSolvent(v, t)'
      BY <2>1, <2>2, <3>1, ExecuteSolvent
    <3>3. UNCHANGED gasVars \/ GasPay(gasVault, owner(h), cost)
      BY <3>1 DEF ExecuteCommitment, DebitGas, Debit
    <3>4. owner(h) \in Users /\ gasVault \in GasVaults /\ cost \in Nat
      BY <2>1, <3>1, PendingTyped, VaultInUse, RegistryAssumption DEF ExecuteCommitment
    <3>5. \A g \in GasVaults : GasSolvent(g)'
      BY <2>1, <2>2, <2>5, <3>3, <3>4, GasPaySolvent
    <3> QED BY <3>2, <3>5
  <2>11. ASSUME NEW u \in Users, CancelStep(u)
         PROVE  /\ \A v \in Vaults, t \in Tokens : VaultSolvent(v, t)'
                /\ \A g \in GasVaults : GasSolvent(g)'
    <3>1. PICK h \in Hashes, n \in Nullifiers : CancelCommitment(u, h, n)
      BY <2>11 DEF CancelStep
    <3>2. UNCHANGED gasVars
      BY <3>1 DEF CancelCommitment
    <3> QED BY <2>1, <2>2, <2>5, <3>1, <3>2, CancelSolvent
  <2>12. ASSUME NEW H \in SUBSET Hashes, SweepExpired(H)
         PROVE  /\ \A v \in Vaults, t \in Tokens : VaultSolvent(v, t)'
                /\ \A g \in GasVaults : GasSolvent(g)'
    <3>1. UNCHANGED gasVars
      BY <2>12 DEF SweepExpired, ExpireAll
    <3> QED BY <2>1, <2>2, <2>5, <2>12, <3>1, SweepSolvent
  <2>13. ASSUME NEW x \in Guardians, GuardianStep(x)
         PROVE  /\ \A v \in Vaults, t \in Tokens : VaultSolvent(v, t)'
                /\ \A g \in GasVaults : GasSolvent(g)'
    BY <2>1, <2>4, <2>5, <2>13, GuardianEffect DEF chainVars
  <2> QED BY <2>6, <2>7, <2>8, <2>9, <2>10, <2>11, <2>12, <2>13 DEF Next
<1> QED BY <1>1, <1>2, TypeCorrect, PTL DEF Spec

-----------------------------------------------------------------------------
(* The registry and its vaults implement CommitmentLedger. *)

\* The definitions that CommitmentLedger takes from Deployment are these.
LEMMA LedgerSum ==
  ASSUME NEW f
  PROVE  Ledger!SumFunction(f) = SumFunctionOnSet(f, DOMAIN f)
BY DEF Ledger!SumFunction, Ledger!SumFunctionOnSet, Ledger!FoldFunctionOnSet,
       Ledger!MapThenFoldSet, SumFunctionOnSet, FoldFunctionOnSet, MapThenFoldSet

LEMMA LedgerTerms == Ledger!Terms = Terms
BY DEF Ledger!Terms, Ledger!Kinds, Terms, Kinds

\* What the commitments S of user u hold in token t, in book b.
PledgedIn(b, S, u, t) ==
  SumFunctionOnSet([h \in Hashes |-> b[h].terms.size],
                   {h \in S : b[h].owner = u /\ b[h].terms.tokenIn = t})

LEMMA PledgedSum ==
  ASSUME NEW b, NEW S \in SUBSET Hashes, NEW u, NEW t
  PROVE  Ledger!Pledged(b, S, u, t) = PledgedIn(b, S, u, t)
<1> DEFINE Mine == {h \in S : b[h].owner = u /\ b[h].terms.tokenIn = t}
           f == [h \in Mine |-> b[h].terms.size]
           g == [h \in Hashes |-> b[h].terms.size]
<1>1. Ledger!Pledged(b, S, u, t) = Ledger!SumFunction(f)
  BY DEF Ledger!Pledged
<1>2. DOMAIN f = Mine /\ Mine \subseteq Hashes /\ \A h \in Mine : f[h] = g[h]
  OBVIOUS
<1> HIDE DEF f, g, Mine
<1>3. IsFiniteSet(Mine)
  BY <1>2, DeploymentAssumption, FS_Subset
<1>4. Ledger!SumFunction(f) = SumFunctionOnSet(f, Mine)
  BY <1>2, LedgerSum
<1>5. SumFunctionOnSet(f, Mine) = SumFunctionOnSet(g, Mine)
  BY <1>2, <1>3, SumEqual
<1> QED BY <1>1, <1>4, <1>5 DEF PledgedIn, g, Mine

\* What user u can get at in token t: Holdings, entry by entry.
FreeIn(u, t) == [v \in Vaults |-> freeBalance[v][u][t]]
FreeSum(u, t) == SumFunctionOnSet(FreeIn(u, t), Vaults)
Held(u, t) == wallet[u][t] + FreeSum(u, t)

LEMMA HoldingsHeld ==
  /\ Holdings = [u \in Users |-> [t \in Tokens |-> Held(u, t)]]
  /\ Holdings' = [u \in Users |-> [t \in Tokens |-> Held(u, t)']]
<1>1. \A u \in Users, t \in Tokens :
        SumFunction([v \in Vaults |-> freeBalance[v][u][t]]) = FreeSum(u, t)
  BY SumWhole DEF FreeSum, FreeIn
<1>2. \A u \in Users, t \in Tokens :
        SumFunction([v \in Vaults |-> freeBalance'[v][u][t]]) = FreeSum(u, t)'
  BY SumWhole DEF FreeSum, FreeIn
<1> QED BY <1>1, <1>2 DEF Holdings, Held

LEMMA HeldType ==
  ASSUME VaultTypeOK, NEW u \in Users, NEW t \in Tokens
  PROVE  /\ \A v \in Vaults : FreeIn(u, t)[v] \in Nat
         /\ FreeSum(u, t) \in Nat /\ wallet[u][t] \in Nat /\ Held(u, t) \in Nat
         /\ \A v \in Vaults : freeBalance[v][u][t] <= Held(u, t)
<1>1. wallet[u][t] \in Nat
      /\ \A v \in Vaults : FreeIn(u, t)[v] = freeBalance[v][u][t] /\ FreeIn(u, t)[v] \in Nat
  BY DEF VaultTypeOK, FreeIn
<1>2. /\ FreeSum(u, t) \in Nat
      /\ \A v \in Vaults : FreeIn(u, t)[v] <= FreeSum(u, t)
  BY <1>1, DeploymentAssumption, SumNat DEF FreeSum
<1> QED BY <1>1, <1>2 DEF Held

LEMMA FreeSumMoves ==
  ASSUME VaultTypeOK, NEW v \in Vaults, NEW u \in Users, NEW t \in Tokens, NEW d \in Int,
         FreeMoves(v, u, t, d), NEW x \in Users, NEW s \in Tokens
  PROVE  FreeSum(x, s)' = IF x = u /\ s = t THEN FreeSum(x, s) + d ELSE FreeSum(x, s)
<1> DEFINE f == FreeIn(x, s)
           g == FreeIn(x, s)'
<1>1. \A w \in Vaults : f[w] \in Int
  BY HeldType
<1>2. \A w \in Vaults : g[w] = IF w = v /\ x = u /\ s = t THEN f[w] + d ELSE f[w]
  BY DEF FreeMoves, FreeIn
<1> HIDE DEF f, g
<1>3. CASE x = u /\ s = t
  <2>1. SumFunctionOnSet(g, Vaults) = SumFunctionOnSet(f, Vaults) + d
    BY <1>1, <1>2, <1>3, DeploymentAssumption, SumChange
  <2> QED BY <1>3, <2>1 DEF FreeSum, f, g
<1>4. CASE ~ (x = u /\ s = t)
  <2>1. SumFunctionOnSet(g, Vaults) = SumFunctionOnSet(f, Vaults)
    BY <1>2, <1>4, DeploymentAssumption, SumEqual
  <2> QED BY <1>4, <2>1 DEF FreeSum, f, g
<1> QED BY <1>3, <1>4

LEMMA FreeSumKept ==
  UNCHANGED freeBalance => \A u, t : FreeSum(u, t)' = FreeSum(u, t)
BY DEF FreeSum, FreeIn

\* Steps that change nothing the ledger sees.
LEMMA LedgerStutters ==
  ASSUME \A u \in Users, t \in Tokens : Held(u, t)' = Held(u, t),
         commitments' = commitments, now' = now
  PROVE  UNCHANGED Ledger!ledgerVars
BY HoldingsHeld DEF Ledger!ledgerVars

LEMMA HeldKept ==
  ASSUME UNCHANGED <<wallet, freeBalance>>
  PROVE  \A u \in Users, t \in Tokens : Held(u, t)' = Held(u, t)
BY FreeSumKept DEF Held

LEMMA VaultStepStutters ==
  ASSUME VaultTypeOK, VaultStep
  PROVE  UNCHANGED Ledger!ledgerVars
<1>1. commitments' = commitments /\ now' = now
  BY DEF VaultStep, registryVars
<1>2. ASSUME NEW v \in Vaults, NEW u \in Users, NEW t \in Tokens, NEW d \in Int,
             WalletMoves(u, t, -d), FreeMoves(v, u, t, d)
      PROVE  UNCHANGED Ledger!ledgerVars
  <2>1. ASSUME NEW x \in Users, NEW s \in Tokens PROVE Held(x, s)' = Held(x, s)
    <3>1. FreeSum(x, s)' = IF x = u /\ s = t THEN FreeSum(x, s) + d ELSE FreeSum(x, s)
      BY <1>2, FreeSumMoves
    <3>2. wallet'[x][s] = IF x = u /\ s = t THEN wallet[x][s] + (-d) ELSE wallet[x][s]
      BY <1>2 DEF WalletMoves
    <3>3. FreeSum(x, s) \in Int /\ wallet[x][s] \in Int
      BY HeldType
    <3> QED BY <3>1, <3>2, <3>3 DEF Held
  <2> QED BY <1>1, <2>1, LedgerStutters
<1>3. ASSUME NEW v \in Vaults, NEW u \in Users, NEW t \in Tokens, NEW a \in Amounts,
             VaultDeposit(v, u, t, a)
      PROVE  UNCHANGED Ledger!ledgerVars
  BY <1>2, <1>3, DepositMoves, VaultAssumption
<1>4. ASSUME NEW v \in Vaults, NEW u \in Users, NEW t \in Tokens, NEW a \in Amounts,
             VaultWithdraw(v, u, t, a)
      PROVE  UNCHANGED Ledger!ledgerVars
  <2> DEFINE d == -a
  <2>1. a \in Nat /\ d \in Int /\ -d = a
    BY VaultAssumption
  <2>2. WalletMoves(u, t, -d) /\ FreeMoves(v, u, t, d)
    BY <1>4, <2>1, WithdrawMoves
  <2> HIDE DEF d
  <2> QED BY <1>2, <2>1, <2>2
<1>5. ASSUME NEW v \in Vaults, NEW r \in Registries, SetVaultRegistry(v, r)
      PROVE  UNCHANGED Ledger!ledgerVars
  BY <1>1, <1>5, HeldKept, LedgerStutters DEF SetVaultRegistry
<1> QED BY <1>3, <1>4, <1>5 DEF VaultStep

\* A registration of the commitments S, all pending for u, is a Pledge.
LEMMA PledgeMaps ==
  ASSUME VaultTypeOK, RegistryTypeOK, NEW u \in Users, NEW S \in SUBSET Hashes, S # {},
         NEW offer,
         \A h \in S : /\ status(h) = "NONE" /\ commitments'[h] = Pending(u, offer[h])
                      /\ offer[h] \in Terms /\ offer[h].size > 0 /\ offer[h].expiry > now,
         \A h \in Hashes \ S : commitments'[h] = commitments[h],
         now' = now,
         \A t \in Tokens : /\ PledgedIn(commitments', S, u, t) <= Held(u, t)
                           /\ Held(u, t)' = Held(u, t) - PledgedIn(commitments', S, u, t),
         \A x \in Users \ {u}, t \in Tokens : Held(x, t)' = Held(x, t)
  PROVE  Ledger!LedgerNext
<1>1. \A h \in S : /\ commitments[h].status = "NONE"
                   /\ commitments'[h].status = "PENDING"
                   /\ commitments'[h].owner = u
                   /\ commitments'[h].terms \in Terms
                   /\ commitments'[h].terms.size > 0
                   /\ commitments'[h].terms.expiry > now
  <2> SUFFICES ASSUME NEW h \in S
               PROVE  /\ commitments[h].status = "NONE"
                      /\ commitments'[h].status = "PENDING"
                      /\ commitments'[h].owner = u
                      /\ commitments'[h].terms \in Terms
                      /\ commitments'[h].terms.size > 0
                      /\ commitments'[h].terms.expiry > now
    BY Zenon
  <2>1. commitments'[h] = [status |-> "PENDING", owner |-> u, terms |-> offer[h]]
    BY DEF Pending
  <2>2. /\ commitments'[h].status = "PENDING" /\ commitments'[h].owner = u
        /\ commitments'[h].terms = offer[h]
    BY <2>1
  <2> QED BY <2>2 DEF status
<1>2. \A t \in Tokens : Ledger!Pledged(commitments', S, u, t) = PledgedIn(commitments', S, u, t)
  BY PledgedSum
<1>3. /\ Holdings = [x \in Users |-> [t \in Tokens |-> Held(x, t)]]
      /\ Holdings' = [x \in Users |-> [t \in Tokens |-> Held(x, t)']]
  BY HoldingsHeld
<1>4. \A t \in Tokens : /\ Ledger!Pledged(commitments', S, u, t) \in Int
                        /\ Holdings[u][t] >= Ledger!Pledged(commitments', S, u, t)
  <2> SUFFICES ASSUME NEW t \in Tokens
               PROVE  /\ Ledger!Pledged(commitments', S, u, t) \in Int
                      /\ Holdings[u][t] >= Ledger!Pledged(commitments', S, u, t)
    OBVIOUS
  <2> DEFINE g == [h \in Hashes |-> commitments'[h].terms.size]
             Mine == {h \in S : commitments'[h].owner = u /\ commitments'[h].terms.tokenIn = t}
  <2>1. IsFiniteSet(Mine) /\ \A h \in Mine : g[h] \in Int
    BY <1>1, DeploymentAssumption, FS_Subset DEF Terms
  <2> HIDE DEF g, Mine
  <2>2. SumFunctionOnSet(g, Mine) \in Int
    BY <2>1, SumType
  <2>3. PledgedIn(commitments', S, u, t) \in Int
    BY <2>2 DEF PledgedIn, g, Mine
  <2>4. Holdings[u][t] = Held(u, t) /\ Held(u, t) \in Nat
    BY <1>3, HeldType
  <2> QED BY <1>2, <2>3, <2>4
<1>5. Holdings' = [Holdings EXCEPT ![u] =
                    [t \in Tokens |-> @[t] - Ledger!Pledged(commitments', S, u, t)]]
  <2> DEFINE left == [t \in Tokens |-> Holdings[u][t] - Ledger!Pledged(commitments', S, u, t)]
  <2>1. \A t \in Tokens : Held(u, t)' = left[t]
    BY <1>2, <1>3
  <2>2. Holdings'[u] = left
    BY <1>3, <2>1
  <2>3. \A x \in Users \ {u} : Holdings'[x] = Holdings[x]
    BY <1>3
  <2> HIDE DEF left
  <2>4. Holdings' = [Holdings EXCEPT ![u] = left]
    BY <1>3, <2>2, <2>3
  <2> QED BY <2>4 DEF left
<1>6. Ledger!OnlyChanged(S)
  BY DEF Ledger!OnlyChanged
<1>7. Ledger!Pledge(u, S)
  BY <1>1, <1>4, <1>5, <1>6, LedgerTerms DEF Ledger!Pledge
<1> QED BY <1>7 DEF Ledger!LedgerNext

LEMMA RegisterPledges ==
  ASSUME VaultTypeOK, RegistryTypeOK, NEW u \in Users, NEW h \in Hashes, NEW ts \in Terms,
         RegisterCommitment(u, h, ts)
  PROVE  Ledger!LedgerNext
<1> DEFINE S == {h}
           offer == [k \in {h} |-> ts]
<1>1. ts.tokenIn \in Tokens /\ ts.size \in Nat /\ vault \in Vaults
  BY VaultInUse DEF Terms
<1>2. /\ Registrable(h, ts) /\ LockCollateral(vault, h, u, ts.tokenIn, ts.size)
      /\ commitments' = [commitments EXCEPT ![h] = Pending(u, ts)] /\ now' = now
  BY DEF RegisterCommitment
<1>3. commitments'[h] = Pending(u, ts) /\ \A k \in Hashes \ S : commitments'[k] = commitments[k]
  BY <1>2 DEF RegistryTypeOK
<1>4. /\ FreeMoves(vault, u, ts.tokenIn, -ts.size) /\ UNCHANGED wallet
      /\ freeBalance[vault][u][ts.tokenIn] >= ts.size
  BY <1>1, <1>2, LockMoves DEF LockCollateral
<1>5. ASSUME NEW t \in Tokens
      PROVE  PledgedIn(commitments', S, u, t) = IF t = ts.tokenIn THEN ts.size ELSE 0
  <2> DEFINE g == [k \in Hashes |-> commitments'[k].terms.size]
             Mine == {k \in S : commitments'[k].owner = u /\ commitments'[k].terms.tokenIn = t}
  <2>1. g[h] = ts.size /\ g[h] \in Int
    BY <1>1, <1>3 DEF Pending
  <2>2. Mine = IF t = ts.tokenIn THEN {h} ELSE {}
    BY <1>3 DEF Pending
  <2>3. PledgedIn(commitments', S, u, t) = SumFunctionOnSet(g, Mine)
    BY DEF PledgedIn
  <2> HIDE DEF g, Mine
  <2>4. SumFunctionOnSet(g, {h}) = ts.size /\ SumFunctionOnSet(g, {}) = 0
    BY <2>1, SumOne, SumEmpty
  <2> QED BY <2>2, <2>3, <2>4
<1>6. ASSUME NEW x \in Users, NEW t \in Tokens
      PROVE  Held(x, t)' = IF x = u /\ t = ts.tokenIn THEN Held(x, t) - ts.size ELSE Held(x, t)
  <2>1. -ts.size \in Int
    BY <1>1
  <2>2. FreeSum(x, t)' = IF x = u /\ t = ts.tokenIn THEN FreeSum(x, t) + (-ts.size)
                         ELSE FreeSum(x, t)
    BY <1>1, <1>4, <2>1, FreeSumMoves
  <2>3. FreeSum(x, t) \in Int /\ wallet[x][t] \in Int
    BY HeldType
  <2> QED BY <1>1, <1>4, <2>2, <2>3 DEF Held
<1>7. ASSUME NEW t \in Tokens
      PROVE  /\ PledgedIn(commitments', S, u, t) <= Held(u, t)
             /\ Held(u, t)' = Held(u, t) - PledgedIn(commitments', S, u, t)
  <2>1. Held(u, t) \in Nat /\ freeBalance[vault][u][t] <= Held(u, t)
        /\ freeBalance[vault][u][t] \in Nat
    BY <1>1, HeldType DEF VaultTypeOK
  <2> QED BY <1>1, <1>4, <1>5, <1>6, <2>1
<1>8. \A k \in S : /\ status(k) = "NONE" /\ commitments'[k] = Pending(u, offer[k])
                   /\ offer[k] \in Terms /\ offer[k].size > 0 /\ offer[k].expiry > now
  BY <1>2, <1>3 DEF Registrable
<1>9. S \in SUBSET Hashes /\ S # {} /\ \A x \in Users \ {u}, t \in Tokens : Held(x, t)' = Held(x, t)
  BY <1>6
<1> HIDE DEF S, offer
<1> QED BY <1>2, <1>3, <1>7, <1>8, <1>9, PledgeMaps

LEMMA BatchPledges ==
  ASSUME VaultTypeOK, RegistryTypeOK, NEW u \in Users, NEW hs \in Batches,
         NEW offer \in [{hs[i] : i \in DOMAIN hs} -> Terms],
         RegisterCommitmentBatch(u, hs, offer)
  PROVE  Ledger!LedgerNext
<1> DEFINE S == {hs[i] : i \in DOMAIN hs}
           t0 == offer[hs[1]].tokenIn
           total == BatchTotal(hs, offer)
<1>1. /\ Len(hs) \in Nat /\ DOMAIN hs = 1..Len(hs) /\ Len(hs) >= 1
      /\ \A i \in DOMAIN hs : hs[i] \in Hashes /\ offer[hs[i]] \in Terms
  BY BatchSizes
<1>2. /\ vault \in Vaults /\ t0 \in Tokens /\ freeBalance[vault][u][t0] >= total
      /\ FreeMoves(vault, u, t0, -total) /\ UNCHANGED wallet
  BY VaultInUse, BatchFree
<1>3. \A i, j \in DOMAIN hs : hs[i] = hs[j] => i = j
  BY DEF RegisterCommitmentBatch
<1>4. /\ \A i \in DOMAIN hs : offer[hs[i]].tokenIn = t0 /\ Registrable(hs[i], offer[hs[i]])
      /\ now' = now
  BY <1>1 DEF RegisterCommitmentBatch
<1>5. /\ S \in SUBSET Hashes /\ S # {}
      /\ \A h \in S : \E i \in DOMAIN hs : h = hs[i]
      /\ \A i \in DOMAIN hs : hs[i] \in S
  BY <1>1
<1>6. commitments' = [h \in Hashes |-> IF h \in S THEN Pending(u, offer[h]) ELSE commitments[h]]
  BY DEF RegisterCommitmentBatch
<1>7. total \in Nat
  BY <1>3, BatchSum
<1> HIDE DEF total, t0
<1>8. ASSUME NEW t \in Tokens
      PROVE  PledgedIn(commitments', S, u, t) = IF t = t0 THEN total ELSE 0
  <2> DEFINE g == [k \in Hashes |-> commitments'[k].terms.size]
             Mine == {k \in S : commitments'[k].owner = u /\ commitments'[k].terms.tokenIn = t}
  <2>1. \A i \in DOMAIN hs : g[hs[i]] = offer[hs[i]].size
    <3> HIDE DEF S
    <3> QED BY <1>1, <1>5, <1>6 DEF Pending
  <2>2. Mine = IF t = t0 THEN S ELSE {}
    <3>1. \A k \in S : commitments'[k].owner = u /\ commitments'[k].terms.tokenIn = t0
      <4> HIDE DEF S
      <4> QED BY <1>4, <1>5, <1>6 DEF Pending
    <3> HIDE DEF S
    <3> QED BY <3>1
  <2>3. PledgedIn(commitments', S, u, t) = SumFunctionOnSet(g, Mine)
    BY DEF PledgedIn
  <2> HIDE DEF g, Mine
  <2>4. SumFunctionOnSet(g, S) = total /\ SumFunctionOnSet(g, {}) = 0
    BY <1>3, <2>1, BatchSum, SumEmpty DEF total
  <2> QED BY <2>2, <2>3, <2>4
<1> HIDE DEF S
<1>9. ASSUME NEW x \in Users, NEW t \in Tokens
      PROVE  Held(x, t)' = IF x = u /\ t = t0 THEN Held(x, t) - total ELSE Held(x, t)
  <2>1. -total \in Int
    BY <1>7
  <2>2. FreeSum(x, t)' = IF x = u /\ t = t0 THEN FreeSum(x, t) + (-total) ELSE FreeSum(x, t)
    BY <1>2, <2>1, FreeSumMoves
  <2>3. FreeSum(x, t) \in Int /\ wallet[x][t] \in Int
    BY HeldType
  <2> QED BY <1>2, <1>7, <2>2, <2>3 DEF Held
<1>10. ASSUME NEW t \in Tokens
       PROVE  /\ PledgedIn(commitments', S, u, t) <= Held(u, t)
              /\ Held(u, t)' = Held(u, t) - PledgedIn(commitments', S, u, t)
  <2>1. Held(u, t) \in Nat /\ freeBalance[vault][u][t] <= Held(u, t)
        /\ freeBalance[vault][u][t] \in Nat
    BY <1>2, HeldType DEF VaultTypeOK
  <2> QED BY <1>2, <1>7, <1>8, <1>9, <2>1
<1>11. \A k \in S : /\ status(k) = "NONE" /\ commitments'[k] = Pending(u, offer[k])
                    /\ offer[k] \in Terms /\ offer[k].size > 0 /\ offer[k].expiry > now
  BY <1>1, <1>4, <1>5, <1>6 DEF Registrable
<1>12. \A k \in Hashes \ S : commitments'[k] = commitments[k]
  BY <1>6
<1>13. \A x \in Users \ {u}, t \in Tokens : Held(x, t)' = Held(x, t)
  BY <1>9
<1> QED BY <1>4, <1>5, <1>10, <1>11, <1>12, <1>13, PledgeMaps

LEMMA ExecuteFills ==
  ASSUME VaultTypeOK, RegistryTypeOK, NEW x, NEW h \in Hashes, NEW n, NEW fillRef,
         NEW out \in AmountsOut, NEW cost, ExecuteCommitment(x, h, n, fillRef, out, cost)
  PROVE  Ledger!LedgerNext
<1> DEFINE u == owner(h)
           s == terms(h).tokenOut
<1>1. /\ status(h) = "PENDING" /\ now <= terms(h).expiry /\ now' = now
      /\ commitments' = [commitments EXCEPT ![h].status = "EXECUTED"]
      /\ ReleaseAndSwap(vault, h, terms(h).tokenIn, terms(h).size, u, s, out)
  BY DEF ExecuteCommitment, MarkSpent
<1>2. /\ u \in Users /\ s \in Tokens /\ terms(h).tokenIn \in Tokens /\ terms(h).size \in Nat
      /\ vault \in Vaults /\ out \in Nat
  BY <1>1, PendingTyped, VaultInUse, RegistryAssumption
<1> HIDE DEF u, s
<1>3. WalletMoves(u, s, out) /\ UNCHANGED freeBalance
  BY <1>1, <1>2, SwapMoves
<1>4. ASSUME NEW y \in Users, NEW t \in Tokens
      PROVE  Held(y, t)' = IF y = u /\ t = s THEN Held(y, t) + out ELSE Held(y, t)
  <2>1. FreeSum(y, t)' = FreeSum(y, t)
    BY <1>3, FreeSumKept
  <2>2. FreeSum(y, t) \in Int /\ wallet[y][t] \in Int
    BY HeldType
  <2> QED BY <1>2, <1>3, <2>1, <2>2 DEF Held, WalletMoves
<1>5. Holdings' = [Holdings EXCEPT ![u][s] = @ + out]
  BY <1>2, <1>4, HoldingsHeld
<1>6. Ledger!Fill(h, out)
  BY <1>1, <1>5 DEF Ledger!Fill, u, s, owner, terms, status
<1> QED BY <1>6 DEF Ledger!LedgerNext

\* Commitments that leave with a refund.
LEMMA RefundPledged ==
  ASSUME RegistryTypeOK, NEW S \in SUBSET Hashes, \A h \in S : status(h) = "PENDING",
         NEW u \in Users, NEW t \in Tokens
  PROVE  Ledger!Pledged(commitments, S, u, t) = Refund(S, u, t)
<1> DEFINE Mine == {h \in S : owner(h) = u /\ terms(h).tokenIn = t}
           f == [h \in Mine |-> terms(h).size]
<1>1. Ledger!Pledged(commitments, S, u, t) = Ledger!SumFunction(f)
  BY DEF Ledger!Pledged, owner, terms
<1>2. Refund(S, u, t) = SumFunction(f)
  BY DEF Refund
<1> HIDE DEF f
<1> QED BY <1>1, <1>2, LedgerSum, SumWhole

LEMMA GiveBackMaps ==
  ASSUME RegistryTypeOK, NEW S \in SUBSET Hashes, NEW st,
         \A h \in S : status(h) = "PENDING",
         commitments' = [h \in Hashes |->
           IF h \in S THEN [commitments[h] EXCEPT !.status = st] ELSE commitments[h]],
         now' = now,
         \A u \in Users, t \in Tokens : Held(u, t)' = Held(u, t) + Refund(S, u, t)
  PROVE  Ledger!GiveBack(S, st)
<1>1. /\ Holdings = [x \in Users |-> [t \in Tokens |-> Held(x, t)]]
      /\ Holdings' = [x \in Users |-> [t \in Tokens |-> Held(x, t)']]
  BY HoldingsHeld
<1>2. \A u \in Users, t \in Tokens : Ledger!Pledged(commitments, S, u, t) = Refund(S, u, t)
  BY RefundPledged
<1>3. Holdings' = [u \in Users |-> [t \in Tokens |->
                    Holdings[u][t] + Ledger!Pledged(commitments, S, u, t)]]
  BY <1>1, <1>2
<1>4. \A h \in S : commitments[h].status = "PENDING"
  BY DEF status
<1> QED BY <1>3, <1>4, Zenon DEF Ledger!GiveBack

LEMMA CancelGivesBack ==
  ASSUME VaultTypeOK, RegistryTypeOK, NEW u \in Users, NEW h \in Hashes, NEW n,
         CancelCommitment(u, h, n)
  PROVE  Ledger!LedgerNext
<1> DEFINE t0 == terms(h).tokenIn
           a == terms(h).size
<1>1. /\ owner(h) = u /\ status(h) = "PENDING" /\ MarkSpent(h, n, "CANCELLED") /\ now' = now
      /\ ReturnCollateral(vault, h, u, t0, a)
  BY DEF CancelCommitment
<1>2. t0 \in Tokens /\ a \in Nat /\ vault \in Vaults
  BY <1>1, PendingTyped, VaultInUse
<1>3. FreeMoves(vault, u, t0, a) /\ UNCHANGED wallet
  BY <1>1, <1>2, ReturnMoves
<1>4. commitments' = [k \in Hashes |->
        IF k \in {h} THEN [commitments[k] EXCEPT !.status = "CANCELLED"] ELSE commitments[k]]
  <2>1. commitments \in [Hashes -> CommitmentRecord]
    BY DEF RegistryTypeOK
  <2> QED BY <1>1, <2>1, Zenon DEF MarkSpent
<1>5. ASSUME NEW x \in Users, NEW t \in Tokens
      PROVE  Refund({h}, x, t) = IF x = u /\ t = t0 THEN a ELSE 0
  <2> DEFINE Mine == {k \in {h} : owner(k) = x /\ terms(k).tokenIn = t}
             f == [k \in Mine |-> terms(k).size]
  <2>1. Refund({h}, x, t) = SumFunction(f) /\ DOMAIN f = Mine
    BY DEF Refund
  <2>2. Mine = IF x = u /\ t = t0 THEN {h} ELSE {}
    BY <1>1
  <2>3. h \in Mine => f[h] = a
    OBVIOUS
  <2> HIDE DEF f, Mine, a, t0
  <2>4. SumFunction(f) = SumFunctionOnSet(f, Mine)
    BY <2>1, SumWhole
  <2> QED BY <1>2, <2>1, <2>2, <2>3, <2>4, SumOne, SumEmpty
<1>6. ASSUME NEW x \in Users, NEW t \in Tokens
      PROVE  Held(x, t)' = Held(x, t) + Refund({h}, x, t)
  <2>1. FreeSum(x, t)' = IF x = u /\ t = t0 THEN FreeSum(x, t) + a ELSE FreeSum(x, t)
    BY <1>2, <1>3, FreeSumMoves
  <2>2. FreeSum(x, t) \in Int /\ wallet[x][t] \in Int
    BY HeldType
  <2>3. /\ wallet'[x][t] = wallet[x][t] /\ a \in Int
        /\ Refund({h}, x, t) = IF x = u /\ t = t0 THEN a ELSE 0
    BY <1>2, <1>3, <1>5
  <2> HIDE DEF a, t0
  <2> QED BY <2>1, <2>2, <2>3 DEF Held
<1>7. {h} \in SUBSET Hashes /\ \A k \in {h} : status(k) = "PENDING"
  BY <1>1
<1>8. Ledger!GiveBack({h}, "CANCELLED")
  BY <1>1, <1>4, <1>6, <1>7, GiveBackMaps
<1> QED BY <1>8 DEF Ledger!LedgerNext, Ledger!Cancel

LEMMA SweepExpires ==
  ASSUME VaultTypeOK, RegistryTypeOK, NEW H \in SUBSET Hashes, SweepExpired(H)
  PROVE  Ledger!LedgerNext \/ UNCHANGED Ledger!ledgerVars
<1> DEFINE S == Swept(H)
<1>1. S \in SUBSET Hashes /\ \A h \in S : status(h) = "PENDING" /\ now > terms(h).expiry
  BY SweptTyped
<1>2. /\ commitments' = [h \in Hashes |->
           IF h \in S THEN [commitments[h] EXCEPT !.status = "EXPIRED"] ELSE commitments[h]]
      /\ now' = now
  BY Zenon DEF SweepExpired, ExpireAll, Swept
<1>3. vault \in Vaults
  BY VaultInUse
<1> HIDE DEF S
<1>4. ASSUME NEW u \in Users, NEW t \in Tokens
      PROVE  Held(u, t)' = Held(u, t) + Refund(S, u, t)
  <2> DEFINE f == FreeIn(u, t)
             g == FreeIn(u, t)'
             r == Refund(S, u, t)
  <2>1. r \in Nat
    BY <1>1, RefundTotal
  <2>2. \A v \in Vaults : f[v] \in Int
    BY HeldType
  <2>3. \A v \in Vaults : g[v] = IF v = vault THEN f[v] + r ELSE f[v]
    <3>1. \A v \in Vaults : freeBalance'[v][u][t] = IF v = vault
                                       THEN freeBalance[v][u][t] + r ELSE freeBalance[v][u][t]
      BY SweepFree DEF S
    <3> QED BY <3>1 DEF FreeIn
  <2>4. UNCHANGED wallet
    BY SweepFree
  <2> HIDE DEF f, g, r
  <2>5. SumFunctionOnSet(g, Vaults) = SumFunctionOnSet(f, Vaults) + r
    <3>1. /\ r \in Int /\ IsFiniteSet(Vaults)
          /\ g[vault] = f[vault] + r /\ \A v \in Vaults \ {vault} : g[v] = f[v]
      BY <1>3, <2>1, <2>3, DeploymentAssumption
    <3> QED BY <1>3, <2>2, <3>1, SumChange
  <2>6. FreeSum(u, t)' = FreeSum(u, t) + r
    BY <2>5 DEF FreeSum, f, g
  <2>7. FreeSum(u, t) \in Int /\ wallet[u][t] \in Int
    BY HeldType
  <2>8. Held(u, t)' = Held(u, t) + r
    BY <2>1, <2>4, <2>6, <2>7 DEF Held
  <2> QED BY <2>8 DEF r
<1>5. CASE S # {}
  <2>1. Ledger!GiveBack(S, "EXPIRED")
    BY <1>1, <1>2, <1>4, GiveBackMaps
  <2>2. Ledger!Expire(S)
    BY <1>1, <2>1 DEF Ledger!Expire, status, terms
  <2> QED BY <1>1, <1>5, <2>2 DEF Ledger!LedgerNext
<1>6. CASE S = {}
  <2>1. commitments' = commitments
    BY <1>2, <1>6 DEF RegistryTypeOK
  <2>2. ASSUME NEW u \in Users, NEW t \in Tokens PROVE Held(u, t)' = Held(u, t)
    <3> DEFINE Mine == {h \in {} : owner(h) = u /\ terms(h).tokenIn = t}
               f == [h \in Mine |-> terms(h).size]
    <3>1. Refund({}, u, t) = SumFunction(f) /\ DOMAIN f = {}
      BY DEF Refund
    <3> HIDE DEF f
    <3>2. Refund({}, u, t) = 0
      BY <3>1, SumWhole, SumEmpty
    <3> QED BY <1>4, <1>6, <3>2, HeldType
  <2> QED BY <1>2, <2>1, <2>2, LedgerStutters
<1> QED BY <1>5, <1>6

(***************************************************************************)
(* The registry with its vaults keeps CommitmentLedger's promise: every    *)
(* registration, alone or in a batch, pledges exactly its sizes, a fill    *)
(* pays the owner, a cancellation or a sweep gives back exactly the pledge *)
(* to its owner, and no reconfiguration, deposit or withdrawal is visible. *)
(***************************************************************************)
THEOREM RegistryImplementsLedger == Spec => ImplementsLedger
<1>1. Init /\ TypeOK => Ledger!LedgerInit
  <2> SUFFICES ASSUME Init, TypeOK PROVE Ledger!LedgerInit
    OBVIOUS
  <2>1. VaultTypeOK
    BY TypeParts
  <2>2. Holdings \in [Users -> [Tokens -> Nat]]
    BY <2>1, HoldingsHeld, HeldType
  <2> QED BY <2>2 DEF Ledger!LedgerInit, Init, Unregistered
<1>2. TypeOK /\ [Next]_vars => [Ledger!LedgerNext]_Ledger!ledgerVars
  <2> SUFFICES ASSUME TypeOK, [Next]_vars
               PROVE  Ledger!LedgerNext \/ UNCHANGED Ledger!ledgerVars
    OBVIOUS
  <2>1. VaultTypeOK /\ GasTypeOK /\ OracleTypeOK /\ RegistryTypeOK
    BY TypeParts
  <2>2. UNCHANGED <<wallet, freeBalance, commitments, now>> => UNCHANGED Ledger!ledgerVars
    BY HeldKept, LedgerStutters
  <2>3. CASE VaultStep
    BY <2>1, <2>3, VaultStepStutters
  <2>4. CASE GasStep \/ OracleStep \/ UNCHANGED vars
    BY <2>2, <2>4 DEF GasStep, OracleStep, vars, chainVars, vaultVars, registryVars
  <2>5. CASE Tick
    <3>1. UNCHANGED <<wallet, freeBalance, commitments>> /\ now' = now + 1
      BY <2>5 DEF Tick, vaultVars
    <3>2. Holdings' = Holdings
      BY <3>1, HeldKept, HoldingsHeld
    <3>3. now' > now
      BY <2>1, <3>1 DEF RegistryTypeOK
    <3> QED BY <3>1, <3>2, <3>3 DEF Ledger!LedgerNext, Ledger!Later
  <2>6. ASSUME NEW u \in Users, RegisterStep(u) PROVE Ledger!LedgerNext
    <3>1. \A h \in Hashes : Offers[u][h] \subseteq Terms
      BY RegistryAssumption
    <3>2. ASSUME NEW h \in Hashes, NEW ts \in Offers[u][h], RegisterCommitment(u, h, ts)
          PROVE  Ledger!LedgerNext
      BY <2>1, <3>1, <3>2, RegisterPledges
    <3>3. ASSUME NEW hs \in Batches,
                 NEW offer \in [{hs[i] : i \in DOMAIN hs} -> UNION {Offers[u][h] : h \in Hashes}],
                 RegisterCommitmentBatch(u, hs, offer)
          PROVE  Ledger!LedgerNext
      <4>1. offer \in [{hs[i] : i \in DOMAIN hs} -> Terms]
        BY <3>1
      <4> QED BY <2>1, <3>3, <4>1, BatchPledges
    <3> QED BY <2>6, <3>2, <3>3 DEF RegisterStep
  <2>7. ASSUME NEW x \in Accounts, ExecuteStep(x) PROVE Ledger!LedgerNext
    BY <2>1, <2>7, ExecuteFills DEF ExecuteStep
  <2>8. ASSUME NEW u \in Users, CancelStep(u) PROVE Ledger!LedgerNext
    BY <2>1, <2>8, CancelGivesBack DEF CancelStep
  <2>9. ASSUME NEW H \in SUBSET Hashes, SweepExpired(H)
        PROVE  Ledger!LedgerNext \/ UNCHANGED Ledger!ledgerVars
    BY <2>1, <2>9, SweepExpires
  <2>10. ASSUME NEW x \in Guardians, GuardianStep(x) PROVE UNCHANGED Ledger!ledgerVars
    <3>1. UNCHANGED chainVars
      BY <2>1, <2>10, GuardianEffect
    <3> QED BY <2>2, <3>1 DEF chainVars, vaultVars
  <2> QED BY <2>3, <2>4, <2>5, <2>6, <2>7, <2>8, <2>9, <2>10 DEF Next
<1> QED BY <1>1, <1>2, TypeCorrect, PTL DEF Spec, ImplementsLedger, Ledger!LedgerSpec
=============================================================================
