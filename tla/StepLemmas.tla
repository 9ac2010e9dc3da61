----------------------------- MODULE StepLemmas -----------------------------
(* Induction and recursion.  The library's theorems take a predicate, which *)
(* no prover here can instantiate; a set says the same.                    *)
EXTENDS Integers, WellFoundedInduction, FiniteSetTheorems, TLAPS

LEMMA LeastNatural ==
    ASSUME NEW S \in SUBSET Nat, S # {}
    PROVE  \E n \in S : \A m \in S : n <= m
<1>1. PICK n \in S : \A m \in S : <<m, n>> \notin OpToRel(<, Nat)
  BY NatLessThanWellFounded, WFMin, Zenon
<1>2. \A m \in S : n <= m
  <2> SUFFICES ASSUME NEW m \in S, m < n PROVE FALSE
    OBVIOUS
  <2>1. <<m, n>> \in {p \in Nat \X Nat : p[1] < p[2]}
    OBVIOUS
  <2> QED
    BY <1>1, <2>1 DEF OpToRel
<1> QED
  BY <1>2

(* Induction, as a fact about sets.                                        *)
LEMMA SetInduction ==
    ASSUME NEW S, 0 \in S, \A n \in Nat : n \in S => n + 1 \in S
    PROVE  Nat \subseteq S
<1> DEFINE Out == {n \in Nat : n \notin S}
<1> SUFFICES ASSUME Out # {} PROVE FALSE
    OBVIOUS
<1>1. PICK n \in Out : \A m \in Out : n <= m
  <2> Out \in SUBSET Nat
    OBVIOUS
  <2> HIDE DEF Out
  <2> QED
    BY LeastNatural
<1>2. n # 0 /\ n - 1 \in Nat /\ (n - 1) + 1 = n
  OBVIOUS
<1>3. n - 1 \in Out
  BY <1>2
<1> QED
  BY <1>1, <1>2, <1>3

(* Steps taken one after the other, from x, define a function.             *)
WalksOf(m, X, x, step) == {f \in [0..m -> X] : f[0] = x /\ \A n \in 1..m : f[n] = step[n][f[n - 1]]}

LEMMA StepsDefine ==
    ASSUME NEW N \in Nat, NEW X, NEW x \in X, NEW step \in [1..N -> [X -> X]]
    PROVE  WalksOf(N, X, x, step) # {}
<1> DEFINE Good == {m \in Nat : m <= N => WalksOf(m, X, x, step) # {}}
<1>1. 0 \in Good
  <2> DEFINE f == [i \in 0..0 |-> x]
  <2>1. f \in WalksOf(0, X, x, step)
    BY DEF WalksOf
  <2> QED
    BY <2>1
<1>2. ASSUME NEW m \in Nat, m \in Good PROVE m + 1 \in Good
  <2> SUFFICES ASSUME m + 1 <= N PROVE WalksOf(m + 1, X, x, step) # {}
    OBVIOUS
  <2>1. PICK f : f \in WalksOf(m, X, x, step)
    BY <1>2
  <2>2. f \in [0..m -> X] /\ f[0] = x /\ \A n \in 1..m : f[n] = step[n][f[n - 1]]
    BY <2>1 DEF WalksOf
  <2> DEFINE g == [i \in 0..m + 1 |-> IF i = m + 1 THEN step[m + 1][f[m]] ELSE f[i]]
  <2>3. step[m + 1][f[m]] \in X
    <3>1. f[m] \in X /\ m + 1 \in 1..N
      BY <2>2
    <3> QED
      BY <3>1
  <2>4. g \in [0..m + 1 -> X] /\ g[0] = x
    <3> HIDE <1>2
    <3>1. \A i \in 0..m + 1 : i # m + 1 => i \in 0..m
      OBVIOUS
    <3> QED
      BY <2>2, <2>3, <3>1
  <2>5. ASSUME NEW n \in 1..m + 1 PROVE g[n] = step[n][g[n - 1]]
    <3>1. CASE n = m + 1
      BY <3>1
    <3>2. CASE n # m + 1
      <4>1. n \in 1..m /\ n - 1 \in 0..m + 1 /\ n - 1 # m + 1 /\ n \in 0..m + 1
        BY <3>2
      <4> QED
        BY <2>2, <3>2, <4>1
    <3> QED
      BY <3>1, <3>2
  <2>6. g \in WalksOf(m + 1, X, x, step)
    <3> HIDE DEF g
    <3> QED
      BY <2>4, <2>5 DEF WalksOf
  <2> QED
    BY <2>6
<1> HIDE DEF Good
<1>3. Nat \subseteq Good
  BY <1>1, <1>2, SetInduction
<1> QED
  BY <1>3 DEF Good

(* What is so at first, and after each step if before it, is so.           *)
LEMMA StagesAre ==
    ASSUME NEW N \in Nat, NEW X, NEW f, f[0] \in X[0], \A n \in 1..N : f[n - 1] \in X[n - 1] => f[n] \in X[n]
    PROVE  \A n \in 0..N : f[n] \in X[n]
<1> DEFINE Good == {n \in Nat : n <= N => f[n] \in X[n]}
<1>1. 0 \in Good
  OBVIOUS
<1>2. ASSUME NEW n \in Nat, n \in Good PROVE n + 1 \in Good
  <2> SUFFICES ASSUME n + 1 <= N PROVE f[n + 1] \in X[n + 1]
    OBVIOUS
  <2>1. n + 1 \in 1..N /\ (n + 1) - 1 = n /\ f[n] \in X[n]
    BY <1>2
  <2> QED
    BY <2>1
<1> HIDE DEF Good
<1>3. Nat \subseteq Good
  BY <1>1, <1>2, SetInduction
<1> QED
  BY <1>3 DEF Good

(* Steps from stage to stage, from x, define a function.                   *)
Staged(N, X, x, step) ==
    \E f : /\ f = [n \in 0..N |-> f[n]] /\ f[0] = x
           /\ \A n \in 1..N : f[n] = step[n][f[n - 1]]
           /\ \A n \in 0..N : f[n] \in X[n]

LEMMA StagesDefine ==
    ASSUME NEW N \in Nat, NEW X, NEW x \in X[0], NEW step, \A n \in 1..N : \A y \in X[n - 1] : step[n][y] \in X[n]
    PROVE  Staged(N, X, x, step)
<1> DEFINE U == UNION {X[n] : n \in 0..N}
           all == [n \in 1..N |-> [y \in U |-> IF y \in X[n - 1] THEN step[n][y] ELSE y]]
<1>1. x \in U
  OBVIOUS
<1>2. \A n \in 0..N : X[n] \subseteq U
  OBVIOUS
<1>3. \A n \in 1..N : n \in 0..N /\ n - 1 \in 0..N
  OBVIOUS
<1>4. all \in [1..N -> [U -> U]]
  <2> HIDE DEF U
  <2>1. \A n \in 1..N : \A y \in X[n - 1] : step[n][y] \in U
    BY <1>2, <1>3
  <2> QED
    BY <2>1
<1> HIDE DEF U
<1>5. PICK f \in [0..N -> U] : f[0] = x /\ \A n \in 1..N : f[n] = all[n][f[n - 1]]
  <2> HIDE DEF all
  <2>1. WalksOf(N, U, x, all) # {}
    BY <1>1, <1>4, StepsDefine
  <2> QED
    BY <2>1 DEF WalksOf
<1>6. \A n \in 1..N : f[n - 1] \in U /\ (f[n - 1] \in X[n - 1] => f[n] = step[n][f[n - 1]])
  BY <1>3, <1>5
<1> HIDE DEF all
<1>7. \A n \in 0..N : f[n] \in X[n]
  <2>1. \A n \in 1..N : f[n - 1] \in X[n - 1] => f[n] \in X[n]
    BY <1>6
  <2>2. f[0] \in X[0]
    BY <1>5
  <2> QED
    BY <2>1, <2>2, StagesAre
<1>8. \A n \in 1..N : f[n] = step[n][f[n - 1]]
  BY <1>3, <1>6, <1>7
<1> QED
  BY <1>5, <1>7, <1>8 DEF Staged

(* Sums over finite sets: a recursion that takes out one element after the *)
(* other adds up every element once, whichever it takes.                   *)
Some(S) == CHOOSE x \in S : TRUE

IsSum(sum, D, f) == sum = [S \in SUBSET D |-> IF S = {} THEN 0 ELSE f[Some(S)] + sum[S \ {Some(S)}]]

LEMMA SmallerSubset ==
    ASSUME NEW D, IsFiniteSet(D), NEW S \in SUBSET D, S # {}
    PROVE  /\ Some(S) \in S /\ Cardinality(S) \in Nat
           /\ \A x \in S : S \ {x} \in SUBSET D /\ Cardinality(S \ {x}) \in Nat /\ Cardinality(S \ {x}) < Cardinality(S)
<1>1. IsFiniteSet(S) /\ Cardinality(S) \in Nat
  BY FS_Subset, FS_CardinalityType
<1>2. ASSUME NEW x \in S
      PROVE  Cardinality(S \ {x}) \in Nat /\ Cardinality(S \ {x}) < Cardinality(S)
  <2>1. IsFiniteSet(S \ {x}) /\ Cardinality(S \ {x}) = Cardinality(S) - 1
    BY <1>1, FS_RemoveElement
  <2> QED
    BY <1>1, <2>1, FS_CardinalityType
<1> QED
  BY <1>1, <1>2 DEF Some

(* What holds of the empty set, and of a set if of each with one element   *)
(* less, holds of every subset.                                            *)
LEMMA SubsetInduction ==
    ASSUME NEW D, IsFiniteSet(D), NEW Good, {} \in Good,
           \A S \in SUBSET D : S # {} /\ (\A x \in S : S \ {x} \in Good) => S \in Good
    PROVE  \A S \in SUBSET D : S \in Good
<1> DEFINE Upto == {n \in Nat : \A S \in SUBSET D : Cardinality(S) <= n => S \in Good}
<1>1. \A S \in SUBSET D : IsFiniteSet(S) /\ Cardinality(S) \in Nat /\ (Cardinality(S) = 0 <=> S = {})
  BY FS_Subset, FS_CardinalityType, FS_EmptySet
<1>2. 0 \in Upto
  BY <1>1
<1>3. ASSUME NEW n \in Nat, n \in Upto PROVE n + 1 \in Upto
  <2>1. ASSUME NEW S \in SUBSET D, Cardinality(S) <= n + 1, S # {} PROVE S \in Good
    <3>1. ASSUME NEW x \in S PROVE S \ {x} \in Good
      <4>1. S \ {x} \in SUBSET D /\ Cardinality(S \ {x}) = Cardinality(S) - 1
        BY <1>1, FS_RemoveElement
      <4>2. Cardinality(S \ {x}) <= n
        BY <1>1, <2>1, <4>1
      <4> QED
        BY <1>3, <4>1, <4>2
    <3> QED
      BY <2>1, <3>1
  <2>2. \A S \in SUBSET D : Cardinality(S) <= n + 1 => S \in Good
    BY <2>1
  <2> QED
    BY <2>2
<1> HIDE DEF Upto
<1>4. Nat \subseteq Upto
  BY <1>2, <1>3, SetInduction
<1> QED
  BY <1>1, <1>4 DEF Upto

LEMMA SumDefined ==
    ASSUME NEW D, IsFiniteSet(D), NEW f \in [D -> Nat]
    PROVE  \E sum \in [SUBSET D -> Nat] : IsSum(sum, D, f)
<1> DEFINE Upto(n) == {S \in SUBSET D : Cardinality(S) <= n}
           Next(g, S) == IF S = {} THEN 0 ELSE f[Some(S)] + g[S \ {Some(S)}]
           Good == {n \in Nat : \E g \in [Upto(n) -> Nat] : \A S \in Upto(n) : g[S] = Next(g, S)}
<1>1. 0 \in Good
  <2>1. \A S \in Upto(0) : S = {}
    <3> SUFFICES ASSUME NEW S \in SUBSET D, Cardinality(S) <= 0, S # {} PROVE FALSE
      OBVIOUS
    <3>1. IsFiniteSet(S) /\ Cardinality(S) \in Nat
      BY FS_Subset, FS_CardinalityType
    <3> QED
      BY <3>1, FS_EmptySet
  <2> DEFINE g == [S \in Upto(0) |-> 0]
  <2>2. g \in [Upto(0) -> Nat] /\ \A S \in Upto(0) : g[S] = Next(g, S)
    BY <2>1
  <2> QED
    BY <2>2
<1>2. ASSUME NEW n \in Nat, n \in Good PROVE n + 1 \in Good
  <2>1. PICK g \in [Upto(n) -> Nat] : \A S \in Upto(n) : g[S] = Next(g, S)
    BY <1>2
  <2>2. ASSUME NEW S \in Upto(n + 1), S # {} PROVE Some(S) \in D /\ S \ {Some(S)} \in Upto(n)
    BY <2>2, SmallerSubset
  <2> HIDE DEF Upto
  <2> DEFINE h == [S \in Upto(n + 1) |-> Next(g, S)]
  <2>3. h \in [Upto(n + 1) -> Nat]
    BY <2>1, <2>2
  <2>4. \A S \in Upto(n + 1) : S \in Upto(n) => h[S] = g[S]
    BY <2>1
  <2>5. Upto(n) \subseteq Upto(n + 1)
    <3> SUFFICES ASSUME NEW S \in SUBSET D, Cardinality(S) <= n PROVE Cardinality(S) <= n + 1
      BY DEF Upto
    <3> QED
      BY FS_Subset, FS_CardinalityType
  <2>6. ASSUME NEW S \in Upto(n + 1) PROVE h[S] = Next(h, S)
    <3>1. CASE S = {}
      BY <3>1
    <3>2. CASE S # {}
      <4>1. S \ {Some(S)} \in Upto(n) /\ S \ {Some(S)} \in Upto(n + 1)
        BY <2>2, <2>5, <3>2
      <4>2. h[S \ {Some(S)}] = g[S \ {Some(S)}]
        BY <2>4, <4>1
      <4> QED
        BY <3>2, <4>2
    <3> QED
      BY <3>1, <3>2
  <2> HIDE DEF h, Next
  <2> QED
    BY <2>3, <2>6
<1> HIDE DEF Good
<1>3. Nat \subseteq Good
  BY <1>1, <1>2, SetInduction
<1>4. Upto(Cardinality(D)) = SUBSET D
  BY FS_Subset
<1>5. Cardinality(D) \in Good
  BY <1>3, FS_CardinalityType
<1>6. PICK sum \in [SUBSET D -> Nat] : \A S \in SUBSET D : sum[S] = Next(sum, S)
  BY <1>4, <1>5 DEF Good
<1> QED
  BY <1>6 DEF IsSum

LEMMA SumTyped ==
    ASSUME NEW D, IsFiniteSet(D), NEW f \in [D -> Nat], NEW sum, IsSum(sum, D, f)
    PROVE  sum \in [SUBSET D -> Nat]
<1>0. sum[{}] = 0 /\ \A S \in SUBSET D : S # {} => Some(S) \in S /\ sum[S] = f[Some(S)] + sum[S \ {Some(S)}]
  BY DEF IsSum, Some
<1> DEFINE Good == {S \in SUBSET D : sum[S] \in Nat}
<1>1. {} \in Good
  BY <1>0
<1>2. ASSUME NEW S \in SUBSET D, S # {}, \A x \in S : S \ {x} \in Good PROVE S \in Good
  <2>1. Some(S) \in S /\ sum[S] = f[Some(S)] + sum[S \ {Some(S)}]
    BY <1>0, <1>2
  <2>2. sum[S \ {Some(S)}] \in Nat /\ f[Some(S)] \in Nat
    BY <1>2, <2>1
  <2> QED
    BY <2>1, <2>2
<1> HIDE DEF Good
<1>3. \A S \in SUBSET D : S \in Good
  BY <1>1, <1>2, SubsetInduction
<1> QED
  BY <1>3 DEF IsSum, Good

(* Any element may be taken out first.                                     *)
AnyFirst(sum, D, f) == \A S \in SUBSET D : \A x \in S : sum[S] = f[x] + sum[S \ {x}]

LEMMA SumTakes ==
    ASSUME NEW D, IsFiniteSet(D), NEW f \in [D -> Nat], NEW sum, IsSum(sum, D, f)
    PROVE  AnyFirst(sum, D, f)
<1>0. sum[{}] = 0 /\ \A S \in SUBSET D : S # {} => Some(S) \in S /\ sum[S] = f[Some(S)] + sum[S \ {Some(S)}]
  BY DEF IsSum, Some
<1> DEFINE Good == {S \in SUBSET D : \A x \in S : sum[S] = f[x] + sum[S \ {x}]}
<1>1. sum \in [SUBSET D -> Nat]
  BY SumTyped
<1>2. {} \in Good
  OBVIOUS
<1>3. ASSUME NEW S \in SUBSET D, S # {}, \A x \in S : S \ {x} \in Good PROVE S \in Good
  <2> SUFFICES ASSUME NEW x \in S PROVE sum[S] = f[x] + sum[S \ {x}]
    OBVIOUS
  <2>1. PICK c \in S : sum[S] = f[c] + sum[S \ {c}]
    BY <1>0, <1>3
  <2>2. CASE x = c
    BY <2>1, <2>2
  <2>3. CASE x # c
    <3>1. sum[S \ {c}] = f[x] + sum[(S \ {c}) \ {x}]
      BY <1>3, <2>1, <2>3
    <3>2. sum[S \ {x}] = f[c] + sum[(S \ {x}) \ {c}]
      BY <1>3, <2>1, <2>3
    <3>3. (S \ {c}) \ {x} = (S \ {x}) \ {c} /\ (S \ {x}) \ {c} \in SUBSET D
      OBVIOUS
    <3> DEFINE less == sum[(S \ {x}) \ {c}]
    <3>4. less \in Nat /\ f[x] \in Nat /\ f[c] \in Nat
      BY <1>1, <2>1, <3>3
    <3>5. sum[S \ {c}] = f[x] + less /\ sum[S \ {x}] = f[c] + less
      BY <3>1, <3>2, <3>3
    <3> HIDE DEF less
    <3> QED
      BY <2>1, <3>4, <3>5
  <2> QED
    BY <2>2, <2>3
<1> HIDE DEF Good
<1>4. \A S \in SUBSET D : S \in Good
  BY <1>2, <1>3, SubsetInduction
<1> QED
  BY <1>4 DEF Good, AnyFirst

(* What agrees on a set has the same sum over it.                          *)
LEMMA SumsAgree ==
    ASSUME NEW D, IsFiniteSet(D), NEW f, NEW g, NEW sum, IsSum(sum, D, f), NEW other, IsSum(other, D, g)
    PROVE  \A S \in SUBSET D : (\A x \in S : f[x] = g[x]) => sum[S] = other[S]
<1>0. sum[{}] = 0 /\ \A S \in SUBSET D : S # {} => Some(S) \in S /\ sum[S] = f[Some(S)] + sum[S \ {Some(S)}]
  BY DEF IsSum, Some
<1>9. other[{}] = 0 /\ \A S \in SUBSET D : S # {} => Some(S) \in S /\ other[S] = g[Some(S)] + other[S \ {Some(S)}]
  BY DEF IsSum, Some
<1> DEFINE Good == {S \in SUBSET D : (\A x \in S : f[x] = g[x]) => sum[S] = other[S]}
<1>1. {} \in Good
  BY <1>0, <1>9
<1>2. ASSUME NEW S \in SUBSET D, S # {}, \A x \in S : S \ {x} \in Good PROVE S \in Good
  <2> SUFFICES ASSUME \A x \in S : f[x] = g[x] PROVE sum[S] = other[S]
    OBVIOUS
  <2> DEFINE c == Some(S)
  <2>1. c \in S /\ sum[S] = f[c] + sum[S \ {c}]
    BY <1>0, <1>2
  <2>2. other[S] = g[c] + other[S \ {c}]
    BY <1>2, <1>9
  <2> HIDE DEF c
  <2>3. sum[S \ {c}] = other[S \ {c}]
    BY <1>2, <2>1
  <2> QED
    BY <2>1, <2>2, <2>3
<1> HIDE DEF Good
<1>3. \A S \in SUBSET D : S \in Good
  BY <1>1, <1>2, SubsetInduction
<1> QED
  BY <1>3 DEF Good

(* What one gives to another, the sum does not see.                        *)
LEMMA SumKept ==
    ASSUME NEW D, IsFiniteSet(D), NEW f \in [D -> Nat], NEW g \in [D -> Nat], NEW a \in D, NEW b \in D, a # b,
           f[a] + f[b] = g[a] + g[b], \A x \in D : x \notin {a, b} => f[x] = g[x],
           NEW sum, IsSum(sum, D, f), NEW other, IsSum(other, D, g)
    PROVE  sum[D] = other[D]
<1> DEFINE rest == (D \ {a}) \ {b}
<1>1. sum \in [SUBSET D -> Nat] /\ other \in [SUBSET D -> Nat]
  BY SumTyped
<1>2. AnyFirst(sum, D, f)
  BY SumTakes
<1>3. AnyFirst(other, D, g)
  BY SumTakes
<1>4. /\ sum[D] = f[a] + sum[D \ {a}] /\ sum[D \ {a}] = f[b] + sum[rest]
      /\ other[D] = g[a] + other[D \ {a}] /\ other[D \ {a}] = g[b] + other[rest]
  <2>1. D \ {a} \in SUBSET D /\ b \in D \ {a} /\ D \in SUBSET D
    OBVIOUS
  <2> QED
    BY <1>2, <1>3, <2>1 DEF AnyFirst
<1>5. sum[rest] = other[rest]
  <2>1. rest \in SUBSET D /\ \A x \in rest : f[x] = g[x]
    OBVIOUS
  <2> HIDE DEF rest
  <2> QED
    BY <2>1, SumsAgree
<1>6. rest \in SUBSET D
  OBVIOUS
<1> HIDE DEF rest
<1>7. sum[rest] \in Nat /\ f[a] \in Nat /\ f[b] \in Nat /\ g[a] \in Nat /\ g[b] \in Nat
  BY <1>1, <1>6
<1> QED
  BY <1>4, <1>5, <1>7

=============================================================================
