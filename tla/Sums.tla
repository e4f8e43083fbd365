-------------------------------- MODULE Sums --------------------------------
(***************************************************************************)
(* What the proofs need of a sum over a finite set (SumFunctionOnSet of    *)
(* the community modules): its recursive definition has a solution, it     *)
(* does not depend on the order, it grows with the set and with what is    *)
(* summed.  Induction is over the subsets of a finite set, by a smallest   *)
(* one for which the claim fails.                                          *)
(***************************************************************************)
EXTENDS Functions, Integers, FiniteSets, FiniteSetTheorems, WellFoundedInduction, TLAPS

(* The order in which a sum is taken.                                      *)
Pick(S) == CHOOSE x \in S : TRUE

(* g sums f over the subsets of D.                                         *)
IsSum(g, f, D) ==
  g = [s \in SUBSET D |-> IF s = {} THEN 0 ELSE f[Pick(s)] + g[s \ {Pick(s)}]]

\* What is picked from a set is in it.
LEMMA PickIn ==
  ASSUME NEW S, S # {} PROVE Pick(S) \in S
BY DEF Pick

\* What holds of no smallest set holds of every finite set: a set of
\* subsets of a finite set has a member of which no strict subset is one.
LEMMA Smallest ==
  ASSUME NEW D, IsFiniteSet(D), NEW Bad \in SUBSET SUBSET D, Bad # {}
  PROVE  \E T \in Bad : \A U \in Bad : U \subseteq T => U = T
<1>1. Bad \subseteq FiniteSubsetsOf(D)
  BY FS_FiniteSubsetsOfFinite
<1>2. PICK T \in Bad : \A U \in Bad : <<U, T>> \notin StrictSubsetOrdering(D)
  BY <1>1, FS_StrictSubsetOrderingWellFounded, WFMin
<1>3. ASSUME NEW U \in Bad, U \subseteq T, U # T PROVE FALSE
  BY <1>2, <1>3 DEF StrictSubsetOrdering
<1> QED BY <1>2, <1>3

\* Two sums agree wherever both are defined.
LEMMA SumsAgree ==
  ASSUME NEW D, NEW E, IsFiniteSet(D), NEW f, NEW g, NEW h,
         IsSum(g, f, D), IsSum(h, f, E), NEW s, s \subseteq D, s \subseteq E
  PROVE  g[s] = h[s]
<1> DEFINE Bad == {t \in SUBSET D : t \subseteq E /\ g[t] # h[t]}
<1>1. SUFFICES ASSUME Bad # {} PROVE FALSE
  OBVIOUS
<1>0. Bad \in SUBSET SUBSET D
  OBVIOUS
<1>2. PICK T \in Bad : \A U \in Bad : U \subseteq T => U = T
  <2> HIDE DEF Bad
  <2> QED BY <1>0, <1>1, Smallest
<1>3. T # {}
  BY <1>2 DEF IsSum
<1>4. Pick(T) \in T
  BY <1>3, PickIn
<1> DEFINE U == T \ {Pick(T)}
<1>5. g[U] = h[U]
  BY <1>2, <1>4
<1>6. g[T] = f[Pick(T)] + g[U] /\ h[T] = f[Pick(T)] + h[U]
  BY <1>2, <1>3 DEF IsSum
<1> QED BY <1>2, <1>5, <1>6

\* There is a function that sums f over the subsets of a finite set: the
\* recursive definition means something.
LEMMA SumExists ==
  ASSUME NEW D, IsFiniteSet(D), NEW f
  PROVE  \E g : IsSum(g, f, D)
<1> DEFINE Bad == {t \in SUBSET D : ~\E g : IsSum(g, f, t)}
<1>1. SUFFICES ASSUME Bad # {} PROVE FALSE
  OBVIOUS
<1>0. Bad \in SUBSET SUBSET D
  OBVIOUS
<1>2. PICK T \in Bad : \A U \in Bad : U \subseteq T => U = T
  <2> HIDE DEF Bad
  <2> QED BY <1>0, <1>1, Smallest
<1>3. IsFiniteSet(T)
  BY <1>2, FS_Subset
<1> DEFINE h(t) == CHOOSE g : IsSum(g, f, t)
           smaller(t) == IF t = {} THEN 0 ELSE h(t)[t]
           rest(t) == t \ {Pick(t)}
           g == [t \in SUBSET T |-> IF t = {} THEN 0 ELSE f[Pick(t)] + smaller(rest(t))]
<1>4. ASSUME NEW t \in SUBSET T, t # T PROVE IsSum(h(t), f, t)
  BY <1>2, <1>4
<1>5. ASSUME NEW t \in SUBSET T, t # {} PROVE smaller(rest(t)) = g[rest(t)]
  <2> DEFINE u == rest(t)
  <2>1. u \in SUBSET T /\ u # T
    BY <1>5, PickIn
  <2>2. CASE u = {}
    BY <2>1, <2>2
  <2>3. CASE u # {}
    <3> DEFINE v == rest(u)
    <3>1. v \subseteq u /\ v # u
      BY <2>3, PickIn
    <3>0. IsSum(h(u), f, u)
      BY <1>4, <2>1
    <3>2. h(u)[u] = f[Pick(u)] + h(u)[v]
      <4> HIDE DEF h, u
      <4> QED BY <2>3, <3>0 DEF IsSum
    <3>3. CASE v = {}
      <4>1. h(u)[v] = 0
        <5> HIDE DEF h, u, v
        <5> QED BY <3>0, <3>1, <3>3 DEF IsSum
      <4> QED BY <2>1, <2>3, <3>2, <3>3, <4>1
    <3>4. CASE v # {}
      <4>1. v \in SUBSET T /\ v # T
        BY <2>1, <3>1
      <4>2. IsSum(h(v), f, v)
        BY <1>4, <4>1
      <4>3. IsFiniteSet(u) /\ IsFiniteSet(v)
        BY <1>3, <2>1, <4>1, FS_Subset
      <4> HIDE DEF u, v, h
      <4>4. h(u)[v] = h(v)[v]
        BY <3>0, <3>1, <4>2, <4>3, SumsAgree
      <4>5. g[u] = f[Pick(u)] + smaller(v)
        BY <2>1, <2>3 DEF v
      <4> QED BY <2>3, <3>2, <3>4, <4>4, <4>5 DEF u
    <3> QED BY <3>3, <3>4
  <2> QED BY <2>2, <2>3
<1> HIDE DEF smaller
<1>6. IsSum(g, f, T)
  BY <1>5 DEF IsSum
<1> QED BY <1>2, <1>6

\* The sum is the value of such a function.
LEMMA SumIs ==
  ASSUME NEW S, IsFiniteSet(S), NEW f
  PROVE  \E g : IsSum(g, f, S) /\ SumFunctionOnSet(f, S) = g[S]
<1> DEFINE sum == CHOOSE g : IsSum(g, f, S)
<1>1. IsSum(sum, f, S)
  BY SumExists
<1>2. SumFunctionOnSet(f, S) = sum[S]
  BY DEF IsSum, Pick, SumFunctionOnSet, FoldFunctionOnSet, MapThenFoldSet
<1> HIDE DEF sum
<1> QED BY <1>1, <1>2

\* The equation the definition means.
LEMMA SumEquation ==
  ASSUME NEW S, IsFiniteSet(S), NEW f
  PROVE  SumFunctionOnSet(f, S) =
           IF S = {} THEN 0 ELSE f[Pick(S)] + SumFunctionOnSet(f, S \ {Pick(S)})
<1> DEFINE T == S \ {Pick(S)}
<1>1. IsFiniteSet(T)
  BY FS_Subset
<1>2. PICK g : IsSum(g, f, S) /\ SumFunctionOnSet(f, S) = g[S]
  BY SumIs
<1>3. PICK h : IsSum(h, f, T) /\ SumFunctionOnSet(f, T) = h[T]
  BY <1>1, SumIs
<1>4. g[T] = h[T]
  <2> HIDE DEF T
  <2>1. T \subseteq S
    BY DEF T
  <2> QED BY <1>2, <1>3, <2>1, SumsAgree
<1>5. g[S] = IF S = {} THEN 0 ELSE f[Pick(S)] + g[T]
  BY <1>2 DEF IsSum
<1> QED BY <1>2, <1>3, <1>4, <1>5

\* The sum over nothing.
LEMMA SumEmpty ==
  ASSUME NEW f PROVE SumFunctionOnSet(f, {}) = 0
BY SumEquation, FS_EmptySet

\* A sum of integers is one.
LEMMA SumInt ==
  ASSUME NEW D, IsFiniteSet(D), NEW f, \A x \in D : f[x] \in Int
  PROVE  SumFunctionOnSet(f, D) \in Int
<1> DEFINE Bad == {t \in SUBSET D : SumFunctionOnSet(f, t) \notin Int}
<1>1. SUFFICES ASSUME Bad # {} PROVE FALSE
  OBVIOUS
<1>2. Bad \in SUBSET SUBSET D
  OBVIOUS
<1>3. PICK T \in Bad : \A U \in Bad : U \subseteq T => U = T
  <2> HIDE DEF Bad
  <2> QED BY <1>1, <1>2, Smallest
<1>4. IsFiniteSet(T)
  BY <1>3, FS_Subset
<1>5. T # {}
  <2>1. SUFFICES ASSUME T = {} PROVE FALSE
    OBVIOUS
  <2>2. SumFunctionOnSet(f, T) = 0
    BY <2>1, SumEmpty
  <2> QED BY <1>3, <2>2
<1> DEFINE p == Pick(T)
<1>6. p \in T
  BY <1>5, PickIn
<1>7. SumFunctionOnSet(f, T \ {p}) \in Int
  BY <1>3, <1>6
<1>8. SumFunctionOnSet(f, T) = f[p] + SumFunctionOnSet(f, T \ {p})
  BY <1>4, <1>5, SumEquation
<1>9. f[p] \in Int
  BY <1>3, <1>6
<1> HIDE DEF p
<1>10. SumFunctionOnSet(f, T) \in Int
  BY <1>7, <1>8, <1>9
<1> QED BY <1>3, <1>10

\* Any member may be taken out first.
LEMMA SumTakes ==
  ASSUME NEW D, IsFiniteSet(D), NEW f, \A x \in D : f[x] \in Int, NEW y \in D
  PROVE  SumFunctionOnSet(f, D) = f[y] + SumFunctionOnSet(f, D \ {y})
<1> DEFINE Bad == {t \in SUBSET D : \E x \in t :
                     SumFunctionOnSet(f, t) # f[x] + SumFunctionOnSet(f, t \ {x})}
<1>1. SUFFICES ASSUME Bad # {} PROVE FALSE
  OBVIOUS
<1>2. Bad \in SUBSET SUBSET D
  OBVIOUS
<1>3. PICK T \in Bad : \A U \in Bad : U \subseteq T => U = T
  <2> HIDE DEF Bad
  <2> QED BY <1>1, <1>2, Smallest
<1>4. PICK x \in T : SumFunctionOnSet(f, T) # f[x] + SumFunctionOnSet(f, T \ {x})
  BY <1>3
<1> DEFINE p == Pick(T)
           R == (T \ {p}) \ {x}
<1>5. p \in T
  BY <1>4, PickIn
<1>6. IsFiniteSet(T) /\ IsFiniteSet(T \ {p}) /\ IsFiniteSet(T \ {x}) /\ IsFiniteSet(R)
  BY <1>3, FS_Subset
<1>7. SumFunctionOnSet(f, T) = f[p] + SumFunctionOnSet(f, T \ {p})
  BY <1>4, <1>6, SumEquation
<1>8. p # x
  BY <1>4, <1>7
<1>9. SumFunctionOnSet(f, T \ {p}) = f[x] + SumFunctionOnSet(f, R)
  <2>1. T \ {p} \notin Bad /\ T \ {p} \in SUBSET D /\ x \in T \ {p}
    BY <1>3, <1>4, <1>5, <1>8
  <2> QED BY <2>1
<1>10. SumFunctionOnSet(f, T \ {x}) = f[p] + SumFunctionOnSet(f, R)
  <2>1. T \ {x} \notin Bad /\ T \ {x} \in SUBSET D /\ p \in T \ {x}
    BY <1>3, <1>4, <1>5, <1>8
  <2>2. (T \ {x}) \ {p} = R
    OBVIOUS
  <2> QED BY <2>1, <2>2
<1>11. f[x] \in Int /\ f[p] \in Int /\ SumFunctionOnSet(f, R) \in Int
  <2>1. \A z \in R : f[z] \in Int
    BY <1>3
  <2> HIDE DEF R, p, Bad
  <2> QED BY <1>3, <1>2, <1>4, <1>5, <1>6, <2>1, SumInt
<1> HIDE DEF p, R
<1> QED BY <1>4, <1>7, <1>9, <1>10, <1>11

\* One more term.
LEMMA SumAdds ==
  ASSUME NEW S, IsFiniteSet(S), NEW f, NEW y, y \notin S, \A x \in S \cup {y} : f[x] \in Int
  PROVE  SumFunctionOnSet(f, S \cup {y}) = f[y] + SumFunctionOnSet(f, S)
<1>1. IsFiniteSet(S \cup {y}) /\ (S \cup {y}) \ {y} = S
  BY FS_AddElement
<1> QED BY <1>1, SumTakes

\* What is summed may grow from term to term.
LEMMA SumGrows ==
  ASSUME NEW D, IsFiniteSet(D), NEW f, NEW g,
         \A x \in D : f[x] \in Int /\ g[x] \in Int /\ f[x] <= g[x]
  PROVE  SumFunctionOnSet(f, D) <= SumFunctionOnSet(g, D)
<1> DEFINE Bad == {t \in SUBSET D : ~(SumFunctionOnSet(f, t) <= SumFunctionOnSet(g, t))}
<1>1. SUFFICES ASSUME Bad # {} PROVE FALSE
  OBVIOUS
<1>2. Bad \in SUBSET SUBSET D
  OBVIOUS
<1>3. PICK T \in Bad : \A U \in Bad : U \subseteq T => U = T
  <2> HIDE DEF Bad
  <2> QED BY <1>1, <1>2, Smallest
<1>4. IsFiniteSet(T)
  BY <1>3, FS_Subset
<1>5. T # {}
  <2>1. SUFFICES ASSUME T = {} PROVE FALSE
    OBVIOUS
  <2>2. SumFunctionOnSet(f, T) = 0 /\ SumFunctionOnSet(g, T) = 0
    BY <2>1, SumEmpty
  <2> QED BY <1>3, <2>2
<1> DEFINE p == Pick(T)
           R == T \ {p}
<1>6. p \in T
  BY <1>5, PickIn
<1>7. SumFunctionOnSet(f, R) <= SumFunctionOnSet(g, R)
  BY <1>3, <1>6
<1>8. SumFunctionOnSet(f, T) = f[p] + SumFunctionOnSet(f, R)
      /\ SumFunctionOnSet(g, T) = g[p] + SumFunctionOnSet(g, R)
  BY <1>4, <1>5, SumEquation
<1>9. SumFunctionOnSet(f, R) \in Int /\ SumFunctionOnSet(g, R) \in Int
  <2>1. IsFiniteSet(R) /\ \A x \in R : f[x] \in Int /\ g[x] \in Int
    BY <1>3, <1>4, FS_Subset
  <2> QED BY <2>1, SumInt
<1> HIDE DEF R, p
<1> QED BY <1>3, <1>6, <1>7, <1>8, <1>9

\* The sum depends on the values alone.
LEMMA SumSame ==
  ASSUME NEW D, IsFiniteSet(D), NEW f, NEW g, \A x \in D : f[x] \in Int /\ f[x] = g[x]
  PROVE  SumFunctionOnSet(f, D) = SumFunctionOnSet(g, D)
<1>1. SumFunctionOnSet(f, D) <= SumFunctionOnSet(g, D) /\ SumFunctionOnSet(g, D) <= SumFunctionOnSet(f, D)
  BY SumGrows
<1>2. SumFunctionOnSet(f, D) \in Int /\ SumFunctionOnSet(g, D) \in Int
  BY SumInt
<1> QED BY <1>1, <1>2

\* The sum over two sets that do not meet is the sum of their sums.
LEMMA SumSplits ==
  ASSUME NEW S, NEW T, IsFiniteSet(S), IsFiniteSet(T), S \cap T = {},
         NEW f, \A x \in S \cup T : f[x] \in Int
  PROVE  SumFunctionOnSet(f, S \cup T) = SumFunctionOnSet(f, S) + SumFunctionOnSet(f, T)
<1> DEFINE Bad == {t \in SUBSET T : SumFunctionOnSet(f, S \cup t) # SumFunctionOnSet(f, S) + SumFunctionOnSet(f, t)}
<1>1. SUFFICES ASSUME Bad # {} PROVE FALSE
  OBVIOUS
<1>2. Bad \in SUBSET SUBSET T
  OBVIOUS
<1>3. PICK U \in Bad : \A V \in Bad : V \subseteq U => V = U
  <2> HIDE DEF Bad
  <2> QED BY <1>1, <1>2, Smallest
<1>0. SumFunctionOnSet(f, S) \in Int
  BY SumInt
<1>4. U # {}
  <2>1. SUFFICES ASSUME U = {} PROVE FALSE
    OBVIOUS
  <2>2. SumFunctionOnSet(f, U) = 0
    BY <2>1, SumEmpty
  <2>3. S \cup U = S
    BY <2>1
  <2>4. SumFunctionOnSet(f, S \cup U) = SumFunctionOnSet(f, S)
    BY <2>3
  <2>5. SumFunctionOnSet(f, S \cup U) = SumFunctionOnSet(f, S) + SumFunctionOnSet(f, U)
    <3> DEFINE s == SumFunctionOnSet(f, S)
    <3> HIDE DEF s
    <3>1. s + 0 = s
      BY <1>0 DEF s
    <3> QED BY <3>1, <2>2, <2>4 DEF s
  <2> QED BY <1>3, <2>5
<1> DEFINE p == Pick(U)
           R == U \ {p}
<1>5. p \in U
  BY <1>4, PickIn
<1>6. SumFunctionOnSet(f, S \cup R) = SumFunctionOnSet(f, S) + SumFunctionOnSet(f, R)
  BY <1>3, <1>5
<1>7. IsFiniteSet(U) /\ IsFiniteSet(R) /\ IsFiniteSet(S \cup U)
  <2>1. IsFiniteSet(U)
    BY <1>3, FS_Subset
  <2> QED BY <2>1, FS_Subset, FS_Union
<1>8. SumFunctionOnSet(f, U) = f[p] + SumFunctionOnSet(f, R)
  BY <1>4, <1>7, SumEquation
<1>9. SumFunctionOnSet(f, S \cup U) = f[p] + SumFunctionOnSet(f, S \cup R)
  <2>1. p \in S \cup U /\ (S \cup U) \ {p} = S \cup R /\ \A x \in S \cup U : f[x] \in Int
    BY <1>3, <1>5
  <2> HIDE DEF p, R
  <2> QED BY <1>7, <2>1, SumTakes
<1>10. f[p] \in Int /\ SumFunctionOnSet(f, R) \in Int
  <2>1. \A x \in R : f[x] \in Int
    BY <1>3
  <2> QED BY <1>3, <1>5, <1>7, <2>1, SumInt
<1> HIDE DEF p, R
<1> QED BY <1>0, <1>3, <1>6, <1>8, <1>9, <1>10

\* A sum of naturals is one.
LEMMA SumNat ==
  ASSUME NEW S, IsFiniteSet(S), NEW f, \A x \in S : f[x] \in Nat
  PROVE  SumFunctionOnSet(f, S) \in Nat
<1> DEFINE Bad == {t \in SUBSET S : SumFunctionOnSet(f, t) \notin Nat}
<1>1. SUFFICES ASSUME Bad # {} PROVE FALSE
  OBVIOUS
<1>2. Bad \in SUBSET SUBSET S
  OBVIOUS
<1>3. PICK T \in Bad : \A U \in Bad : U \subseteq T => U = T
  <2> HIDE DEF Bad
  <2> QED BY <1>1, <1>2, Smallest
<1>4. IsFiniteSet(T)
  BY <1>3, FS_Subset
<1>5. T # {}
  <2>1. SUFFICES ASSUME T = {} PROVE FALSE
    OBVIOUS
  <2>2. SumFunctionOnSet(f, T) = 0
    BY <2>1, SumEmpty
  <2> QED BY <1>3, <2>2
<1> DEFINE p == Pick(T)
<1>6. p \in T
  BY <1>5, PickIn
<1>7. SumFunctionOnSet(f, T \ {p}) \in Nat
  BY <1>3, <1>6
<1>8. SumFunctionOnSet(f, T) = f[p] + SumFunctionOnSet(f, T \ {p})
  BY <1>4, <1>5, SumEquation
<1>9. f[p] \in Nat
  BY <1>3, <1>6
<1> HIDE DEF p
<1>10. SumFunctionOnSet(f, T) \in Nat
  BY <1>7, <1>8, <1>9
<1> QED BY <1>3, <1>10

\* Of naturals, a part sums to no more than the whole.
LEMMA SumOfPart ==
  ASSUME NEW S, NEW T, IsFiniteSet(T), S \subseteq T, NEW f, \A x \in T : f[x] \in Nat
  PROVE  SumFunctionOnSet(f, S) <= SumFunctionOnSet(f, T)
<1> DEFINE R == T \ S
<1>1. IsFiniteSet(S) /\ IsFiniteSet(R) /\ S \cap R = {} /\ S \cup R = T
  BY FS_Subset
<1>2. SumFunctionOnSet(f, T) = SumFunctionOnSet(f, S) + SumFunctionOnSet(f, R)
  <2>1. \A x \in S \cup R : f[x] \in Int
    OBVIOUS
  <2> HIDE DEF R
  <2> QED BY <1>1, <2>1, SumSplits
<1>3. SumFunctionOnSet(f, S) \in Nat /\ SumFunctionOnSet(f, R) \in Nat
  <2>1. (\A x \in S : f[x] \in Nat) /\ \A x \in R : f[x] \in Nat
    OBVIOUS
  <2> QED BY <1>1, <2>1, SumNat
<1> QED BY <1>2, <1>3
=============================================================================
