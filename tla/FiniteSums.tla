----------------------------- MODULE FiniteSums -----------------------------
(***************************************************************************)
(* What the sum of a function over a finite set of indices is: the facts   *)
(* behind the usage the call budget adds up (service_store.py:1376) and    *)
(* the points of the jury tally (protocol.py:1003).                        *)
(*                                                                         *)
(* SumFunctionOnSet is a recursion over subsets.  The induction over data  *)
(* every fact needs is a smallest counterexample: MinimalSet finds it as a *)
(* minimal element of a well-founded order.                                *)
(***************************************************************************)
EXTENDS Functions, FiniteSetTheorems, WellFoundedInduction, TLAPS

(* The element of a set the folds of the library take next.                *)
Pick(S) == CHOOSE x \in S : TRUE

(* g is the sum of f over every subset of S, by the recursion of the fold. *)
IsSum(g, f, S) ==
  g = [T \in SUBSET S |->
         IF T = {} THEN 0 ELSE f[Pick(T)] + g[T \ {Pick(T)}]]

(* It is one of the set.                                                   *)
LEMMA PickIn == \A S : S # {} => Pick(S) \in S
  BY DEF Pick

(* Induction over the subsets of a finite set: if there is a counterexample*)
(* there is one none of whose proper subsets is.                           *)
LEMMA MinimalSet ==
  ASSUME NEW S, IsFiniteSet(S), NEW Bad \in SUBSET SUBSET S, Bad # {}
  PROVE  \E T \in Bad : IsFiniteSet(T) /\ \A U \in SUBSET T : U # T => U \notin Bad
  <1>1. IsWellFoundedOn(StrictSubsetOrdering(S), FiniteSubsetsOf(S))
    BY FS_StrictSubsetOrderingWellFounded
  <1>2. Bad \subseteq FiniteSubsetsOf(S)
    BY FS_FiniteSubsetsOfFinite
  <1>3. PICK T \in Bad : \A U \in Bad : <<U, T>> \notin StrictSubsetOrdering(S)
    BY <1>1, <1>2, WFMin
  <1>4. ASSUME NEW U \in SUBSET T, U # T, U \in Bad
        PROVE  FALSE
    BY <1>3, <1>4 DEF StrictSubsetOrdering
  <1> QED BY <1>2, <1>3, <1>4 DEF FiniteSubsetsOf

(* The recursion fixes the value at every set it reaches.                  *)
LEMMA SumUnique ==
  ASSUME NEW f, NEW A, NEW B, NEW g, NEW h, IsSum(g, f, A), IsSum(h, f, B),
         NEW S, IsFiniteSet(S), S \subseteq A, S \subseteq B
  PROVE  g[S] = h[S]
  <1> DEFINE Bad == {T \in SUBSET S : g[T] # h[T]}
  <1>1. SUFFICES Bad = {}
    OBVIOUS
  <1>2. SUFFICES ASSUME Bad # {}
                 PROVE  FALSE
    OBVIOUS
  <1>m. PICK T \in Bad : \A U \in SUBSET T : U # T => U \notin Bad
    <2>1. Bad \in SUBSET SUBSET S
      OBVIOUS
    <2> HIDE DEF Bad
    <2> QED BY <1>2, <2>1, MinimalSet
  <1>3. \A U \in SUBSET T : U # T => U \notin Bad
    BY <1>m
  <1>4. T \in SUBSET A /\ T \in SUBSET B /\ T \in SUBSET S
    OBVIOUS
  <1>5. g[T] = IF T = {} THEN 0 ELSE f[Pick(T)] + g[T \ {Pick(T)}]
    BY <1>4 DEF IsSum
  <1>6. h[T] = IF T = {} THEN 0 ELSE f[Pick(T)] + h[T \ {Pick(T)}]
    BY <1>4 DEF IsSum
  <1>7. CASE T # {}
    <2>1. Pick(T) \in T
      BY <1>7, PickIn
    <2>2. T \ {Pick(T)} \in SUBSET T /\ T \ {Pick(T)} # T
      BY <2>1
    <2>3. g[T \ {Pick(T)}] = h[T \ {Pick(T)}]
      BY <2>2, <1>3
    <2> QED BY <2>3, <1>3, <1>5, <1>6
  <1> QED BY <1>3, <1>5, <1>6, <1>7

(* There is such a function for every finite set.                          *)
LEMMA SumExists ==
  ASSUME NEW f, NEW S, IsFiniteSet(S)
  PROVE  \E g : IsSum(g, f, S)
  <1> DEFINE Bad == {T \in SUBSET S : ~ \E g : IsSum(g, f, T)}
             G(T) == CHOOSE g : IsSum(g, f, T)
  <1>2. SUFFICES ASSUME Bad # {}
                 PROVE  FALSE
    OBVIOUS
  <1>m. PICK T \in Bad : IsFiniteSet(T) /\ \A U \in SUBSET T : U # T => U \notin Bad
    <2>1. Bad \in SUBSET SUBSET S
      OBVIOUS
    <2> HIDE DEF Bad
    <2> QED BY <1>2, <2>1, MinimalSet
  <1>3. IsFiniteSet(T) /\ \A U \in SUBSET T : U # T => U \notin Bad
    BY <1>m
  <1>4. \A U \in SUBSET T : U # T => IsSum(G(U), f, U)
    BY <1>3
  <1> HIDE DEF G
  <1> DEFINE g == [U \in SUBSET T |->
                     IF U = {} THEN 0
                     ELSE f[Pick(U)] + G(U \ {Pick(U)})[U \ {Pick(U)}]]
  <1>5. ASSUME NEW V \in SUBSET T, V # T
        PROVE  g[V] = G(V)[V]
    <2>1. G(V)[V] = IF V = {} THEN 0 ELSE f[Pick(V)] + G(V)[V \ {Pick(V)}]
      <3>1. IsSum(G(V), f, V)
        BY <1>4, <1>5
      <3> QED BY <3>1 DEF IsSum
    <2>2. CASE V # {}
      <3> DEFINE W == V \ {Pick(V)}
      <3>1. Pick(V) \in V
        BY <2>2, PickIn
      <3>2. W \in SUBSET T /\ W # T /\ W \subseteq V /\ IsFiniteSet(W)
        BY <3>1, <1>3, FS_Subset
      <3>3. IsSum(G(V), f, V) /\ IsSum(G(W), f, W)
        BY <1>4, <1>5, <3>2
      <3>4. G(V)[W] = G(W)[W]
        BY <3>2, <3>3, SumUnique
      <3> QED BY <2>1, <2>2, <3>4
    <2> QED BY <2>1, <2>2
  <1>6. ASSUME NEW U \in SUBSET T, U # {}
        PROVE  g[U] = f[Pick(U)] + g[U \ {Pick(U)}]
    <2>1. Pick(U) \in U
      BY <1>6, PickIn
    <2>2. U \ {Pick(U)} \in SUBSET T /\ U \ {Pick(U)} # T
      BY <2>1
    <2>3. g[U \ {Pick(U)}] = G(U \ {Pick(U)})[U \ {Pick(U)}]
      BY <2>2, <1>5
    <2> QED BY <2>3, <1>6
  <1>7. g[{}] = 0
    OBVIOUS
  <1>8. /\ DOMAIN g = SUBSET T /\ g = [U \in SUBSET T |-> g[U]]
    OBVIOUS
  <1> HIDE DEF g
  <1>9. IsSum(g, f, T)
    BY <1>6, <1>7, <1>8 DEF IsSum
  <1> QED BY <1>3, <1>9

(* So the sum of the library is what the recursion says.                   *)
LEMMA SumIs ==
  ASSUME NEW f, NEW S, IsFiniteSet(S)
  PROVE  \E g : IsSum(g, f, S) /\ SumFunctionOnSet(f, S) = g[S]
  <1> DEFINE g == CHOOSE h : IsSum(h, f, S)
  <1>1. IsSum(g, f, S)
    BY SumExists
  <1>2. SumFunctionOnSet(f, S) = g[S]
    BY DEF SumFunctionOnSet, FoldFunctionOnSet, MapThenFoldSet, IsSum, Pick
  <1> QED BY <1>1, <1>2

(* The sum over no index.                                                  *)
LEMMA SumEmpty == \A f : SumFunctionOnSet(f, {}) = 0
  <1> SUFFICES ASSUME NEW f
               PROVE  SumFunctionOnSet(f, {}) = 0
    OBVIOUS
  <1>1. PICK g : IsSum(g, f, {}) /\ SumFunctionOnSet(f, {}) = g[{}]
    BY SumIs, FS_EmptySet
  <1> QED BY <1>1 DEF IsSum

(* The recursion, for the sum itself.                                      *)
LEMMA SumPick ==
  ASSUME NEW f, NEW S, IsFiniteSet(S), S # {}
  PROVE  /\ Pick(S) \in S /\ IsFiniteSet(S \ {Pick(S)})
         /\ SumFunctionOnSet(f, S)
              = f[Pick(S)] + SumFunctionOnSet(f, S \ {Pick(S)})
  <1> DEFINE R == S \ {Pick(S)}
  <1>1. Pick(S) \in S /\ IsFiniteSet(R)
    BY PickIn, FS_RemoveElement
  <1>2. PICK g : IsSum(g, f, S) /\ SumFunctionOnSet(f, S) = g[S]
    BY SumIs
  <1>3. PICK h : IsSum(h, f, R) /\ SumFunctionOnSet(f, R) = h[R]
    BY <1>1, SumIs
  <1>4. g[S] = f[Pick(S)] + g[R]
    BY <1>2 DEF IsSum
  <1>5. g[R] = h[R]
    BY <1>1, <1>2, <1>3, SumUnique
  <1> QED BY <1>1, <1>2, <1>3, <1>4, <1>5

(* A sum of natural numbers is one.                                        *)
LEMMA SumNat ==
  ASSUME NEW f, NEW S, IsFiniteSet(S), \A x \in S : f[x] \in Nat
  PROVE  SumFunctionOnSet(f, S) \in Nat
  <1> DEFINE Bad == {T \in SUBSET S : SumFunctionOnSet(f, T) \notin Nat}
  <1>2. SUFFICES ASSUME Bad # {}
                 PROVE  FALSE
    OBVIOUS
  <1>m. PICK T \in Bad : IsFiniteSet(T) /\ \A U \in SUBSET T : U # T => U \notin Bad
    <2>1. Bad \in SUBSET SUBSET S
      OBVIOUS
    <2> HIDE DEF Bad
    <2> QED BY <1>2, <2>1, MinimalSet
  <1>3. T # {}
    <2>1. SumFunctionOnSet(f, {}) \in Nat
      BY SumEmpty
    <2> QED BY <2>1, <1>m
  <1>4. /\ Pick(T) \in T
        /\ SumFunctionOnSet(f, T) = f[Pick(T)] + SumFunctionOnSet(f, T \ {Pick(T)})
    BY <1>m, <1>3, SumPick
  <1>5. SumFunctionOnSet(f, T \ {Pick(T)}) \in Nat
    BY <1>m, <1>4
  <1>6. f[Pick(T)] \in Nat
    BY <1>4
  <1> QED BY <1>4, <1>5, <1>6

(* Any element may be taken out first, whichever the fold chooses.         *)
LEMMA SumTake ==
  ASSUME NEW f, NEW S, IsFiniteSet(S), \A x \in S : f[x] \in Nat, NEW y \in S
  PROVE  SumFunctionOnSet(f, S) = f[y] + SumFunctionOnSet(f, S \ {y})
  <1> DEFINE Sum(T) == SumFunctionOnSet(f, T)
             Bad == {T \in SUBSET S : \E z \in T : Sum(T) # f[z] + Sum(T \ {z})}
  <1>1. Bad = {} => Sum(S) = f[y] + Sum(S \ {y})
    OBVIOUS
  <1>2. SUFFICES ASSUME Bad # {}
                 PROVE  FALSE
    BY <1>1
  <1>m. PICK T \in Bad : IsFiniteSet(T) /\ \A U \in SUBSET T : U # T => U \notin Bad
    <2>1. Bad \in SUBSET SUBSET S
      OBVIOUS
    <2> HIDE DEF Bad
    <2> QED BY <1>2, <2>1, MinimalSet
  <1>3. PICK z \in T : Sum(T) # f[z] + Sum(T \ {z})
    BY <1>m
  <1> DEFINE p == Pick(T)
             V == T \ {p}
             Y == T \ {z}
             W == V \ {z}
  <1>4. p \in T /\ Sum(T) = f[p] + Sum(V) /\ T \subseteq S
    BY <1>m, <1>3, SumPick
  <1>5. p # z
    BY <1>3, <1>4
  <1>6. /\ V \in SUBSET S /\ V \in SUBSET T /\ V # T /\ z \in V
        /\ Y \in SUBSET S /\ Y \in SUBSET T /\ Y # T /\ p \in Y
    BY <1>3, <1>4, <1>5
  <1>7. Sum(V) = f[z] + Sum(W)
    BY <1>6, <1>m
  <1>8. Sum(Y) = f[p] + Sum(Y \ {p})
    BY <1>6, <1>m
  <1>9. Y \ {p} = W
    OBVIOUS
  <1>10. f[p] \in Nat /\ f[z] \in Nat /\ Sum(W) \in Nat
    <2>1. IsFiniteSet(W) /\ W \subseteq S
      BY <1>m, <1>4, FS_Subset
    <2> QED BY <1>3, <1>4, <2>1, SumNat
  <1>11. Sum(T) # f[z] + Sum(Y)
    BY <1>3
  <1> HIDE DEF Sum, Bad, p, V, Y, W
  <1> QED BY <1>4, <1>7, <1>8, <1>9, <1>10, <1>11

(* A sum depends on the values at its indices only.                        *)
LEMMA SumAgrees ==
  ASSUME NEW f, NEW h, NEW S, IsFiniteSet(S), \A x \in S : f[x] = h[x]
  PROVE  SumFunctionOnSet(f, S) = SumFunctionOnSet(h, S)
  <1> DEFINE Bad == {T \in SUBSET S : SumFunctionOnSet(f, T) # SumFunctionOnSet(h, T)}
  <1>2. SUFFICES ASSUME Bad # {}
                 PROVE  FALSE
    OBVIOUS
  <1>m. PICK T \in Bad : IsFiniteSet(T) /\ \A U \in SUBSET T : U # T => U \notin Bad
    <2>1. Bad \in SUBSET SUBSET S
      OBVIOUS
    <2> HIDE DEF Bad
    <2> QED BY <1>2, <2>1, MinimalSet
  <1>3. T # {}
    BY <1>m, SumEmpty
  <1>4. /\ Pick(T) \in T /\ Pick(T) \in S
        /\ SumFunctionOnSet(f, T) = f[Pick(T)] + SumFunctionOnSet(f, T \ {Pick(T)})
        /\ SumFunctionOnSet(h, T) = h[Pick(T)] + SumFunctionOnSet(h, T \ {Pick(T)})
    BY <1>m, <1>3, SumPick
  <1>5. SumFunctionOnSet(f, T \ {Pick(T)}) = SumFunctionOnSet(h, T \ {Pick(T)})
    BY <1>m, <1>4
  <1> QED BY <1>4, <1>5, <1>m

(* The sum of a sum.                                                       *)
LEMMA SumAdds ==
  ASSUME NEW f, NEW g, NEW h, NEW S, IsFiniteSet(S),
         \A x \in S : f[x] \in Nat /\ g[x] \in Nat /\ h[x] = f[x] + g[x]
  PROVE  SumFunctionOnSet(h, S) = SumFunctionOnSet(f, S) + SumFunctionOnSet(g, S)
  <1> DEFINE F(T) == SumFunctionOnSet(f, T)
             G(T) == SumFunctionOnSet(g, T)
             H(T) == SumFunctionOnSet(h, T)
             Bad == {T \in SUBSET S : H(T) # F(T) + G(T)}
  <1>1. Bad = {} => H(S) = F(S) + G(S)
    OBVIOUS
  <1>2. SUFFICES ASSUME Bad # {}
                 PROVE  FALSE
    BY <1>1
  <1>m. PICK T \in Bad : IsFiniteSet(T) /\ \A U \in SUBSET T : U # T => U \notin Bad
    <2>1. Bad \in SUBSET SUBSET S
      OBVIOUS
    <2> HIDE DEF Bad
    <2> QED BY <1>2, <2>1, MinimalSet
  <1>3. T # {}
    <2>1. H({}) = F({}) + G({})
      BY SumEmpty
    <2> QED BY <1>m, <2>1
  <1> DEFINE p == Pick(T)
             V == T \ {p}
  <1>4. /\ p \in T /\ p \in S /\ V \in SUBSET S
        /\ F(T) = f[p] + F(V) /\ G(T) = g[p] + G(V) /\ H(T) = h[p] + H(V)
    BY <1>m, <1>3, SumPick
  <1>5. V \in SUBSET T /\ V # T
    BY <1>4
  <1>6. H(V) = F(V) + G(V)
    BY <1>m, <1>4, <1>5
  <1>7. F(V) \in Nat /\ G(V) \in Nat
    BY <1>m, <1>4, FS_Subset, SumNat
  <1>8. f[p] \in Nat /\ g[p] \in Nat /\ h[p] = f[p] + g[p]
    BY <1>4
  <1>9. H(T) # F(T) + G(T)
    BY <1>m
  <1> HIDE DEF F, G, H, Bad, p, V
  <1> QED BY <1>4, <1>6, <1>7, <1>8, <1>9

(* A sum is monotonic in its values.                                       *)
LEMMA SumLeq ==
  ASSUME NEW f, NEW h, NEW S, IsFiniteSet(S),
         \A x \in S : f[x] \in Nat /\ h[x] \in Nat /\ f[x] <= h[x]
  PROVE  SumFunctionOnSet(f, S) <= SumFunctionOnSet(h, S)
  <1> DEFINE d == [x \in S |-> h[x] - f[x]]
  <1>1. \A x \in S : d[x] \in Nat /\ h[x] = f[x] + d[x]
    OBVIOUS
  <1> HIDE DEF d
  <1>2. SumFunctionOnSet(h, S) = SumFunctionOnSet(f, S) + SumFunctionOnSet(d, S)
    BY <1>1, SumAdds
  <1>3. SumFunctionOnSet(f, S) \in Nat /\ SumFunctionOnSet(d, S) \in Nat
    BY <1>1, SumNat
  <1> QED BY <1>2, <1>3

(* And grows with any of them.                                             *)
LEMMA SumLess ==
  ASSUME NEW f, NEW h, NEW S, IsFiniteSet(S),
         \A x \in S : f[x] \in Nat /\ h[x] \in Nat /\ f[x] <= h[x],
         NEW y \in S, f[y] < h[y]
  PROVE  SumFunctionOnSet(f, S) < SumFunctionOnSet(h, S)
  <1> DEFINE R == S \ {y}
  <1>1. IsFiniteSet(R)
    BY FS_Subset
  <1>2. SumFunctionOnSet(f, R) <= SumFunctionOnSet(h, R)
    BY <1>1, SumLeq
  <1>3. SumFunctionOnSet(f, R) \in Nat /\ SumFunctionOnSet(h, R) \in Nat
    BY <1>1, SumNat
  <1>4. /\ SumFunctionOnSet(f, S) = f[y] + SumFunctionOnSet(f, R)
        /\ SumFunctionOnSet(h, S) = h[y] + SumFunctionOnSet(h, R)
    BY SumTake
  <1>5. f[y] \in Nat /\ h[y] \in Nat
    OBVIOUS
  <1> QED BY <1>2, <1>3, <1>4, <1>5

(* A bound of one sum by another stands when no index adds more to the first*)
(* than to the second.                                                     *)
LEMMA SumShift ==
  ASSUME NEW f, NEW g, NEW f2, NEW g2, NEW S, IsFiniteSet(S),
         \A x \in S : /\ f[x] \in Nat /\ g[x] \in Nat /\ f2[x] \in Nat /\ g2[x] \in Nat
                      /\ f2[x] + g[x] <= f[x] + g2[x],
         NEW L \in Nat, SumFunctionOnSet(f, S) <= L + SumFunctionOnSet(g, S)
  PROVE  SumFunctionOnSet(f2, S) <= L + SumFunctionOnSet(g2, S)
  <1> DEFINE a == [x \in S |-> f2[x] + g[x]]
             b == [x \in S |-> f[x] + g2[x]]
  <1>1. \A x \in S : /\ a[x] \in Nat /\ a[x] = f2[x] + g[x]
                     /\ b[x] \in Nat /\ b[x] = f[x] + g2[x] /\ a[x] <= b[x]
    OBVIOUS
  <1> HIDE DEF a, b
  <1>2. /\ SumFunctionOnSet(a, S) = SumFunctionOnSet(f2, S) + SumFunctionOnSet(g, S)
        /\ SumFunctionOnSet(b, S) = SumFunctionOnSet(f, S) + SumFunctionOnSet(g2, S)
    BY <1>1, SumAdds
  <1>3. SumFunctionOnSet(a, S) <= SumFunctionOnSet(b, S)
    BY <1>1, SumLeq
  <1>4. /\ SumFunctionOnSet(f, S) \in Nat /\ SumFunctionOnSet(g, S) \in Nat
        /\ SumFunctionOnSet(f2, S) \in Nat /\ SumFunctionOnSet(g2, S) \in Nat
    BY SumNat
  <1> QED BY <1>2, <1>3, <1>4

(* A sum of zeros.                                                         *)
LEMMA SumZeros ==
  ASSUME NEW f, NEW S, IsFiniteSet(S), \A x \in S : f[x] = 0
  PROVE  SumFunctionOnSet(f, S) = 0
  <1>1. SumFunctionOnSet(f, S) = SumFunctionOnSet(f, S) + SumFunctionOnSet(f, S)
    BY SumAdds
  <1>2. SumFunctionOnSet(f, S) \in Nat
    BY SumNat
  <1>3. \A n \in Nat : n = n + n => n = 0
    BY Z3
  <1> QED BY <1>1, <1>2, <1>3, Zenon

(* Indices with value 0 may be left out.                                   *)
LEMMA SumSkipsZeros ==
  ASSUME NEW f, NEW S, IsFiniteSet(S), NEW R \in SUBSET S,
         \A x \in S : f[x] \in Nat, \A x \in S \ R : f[x] = 0
  PROVE  SumFunctionOnSet(f, S) = SumFunctionOnSet(f, R)
  <1> DEFINE Bad == {T \in SUBSET S : R \subseteq T /\
                       SumFunctionOnSet(f, T) # SumFunctionOnSet(f, R)}
  <1>1. Bad = {} => SumFunctionOnSet(f, S) = SumFunctionOnSet(f, R)
    OBVIOUS
  <1>2. SUFFICES ASSUME Bad # {}
                 PROVE  FALSE
    BY <1>1
  <1>m. PICK T \in Bad : IsFiniteSet(T) /\ \A U \in SUBSET T : U # T => U \notin Bad
    <2>1. Bad \in SUBSET SUBSET S
      OBVIOUS
    <2> HIDE DEF Bad
    <2> QED BY <1>2, <2>1, MinimalSet
  <1>3. PICK y \in T : y \notin R
    <2>1. R \subseteq T /\ T # R
      BY <1>m
    <2> QED BY <2>1
  <1>4. SumFunctionOnSet(f, T) = f[y] + SumFunctionOnSet(f, T \ {y})
    BY <1>m, <1>3, SumTake
  <1>5. f[y] = 0 /\ SumFunctionOnSet(f, T \ {y}) = SumFunctionOnSet(f, R)
    BY <1>m, <1>3
  <1>6. SumFunctionOnSet(f, R) \in Nat
    BY FS_Subset, SumNat
  <1> QED BY <1>4, <1>5, <1>6, <1>m

(* Adding 1 for the members of a set counts them.                          *)
LEMMA SumCounts ==
  ASSUME NEW f, NEW S, IsFiniteSet(S), NEW R \in SUBSET S,
         \A x \in S : f[x] = IF x \in R THEN 1 ELSE 0
  PROVE  SumFunctionOnSet(f, S) = Cardinality(R)
  <1> DEFINE Bad == {T \in SUBSET R : SumFunctionOnSet(f, T) # Cardinality(T)}
  <1>1. SumFunctionOnSet(f, S) = SumFunctionOnSet(f, R)
    BY SumSkipsZeros
  <1>0. IsFiniteSet(R)
    BY FS_Subset
  <1>2. SUFFICES ASSUME Bad # {}
                 PROVE  FALSE
    BY <1>1
  <1>m. PICK T \in Bad : IsFiniteSet(T) /\ \A U \in SUBSET T : U # T => U \notin Bad
    <2>1. Bad \in SUBSET SUBSET R
      OBVIOUS
    <2> HIDE DEF Bad
    <2> QED BY <1>0, <1>2, <2>1, MinimalSet
  <1>3. PICK y \in T : TRUE
    BY <1>m, SumEmpty, FS_EmptySet
  <1>4. SumFunctionOnSet(f, T) = f[y] + SumFunctionOnSet(f, T \ {y})
    BY <1>m, SumTake
  <1>5. f[y] = 1 /\ SumFunctionOnSet(f, T \ {y}) = Cardinality(T \ {y})
    BY <1>m, <1>3
  <1>6. /\ Cardinality(T \ {y}) = Cardinality(T) - 1 /\ IsFiniteSet(T \ {y})
        /\ Cardinality(T) \in Nat
    BY <1>m, FS_RemoveElement, FS_CardinalityType
  <1> QED BY <1>4, <1>5, <1>6, <1>m

(* F and G are one table of numbers, by rows and by columns.               *)
Grid(F, G, J, D) ==
  \A j \in J : \A d \in D : F[j][d] \in Nat /\ G[d][j] = F[j][d]

(* r has the sums of the rows of F.                                        *)
RowSums(r, F, J, D) == \A j \in J : r[j] = SumFunctionOnSet(F[j], D)

(* The sum of the row sums is the sum of the column sums.                  *)
LEMMA SumExchange ==
  ASSUME NEW F, NEW G, NEW J, NEW D, IsFiniteSet(J), IsFiniteSet(D), Grid(F, G, J, D),
         NEW r, RowSums(r, F, J, D), NEW c, RowSums(c, G, D, J)
  PROVE  SumFunctionOnSet(r, J) = SumFunctionOnSet(c, D)
  <1> USE DEF Grid, RowSums
  <1> DEFINE col(T) == [d \in D |-> SumFunctionOnSet(G[d], T)]
             Bad == {T \in SUBSET J :
                       SumFunctionOnSet(r, T) # SumFunctionOnSet(col(T), D)}
  <1>1. Bad = {} => SumFunctionOnSet(r, J) = SumFunctionOnSet(c, D)
    <2>1. SumFunctionOnSet(col(J), D) = SumFunctionOnSet(c, D)
      <3>1. \A d \in D : col(J)[d] = c[d]
        OBVIOUS
      <3> HIDE DEF col
      <3> QED BY <3>1, SumAgrees
    <2> QED BY <2>1
  <1>2. SUFFICES ASSUME Bad # {}
                 PROVE  FALSE
    BY <1>1
  <1>m. PICK T \in Bad : IsFiniteSet(T) /\ \A U \in SUBSET T : U # T => U \notin Bad
    <2>1. Bad \in SUBSET SUBSET J
      OBVIOUS
    <2> HIDE DEF Bad
    <2> QED BY <1>2, <2>1, MinimalSet
  <1>3. T # {}
    <2>1. \A d \in D : col({})[d] = 0
      BY SumEmpty
    <2> HIDE DEF col
    <2>2. SumFunctionOnSet(col({}), D) = 0 /\ SumFunctionOnSet(r, {}) = 0
      BY <2>1, SumZeros, SumEmpty
    <2> QED BY <2>2, <1>m
  <1> DEFINE p == Pick(T)
             V == T \ {p}
  <1>4. /\ p \in T /\ p \in J /\ V \in SUBSET J /\ IsFiniteSet(V) /\ T \subseteq J
        /\ SumFunctionOnSet(r, T) = r[p] + SumFunctionOnSet(r, V)
    BY <1>m, <1>3, SumPick
  <1>5. SumFunctionOnSet(r, V) = SumFunctionOnSet(col(V), D)
    BY <1>4, <1>m
  <1>6. ASSUME NEW d \in D
        PROVE  /\ F[p][d] \in Nat /\ col(V)[d] \in Nat
               /\ col(T)[d] = F[p][d] + col(V)[d]
    <2>1. \A j \in T : G[d][j] \in Nat
      BY <1>4
    <2>2. SumFunctionOnSet(G[d], T) = G[d][p] + SumFunctionOnSet(G[d], V)
      BY <1>4, <1>m, <2>1, SumTake
    <2>3. SumFunctionOnSet(G[d], V) \in Nat
      BY <1>4, <2>1, SumNat
    <2>4. G[d][p] = F[p][d] /\ F[p][d] \in Nat
      BY <1>4
    <2> QED BY <2>2, <2>3, <2>4
  <1>7. SumFunctionOnSet(r, T) # SumFunctionOnSet(col(T), D)
    BY <1>m
  <1>8. r[p] = SumFunctionOnSet(F[p], D)
    BY <1>4
  <1> HIDE DEF col, Bad, p, V
  <1>9. SumFunctionOnSet(col(T), D)
          = SumFunctionOnSet(F[p], D) + SumFunctionOnSet(col(V), D)
    BY <1>6, SumAdds
  <1> QED BY <1>4, <1>5, <1>7, <1>8, <1>9
=============================================================================
