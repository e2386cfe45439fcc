----------------------------- MODULE SumTheorems -----------------------------
(***************************************************************************)
(* Facts about finite sets of numbers that the proofs of several           *)
(* components need: that such a set has a greatest element, and how a sum  *)
(* over a finite set changes with its terms.  The induction each of them   *)
(* takes is on finite sets, in the form of a smallest counterexample.      *)
(***************************************************************************)
EXTENDS Integers, FiniteSets, FiniteSetsExt, FiniteSetTheorems,
        WellFoundedInduction, TLAPS

(* Every collection of subsets of a finite set has a smallest one. *)
LEMMA MinimalSet ==
  ASSUME NEW S, IsFiniteSet(S), NEW T, T \subseteq SUBSET S, T # {}
  PROVE  \E X \in T : \A Y \in T : Y \subseteq X => Y = X
<1>1. IsWellFoundedOn(StrictSubsetOrdering(S), FiniteSubsetsOf(S))
  BY FS_StrictSubsetOrderingWellFounded
<1>2. FiniteSubsetsOf(S) = SUBSET S
  BY FS_FiniteSubsetsOfFinite
<1>3. \E X \in T : \A Y \in T : ~(<<Y, X>> \in StrictSubsetOrdering(S))
  BY <1>1, <1>2, WFMin, Zenon
<1> QED
  BY <1>3 DEF StrictSubsetOrdering

(* A non-empty finite set of integers has a greatest element. *)
LEMMA GreatestExists ==
  ASSUME NEW S, IsFiniteSet(S)
  PROVE  S \subseteq Int /\ S # {} => \E m \in S : \A k \in S : k <= m
<1> DEFINE T == {X \in SUBSET S : X # {} /\ ~ \E m \in X : \A k \in X : k <= m}
<1>1. SUFFICES ASSUME T # {} PROVE ~(S \subseteq Int)
  OBVIOUS
<1>2. PICK X \in T : \A Y \in T : Y \subseteq X => Y = X
  <2>1. T \subseteq SUBSET S
    OBVIOUS
  <2> HIDE DEF T
  <2> QED
    BY <1>1, <2>1, MinimalSet
<1>3. /\ X \subseteq S /\ X # {}
      /\ ~ \E m \in X : \A k \in X : k <= m
  OBVIOUS
<1>4. PICK x \in X : TRUE
  BY <1>3
<1>0. SUFFICES ASSUME S \subseteq Int PROVE FALSE
  OBVIOUS
<1>5. \A k \in X : k \in Int
  BY <1>0, <1>3
<1>6. X \ {x} \notin T /\ X \ {x} \in SUBSET S
  BY <1>2, <1>3, <1>4
<1>7. X \ {x} # {} => \E m \in X \ {x} : \A k \in X \ {x} : k <= m
  BY <1>6
<1>8. CASE X \ {x} = {}
  <2>1. \A k \in X : k = x
    BY <1>8
  <2> QED
    BY <1>3, <1>4, <1>5, <2>1
<1>9. CASE X \ {x} # {}
  <2>1. PICK m \in X : \A k \in X : k = x \/ k <= m
    BY <1>7, <1>9
  <2>2. x <= m => \A k \in X : k <= m
    BY <2>1
  <2>3. m <= x => \A k \in X : k <= x
    BY <1>5, <2>1
  <2>4. x <= m \/ m <= x
    BY <1>5
  <2> QED
    BY <1>3, <2>2, <2>3, <2>4
<1> QED
  BY <1>8, <1>9

(* The sum of f over S. *)
SumOver(f, S) == MapThenSumSet(LAMBDA o : f[o], S)

(* The element whose term is added next. *)
Pick(s) == CHOOSE x \in s : TRUE

(* The partial sums from which MapThenSumSet takes its result. *)
IsSum(h, f, S) ==
  h = [s \in SUBSET S |->
        IF s = {} THEN 0 ELSE f[Pick(s)] + h[s \ {Pick(s)}]]

(* It is an element. *)
LEMMA PickIn == ASSUME NEW s, s # {} PROVE Pick(s) \in s
BY DEF Pick

(* The sum is the last of the partial sums. *)
LEMMA SumOverIter ==
  ASSUME NEW f, NEW S
  PROVE  SumOver(f, S) = (CHOOSE h : IsSum(h, f, S))[S]
BY DEF SumOver, MapThenSumSet, MapThenFoldSet, IsSum, Pick

(* The equation of one partial sum. *)
LEMMA PartialSums ==
  ASSUME NEW f, NEW S, NEW h, IsSum(h, f, S), NEW s \in SUBSET S
  PROVE  h[s] = IF s = {} THEN 0 ELSE f[Pick(s)] + h[s \ {Pick(s)}]
<1> DEFINE Step(t) == IF t = {} THEN 0 ELSE f[Pick(t)] + h[t \ {Pick(t)}]
<1>1. h = [t \in SUBSET S |-> Step(t)]
  BY DEF IsSum
<1> HIDE DEF Step
<1>2. h[s] = Step(s)
  BY <1>1
<1> QED
  BY <1>2 DEF Step

(* There is only one family of partial sums, whatever the set around. *)
LEMMA SumUnique ==
  ASSUME NEW f, NEW S, NEW U, IsFiniteSet(S), IsFiniteSet(U), NEW h, NEW k,
         IsSum(h, f, S), IsSum(k, f, U), NEW s \in SUBSET S, s \in SUBSET U
  PROVE  h[s] = k[s]
<1> DEFINE T == {t \in SUBSET s : h[t] # k[t]}
<1>0. IsFiniteSet(s)
  BY FS_Subset
<1>1. SUFFICES ASSUME T # {} PROVE FALSE
  OBVIOUS
<1>2. PICK t \in T : \A Y \in T : Y \subseteq t => Y = t
  <2>1. T \subseteq SUBSET s
    OBVIOUS
  <2> HIDE DEF T
  <2> QED
    BY <1>0, <1>1, <2>1, MinimalSet
<1>3. /\ t \in SUBSET S /\ t \in SUBSET U /\ t \in SUBSET s
  OBVIOUS
<1>6. /\ h[t] = IF t = {} THEN 0 ELSE f[Pick(t)] + h[t \ {Pick(t)}]
      /\ k[t] = IF t = {} THEN 0 ELSE f[Pick(t)] + k[t \ {Pick(t)}]
  <2> HIDE DEF T
  <2> QED
    BY <1>3, PartialSums
<1>4. CASE t = {}
  BY <1>2, <1>4, <1>6
<1>5. CASE t # {}
  <2>1. Pick(t) \in t
    BY <1>5, PickIn
  <2>2. t \ {Pick(t)} \notin T /\ t \ {Pick(t)} \in SUBSET s
    BY <1>2, <1>3, <2>1
  <2>3. h[t \ {Pick(t)}] = k[t \ {Pick(t)}]
    BY <2>2
  <2> QED
    BY <1>2, <1>5, <1>6, <2>3
<1> QED
  BY <1>4, <1>5

(* ... and there is one. *)
LEMMA SumExists ==
  ASSUME NEW f, NEW S, IsFiniteSet(S)
  PROVE  \E h : IsSum(h, f, S)
<1> DEFINE T == {U \in SUBSET S : ~ \E h : IsSum(h, f, U)}
<1>1. SUFFICES ASSUME T # {} PROVE FALSE
  OBVIOUS
<1>2. PICK U \in T : \A Y \in T : Y \subseteq U => Y = U
  <2>1. T \subseteq SUBSET S
    OBVIOUS
  <2> HIDE DEF T
  <2> QED
    BY <1>1, <2>1, MinimalSet
<1> DEFINE F(V) == CHOOSE h : IsSum(h, f, V)
           H(V) == F(V)[V]
           k == [s \in SUBSET U |->
                  IF s = {} THEN 0 ELSE f[Pick(s)] + H(s \ {Pick(s)})]
<1>3. ASSUME NEW V \in SUBSET U, V # U
      PROVE  IsSum(F(V), f, V) /\ IsFiniteSet(V)
  <2>1. V \notin T
    BY <1>2, <1>3
  <2>2. V \in SUBSET S
    BY <1>3
  <2>3. \E h : IsSum(h, f, V)
    BY <2>1, <2>2
  <2>4. IsFiniteSet(V)
    BY <2>2, FS_Subset
  <2> QED
    BY <2>3, <2>4
<1> HIDE DEF F
<1>4. ASSUME NEW t \in SUBSET U, t # U PROVE k[t] = H(t)
  <2>1. IsSum(F(t), f, t) /\ IsFiniteSet(t)
    BY <1>3, <1>4
  <2>2. F(t)[t] = IF t = {} THEN 0 ELSE f[Pick(t)] + F(t)[t \ {Pick(t)}]
    BY <2>1, PartialSums
  <2>3. CASE t = {}
    BY <2>2, <2>3
  <2>4. CASE t # {}
    <3>1. Pick(t) \in t
      BY <2>4, PickIn
    <3> DEFINE r == t \ {Pick(t)}
    <3>2. r \in SUBSET U /\ r # U /\ r \in SUBSET t
      BY <1>4, <3>1
    <3>3. IsSum(F(r), f, r) /\ IsFiniteSet(r)
      BY <1>3, <3>2
    <3>4. F(t)[r] = F(r)[r]
      BY <2>1, <3>2, <3>3, SumUnique
    <3> QED
      BY <2>2, <2>4, <3>4
  <2> QED
    BY <2>3, <2>4
<1>5. ASSUME NEW s \in SUBSET U, s # {}
      PROVE  k[s \ {Pick(s)}] = H(s \ {Pick(s)})
  <2>1. Pick(s) \in s
    BY <1>5, PickIn
  <2>2. s \ {Pick(s)} \in SUBSET U /\ s \ {Pick(s)} # U
    BY <2>1
  <2> QED
    BY <1>4, <2>2
<1>6. k = [s \in SUBSET U |->
            IF s = {} THEN 0 ELSE f[Pick(s)] + k[s \ {Pick(s)}]]
  <2> HIDE DEF H
  <2> QED
    BY <1>5
<1>7. IsSum(k, f, U)
  BY <1>6 DEF IsSum
<1> QED
  BY <1>2, <1>7

(* A sum is 0 over nothing, and otherwise one term more than the rest. *)
LEMMA SumStep ==
  ASSUME NEW f, NEW S, IsFiniteSet(S)
  PROVE  SumOver(f, S) =
           IF S = {} THEN 0 ELSE f[Pick(S)] + SumOver(f, S \ {Pick(S)})
<1> DEFINE G(V) == CHOOSE h : IsSum(h, f, V)
           R == S \ {Pick(S)}
<1>1. ASSUME NEW V, IsFiniteSet(V)
      PROVE  IsSum(G(V), f, V) /\ SumOver(f, V) = G(V)[V]
  <2>1. \E h : IsSum(h, f, V)
    BY <1>1, SumExists
  <2> QED
    BY <2>1, SumOverIter
<1> HIDE DEF G
<1>2. IsFiniteSet(R) /\ R \in SUBSET S /\ R \in SUBSET R /\ S \in SUBSET S
  BY FS_Subset
<1>3. G(S)[S] = IF S = {} THEN 0 ELSE f[Pick(S)] + G(S)[R]
  <2>1. IsSum(G(S), f, S)
    BY <1>1
  <2> HIDE DEF R
  <2> DEFINE h == G(S)
  <2>2. IsSum(h, f, S)
    BY <2>1
  <2> HIDE DEF h
  <2>3. h[S] = IF S = {} THEN 0 ELSE f[Pick(S)] + h[S \ {Pick(S)}]
    BY <1>2, <2>2, PartialSums
  <2> QED
    BY <2>3 DEF h, R
<1>4. G(S)[R] = G(R)[R]
  BY <1>1, <1>2, SumUnique
<1> QED
  BY <1>1, <1>2, <1>3, <1>4

(* The sum over nothing. *)
LEMMA SumEmpty == \A f : SumOver(f, {}) = 0
BY SumStep, FS_EmptySet

(* A sum of integers is an integer. *)
LEMMA SumInt ==
  ASSUME NEW f, NEW S, IsFiniteSet(S), \A x \in S : f[x] \in Int
  PROVE  SumOver(f, S) \in Int
<1> DEFINE T == {U \in SUBSET S : SumOver(f, U) \notin Int}
<1>1. SUFFICES ASSUME T # {} PROVE FALSE
  OBVIOUS
<1>2. PICK U \in T : \A Y \in T : Y \subseteq U => Y = U
  <2>1. T \subseteq SUBSET S
    OBVIOUS
  <2> HIDE DEF T
  <2> QED
    BY <1>1, <2>1, MinimalSet
<1>3. U \subseteq S /\ SumOver(f, U) \notin Int
  OBVIOUS
<1>4. IsFiniteSet(U)
  BY <1>3, FS_Subset
<1>5. CASE U = {}
  BY <1>3, <1>5, SumEmpty
<1>6. CASE U # {}
  <2>1. Pick(U) \in U
    BY <1>6, PickIn
  <2>2. U \ {Pick(U)} \notin T /\ U \ {Pick(U)} \in SUBSET S
    BY <1>2, <1>3, <2>1
  <2>3. SumOver(f, U \ {Pick(U)}) \in Int
    BY <2>2
  <2>4. SumOver(f, U) = f[Pick(U)] + SumOver(f, U \ {Pick(U)})
    BY <1>4, <1>6, SumStep
  <2>5. f[Pick(U)] \in Int
    BY <1>3, <2>1
  <2> QED
    BY <1>3, <2>3, <2>4, <2>5
<1> QED
  BY <1>5, <1>6

(* Any term may be taken out first. *)
LEMMA SumRemove ==
  ASSUME NEW f, NEW S, IsFiniteSet(S), \A x \in S : f[x] \in Int, NEW a \in S
  PROVE  SumOver(f, S) = f[a] + SumOver(f, S \ {a})
<1> DEFINE Good(U) == \A x \in U : SumOver(f, U) = f[x] + SumOver(f, U \ {x})
           T == {U \in SUBSET S : ~ Good(U)}
<1>1. SUFFICES ASSUME T # {} PROVE FALSE
  <2>1. S \in SUBSET S
    OBVIOUS
  <2> QED
    BY <2>1
<1>2. PICK U \in T : \A Y \in T : Y \subseteq U => Y = U
  <2>1. T \subseteq SUBSET S
    OBVIOUS
  <2> HIDE DEF T
  <2> QED
    BY <1>1, <2>1, MinimalSet
<1>3. U \subseteq S /\ ~ Good(U)
  OBVIOUS
<1>4. PICK x \in U : SumOver(f, U) # f[x] + SumOver(f, U \ {x})
  BY <1>3
<1> DEFINE p == Pick(U)
<1>5. ASSUME NEW V \in SUBSET U
      PROVE  IsFiniteSet(V) /\ SumOver(f, V) \in Int /\ (V # U => Good(V))
  <2>1. V \in SUBSET S
    BY <1>3
  <2>2. IsFiniteSet(V) /\ \A y \in V : f[y] \in Int
    BY <2>1, FS_Subset
  <2>3. V # U => V \notin T
    BY <1>2
  <2> HIDE DEF Good
  <2> QED
    BY <2>1, <2>2, <2>3, SumInt
<1>6. U \in SUBSET U /\ p \in U
  BY PickIn
<1>7. SumOver(f, U) = f[p] + SumOver(f, U \ {p})
  BY <1>5, <1>6, SumStep
<1> HIDE DEF p, T
<1>8. x # p
  BY <1>4, <1>7
<1> DEFINE V == U \ {p}
           W == U \ {x}
           X == V \ {x}
<1>9. V \in SUBSET U /\ W \in SUBSET U /\ X \in SUBSET U /\ X = W \ {p}
      /\ x \in V /\ p \in W /\ V # U /\ W # U
  BY <1>6, <1>8
<1>10. SumOver(f, V) = f[x] + SumOver(f, X)
  BY <1>5, <1>9
<1>11. SumOver(f, W) = f[p] + SumOver(f, X)
  BY <1>5, <1>9
<1>12. SumOver(f, X) \in Int /\ f[x] \in Int /\ f[p] \in Int
  BY <1>3, <1>5, <1>6, <1>9
<1> QED
  BY <1>4, <1>7, <1>10, <1>11, <1>12
(* Equal terms have equal sums. *)
LEMMA SumSame ==
  ASSUME NEW f, NEW g, NEW S, IsFiniteSet(S), \A x \in S : f[x] = g[x]
  PROVE  SumOver(f, S) = SumOver(g, S)
<1> DEFINE T == {U \in SUBSET S : SumOver(f, U) # SumOver(g, U)}
<1>1. SUFFICES ASSUME T # {} PROVE FALSE
  OBVIOUS
<1>2. PICK U \in T : \A Y \in T : Y \subseteq U => Y = U
  <2>1. T \subseteq SUBSET S
    OBVIOUS
  <2> HIDE DEF T
  <2> QED
    BY <1>1, <2>1, MinimalSet
<1>3. U \subseteq S /\ SumOver(f, U) # SumOver(g, U)
  OBVIOUS
<1>4. IsFiniteSet(U)
  BY <1>3, FS_Subset
<1>5. U # {}
  BY <1>3, SumEmpty
<1>6. Pick(U) \in U
  BY <1>5, PickIn
<1>7. U \ {Pick(U)} \notin T /\ U \ {Pick(U)} \in SUBSET S
  BY <1>2, <1>3, <1>6
<1>8. SumOver(f, U \ {Pick(U)}) = SumOver(g, U \ {Pick(U)})
  BY <1>7
<1>9. f[Pick(U)] = g[Pick(U)]
  BY <1>3, <1>6
<1> QED
  BY <1>3, <1>4, <1>5, <1>8, <1>9, SumStep

(* Changing one term changes the sum by as much. *)
LEMMA SumChange ==
  ASSUME NEW f, NEW g, NEW S, IsFiniteSet(S), NEW a \in S,
         \A x \in S : f[x] \in Int, g[a] \in Int,
         \A x \in S \ {a} : g[x] = f[x]
  PROVE  SumOver(g, S) = SumOver(f, S) + (g[a] - f[a])
<1>1. \A x \in S : g[x] \in Int
  OBVIOUS
<1>2. IsFiniteSet(S \ {a})
  BY FS_Subset
<1>3. SumOver(g, S) = g[a] + SumOver(g, S \ {a})
  BY <1>1, SumRemove
<1>4. SumOver(f, S) = f[a] + SumOver(f, S \ {a})
  BY SumRemove
<1>5. SumOver(g, S \ {a}) = SumOver(f, S \ {a})
  BY <1>2, SumSame
<1>6. SumOver(f, S \ {a}) \in Int /\ f[a] \in Int
  BY <1>2, SumInt
<1> QED
  BY <1>3, <1>4, <1>5, <1>6

(* A sum of zeros. *)
LEMMA SumZero ==
  ASSUME NEW f, NEW S, IsFiniteSet(S), \A x \in S : f[x] = 0
  PROVE  SumOver(f, S) = 0
<1> DEFINE T == {U \in SUBSET S : SumOver(f, U) # 0}
<1>1. SUFFICES ASSUME T # {} PROVE FALSE
  OBVIOUS
<1>2. PICK U \in T : \A Y \in T : Y \subseteq U => Y = U
  <2>1. T \subseteq SUBSET S
    OBVIOUS
  <2> HIDE DEF T
  <2> QED
    BY <1>1, <2>1, MinimalSet
<1>3. U \subseteq S /\ SumOver(f, U) # 0
  OBVIOUS
<1>4. IsFiniteSet(U)
  BY <1>3, FS_Subset
<1>5. U # {}
  BY <1>3, SumEmpty
<1>6. Pick(U) \in U
  BY <1>5, PickIn
<1>7. U \ {Pick(U)} \notin T /\ U \ {Pick(U)} \in SUBSET S
  BY <1>2, <1>3, <1>6
<1>8. SumOver(f, U \ {Pick(U)}) = 0 /\ f[Pick(U)] = 0
  BY <1>3, <1>6, <1>7
<1> QED
  BY <1>3, <1>4, <1>5, <1>8, SumStep

(* The elements of L that c puts on the heap o. *)
Heap(c, L, o) == {i \in L : c[i] = o}

(* Sorting the elements of L by c, and counting each heap, counts L.        *)
LEMMA SumOfHeaps ==
  ASSUME NEW c, NEW L, IsFiniteSet(L), NEW S, IsFiniteSet(S), NEW f,
         \A i \in L : c[i] \in S,
         \A o \in S : f[o] = Cardinality(Heap(c, L, o))
  PROVE  SumOver(f, S) = Cardinality(L)
<1> DEFINE In(U) == {i \in L : c[i] \in U}
           T == {U \in SUBSET S : SumOver(f, U) # Cardinality(In(U))}
<1>1. SUFFICES ASSUME T # {} PROVE FALSE
  <2>1. S \in SUBSET S /\ In(S) = L
    OBVIOUS
  <2>2. S \notin T => SumOver(f, S) = Cardinality(In(S))
    BY <2>1
  <2> QED
    BY <2>1, <2>2
<1>2. PICK U \in T : \A Y \in T : Y \subseteq U => Y = U
  <2>1. T \subseteq SUBSET S
    OBVIOUS
  <2> HIDE DEF T
  <2> QED
    BY <1>1, <2>1, MinimalSet
<1>3. U \subseteq S /\ SumOver(f, U) # Cardinality(In(U))
  OBVIOUS
<1>4. IsFiniteSet(U)
  BY <1>3, FS_Subset
<1>5. U # {}
  <2>1. In({}) = {}
    OBVIOUS
  <2> QED
    BY <1>3, <2>1, SumEmpty, FS_EmptySet
<1> DEFINE p == Pick(U)
           R == U \ {p}
<1>6. p \in U
  BY <1>5, PickIn
<1>7. SumOver(f, U) = f[p] + SumOver(f, R)
  BY <1>4, <1>5, SumStep
<1>8. SumOver(f, R) = Cardinality(In(R))
  <2>1. R \notin T /\ R \in SUBSET S
    BY <1>2, <1>3, <1>6
  <2> QED
    BY <2>1
<1>9. f[p] = Cardinality(Heap(c, L, p))
  BY <1>3, <1>6
<1> HIDE DEF p, T
<1>10. /\ IsFiniteSet(Heap(c, L, p)) /\ IsFiniteSet(In(R))
       /\ In(U) = Heap(c, L, p) \cup In(R) /\ Heap(c, L, p) \cap In(R) = {}
  <2>1. Heap(c, L, p) \subseteq L /\ In(R) \subseteq L
    BY DEF Heap
  <2> QED
    BY <1>6, <2>1, FS_Subset DEF Heap
<1> HIDE DEF In
<1>11. Cardinality(In(U)) = Cardinality(Heap(c, L, p)) + Cardinality(In(R))
  <2> DEFINE A == Heap(c, L, p)
             B == In(R)
  <2>1. Cardinality(A \cup B) = Cardinality(A) + Cardinality(B) - Cardinality(A \cap B)
    BY <1>10, FS_Union
  <2>2. Cardinality(A \cap B) = 0
    BY <1>10, FS_EmptySet
  <2>3. Cardinality(A) \in Nat /\ Cardinality(B) \in Nat
    BY <1>10, FS_CardinalityType
  <2>4. In(U) = A \cup B
    BY <1>10
  <2> HIDE DEF A, B
  <2>5. Cardinality(In(U)) = Cardinality(A) + Cardinality(B)
    BY <2>1, <2>2, <2>3, <2>4
  <2> QED
    BY <2>5 DEF A, B
<1> QED
  BY <1>3, <1>7, <1>8, <1>9, <1>11
=============================================================================
