---------------------------------- MODULE Sums ----------------------------------
(***************************************************************************)
(* Lemmas about the sum of amounts over a finite set, as the folds of the  *)
(* community modules compute it: SumFunction(w) is Total(DOMAIN w, w).     *)
(* The folds are defined by a CHOOSE of the function that holds the sums   *)
(* over all subsets.  Such a function exists for a finite set, by          *)
(* induction on its subsets (TotalsExist), and any member may be taken     *)
(* first (TotalAdd); what follows is what the proofs about ledgers and     *)
(* targets need.  Induction is over a set of subsets (FiniteInduct), not   *)
(* over a predicate, which the provers cannot be given.                    *)
(***************************************************************************)
EXTENDS Integers, FiniteSetTheorems, WellFoundedInduction, TLAPS

\* A set that has each subset of S all of whose proper subsets it has, has S.
LEMMA FiniteInduct ==
  ASSUME NEW S, IsFiniteSet(S), NEW G,
         ASSUME NEW T \in SUBSET S, \A U \in SUBSET T : U # T => U \in G PROVE T \in G
  PROVE  S \in G
<1>1. IsWellFoundedOn(StrictSubsetOrdering(S), SUBSET S)
  BY FS_StrictSubsetOrderingWellFounded, FS_FiniteSubsetsOfFinite
<1> DEFINE Bad == (SUBSET S) \ G
<1> SUFFICES ASSUME Bad # {} PROVE FALSE
  OBVIOUS
<1>2. PICK T \in Bad : \A U \in Bad : ~(<<U, T>> \in StrictSubsetOrdering(S))
  <2> HIDE DEF Bad
  <2>1. Bad \subseteq SUBSET S
    BY DEF Bad
  <2> QED
    BY <1>1, <2>1, WFMin
<1>3. ASSUME NEW U \in SUBSET T, U # T PROVE U \in G
  <2>1. <<U, T>> \in StrictSubsetOrdering(S)
    BY <1>3 DEF StrictSubsetOrdering
  <2> QED
    BY <1>2, <2>1
<1> QED
  BY <1>2, <1>3

\* The same, one member at a time.
LEMMA GrowInduct ==
  ASSUME NEW S, IsFiniteSet(S), NEW G, {} \in G,
         ASSUME NEW T \in SUBSET S, NEW x \in T, T \ {x} \in G PROVE T \in G
  PROVE  S \in G
<1>1. ASSUME NEW T \in SUBSET S, \A U \in SUBSET T : U # T => U \in G PROVE T \in G
  <2>1. CASE T = {}
    BY <2>1
  <2>2. CASE T # {}
    <3>1. PICK x \in T : TRUE
      BY <2>2
    <3>2. T \ {x} \in G
      BY <1>1, <3>1
    <3> QED
      BY <3>1, <3>2
  <2> QED
    BY <2>1, <2>2
<1> QED
  BY <1>1, FiniteInduct

-----------------------------------------------------------------------------
(* What the folds compute.                                                 *)

\* The member a fold takes first.
First(S) == CHOOSE x \in S : TRUE
\* f holds the sums of w over the subsets of S.
SumsOf(S, w, f) ==
  f = [s \in SUBSET S |-> IF s = {} THEN 0 ELSE LET x == First(s) IN w[x] + f[s \ {x}]]
\* The sum of w over S; of integers over a finite set.
Total(S, w) == (CHOOSE f : SumsOf(S, w, f))[S]
Summed(S, w) == IsFiniteSet(S) /\ \A x \in S : w[x] \in Int

\* One step of such a function.
LEMMA TotalsAre ==
  ASSUME NEW S, NEW w, NEW f, SumsOf(S, w, f), NEW s \in SUBSET S
  PROVE  f[s] = IF s = {} THEN 0 ELSE w[First(s)] + f[s \ {First(s)}]
BY Zenon DEF SumsOf

\* Two such functions agree where both are defined.
LEMMA TotalsAgree ==
  ASSUME NEW S, NEW T \in SUBSET S, IsFiniteSet(T), NEW w, NEW f, NEW g, SumsOf(S, w, f), SumsOf(T, w, g)
  PROVE  f[T] = g[T]
<1> DEFINE G == {s \in SUBSET T : f[s] = g[s]}
<1>1. ASSUME NEW U \in SUBSET T, \A s \in SUBSET U : s # U => s \in G PROVE U \in G
  <2>1. f[U] = IF U = {} THEN 0 ELSE w[First(U)] + f[U \ {First(U)}]
    BY TotalsAre
  <2>2. g[U] = IF U = {} THEN 0 ELSE w[First(U)] + g[U \ {First(U)}]
    BY TotalsAre
  <2>3. CASE U = {}
    BY <2>1, <2>2, <2>3
  <2>4. CASE U # {}
    <3>1. First(U) \in U
      BY <2>4 DEF First
    <3>2. U \ {First(U)} \in G
      BY <1>1, <3>1
    <3> QED
      BY <2>1, <2>2, <2>4, <3>2
  <2> QED
    BY <2>3, <2>4
<1>2. T \in G
  <2> HIDE DEF G
  <2> QED
    BY <1>1, FiniteInduct
<1> QED
  BY <1>2

\* The sums over the subsets of a finite set exist.
LEMMA TotalsExist ==
  ASSUME NEW S, IsFiniteSet(S), NEW w
  PROVE  \E f : SumsOf(S, w, f)
<1> DEFINE Has(T) == \E f : SumsOf(T, w, f)
           G == {T \in SUBSET S : Has(T)}
<1>1. ASSUME NEW T \in SUBSET S, \A U \in SUBSET T : U # T => U \in G PROVE T \in G
  <2> DEFINE g == [s \in SUBSET T |-> IF s = {} THEN 0
                                      ELSE w[First(s)] + Total(s \ {First(s)}, w)]
  <2>1. ASSUME NEW U \in SUBSET T, U # T PROVE SumsOf(U, w, CHOOSE f : SumsOf(U, w, f))
    <3>1. \E f : SumsOf(U, w, f)
      BY <1>1, <2>1
    <3> QED
      BY <3>1
  <2>2. ASSUME NEW U \in SUBSET T, U # T PROVE Total(U, w) = g[U]
    <3> DEFINE f == CHOOSE f : SumsOf(U, w, f)
    <3>1. SumsOf(U, w, f) /\ Total(U, w) = f[U]
      BY <2>1, <2>2 DEF Total
    <3> HIDE DEF f
    <3>2. f[U] = IF U = {} THEN 0 ELSE w[First(U)] + f[U \ {First(U)}]
      BY <3>1, TotalsAre
    <3>3. CASE U = {}
      BY <3>1, <3>2, <3>3
    <3>4. CASE U # {}
      <4> DEFINE V == U \ {First(U)}
                 h == CHOOSE k : SumsOf(V, w, k)
      <4>1. V \in SUBSET U /\ V \in SUBSET T /\ V # T
        BY <2>2
      <4>2. SumsOf(V, w, h) /\ Total(V, w) = h[V]
        BY <2>1, <4>1 DEF Total
      <4>3. IsFiniteSet(V)
        BY <4>1, FS_Subset
      <4> HIDE DEF h, V
      <4>4. f[V] = h[V]
        BY <3>1, <4>1, <4>2, <4>3, TotalsAgree
      <4> QED
        BY <3>1, <3>2, <3>4, <4>2, <4>4 DEF V
    <3> QED
      BY <3>3, <3>4
  <2>3. ASSUME NEW s \in SUBSET T, s # {} PROVE Total(s \ {First(s)}, w) = g[s \ {First(s)}]
    <3>1. First(s) \in s
      BY <2>3 DEF First
    <3>2. s \ {First(s)} \in SUBSET T /\ s \ {First(s)} # T
      BY <3>1
    <3> HIDE DEF g
    <3> QED
      BY <2>2, <3>2
  <2>4. ASSUME NEW s \in SUBSET T
        PROVE  g[s] = IF s = {} THEN 0 ELSE w[First(s)] + g[s \ {First(s)}]
    <3>1. g[s] = IF s = {} THEN 0 ELSE w[First(s)] + Total(s \ {First(s)}, w)
      OBVIOUS
    <3> HIDE DEF g
    <3> QED
      BY <2>3, <3>1
  <2>5. g = [s \in SUBSET T |-> g[s]]
    OBVIOUS
  <2>6. SumsOf(T, w, g)
    <3> HIDE DEF g
    <3> QED
      BY <2>4, <2>5 DEF SumsOf
  <2> QED
    BY <2>6
<1>2. S \in G
  <2> HIDE DEF G
  <2> QED
    BY <1>1, FiniteInduct
<1> QED
  BY <1>2

\* How a sum is computed.
LEMMA TotalFirst ==
  ASSUME NEW S, IsFiniteSet(S), NEW w
  PROVE  Total(S, w) = IF S = {} THEN 0 ELSE w[First(S)] + Total(S \ {First(S)}, w)
<1> DEFINE f == CHOOSE f : SumsOf(S, w, f)
           T == S \ {First(S)}
           g == CHOOSE g : SumsOf(T, w, g)
<1>1. SumsOf(S, w, f) /\ Total(S, w) = f[S]
  BY TotalsExist DEF Total
<1>2. IsFiniteSet(T) /\ T \in SUBSET S
  BY FS_Subset
<1>3. SumsOf(T, w, g) /\ Total(T, w) = g[T]
  BY <1>2, TotalsExist DEF Total
<1> HIDE DEF f, g, T
<1>4. f[T] = g[T]
  BY <1>1, <1>2, <1>3, TotalsAgree
<1>5. f[S] = IF S = {} THEN 0 ELSE w[First(S)] + f[S \ {First(S)}]
  BY <1>1, TotalsAre
<1> QED
  BY <1>1, <1>3, <1>4, <1>5 DEF T

\* The sum over nothing.
LEMMA TotalEmpty == ASSUME NEW w PROVE Total({}, w) = 0
BY TotalFirst, FS_EmptySet

\* A sum of integers is one, and of numbers is a number.
LEMMA TotalInt ==
  ASSUME NEW S, NEW w, Summed(S, w)
  PROVE  Total(S, w) \in Int /\ ((\A x \in S : w[x] >= 0) => Total(S, w) >= 0)
<1> DEFINE G == {T \in SUBSET S : /\ Total(T, w) \in Int
                                  /\ (\A x \in S : w[x] >= 0) => Total(T, w) >= 0}
<1>1. ASSUME NEW T \in SUBSET S, \A U \in SUBSET T : U # T => U \in G PROVE T \in G
  <2>1. IsFiniteSet(T)
    BY FS_Subset DEF Summed
  <2>2. CASE T = {}
    BY <2>2, TotalEmpty
  <2>3. CASE T # {}
    <3>1. First(T) \in T
      BY <2>3 DEF First
    <3>2. T \ {First(T)} \in G
      BY <1>1, <3>1
    <3>3. Total(T, w) = w[First(T)] + Total(T \ {First(T)}, w)
      BY <2>1, <2>3, TotalFirst
    <3>4. w[First(T)] \in Int
      BY <3>1 DEF Summed
    <3> QED
      BY <3>1, <3>2, <3>3, <3>4
  <2> QED
    BY <2>2, <2>3
<1>2. S \in G
  <2> HIDE DEF G
  <2> QED
    BY <1>1, FiniteInduct DEF Summed
<1> QED
  BY <1>2

\* Any member may be taken first.
LEMMA TotalAdd ==
  ASSUME NEW S, NEW w, Summed(S, w), NEW x \in S
  PROVE  Total(S, w) = w[x] + Total(S \ {x}, w)
<1> DEFINE G == {T \in SUBSET S : \A y \in T : Total(T, w) = w[y] + Total(T \ {y}, w)}
<1>1. ASSUME NEW T \in SUBSET S, \A U \in SUBSET T : U # T => U \in G PROVE T \in G
  <2> SUFFICES ASSUME NEW y \in T PROVE Total(T, w) = w[y] + Total(T \ {y}, w)
    OBVIOUS
  <2>1. IsFiniteSet(T)
    BY FS_Subset DEF Summed
  <2> DEFINE c == First(T)
  <2>2. c \in T
    BY DEF First
  <2>3. Total(T, w) = w[c] + Total(T \ {c}, w)
    BY <2>1, TotalFirst
  <2> HIDE DEF c
  <2>4. CASE y = c
    BY <2>3, <2>4
  <2>5. CASE y # c
    <3>1. Total(T \ {c}, w) = w[y] + Total((T \ {c}) \ {y}, w)
      BY <1>1, <2>2, <2>5
    <3>2. Total(T \ {y}, w) = w[c] + Total((T \ {y}) \ {c}, w)
      BY <1>1, <2>2, <2>5
    <3>3. (T \ {c}) \ {y} = (T \ {y}) \ {c}
      OBVIOUS
    <3>4. w[c] \in Int /\ w[y] \in Int
      BY <2>2 DEF Summed
    <3>5. Total((T \ {y}) \ {c}, w) \in Int
      <4>1. Summed((T \ {y}) \ {c}, w)
        BY <2>1, FS_Subset DEF Summed
      <4> QED
        BY <4>1, TotalInt
    <3>6. Total((T \ {c}) \ {y}, w) = Total((T \ {y}) \ {c}, w)
      BY <3>3
    <3> HIDE DEF G
    <3> QED
      BY <2>3, <3>1, <3>2, <3>4, <3>5, <3>6
  <2> QED
    BY <2>4, <2>5
<1>2. S \in G
  <2> HIDE DEF G
  <2> QED
    BY <1>1, FiniteInduct DEF Summed
<1> QED
  BY <1>2

\* The sums of amounts that are the same are.
LEMMA TotalSame ==
  ASSUME NEW S, IsFiniteSet(S), NEW v, NEW w, \A x \in S : v[x] = w[x]
  PROVE  Total(S, v) = Total(S, w)
<1> DEFINE G == {T \in SUBSET S : Total(T, v) = Total(T, w)}
<1>1. ASSUME NEW T \in SUBSET S, \A U \in SUBSET T : U # T => U \in G PROVE T \in G
  <2>1. IsFiniteSet(T)
    BY FS_Subset
  <2>2. CASE T = {}
    BY <2>2, TotalEmpty
  <2>3. CASE T # {}
    <3>1. First(T) \in T
      BY <2>3 DEF First
    <3>2. T \ {First(T)} \in G
      BY <1>1, <3>1
    <3> QED
      BY <2>1, <2>3, <3>1, <3>2, TotalFirst
  <2> QED
    BY <2>2, <2>3
<1>2. S \in G
  <2> HIDE DEF G
  <2> QED
    BY <1>1, FiniteInduct
<1> QED
  BY <1>2

\* The sum over two sets apart.
LEMMA TotalUnion ==
  ASSUME NEW S, NEW T, NEW w, Summed(S, w), Summed(T, w), S \cap T = {}
  PROVE  Total(S \cup T, w) = Total(S, w) + Total(T, w) /\ Summed(S \cup T, w)
<1>0. \A U \in SUBSET T : Summed(S \cup U, w) /\ Summed(U, w)
  BY FS_Union, FS_Subset DEF Summed
<1> DEFINE G == {U \in SUBSET T : Total(S \cup U, w) = Total(S, w) + Total(U, w)}
<1>1. {} \in G
  <2>1. Total(S, w) \in Int
    BY TotalInt
  <2>2. S \cup {} = S
    OBVIOUS
  <2> QED
    BY <2>1, <2>2, TotalEmpty
<1>2. ASSUME NEW U \in SUBSET T, NEW x \in U, U \ {x} \in G PROVE U \in G
  <2>1. Total(U, w) = w[x] + Total(U \ {x}, w)
    BY <1>0, TotalAdd
  <2>2. Total(S \cup U, w) = w[x] + Total((S \cup U) \ {x}, w)
    BY <1>0, TotalAdd
  <2>3. (S \cup U) \ {x} = S \cup (U \ {x})
    OBVIOUS
  <2>4. Total(S \cup (U \ {x}), w) = Total(S, w) + Total(U \ {x}, w)
    BY <1>2
  <2>5. w[x] \in Int /\ Total(S, w) \in Int /\ Total(U \ {x}, w) \in Int
    <3>1. Summed(U \ {x}, w)
      BY <1>0
    <3> QED
      BY <3>1, TotalInt DEF Summed
  <2>6. Total((S \cup U) \ {x}, w) = Total(S, w) + Total(U \ {x}, w)
    BY <2>3, <2>4
  <2>7. Total(S \cup U, w) = Total(S, w) + Total(U, w)
    BY <2>1, <2>2, <2>5, <2>6
  <2> QED
    BY <2>7
<1>3. T \in G
  <2> HIDE DEF G
  <2> QED
    BY <1>1, <1>2, GrowInduct DEF Summed
<1> QED
  BY <1>0, <1>3

\* The sum of sums.
LEMMA TotalPlus ==
  ASSUME NEW S, NEW u, NEW v, NEW w, Summed(S, u), Summed(S, v), \A x \in S : w[x] = u[x] + v[x]
  PROVE  Total(S, w) = Total(S, u) + Total(S, v) /\ Summed(S, w)
<1>0. \A T \in SUBSET S : Summed(T, u) /\ Summed(T, v) /\ Summed(T, w)
  BY FS_Subset DEF Summed
<1> DEFINE G == {T \in SUBSET S : Total(T, w) = Total(T, u) + Total(T, v)}
<1>1. {} \in G
  BY TotalEmpty
<1>2. ASSUME NEW T \in SUBSET S, NEW x \in T, T \ {x} \in G PROVE T \in G
  <2>1. /\ Total(T, w) = w[x] + Total(T \ {x}, w)
        /\ Total(T, u) = u[x] + Total(T \ {x}, u)
        /\ Total(T, v) = v[x] + Total(T \ {x}, v)
    BY <1>0, TotalAdd
  <2>2. Total(T \ {x}, u) \in Int /\ Total(T \ {x}, v) \in Int
    <3>1. Summed(T \ {x}, u) /\ Summed(T \ {x}, v)
      BY <1>0
    <3> QED
      BY <3>1, TotalInt
  <2>3. u[x] \in Int /\ v[x] \in Int /\ w[x] = u[x] + v[x]
    BY DEF Summed
  <2>4. Total(T \ {x}, w) = Total(T \ {x}, u) + Total(T \ {x}, v)
    BY <1>2
  <2>5. Total(T, w) = Total(T, u) + Total(T, v)
    BY <2>1, <2>2, <2>3, <2>4
  <2> QED
    BY <2>5
<1>3. S \in G
  <2> HIDE DEF G
  <2> QED
    BY <1>1, <1>2, GrowInduct DEF Summed
<1> QED
  BY <1>0, <1>3

\* Members that add nothing may be left out.
LEMMA TotalWithin ==
  ASSUME NEW S, NEW w, Summed(S, w), NEW T \in SUBSET S, \A x \in S \ T : w[x] = 0
  PROVE  Total(S, w) = Total(T, w)
<1> DEFINE U == S \ T
           G == {V \in SUBSET U : Total(V, w) = 0}
<1>1. Summed(T, w) /\ Summed(U, w) /\ \A V \in SUBSET U : Summed(V, w)
  BY FS_Subset DEF Summed
<1>2. {} \in G
  BY TotalEmpty
<1>3. ASSUME NEW V \in SUBSET U, NEW x \in V, V \ {x} \in G PROVE V \in G
  <2>1. Total(V, w) = w[x] + Total(V \ {x}, w)
    BY <1>1, TotalAdd
  <2> QED
    BY <1>3, <2>1
<1>4. U \in G
  <2> HIDE DEF G, U
  <2> QED
    BY <1>1, <1>2, <1>3, GrowInduct DEF Summed
<1>5. T \cap U = {} /\ T \cup U = S
  OBVIOUS
<1>6. Total(T, w) \in Int
  BY <1>1, TotalInt
<1> HIDE DEF U
<1>7. Total(S, w) = Total(T, w) + Total(U, w)
  BY <1>1, <1>5, TotalUnion
<1> QED
  BY <1>4, <1>6, <1>7

\* Sums of amounts of which each is at most another.
LEMMA TotalAtMost ==
  ASSUME NEW S, NEW v, NEW w, Summed(S, v), Summed(S, w), \A x \in S : v[x] <= w[x]
  PROVE  Total(S, v) <= Total(S, w)
<1> DEFINE d == [x \in S |-> w[x] - v[x]]
<1>1. Summed(S, d) /\ (\A x \in S : d[x] >= 0) /\ \A x \in S : w[x] = v[x] + d[x]
  BY DEF Summed
<1> HIDE DEF d
<1>2. Total(S, w) = Total(S, v) + Total(S, d)
  BY <1>1, TotalPlus
<1>3. Total(S, v) \in Int /\ Total(S, d) \in Int /\ Total(S, d) >= 0
  BY <1>1, TotalInt
<1> QED
  BY <1>2, <1>3

\* The sum of an amount that is the same for each.
LEMMA TotalEach ==
  ASSUME NEW S, NEW c \in Int, NEW w, IsFiniteSet(S), \A x \in S : w[x] = c
  PROVE  Total(S, w) = Cardinality(S) * c /\ Summed(S, w)
<1>0. Summed(S, w) /\ \A T \in SUBSET S : Summed(T, w) /\ Cardinality(T) \in Nat
  BY FS_Subset, FS_CardinalityType DEF Summed
<1> DEFINE G == {T \in SUBSET S : Total(T, w) = Cardinality(T) * c}
<1>1. {} \in G
  BY TotalEmpty, FS_EmptySet
<1>2. ASSUME NEW T \in SUBSET S, NEW x \in T, T \ {x} \in G PROVE T \in G
  <2>1. Total(T, w) = w[x] + Total(T \ {x}, w)
    BY <1>0, TotalAdd
  <2>2. Cardinality(T \ {x}) = Cardinality(T) - 1
    BY <1>0, FS_RemoveElement DEF Summed
  <2>3. Total(T \ {x}, w) = Cardinality(T \ {x}) * c
    BY <1>2
  <2>4. Total(T, w) = c + (Cardinality(T) - 1) * c
    BY <2>1, <2>2, <2>3
  <2>5. c + (Cardinality(T) - 1) * c = Cardinality(T) * c
    BY <1>0
  <2> QED
    BY <2>4, <2>5
<1>3. S \in G
  <2> HIDE DEF G
  <2> QED
    BY <1>1, <1>2, GrowInduct
<1> QED
  BY <1>0, <1>3

\* The sum over what a set is mapped to, one to one.
LEMMA TotalImage ==
  ASSUME NEW S, NEW T, NEW h \in [S -> T], NEW v, NEW w, Summed(S, v),
         \A x, y \in S : h[x] = h[y] => x = y, T = {h[x] : x \in S},
         \A x \in S : w[h[x]] = v[x]
  PROVE  Total(T, w) = Total(S, v) /\ Summed(T, w)
<1> DEFINE I(U) == {h[x] : x \in U}
           G == {U \in SUBSET S : Total(I(U), w) = Total(U, v)}
<1>0. \A U \in SUBSET S : Summed(U, v) /\ Summed(I(U), w)
  <2> SUFFICES ASSUME NEW U \in SUBSET S PROVE Summed(U, v) /\ Summed(I(U), w)
    OBVIOUS
  <2>1. IsFiniteSet(U)
    BY FS_Subset DEF Summed
  <2>2. IsFiniteSet(I(U))
    <3> DEFINE k == [x \in U |-> h[x]]
    <3>1. k \in Surjection(U, I(U))
      BY DEF Surjection
    <3> QED
      BY <2>1, <3>1, FS_Surjection
  <2> QED
    BY <2>1, <2>2 DEF Summed
<1>1. {} \in G
  <2>1. I({}) = {}
    OBVIOUS
  <2> QED
    BY <2>1, TotalEmpty
<1>2. ASSUME NEW U \in SUBSET S, NEW x \in U, U \ {x} \in G PROVE U \in G
  <2>1. Total(U, v) = v[x] + Total(U \ {x}, v)
    BY <1>0, TotalAdd
  <2>2. h[x] \in I(U) /\ I(U) \ {h[x]} = I(U \ {x})
    OBVIOUS
  <2>3. Summed(I(U), w)
    BY <1>0
  <2> HIDE DEF I
  <2>4. Total(I(U), w) = w[h[x]] + Total(I(U) \ {h[x]}, w)
    BY <2>2, <2>3, TotalAdd
  <2>5. Total(I(U \ {x}), w) = Total(U \ {x}, v)
    BY <1>2
  <2>6. Total(I(U), w) = Total(U, v)
    BY <2>1, <2>2, <2>4, <2>5
  <2> QED
    BY <2>6
<1>3. S \in G
  <2> HIDE DEF G
  <2> QED
    BY <1>1, <1>2, GrowInduct DEF Summed
<1> QED
  BY <1>0, <1>3

\* The members of S that are of each kind.
Sorted(S, Kinds, kind, of) ==
  /\ \A x \in S : kind[x] \in Kinds
  /\ \A k \in Kinds : of[k] \subseteq S /\ \A x \in S : x \in of[k] <=> kind[x] = k

\* The sum over kinds of what is of each kind is the sum of all.
LEMMA TotalByKind ==
  ASSUME NEW S, NEW Kinds, NEW kind, NEW of, NEW w, NEW v,
         Summed(S, w), IsFiniteSet(Kinds), Sorted(S, Kinds, kind, of),
         \A k \in Kinds : v[k] = Total(of[k], w)
  PROVE  Total(Kinds, v) = Total(S, w) /\ Summed(Kinds, v)
<1> DEFINE Of(Some) == {x \in S : kind[x] \in Some}
           G == {Some \in SUBSET Kinds : Total(Some, v) = Total(Of(Some), w)}
<1>0. \A T \in SUBSET S : Summed(T, w)
  BY FS_Subset DEF Summed
<1>1. Summed(Kinds, v)
  <2>1. ASSUME NEW k \in Kinds PROVE v[k] \in Int
    <3>1. Summed(of[k], w)
      BY <1>0 DEF Sorted
    <3> QED
      BY <3>1, TotalInt
  <2> QED
    BY <2>1 DEF Summed
<1>2. {} \in G
  <2>1. Of({}) = {}
    OBVIOUS
  <2> QED
    BY <2>1, TotalEmpty
<1>3. ASSUME NEW Some \in SUBSET Kinds, NEW k \in Some, Some \ {k} \in G PROVE Some \in G
  <2> DEFINE A == {x \in S : kind[x] = k}
             B == Of(Some \ {k})
  <2>1. Of(Some) = A \cup B /\ A \cap B = {}
    OBVIOUS
  <2>2. Summed(A, w) /\ Summed(B, w)
    BY <1>0
  <2>3. v[k] = Total(A, w)
    <3>1. A = of[k]
      BY DEF Sorted
    <3> QED
      BY <3>1
  <2>4. Total(Some \ {k}, v) = Total(B, w)
    BY <1>3
  <2> HIDE DEF A, B
  <2>5. Total(A \cup B, w) = Total(A, w) + Total(B, w)
    BY <2>1, <2>2, TotalUnion
  <2>6. Summed(Some, v)
    BY <1>1, FS_Subset DEF Summed
  <2>7. Total(Some, v) = v[k] + Total(Some \ {k}, v)
    BY <2>6, TotalAdd
  <2>8. Total(Some, v) = Total(Of(Some), w)
    BY <2>1, <2>3, <2>4, <2>5, <2>7
  <2> QED
    BY <2>8
<1>4. Kinds \in G
  <2> HIDE DEF G
  <2> QED
    BY <1>2, <1>3, GrowInduct
<1>5. Of(Kinds) = S
  BY DEF Sorted
<1> QED
  BY <1>1, <1>4, <1>5

\* Amounts that exceed others by half of a third amount at most do so in sum.
LEMMA TotalHalf ==
  ASSUME NEW S, NEW u, NEW v, NEW h, Summed(S, u), Summed(S, v), Summed(S, h),
         \A x \in S : 2 * (u[x] - v[x]) <= h[x]
  PROVE  2 * (Total(S, u) - Total(S, v)) <= Total(S, h)
<1> DEFINE uu == [x \in S |-> u[x] + u[x]]
           vv == [x \in S |-> v[x] + v[x]]
           vvh == [x \in S |-> vv[x] + h[x]]
<1>1. /\ \A x \in S : u[x] \in Int /\ v[x] \in Int /\ h[x] \in Int
      /\ \A x \in S : uu[x] = u[x] + u[x] /\ vv[x] = v[x] + v[x] /\ vvh[x] = vv[x] + h[x]
  BY DEF Summed
<1> HIDE DEF uu, vv, vvh
<1>2. Total(S, uu) = Total(S, u) + Total(S, u) /\ Summed(S, uu)
  BY <1>1, TotalPlus
<1>3. Total(S, vv) = Total(S, v) + Total(S, v) /\ Summed(S, vv)
  BY <1>1, TotalPlus
<1>4. Total(S, vvh) = Total(S, vv) + Total(S, h) /\ Summed(S, vvh)
  BY <1>1, <1>3, TotalPlus
<1>5. \A x \in S : uu[x] <= vvh[x]
  BY <1>1
<1>6. Total(S, uu) <= Total(S, vvh)
  BY <1>2, <1>4, <1>5, TotalAtMost
<1>7. Total(S, u) \in Int /\ Total(S, v) \in Int /\ Total(S, h) \in Int
  BY TotalInt
<1> QED
  BY <1>2, <1>3, <1>4, <1>6, <1>7
===============================================================================
