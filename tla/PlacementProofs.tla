--------------------------- MODULE PlacementProofs ----------------------------
(***************************************************************************)
(* What holds of the scheduler for any instances, agents, capacities,      *)
(* configurations and port ranges, with any number of calls of Schedule at *)
(* once: limits and ports are kept, a reservation is refused only if       *)
(* something has changed, and the dry run tells what Schedule would do.    *)
(***************************************************************************)
EXTENDS Placement, FiniteSetTheorems, WellFoundedInduction, TLAPS

-----------------------------------------------------------------------------
(* Finite sets have smallest bad subsets.                                  *)

LEMMA Least ==
  ASSUME NEW T \in SUBSET Nat, T # {}
  PROVE  \E x \in T : \A y \in T : x <= y
<1> DEFINE R == OpToRel(<, Nat)
<1>1. IsWellFoundedOn(R, Nat)
  BY NatLessThanWellFounded
<1>2. PICK x \in T : \A y \in T : ~(<<y, x>> \in R)
  <2> HIDE DEF R
  <2> QED BY <1>1, WFMin
<1>3. \A y \in T : ~(y < x)
  BY <1>2 DEF OpToRel
<1> QED BY <1>3

LEMMA Smallest ==
  ASSUME NEW U, IsFiniteSet(U), NEW B \in SUBSET SUBSET U, B # {}
  PROVE  \E S \in B : \A T \in B : ~(T \subseteq S /\ T # S)
<1> DEFINE N == {n \in Nat : \E S \in B : n = Cardinality(S)}
<1>1. \A S \in B : IsFiniteSet(S) /\ Cardinality(S) \in Nat
  BY FS_Subset, FS_CardinalityType
<1>2. PICK n \in N : \A k \in N : n <= k
  BY <1>1, Least
<1>3. PICK S \in B : n = Cardinality(S)
  OBVIOUS
<1>4. ASSUME NEW T \in B, T \subseteq S, T # S PROVE FALSE
  <2>1. Cardinality(T) < Cardinality(S)
    BY <1>1, <1>4, FS_Subset
  <2>2. Cardinality(S) <= Cardinality(T) /\ Cardinality(S) \in Nat /\ Cardinality(T) \in Nat
    BY <1>1, <1>2, <1>3
  <2> QED BY <2>1, <2>2
<1> QED BY <1>4

\* A finite set of numbers has an element of highest rank, the smallest one
\* among equals.
Best(S, f, a) == a \in S /\ \A b \in S \ {a} : f[a] > f[b] \/ (f[a] = f[b] /\ a < b)

LEMMA BestExists ==
  ASSUME NEW U, U \subseteq Int, IsFiniteSet(U), NEW f, f \in [U -> Int], U # {}
  PROVE  \E a \in U : Best(U, f, a)
<1> DEFINE Bad == {S \in SUBSET U : S # {} /\ ~ \E a \in S : Best(S, f, a)}
<1> SUFFICES ASSUME Bad # {} PROVE FALSE
  <2>1. U \in SUBSET U /\ U \notin Bad
    OBVIOUS
  <2> QED BY <2>1
<1>1. PICK S \in Bad : \A w \in Bad : ~(w \subseteq S /\ w # S)
  <2>1. Bad \in SUBSET SUBSET U
    OBVIOUS
  <2> HIDE DEF Bad
  <2> QED BY ONLY IsFiniteSet(U), Bad # {}, <2>1, Smallest
<1>2. PICK x \in S : TRUE
  BY <1>1
<1>3. S \ {x} # {}
  BY <1>1, <1>2 DEF Best
<1>4. PICK y \in S \ {x} : Best(S \ {x}, f, y)
  BY <1>1, <1>2, <1>3
<1>5. x \in Int /\ y \in Int /\ f[x] \in Int /\ f[y] \in Int /\ x # y
  BY <1>1, <1>2, <1>4
<1>6. \A b \in S : b \in Int /\ f[b] \in Int
  BY <1>1
<1>7. CASE f[x] > f[y] \/ (f[x] = f[y] /\ x < y)
  <2>1. Best(S, f, x)
    BY <1>2, <1>4, <1>5, <1>6, <1>7 DEF Best
  <2> QED BY <1>1, <1>2, <2>1
<1>8. CASE ~(f[x] > f[y] \/ (f[x] = f[y] /\ x < y))
  <2>1. f[y] > f[x] \/ (f[y] = f[x] /\ y < x)
    BY <1>5, <1>8
  <2>2. Best(S, f, y)
    BY <1>2, <1>4, <2>1 DEF Best
  <2> QED BY <1>1, <1>4, <2>2
<1> QED BY <1>7, <1>8

LEMMA MaxIs ==
  ASSUME NEW S \in SUBSET Int, IsFiniteSet(S), S # {}
  PROVE  Max(S) \in S /\ \A y \in S : Max(S) >= y
<1> DEFINE f == [x \in S |-> x]
<1>1. PICK a \in S : Best(S, f, a)
  <2>1. f \in [S -> Int]
    OBVIOUS
  <2> HIDE DEF f
  <2> QED BY <2>1, BestExists
<1>2. \A y \in S : a >= y
  BY <1>1 DEF Best
<1> QED BY <1>1, <1>2 DEF Max

LEMMA MinIs ==
  ASSUME NEW S \in SUBSET Int, IsFiniteSet(S), S # {}
  PROVE  Min(S) \in S /\ \A y \in S : Min(S) <= y
<1> DEFINE f == [x \in S |-> 0 - x]
<1>1. PICK a \in S : Best(S, f, a)
  <2>1. f \in [S -> Int]
    OBVIOUS
  <2> HIDE DEF f
  <2> QED BY <2>1, BestExists
<1>2. \A y \in S : a <= y
  BY <1>1 DEF Best
<1> QED BY <1>1, <1>2 DEF Min

\* The least of a set of numbers, finite or not.
LEMMA MinNat ==
  ASSUME NEW S \in SUBSET Nat, S # {}
  PROVE  Min(S) \in S
<1>1. PICK a \in S : \A y \in S : a <= y
  BY Least
<1> QED BY <1>1 DEF Min

-----------------------------------------------------------------------------
(* Folds over finite sets.  c picks the element that is added last, g adds *)
(* it to what the others come to.                                          *)

FoldOn(T, c, g, base, h) ==
  h = [s \in SUBSET T |-> IF s = {} THEN base ELSE g[<<c[s], h[s \ {c[s]}]>>]]

\* c picks from every set of elements of U.
Picks(U, c) == \A s \in SUBSET U : s # {} => c[s] \in s

LEMMA FoldUnique ==
  ASSUME NEW U, IsFiniteSet(U), NEW c, Picks(U, c), NEW g, NEW base,
         NEW A \in SUBSET U, NEW B \in SUBSET U, NEW h, NEW k,
         FoldOn(A, c, g, base, h), FoldOn(B, c, g, base, k)
  PROVE  \A v \in SUBSET (A \cap B) : h[v] = k[v]
<1> DEFINE Bad == {v \in SUBSET (A \cap B) : h[v] # k[v]}
<1> SUFFICES ASSUME Bad # {} PROVE FALSE
  OBVIOUS
<1>1. PICK v \in Bad : \A w \in Bad : ~(w \subseteq v /\ w # v)
  <2>1. Bad \in SUBSET SUBSET U
    OBVIOUS
  <2> HIDE DEF Bad
  <2> QED BY <2>1, Smallest
<1>2. v # {}
  BY DEF FoldOn
<1>3. c[v] \in v
  BY <1>1, <1>2 DEF Picks
<1>4. v \ {c[v]} \notin Bad
  BY <1>1, <1>3
<1>5. h[v] = g[<<c[v], h[v \ {c[v]}]>>] /\ k[v] = g[<<c[v], k[v \ {c[v]}]>>]
  BY <1>1, <1>2 DEF FoldOn
<1> QED BY <1>1, <1>4, <1>5

LEMMA FoldExists ==
  ASSUME NEW U, IsFiniteSet(U), NEW c, Picks(U, c), NEW g, NEW base, NEW S \in SUBSET U
  PROVE  \E h : FoldOn(S, c, g, base, h)
<1> DEFINE Bad == {s \in SUBSET U : ~ \E h : FoldOn(s, c, g, base, h)}
<1> SUFFICES ASSUME Bad # {} PROVE FALSE
  OBVIOUS
<1>1. PICK T \in Bad : \A w \in Bad : ~(w \subseteq T /\ w # T)
  <2>1. Bad \in SUBSET SUBSET U
    OBVIOUS
  <2> HIDE DEF Bad
  <2> QED BY <2>1, Smallest
<1> DEFINE G(s) == CHOOSE h : FoldOn(s, c, g, base, h)
           k == [s \in SUBSET T |-> IF s = {} THEN base ELSE g[<<c[s], G(s \ {c[s]})[s \ {c[s]}]>>]]
<1>2. \A s \in SUBSET T : s # T => FoldOn(s, c, g, base, G(s))
  BY <1>1
<1>3. \A s \in SUBSET T : s # {} => c[s] \in s /\ s \ {c[s]} \in SUBSET T /\ s \ {c[s]} # T
  BY <1>1 DEF Picks
<1> HIDE DEF G
<1>4. ASSUME NEW u \in SUBSET T, u # T PROVE G(u)[u] = k[u]
  <2>1. FoldOn(u, c, g, base, G(u))
    BY <1>2, <1>4
  <2>2. G(u)[u] = IF u = {} THEN base ELSE g[<<c[u], G(u)[u \ {c[u]}]>>]
    BY <2>1 DEF FoldOn
  <2>3. CASE u = {}
    BY <2>2, <2>3
  <2>4. CASE u # {}
    <3> DEFINE v == u \ {c[u]}
    <3>2. v \in SUBSET T /\ v # T /\ v \in SUBSET u /\ u \in SUBSET U /\ v \in SUBSET U
      BY <1>1, <1>3, <2>4
    <3>3. FoldOn(v, c, g, base, G(v))
      BY <1>2, <3>2
    <3> HIDE DEF v
    <3>4. v \in SUBSET (u \cap v)
      BY <3>2
    <3>5. G(u)[v] = G(v)[v]
      BY <2>1, <3>2, <3>3, <3>4, FoldUnique
    <3> QED BY <2>2, <2>4, <3>5 DEF v
  <2> QED BY <2>3, <2>4
<1>5. \A s \in SUBSET T : s # {} => G(s \ {c[s]})[s \ {c[s]}] = k[s \ {c[s]}]
  <2> HIDE DEF k
  <2> QED BY <1>3, <1>4
<1>6. FoldOn(T, c, g, base, k)
  <2>1. k = [s \in SUBSET T |-> IF s = {} THEN base ELSE g[<<c[s], k[s \ {c[s]}]>>]]
    BY <1>5
  <2> HIDE DEF k
  <2> QED BY <2>1 DEF FoldOn
<1> QED BY <1>1, <1>6

\* What each step of a fold builds on the one before, the whole fold builds.
LEMMA FoldBuilds ==
  ASSUME NEW U, IsFiniteSet(U), NEW h, NEW V, h[{}] \in V[{}],
         \A s \in SUBSET U : s # {} => \E x \in s : h[s \ {x}] \in V[s \ {x}] => h[s] \in V[s]
  PROVE  \A s \in SUBSET U : h[s] \in V[s]
<1> DEFINE Bad == {s \in SUBSET U : h[s] \notin V[s]}
<1> SUFFICES ASSUME Bad # {} PROVE FALSE
  OBVIOUS
<1>1. PICK S \in Bad : \A w \in Bad : ~(w \subseteq S /\ w # S)
  <2>1. Bad \in SUBSET SUBSET U
    OBVIOUS
  <2> HIDE DEF Bad
  <2> QED BY <2>1, Smallest
<1>2. S # {} /\ S \in SUBSET U
  BY <1>1
<1>3. PICK x \in S : h[S \ {x}] \in V[S \ {x}] => h[S] \in V[S]
  BY <1>2
<1>4. S \ {x} \notin Bad
  BY <1>1, <1>3
<1> QED BY <1>1, <1>2, <1>3, <1>4

\* What adding any element keeps, the whole fold keeps.
LEMMA FoldKeeps ==
  ASSUME NEW U, IsFiniteSet(U), NEW h, NEW V, h[{}] \in V,
         \A s \in SUBSET U : s # {} => \E x \in s : h[s \ {x}] \in V => h[s] \in V
  PROVE  \A s \in SUBSET U : h[s] \in V
<1> DEFINE W == [s \in SUBSET U |-> V]
<1>1. h[{}] \in W[{}]
  OBVIOUS
<1>2. \A s \in SUBSET U : s # {} => \E x \in s : h[s \ {x}] \in W[s \ {x}] => h[s] \in W[s]
  <2> SUFFICES ASSUME NEW s \in SUBSET U, s # {}
               PROVE  \E x \in s : h[s \ {x}] \in W[s \ {x}] => h[s] \in W[s]
    OBVIOUS
  <2>1. PICK x \in s : h[s \ {x}] \in V => h[s] \in V
    OBVIOUS
  <2>2. W[s] = V /\ W[s \ {x}] = V
    OBVIOUS
  <2> QED BY <2>1, <2>2
<1>3. \A s \in SUBSET U : W[s] = V
  OBVIOUS
<1> HIDE DEF W
<1>4. \A s \in SUBSET U : h[s] \in W[s]
  BY ONLY IsFiniteSet(U), <1>1, <1>2, FoldBuilds
<1> QED BY <1>3, <1>4
-----------------------------------------------------------------------------
(* Sums over finite sets.                                                  *)

Pick1(s) == CHOOSE x \in s : TRUE
SumOn(w, T, h) == h = [s \in SUBSET T |-> IF s = {} THEN 0 ELSE w[Pick1(s)] + h[s \ {Pick1(s)}]]
Total(w, T) == (CHOOSE h : SumOn(w, T, h))[T]

PickIn(U) == [s \in SUBSET U |-> Pick1(s)]
AddTo(U, w) == [p \in U \X Nat |-> w[p[1]] + p[2]]

LEMMA Picked == \A s : s # {} => Pick1(s) \in s
BY DEF Pick1

LEMMA PickInPicks == ASSUME NEW U PROVE Picks(U, PickIn(U))
BY Picked DEF Picks, PickIn

LEMMA SumNat ==
  ASSUME NEW U, IsFiniteSet(U), NEW w, w \in [U -> Nat], NEW A \in SUBSET U, NEW h, SumOn(w, A, h)
  PROVE  \A s \in SUBSET A : h[s] \in Nat
<1>1. h[{}] \in Nat
  BY DEF SumOn
<1>2. ASSUME NEW s \in SUBSET A, s # {} PROVE \E x \in s : h[s \ {x}] \in Nat => h[s] \in Nat
  <2>1. Pick1(s) \in s
    BY <1>2, Picked
  <2>2. h[s] = w[Pick1(s)] + h[s \ {Pick1(s)}]
    BY <1>2 DEF SumOn
  <2>3. w[Pick1(s)] \in Nat
    BY <2>1
  <2>4. h[s \ {Pick1(s)}] \in Nat => h[s] \in Nat
    BY <2>2, <2>3
  <2> QED BY ONLY <2>1, <2>4
<1>3. IsFiniteSet(A)
  BY FS_Subset
<1> QED BY ONLY <1>1, <1>2, <1>3, FoldKeeps

LEMMA SumFold ==
  ASSUME NEW U, IsFiniteSet(U), NEW w, w \in [U -> Nat], NEW A \in SUBSET U, NEW h
  PROVE  SumOn(w, A, h) <=> FoldOn(A, PickIn(U), AddTo(U, w), 0, h)
<1>1. \A s \in SUBSET A : s # {} => Pick1(s) \in s /\ PickIn(U)[s] = Pick1(s) /\ Pick1(s) \in U
  BY Picked DEF PickIn
<1>2. \A x \in U, n \in Nat : AddTo(U, w)[<<x, n>>] = w[x] + n /\ w[x] + n \in Nat
  BY DEF AddTo
<1>3. ASSUME SumOn(w, A, h) PROVE FoldOn(A, PickIn(U), AddTo(U, w), 0, h)
  <2>1. \A s \in SUBSET A : h[s] \in Nat
    BY <1>3, SumNat
  <2>2. \A s \in SUBSET A : s # {} => w[Pick1(s)] + h[s \ {Pick1(s)}] = AddTo(U, w)[<<PickIn(U)[s], h[s \ {PickIn(U)[s]}]>>]
    <3> SUFFICES ASSUME NEW s \in SUBSET A, s # {}
                 PROVE w[Pick1(s)] + h[s \ {Pick1(s)}] = AddTo(U, w)[<<PickIn(U)[s], h[s \ {PickIn(U)[s]}]>>]
      OBVIOUS
    <3>1. h[s \ {Pick1(s)}] \in Nat
      <4>1. s \ {Pick1(s)} \in SUBSET A
        OBVIOUS
      <4> QED BY ONLY <2>1, <4>1
    <3> QED BY <1>1, <1>2, <3>1
  <2> QED BY <1>3, <2>2 DEF SumOn, FoldOn
<1>4. ASSUME FoldOn(A, PickIn(U), AddTo(U, w), 0, h) PROVE SumOn(w, A, h)
  <2>1. \A s \in SUBSET A : h[s] = IF s = {} THEN 0 ELSE AddTo(U, w)[<<PickIn(U)[s], h[s \ {PickIn(U)[s]}]>>]
    BY <1>4 DEF FoldOn
  <2>2. \A s \in SUBSET A : h[s] \in Nat
    <3>1. h[{}] \in Nat
      <4>1. h[{}] = 0
        BY <2>1
      <4> QED BY ONLY <4>1
    <3>2. ASSUME NEW s \in SUBSET A, s # {} PROVE \E x \in s : h[s \ {x}] \in Nat => h[s] \in Nat
      <4>1. Pick1(s) \in s /\ PickIn(U)[s] = Pick1(s) /\ Pick1(s) \in U
        BY <1>1, <3>2
      <4>2. h[s] = AddTo(U, w)[<<Pick1(s), h[s \ {Pick1(s)}]>>]
        BY <2>1, <3>2, <4>1
      <4> QED BY <1>2, <4>1, <4>2
    <3>3. IsFiniteSet(A)
      BY FS_Subset
    <3> QED BY ONLY <3>1, <3>2, <3>3, FoldKeeps
  <2>3. \A s \in SUBSET A : s # {} => w[Pick1(s)] + h[s \ {Pick1(s)}] = AddTo(U, w)[<<PickIn(U)[s], h[s \ {PickIn(U)[s]}]>>]
    <3> SUFFICES ASSUME NEW s \in SUBSET A, s # {}
                 PROVE w[Pick1(s)] + h[s \ {Pick1(s)}] = AddTo(U, w)[<<PickIn(U)[s], h[s \ {PickIn(U)[s]}]>>]
      OBVIOUS
    <3>1. h[s \ {Pick1(s)}] \in Nat
      BY <2>2
    <3> QED BY <1>1, <1>2, <3>1
  <2> QED BY <1>4, <2>3 DEF SumOn, FoldOn
<1> QED BY <1>3, <1>4

LEMMA SumExists ==
  ASSUME NEW U, IsFiniteSet(U), NEW w, w \in [U -> Nat], NEW S \in SUBSET U
  PROVE  \E h : SumOn(w, S, h)
<1>1. \E h : FoldOn(S, PickIn(U), AddTo(U, w), 0, h)
  BY PickInPicks, FoldExists
<1> QED BY <1>1, SumFold

LEMMA SumUnique ==
  ASSUME NEW U, IsFiniteSet(U), NEW w, w \in [U -> Nat],
         NEW A \in SUBSET U, NEW B \in SUBSET U, NEW h, NEW k, SumOn(w, A, h), SumOn(w, B, k)
  PROVE  \A v \in SUBSET (A \cap B) : h[v] = k[v]
<1>1. FoldOn(A, PickIn(U), AddTo(U, w), 0, h) /\ FoldOn(B, PickIn(U), AddTo(U, w), 0, k)
  BY SumFold
<1> QED BY <1>1, PickInPicks, FoldUnique

LEMMA TotalIs ==
  ASSUME NEW U, IsFiniteSet(U), NEW w, w \in [U -> Nat], NEW S \in SUBSET U
  PROVE  /\ Total(w, S) \in Nat
         /\ \A h : SumOn(w, S, h) => Total(w, S) = h[S]
         /\ S = {} => Total(w, S) = 0
         /\ S # {} => Total(w, S) = w[Pick1(S)] + Total(w, S \ {Pick1(S)})
<1> DEFINE g == CHOOSE x : SumOn(w, S, x)
<1>1. SumOn(w, S, g) /\ Total(w, S) = g[S]
  BY SumExists DEF Total
<1> HIDE DEF g
<1>2. g[S] = IF S = {} THEN 0 ELSE w[Pick1(S)] + g[S \ {Pick1(S)}]
  BY <1>1 DEF SumOn
<1>3. ASSUME S # {} PROVE g[S \ {Pick1(S)}] = Total(w, S \ {Pick1(S)})
  <2> DEFINE v == S \ {Pick1(S)}
             k == CHOOSE x : SumOn(w, v, x)
  <2>1. v \in SUBSET U /\ v \in SUBSET (S \cap v)
    OBVIOUS
  <2> HIDE DEF v
  <2>2. SumOn(w, v, k) /\ Total(w, v) = k[v]
    BY <2>1, SumExists DEF Total
  <2> HIDE DEF k
  <2>3. g[v] = k[v]
    BY <1>1, <2>1, <2>2, SumUnique
  <2> QED BY <2>2, <2>3 DEF v
<1>4. g[S] \in Nat
  BY <1>1, SumNat
<1>5. ASSUME NEW h, SumOn(w, S, h) PROVE g[S] = h[S]
  <2>1. S \in SUBSET (S \cap S)
    OBVIOUS
  <2> QED BY <1>1, <1>5, <2>1, SumUnique
<1> QED BY <1>1, <1>2, <1>3, <1>4, <1>5

LEMMA TotalNat ==
  ASSUME NEW U, IsFiniteSet(U), NEW w, w \in [U -> Nat], NEW S \in SUBSET U
  PROVE  Total(w, S) \in Nat
BY TotalIs

LEMMA TotalValue ==
  ASSUME NEW U, IsFiniteSet(U), NEW w, w \in [U -> Nat], NEW S \in SUBSET U, NEW h, SumOn(w, S, h)
  PROVE  Total(w, S) = h[S]
<1> DEFINE g == CHOOSE x : SumOn(w, S, x)
<1>1. SumOn(w, S, g) /\ Total(w, S) = g[S]
  BY DEF Total
<1> HIDE DEF g
<1>2. S \in SUBSET (S \cap S)
  OBVIOUS
<1>3. g[S] = h[S]
  BY <1>1, <1>2, SumUnique
<1> QED BY <1>1, <1>3

\* The order of summing does not matter.
LEMMA TotalRemoves ==
  ASSUME NEW U, IsFiniteSet(U), NEW w, w \in [U -> Nat], NEW S \in SUBSET U, NEW i \in S
  PROVE  Total(w, S) = w[i] + Total(w, S \ {i})
<1> DEFINE Bad == {T \in SUBSET U : \E x \in T : Total(w, T) # w[x] + Total(w, T \ {x})}
<1> SUFFICES ASSUME Bad # {} PROVE FALSE
  OBVIOUS
<1>1. PICK T \in Bad : \A v \in Bad : ~(v \subseteq T /\ v # T)
  <2>1. Bad \in SUBSET SUBSET U
    OBVIOUS
  <2> HIDE DEF Bad
  <2> QED BY ONLY IsFiniteSet(U), Bad # {}, <2>1, Smallest
<1>2. PICK x \in T : Total(w, T) # w[x] + Total(w, T \ {x})
  BY <1>1
<1> DEFINE c == Pick1(T)
<1>3. c \in T /\ Total(w, T) = w[c] + Total(w, T \ {c})
  BY <1>1, <1>2, Picked, TotalIs
<1> HIDE DEF c
<1>4. x # c
  BY <1>2, <1>3
<1>5. T \ {c} \notin Bad /\ T \ {x} \notin Bad /\ T \ {c} \in SUBSET U /\ T \ {x} \in SUBSET U
  BY <1>1, <1>2, <1>3
<1>6. x \in T \ {c} /\ c \in T \ {x}
  BY <1>2, <1>3, <1>4
<1>7. Total(w, T \ {c}) = w[x] + Total(w, (T \ {c}) \ {x}) /\ Total(w, T \ {x}) = w[c] + Total(w, (T \ {x}) \ {c})
  BY <1>5, <1>6
<1>8. (T \ {c}) \ {x} = (T \ {x}) \ {c}
  OBVIOUS
<1> DEFINE n == Total(w, (T \ {c}) \ {x})
<1>9. n \in Nat /\ w[x] \in Nat /\ w[c] \in Nat
  BY <1>1, <1>2, <1>3, TotalIs
<1>10. Total(w, T) = w[c] + (w[x] + n) /\ Total(w, T \ {x}) = w[c] + n
  BY <1>3, <1>7, <1>8
<1> HIDE DEF n
<1> QED BY ONLY <1>2, <1>9, <1>10

\* A sum depends on its summands alone.
LEMMA TotalSame ==
  ASSUME NEW U, IsFiniteSet(U), NEW w, w \in [U -> Nat], NEW v, v \in [U -> Nat],
         NEW S \in SUBSET U, \A x \in S : w[x] = v[x]
  PROVE  Total(w, S) = Total(v, S)
<1>1. PICK h : SumOn(w, S, h)
  BY SumExists
<1>2. \A s \in SUBSET S : s # {} => w[Pick1(s)] = v[Pick1(s)]
  BY Picked
<1>3. SumOn(v, S, h)
  BY <1>1, <1>2 DEF SumOn
<1>4. Total(w, S) = h[S]
  BY ONLY IsFiniteSet(U), w \in [U -> Nat], S \in SUBSET U, <1>1, TotalValue
<1>5. Total(v, S) = h[S]
  BY ONLY IsFiniteSet(U), v \in [U -> Nat], S \in SUBSET U, <1>3, TotalValue
<1> QED BY <1>4, <1>5
-----------------------------------------------------------------------------
(* Plans.  Ports are added in the order of their numbers: what every port  *)
(* keeps holds of the whole plan.                                          *)

TopOf(S) == [s \in SUBSET S |-> Max(s)]

LEMMA TopPicks ==
  ASSUME NEW S, S \subseteq Nat, IsFiniteSet(S)
  PROVE  /\ \A s \in SUBSET S : s # {} => Max(s) \in s
         /\ Picks(S, TopOf(S))
<1>1. ASSUME NEW s \in SUBSET S, s # {} PROVE Max(s) \in s
  <2>1. IsFiniteSet(s)
    BY ONLY s \in SUBSET S, IsFiniteSet(S), FS_Subset
  <2>2. s \in SUBSET Int
    OBVIOUS
  <2> QED BY ONLY <1>1, <2>1, <2>2, MaxIs
<1> QED BY <1>1 DEF Picks, TopOf

OrderedOn(S, base, g, h) ==
  h = [s \in SUBSET S |-> IF s = {} THEN base ELSE g[<<Max(s), h[s \ {Max(s)}]>>]]

LEMMA OrderedFold ==
  ASSUME NEW S, S \subseteq Nat, IsFiniteSet(S), NEW V, NEW base \in V,
         NEW g, \A x \in S, v \in V : g[<<x, v>>] \in V
  PROVE  \E h : OrderedOn(S, base, g, h) /\ \A s \in SUBSET S : h[s] \in V
<1>1. Picks(S, TopOf(S)) /\ \A s \in SUBSET S : s # {} => Max(s) \in s
  BY ONLY S \subseteq Nat, IsFiniteSet(S), TopPicks
<1>2. S \in SUBSET S
  OBVIOUS
<1>3. PICK h : FoldOn(S, TopOf(S), g, base, h)
  BY ONLY IsFiniteSet(S), <1>1, <1>2, FoldExists
<1>4. h = [s \in SUBSET S |-> IF s = {} THEN base ELSE g[<<Max(s), h[s \ {Max(s)}]>>]]
  BY <1>3 DEF FoldOn, TopOf
<1>5. \A s \in SUBSET S : h[s] \in V
  <2>1. h[{}] \in V
    BY <1>4
  <2>2. ASSUME NEW s \in SUBSET S, s # {} PROVE \E x \in s : h[s \ {x}] \in V => h[s] \in V
    <3>1. Max(s) \in s /\ Max(s) \in S
      BY <1>1, <2>2
    <3>2. h[s] = g[<<Max(s), h[s \ {Max(s)}]>>]
      BY <1>4, <2>2
    <3>3. h[s \ {Max(s)}] \in V => h[s] \in V
      BY <3>1, <3>2
    <3> QED BY ONLY <3>1, <3>3
  <2> QED BY ONLY IsFiniteSet(S), <2>1, <2>2, FoldKeeps
<1> QED BY <1>4, <1>5 DEF OrderedOn

PlanRow == [proto : ProtocolType, host : Nat, container : Nat, isGamePort : BOOLEAN]
Usage == [ProtocolType -> SUBSET Nat]
PlanType == [ok : BOOLEAN, used : Usage, rows : SUBSET PlanRow]

\* Rows of a plan take ports that were free, each for one row.
Clean(before) ==
  {p \in PlanType :
     /\ \A r \in p.rows : r.host \in p.used[r.proto] /\ r.host \notin before[r.proto]
     /\ \A r, s \in p.rows : r.proto = s.proto /\ r.host = s.host => r = s
     /\ p.ok => \A q \in ProtocolType : before[q] \subseteq p.used[q]}

LEMMA NoPlanClean == ASSUME NEW before PROVE NoPlan \in Clean(before)
BY DEF NoPlan, Clean, PlanType, Usage

\* plan is from with rows for what is wanted, pairs of a protocol and a
\* container port, and with no other rows.
Grows(from, plan, want) ==
  plan.ok =>
    /\ from.ok /\ from.rows \subseteq plan.rows
    /\ \A w \in want : \E r \in plan.rows : r.proto = w[1] /\ r.container = w[2]
    /\ \A r \in plan.rows \ from.rows : <<r.proto, r.container>> \in want /\ ~r.isGamePort

LEMMA GrowsNot == ASSUME NEW plan PROVE Grows(plan, plan, {})
BY DEF Grows

LEMMA GrowsOn ==
  ASSUME NEW a, NEW b, NEW c, NEW V, NEW W, Grows(a, b, V), Grows(b, c, W)
  PROVE  Grows(a, c, V \cup W)
<1> SUFFICES ASSUME c.ok
             PROVE  /\ a.ok /\ a.rows \subseteq c.rows
                    /\ \A w \in V \cup W : \E r \in c.rows : r.proto = w[1] /\ r.container = w[2]
                    /\ \A r \in c.rows \ a.rows : <<r.proto, r.container>> \in V \cup W /\ ~r.isGamePort
  BY DEF Grows
<1>1. /\ b.ok /\ b.rows \subseteq c.rows
      /\ \A w \in W : \E r \in c.rows : r.proto = w[1] /\ r.container = w[2]
      /\ \A r \in c.rows \ b.rows : <<r.proto, r.container>> \in W /\ ~r.isGamePort
  BY DEF Grows
<1>2. /\ a.ok /\ a.rows \subseteq b.rows
      /\ \A w \in V : \E r \in b.rows : r.proto = w[1] /\ r.container = w[2]
      /\ \A r \in b.rows \ a.rows : <<r.proto, r.container>> \in V /\ ~r.isGamePort
  BY <1>1 DEF Grows
<1> QED BY ONLY <1>1, <1>2

LEMMA ExtendGrows ==
  ASSUME NEW plan, NEW protos, NEW host, NEW container
  PROVE  /\ Grows(plan, Extend(plan, protos, host, container), protos \X {container})
         /\ \A r \in Extend(plan, protos, host, container).rows \ plan.rows :
              r.host = host /\ r.container = container
<1> DEFINE new == Rows(protos, host, container, FALSE)
           next == Extend(plan, protos, host, container)
<1>1. next.ok => plan.ok /\ next.rows = plan.rows \cup new
  BY DEF Extend, NoPlan
<1>2. next.rows \ plan.rows \subseteq new
  BY DEF Extend, NoPlan
<1> DEFINE One(p) == [proto |-> p, host |-> host, container |-> container, isGamePort |-> FALSE]
<1>r. new = {One(p) : p \in protos}
  <2>1. \A p : (FALSE /\ p = "tcp") = FALSE
    OBVIOUS
  <2> QED BY <2>1 DEF Rows
<1>o. \A p : /\ One(p).proto = p /\ One(p).container = container /\ One(p).host = host
             /\ One(p).isGamePort = FALSE
  OBVIOUS
<1> HIDE DEF One
<1>3. \A r \in new : /\ r.proto \in protos /\ r.container = container /\ r.host = host
                     /\ r.isGamePort = FALSE
  BY <1>r, <1>o
<1>4. \A p \in protos : \E r \in new : r.proto = p /\ r.container = container
  BY <1>r, <1>o
<1> HIDE DEF new, next
<1>5. Grows(plan, next, protos \X {container})
  BY <1>1, <1>3, <1>4 DEF Grows
<1> QED BY <1>2, <1>3, <1>5 DEF next

LEMMA MarkUsedIs ==
  ASSUME NEW used \in Usage, NEW protos \in SUBSET ProtocolType, NEW port \in Nat
  PROVE  /\ markUsed(used, protos, port) \in Usage
         /\ \A q \in ProtocolType : used[q] \subseteq markUsed(used, protos, port)[q]
         /\ \A q \in protos : port \in markUsed(used, protos, port)[q]
BY DEF markUsed, Usage

LEMMA RowsType ==
  ASSUME NEW protos \in SUBSET ProtocolType, NEW host \in Nat, NEW container \in Nat, NEW base
  PROVE  \A r \in Rows(protos, host, container, base) :
            r \in PlanRow /\ r.proto \in protos /\ r.host = host /\ r.isGamePort = (base /\ r.proto = "tcp")
<1> SUFFICES ASSUME NEW r \in Rows(protos, host, container, base)
             PROVE  r \in PlanRow /\ r.proto \in protos /\ r.host = host /\ r.isGamePort = (base /\ r.proto = "tcp")
  OBVIOUS
<1>1. PICK p \in protos : r = [proto |-> p, host |-> host, container |-> container,
                              isGamePort |-> base /\ p = "tcp"]
  BY DEF Rows
<1>2. (base /\ p = "tcp") \in BOOLEAN
  OBVIOUS
<1> DEFINE mark == base /\ p = "tcp"
<1> HIDE DEF mark
<1>3. r = [proto |-> p, host |-> host, container |-> container, isGamePort |-> mark] /\ mark \in BOOLEAN
  BY <1>1, <1>2 DEF mark
<1>4. r \in PlanRow /\ r.proto = p /\ r.host = host /\ r.isGamePort = mark
  BY <1>3 DEF PlanRow
<1> QED BY <1>4 DEF mark

LEMMA ExtendClean ==
  ASSUME NEW before, NEW plan \in Clean(before), NEW protos \in SUBSET ProtocolType,
         NEW host \in Nat, NEW container \in Nat,
         plan.ok /\ host # NoPort => ~portInUse(plan.used, protos, host)
  PROVE  Extend(plan, protos, host, container) \in Clean(before)
<1> DEFINE new == Rows(protos, host, container, FALSE)
           used == markUsed(plan.used, protos, host)
           next == [ok |-> TRUE, used |-> used, rows |-> plan.rows \cup new]
<1>1. CASE ~plan.ok \/ host = NoPort
  BY <1>1, NoPlanClean DEF Extend
<1>2. CASE plan.ok /\ host # NoPort
  <2>1. Extend(plan, protos, host, container) = next
    BY <1>2 DEF Extend
  <2>2. plan \in PlanType /\ plan.used \in Usage /\ plan.rows \in SUBSET PlanRow
    BY DEF Clean, PlanType
  <2>3. /\ used \in Usage
        /\ \A q \in ProtocolType : plan.used[q] \subseteq used[q]
        /\ \A q \in protos : host \in used[q]
    BY <2>2, MarkUsedIs
  <2>4. \A r \in new : r \in PlanRow /\ r.proto \in protos /\ r.host = host
    <3> DEFINE base == FALSE
    <3>1. new = Rows(protos, host, container, base)
      OBVIOUS
    <3> HIDE DEF base, new
    <3> QED BY <3>1, RowsType
  <2>5. \A r, s \in new : r.proto = s.proto => r = s
    BY DEF Rows
  <2>6. \A q \in protos : host \notin plan.used[q]
    BY <1>2 DEF portInUse
  <2>7. /\ \A r \in plan.rows : r.proto \in ProtocolType /\ r.host \in plan.used[r.proto] /\ r.host \notin before[r.proto]
        /\ \A r, s \in plan.rows : r.proto = s.proto /\ r.host = s.host => r = s
        /\ \A q \in ProtocolType : before[q] \subseteq plan.used[q]
    BY <1>2, <2>2 DEF Clean, PlanRow
  <2> HIDE DEF new, used
  <2>8. next \in PlanType
    BY <2>2, <2>3, <2>4 DEF PlanType
  <2>9. \A r \in plan.rows \cup new : r.host \in used[r.proto] /\ r.host \notin before[r.proto]
    BY <2>3, <2>4, <2>6, <2>7
  <2>10. \A r, s \in plan.rows \cup new : r.proto = s.proto /\ r.host = s.host => r = s
    BY <2>4, <2>5, <2>6, <2>7
  <2>11. \A q \in ProtocolType : before[q] \subseteq used[q]
    BY <2>3, <2>7
  <2>12. next.rows = plan.rows \cup new /\ next.used = used
    OBVIOUS
  <2> HIDE DEF next
  <2> QED BY ONLY <2>1, <2>8, <2>9, <2>10, <2>11, <2>12 DEF Clean
<1> QED BY <1>1, <1>2

LEMMA PortsAreNumbers == Port \subseteq Nat /\ NoPort \in Nat
BY DEF Port, NoPort, MaxPort

LEMMA PortBounds ==
  /\ {TCP_PORT_BEGIN, TCP_PORT_END, UDP_PORT_BEGIN, UDP_PORT_END} \subseteq Nat
  /\ TCP_PORT_BEGIN <= TCP_PORT_END
BY PortRanges, PortsAreNumbers

LEMMA ExcerptIs ==
  ASSUME NEW e \in PortExcerpt
  PROVE  e.proto \in ProtocolType /\ e.begin \in Nat /\ e.len \in Nat /\ e.isGamePort \in BOOLEAN
BY PortsAreNumbers DEF PortExcerpt

LEMMA AllocateIs ==
  ASSUME NEW protos, NEW used
  PROVE  /\ allocateHostPort(protos, used) \in Nat
         /\ allocateHostPort(protos, used) # NoPort => ~portInUse(used, protos, allocateHostPort(protos, used))
<1> DEFINE range == IF protos = {"udp"} THEN UDP_PORT_BEGIN .. UDP_PORT_END
                                        ELSE TCP_PORT_BEGIN .. TCP_PORT_END
           free == {h \in range : ~portInUse(used, protos, h)}
<1>1. free \in SUBSET Nat /\ NoPort \in Nat
  BY PortBounds, PortsAreNumbers
<1>2. allocateHostPort(protos, used) = IF free = {} THEN NoPort ELSE Min(free)
  BY DEF allocateHostPort
<1>3. ASSUME free # {} PROVE Min(free) \in Nat /\ ~portInUse(used, protos, Min(free))
  <2>1. Min(free) \in free
    <3> HIDE DEF free
    <3> QED BY <1>1, <1>3, MinNat
  <2> QED BY <1>1, <2>1
<1> HIDE DEF free
<1> QED BY <1>1, <1>2, <1>3

LEMMA ImageFinite ==
  ASSUME NEW S, IsFiniteSet(S), NEW f
  PROVE  IsFiniteSet({f[x] : x \in S})
<1> DEFINE T == {f[x] : x \in S}
           g == [x \in S |-> f[x]]
<1>1. g \in Surjection(S, T)
  BY DEF Surjection
<1> HIDE DEF T, g
<1>2. IsFiniteSet(T)
  BY <1>1, FS_Surjection
<1> QED BY <1>2 DEF T

LEMMA ExcerptFacts ==
  ASSUME NEW es \in Seq(PortExcerpt)
  PROVE  /\ DOMAIN es \subseteq Nat /\ IsFiniteSet(DOMAIN es)
         /\ \A n \in DOMAIN es : es[n] \in PortExcerpt
         /\ \A e \in PortExcerpt : PortsOf(e) \subseteq Nat /\ IsFiniteSet(PortsOf(e))
         /\ Declared(es) \subseteq Nat /\ IsFiniteSet(Declared(es))
         /\ \A port : portRequirement(es, port) \in SUBSET ProtocolType
<1>1. DOMAIN es = 1 .. Len(es) /\ Len(es) \in Nat /\ \A n \in DOMAIN es : es[n] \in PortExcerpt
  OBVIOUS
<1>2. DOMAIN es \subseteq Nat /\ IsFiniteSet(DOMAIN es)
  BY <1>1, FS_Interval
<1>3. ASSUME NEW e \in PortExcerpt PROVE PortsOf(e) \subseteq Nat /\ IsFiniteSet(PortsOf(e))
  <2>1. e.begin \in Nat /\ e.len \in Nat
    BY ExcerptIs
  <2>2. e.begin \in Int /\ e.begin + e.len - 1 \in Int
    BY <2>1
  <2>3. IsFiniteSet(PortsOf(e))
    BY ONLY <2>2, FS_Interval DEF PortsOf
  <2> QED BY ONLY <2>1, <2>3 DEF PortsOf
<1> DEFINE f == [n \in DOMAIN es |-> PortsOf(es[n])]
<1>4. Declared(es) = UNION {f[n] : n \in DOMAIN es}
  BY DEF Declared, PortExcerpts, ToSet
<1>5. \A n \in DOMAIN es : f[n] \subseteq Nat /\ IsFiniteSet(f[n])
  BY <1>1, <1>3
<1>6. Declared(es) \subseteq Nat
  BY <1>4, <1>5
<1>7. IsFiniteSet(Declared(es))
  <2> HIDE DEF f
  <2> DEFINE T == {f[n] : n \in DOMAIN es}
  <2>1. IsFiniteSet(T)
    BY ONLY <1>2, ImageFinite
  <2>2. \A t \in T : IsFiniteSet(t)
    BY <1>5
  <2> HIDE DEF T
  <2>3. IsFiniteSet(UNION T)
    BY <2>1, <2>2, FS_UNION
  <2> QED BY <1>4, <2>3 DEF T
<1>8. \A port : portRequirement(es, port) \in SUBSET ProtocolType
  <2>1. \A e \in PortExcerpts(es) : e.proto \in ProtocolType
    BY <1>1, ExcerptIs DEF PortExcerpts, ToSet
  <2> QED BY <2>1 DEF portRequirement
<1> QED BY <1>1, <1>2, <1>3, <1>6, <1>7, <1>8

LEMMA PlacePortClean ==
  ASSUME NEW c \in ContainerConfig, NEW port \in Nat, NEW before, NEW plan \in Clean(before)
  PROVE  PlacePort(c, port, plan) \in Clean(before)
<1> DEFINE protos == portRequirement(c.excerpts, port)
           host == IF c.mode = "nat" THEN allocateHostPort(protos, plan.used)
                   ELSE IF portInUse(plan.used, protos, port) THEN NoPort ELSE port
<1>1. protos \in SUBSET ProtocolType
  <2>1. c.excerpts \in Seq(PortExcerpt)
    BY DEF ContainerConfig
  <2> QED BY <2>1, ExcerptFacts
<1> HIDE DEF protos
<1>2. host \in Nat /\ (host # NoPort => ~portInUse(plan.used, protos, host))
  BY AllocateIs, PortsAreNumbers
<1>3. PlacePort(c, port, plan) = Extend(plan, protos, host, port)
  BY DEF PlacePort, protos
<1> HIDE DEF host
<1> QED BY <1>1, <1>2, <1>3, ExtendClean

\* The pairs of protocol and port that excerpts declare for the ports of s.
Wanted(es, s) == {w \in ProtocolType \X s : w[1] \in portRequirement(es, w[2])}

\* A plan from nothing that serves the ports of s, each on one host port.
Serves(es, used, plan, s) ==
  /\ Grows([ok |-> TRUE, used |-> used, rows |-> {}], plan, Wanted(es, s))
  /\ plan.ok => \A r, t \in plan.rows : r.container = t.container => r.host = t.host

LEMMA PlacePortServes ==
  ASSUME NEW c \in ContainerConfig, NEW used, NEW s, NEW x \in s, NEW plan,
         Serves(c.excerpts, used, plan, s \ {x})
  PROVE  Serves(c.excerpts, used, PlacePort(c, x, plan), s)
<1> DEFINE protos == portRequirement(c.excerpts, x)
           start == [ok |-> TRUE, used |-> used, rows |-> {}]
           next == PlacePort(c, x, plan)
           old == Wanted(c.excerpts, s \ {x})
<1>1. PICK host : next = Extend(plan, protos, host, x)
  BY DEF PlacePort
<1>2. protos \in SUBSET ProtocolType
  <2>1. c.excerpts \in Seq(PortExcerpt)
    BY DEF ContainerConfig
  <2> QED BY <2>1, ExcerptFacts
<1>3. Grows(plan, next, protos \X {x}) /\ \A r \in next.rows \ plan.rows : r.host = host /\ r.container = x
  <2> HIDE DEF protos, next
  <2> QED BY <1>1, ExtendGrows
<1>4. old \cup (protos \X {x}) = Wanted(c.excerpts, s)
  BY <1>2 DEF Wanted
<1>5. Grows(start, plan, old) /\ (plan.ok => \A r, t \in plan.rows : r.container = t.container => r.host = t.host)
  BY DEF Serves
<1>6. \A w \in old : w[2] # x
  BY DEF Wanted
<1>7. start.rows = {}
  OBVIOUS
<1> HIDE DEF next, start, old
<1>8. Grows(start, next, Wanted(c.excerpts, s))
  <2> HIDE DEF protos
  <2>1. Grows(start, next, old \cup (protos \X {x}))
    BY ONLY <1>3, <1>5, GrowsOn
  <2> QED BY ONLY <1>4, <2>1
<1>9. ASSUME next.ok PROVE \A r, t \in next.rows : r.container = t.container => r.host = t.host
  <2>1. plan.ok
    BY <1>3, <1>9 DEF Grows
  <2>2. \A r \in plan.rows : r.container # x
    <3> SUFFICES ASSUME NEW r \in plan.rows, r.container = x PROVE FALSE
      OBVIOUS
    <3>1. <<r.proto, r.container>> \in old
      BY <1>5, <1>7, <2>1 DEF Grows
    <3> QED BY <1>6, <3>1
  <2> QED BY <1>3, <1>5, <2>1, <2>2
<1> QED BY <1>8, <1>9 DEF Serves, start, next

LEMMA NatPlan ==
  ASSUME NEW c \in ContainerConfig, NEW used \in Usage
  PROVE  /\ planPortsNAT(c, used) \in Clean(used)
         /\ Serves(c.excerpts, used, planPortsNAT(c, used), Declared(c.excerpts))
<1> DEFINE S == Declared(c.excerpts)
           V == Clean(used)
           start == [ok |-> TRUE, used |-> used, rows |-> {}]
           On(h) == h = [s \in SUBSET S |-> IF s = {} THEN start ELSE PlacePort(c, Max(s), h[s \ {Max(s)}])]
           g == [p \in S \X V |-> PlacePort(c, p[1], p[2])]
<1>1. planPortsNAT(c, used) = (CHOOSE h : On(h))[S]
  BY DEF planPortsNAT, InOrder, MapThenFoldSet
<1>2. S \subseteq Nat /\ IsFiniteSet(S)
  <2>1. c.excerpts \in Seq(PortExcerpt)
    BY DEF ContainerConfig
  <2> QED BY <2>1, ExcerptFacts
<1>3. start \in V
  BY DEF Clean, PlanType, Usage
<1>4. \A x \in S, v \in V : g[<<x, v>>] = PlacePort(c, x, v) /\ PlacePort(c, x, v) \in V
  BY <1>2, PlacePortClean
<1> HIDE DEF S, V, start, g
<1>5. PICK h : OrderedOn(S, start, g, h) /\ \A s \in SUBSET S : h[s] \in V
  <2>1. \A x \in S, v \in V : g[<<x, v>>] \in V
    BY <1>4
  <2> QED BY ONLY <1>2, <1>3, <2>1, OrderedFold
<1>6. \A s \in SUBSET S : s # {} => Max(s) \in s /\ Max(s) \in S
  BY <1>2, TopPicks
<1>7. On(h)
  <2>1. \A s \in SUBSET S : s # {} => g[<<Max(s), h[s \ {Max(s)}]>>] = PlacePort(c, Max(s), h[s \ {Max(s)}])
    <3> SUFFICES ASSUME NEW s \in SUBSET S, s # {}
                 PROVE g[<<Max(s), h[s \ {Max(s)}]>>] = PlacePort(c, Max(s), h[s \ {Max(s)}])
      OBVIOUS
    <3>1. s \ {Max(s)} \in SUBSET S
      OBVIOUS
    <3> QED BY <1>4, <1>5, <1>6, <3>1
  <2> QED BY <1>5, <2>1 DEF OrderedOn
<1> DEFINE k == CHOOSE x : On(x)
<1>8. On(k)
  BY <1>7
<1> HIDE DEF k
<1>9. \A s \in SUBSET S : k[s] \in V
  <2>1. k[{}] \in V
    BY <1>3, <1>8
  <2>2. ASSUME NEW s \in SUBSET S, s # {} PROVE \E x \in s : k[s \ {x}] \in V => k[s] \in V
    <3>1. Max(s) \in s /\ Max(s) \in S
      BY <1>6, <2>2
    <3>2. k[s] = PlacePort(c, Max(s), k[s \ {Max(s)}])
      BY <1>8, <2>2
    <3>3. k[s \ {Max(s)}] \in V => k[s] \in V
      BY <1>4, <3>1, <3>2
    <3> QED BY ONLY <3>1, <3>3
  <2> QED BY ONLY <1>2, <2>1, <2>2, FoldKeeps
<1> DEFINE W == [s \in SUBSET S |-> {p \in V : Serves(c.excerpts, used, p, s)}]
<1>10. \A s \in SUBSET S : W[s] = {p \in V : Serves(c.excerpts, used, p, s)}
  OBVIOUS
<1>11. k[{}] \in W[{}]
  <2>1. k[{}] = start /\ k[{}] \in V
    BY <1>8, <1>9
  <2>2. Wanted(c.excerpts, {}) = {}
    BY DEF Wanted
  <2>3. Serves(c.excerpts, used, start, {})
    BY <2>2, GrowsNot DEF Serves, start
  <2> QED BY <1>10, <2>1, <2>3
<1>12. ASSUME NEW s \in SUBSET S, s # {} PROVE \E x \in s : k[s \ {x}] \in W[s \ {x}] => k[s] \in W[s]
  <2>1. Max(s) \in s
    BY <1>6, <1>12
  <2>2. k[s] = PlacePort(c, Max(s), k[s \ {Max(s)}]) /\ k[s] \in V
    BY <1>8, <1>9, <1>12
  <2>3. k[s \ {Max(s)}] \in W[s \ {Max(s)}] => Serves(c.excerpts, used, k[s \ {Max(s)}], s \ {Max(s)})
    BY <1>10
  <2>4. Serves(c.excerpts, used, k[s \ {Max(s)}], s \ {Max(s)}) => Serves(c.excerpts, used, k[s], s)
    BY <2>1, <2>2, PlacePortServes
  <2> QED BY <1>10, <2>1, <2>2, <2>3, <2>4
<1>13. k[S] \in W[S]
  <2> HIDE DEF W
  <2>1. \A s \in SUBSET S : k[s] \in W[s]
    BY ONLY <1>2, <1>11, <1>12, FoldBuilds
  <2> QED BY <2>1
<1> QED BY <1>1, <1>10, <1>13 DEF V, k, S

LEMMA ExcerptPlan ==
  ASSUME NEW e \in PortExcerpt, NEW before, NEW start \in Clean(before)
  PROVE  /\ PlaceExcerpt(e, start) \in Clean(before)
         /\ Grows(start, PlaceExcerpt(e, start), {e.proto} \X PortsOf(e))
<1> DEFINE S == PortsOf(e)
           V == Clean(before)
           Add(n, plan) == Extend(plan, {e.proto}, allocateHostPort({e.proto}, plan.used), n)
           On(h) == h = [s \in SUBSET S |-> IF s = {} THEN start ELSE Add(Max(s), h[s \ {Max(s)}])]
           g == [p \in S \X V |-> Add(p[1], p[2])]
<1>1. PlaceExcerpt(e, start) = (CHOOSE h : On(h))[S]
  BY DEF PlaceExcerpt, InOrder, MapThenFoldSet
<1>2. S \subseteq Nat /\ IsFiniteSet(S)
  <2>1. <<>> \in Seq(PortExcerpt)
    OBVIOUS
  <2> QED BY <2>1, ExcerptFacts
<1>3. \A x \in S, v \in V : Add(x, v) \in V
  <2>1. {e.proto} \in SUBSET ProtocolType
    BY ExcerptIs
  <2>2. ASSUME NEW x \in S, NEW v \in V PROVE Add(x, v) \in V
    <3> DEFINE host == allocateHostPort({e.proto}, v.used)
               protos == {e.proto}
    <3>1. host \in Nat /\ (host # NoPort => ~portInUse(v.used, protos, host)) /\ x \in Nat
      BY <1>2, AllocateIs
    <3> HIDE DEF host, protos
    <3>2. Extend(v, protos, host, x) \in V
      BY <2>1, <3>1, ExtendClean DEF protos
    <3> QED BY <3>2 DEF host, protos
  <2> QED BY <2>2
<1> HIDE DEF Add
<1>4. \A x \in S, v \in V : g[<<x, v>>] = Add(x, v) /\ g[<<x, v>>] \in V
  BY <1>3
<1> HIDE DEF S, V, g
<1>5. PICK h : OrderedOn(S, start, g, h) /\ \A s \in SUBSET S : h[s] \in V
  <2>1. start \in V /\ \A x \in S, v \in V : g[<<x, v>>] \in V
    BY <1>4 DEF V
  <2> QED BY ONLY <1>2, <2>1, OrderedFold
<1>6. \A s \in SUBSET S : s # {} => Max(s) \in s /\ Max(s) \in S
  BY <1>2, TopPicks
<1>7. On(h)
  <2>1. \A s \in SUBSET S : s # {} => g[<<Max(s), h[s \ {Max(s)}]>>] = Add(Max(s), h[s \ {Max(s)}])
    <3> SUFFICES ASSUME NEW s \in SUBSET S, s # {}
                 PROVE g[<<Max(s), h[s \ {Max(s)}]>>] = Add(Max(s), h[s \ {Max(s)}])
      OBVIOUS
    <3>1. s \ {Max(s)} \in SUBSET S
      OBVIOUS
    <3> QED BY <1>4, <1>5, <1>6, <3>1
  <2> QED BY <1>5, <2>1 DEF OrderedOn
<1> DEFINE k == CHOOSE x : On(x)
<1>8. On(k)
  BY <1>7
<1> HIDE DEF k
<1>9. \A s \in SUBSET S : k[s] \in V
  <2>1. k[{}] \in V
    BY <1>8 DEF V
  <2>2. ASSUME NEW s \in SUBSET S, s # {} PROVE \E x \in s : k[s \ {x}] \in V => k[s] \in V
    <3>1. Max(s) \in s /\ Max(s) \in S
      BY <1>6, <2>2
    <3>2. k[s] = Add(Max(s), k[s \ {Max(s)}])
      BY <1>8, <2>2
    <3>3. k[s \ {Max(s)}] \in V => k[s] \in V
      BY <1>3, <3>1, <3>2
    <3> QED BY ONLY <3>1, <3>3
  <2> QED BY ONLY <1>2, <2>1, <2>2, FoldKeeps
<1> DEFINE W == [s \in SUBSET S |-> {p \in V : Grows(start, p, {e.proto} \X s)}]
<1>10. \A s \in SUBSET S : W[s] = {p \in V : Grows(start, p, {e.proto} \X s)}
  OBVIOUS
<1>11. k[{}] \in W[{}]
  <2>1. k[{}] = start /\ k[{}] \in V
    BY <1>8, <1>9
  <2>2. {e.proto} \X {} = {}
    OBVIOUS
  <2> QED BY <1>10, <2>1, <2>2, GrowsNot
<1>12. ASSUME NEW s \in SUBSET S, s # {} PROVE \E x \in s : k[s \ {x}] \in W[s \ {x}] => k[s] \in W[s]
  <2> DEFINE x == Max(s)
             prev == k[s \ {x}]
  <2>1. x \in s
    BY <1>6, <1>12
  <2>2. k[s] = Add(x, prev) /\ k[s] \in V
    BY <1>8, <1>9, <1>12
  <2>3. prev \in W[s \ {x}] => Grows(start, prev, {e.proto} \X (s \ {x}))
    BY <1>10
  <2> HIDE DEF x, prev
  <2>4. Grows(prev, k[s], {e.proto} \X {x})
    BY <2>2, ExtendGrows DEF Add
  <2>5. ({e.proto} \X (s \ {x})) \cup ({e.proto} \X {x}) = {e.proto} \X s
    BY <2>1
  <2>6. Grows(start, prev, {e.proto} \X (s \ {x})) => Grows(start, k[s], {e.proto} \X s)
    BY <2>4, <2>5, GrowsOn
  <2>7. prev \in W[s \ {x}] => k[s] \in W[s]
    BY <1>10, <2>2, <2>3, <2>6
  <2> QED BY <2>1, <2>7 DEF prev
<1>13. k[S] \in W[S]
  <2> HIDE DEF W
  <2>1. \A s \in SUBSET S : k[s] \in W[s]
    BY ONLY <1>2, <1>11, <1>12, FoldBuilds
  <2> QED BY <2>1
<1> QED BY <1>1, <1>10, <1>13 DEF V, k, S

\* What the excerpts with numbers in s declare, one by one.
Listed(es, s) == UNION {{es[n].proto} \X PortsOf(es[n]) : n \in s}

LEMMA ExtraPlan ==
  ASSUME NEW es \in Seq(PortExcerpt), NEW base, NEW before, NEW start \in Clean(before)
  PROVE  /\ mapPortExtraNAT(es, base, start) \in Clean(before)
         /\ Grows(start, mapPortExtraNAT(es, base, start),
                  Listed(es, {n \in DOMAIN es : es[n].begin < base}))
<1> DEFINE S == {n \in DOMAIN es : es[n].begin < base}
           V == Clean(before)
           Add(n, plan) == PlaceExcerpt(es[n], plan)
           On(h) == h = [s \in SUBSET S |-> IF s = {} THEN start ELSE Add(Max(s), h[s \ {Max(s)}])]
           g == [p \in S \X V |-> Add(p[1], p[2])]
<1>1. mapPortExtraNAT(es, base, start) = (CHOOSE h : On(h))[S]
  BY DEF mapPortExtraNAT, InOrder, MapThenFoldSet
<1>2. S \subseteq Nat /\ IsFiniteSet(S)
  <2>1. S \in SUBSET DOMAIN es
    OBVIOUS
  <2>2. DOMAIN es \subseteq Nat /\ IsFiniteSet(DOMAIN es)
    BY ExcerptFacts
  <2> HIDE DEF S
  <2> QED BY ONLY <2>1, <2>2, FS_Subset
<1>3. \A x \in S, v \in V : Add(x, v) \in V
  <2>1. \A n \in S : es[n] \in PortExcerpt
    BY ExcerptFacts
  <2> QED BY <2>1, ExcerptPlan
<1>a. \A x \in S, v \in V : Grows(v, Add(x, v), {es[x].proto} \X PortsOf(es[x]))
  <2>1. \A n \in S : es[n] \in PortExcerpt
    BY ExcerptFacts
  <2> QED BY <2>1, ExcerptPlan
<1> HIDE DEF Add
<1>4. \A x \in S, v \in V : g[<<x, v>>] = Add(x, v) /\ g[<<x, v>>] \in V
  BY <1>3
<1> HIDE DEF S, V, g
<1>5. PICK h : OrderedOn(S, start, g, h) /\ \A s \in SUBSET S : h[s] \in V
  <2>1. start \in V /\ \A x \in S, v \in V : g[<<x, v>>] \in V
    BY <1>4 DEF V
  <2> QED BY ONLY <1>2, <2>1, OrderedFold
<1>6. \A s \in SUBSET S : s # {} => Max(s) \in s /\ Max(s) \in S
  BY <1>2, TopPicks
<1>7. On(h)
  <2>1. \A s \in SUBSET S : s # {} => g[<<Max(s), h[s \ {Max(s)}]>>] = Add(Max(s), h[s \ {Max(s)}])
    <3> SUFFICES ASSUME NEW s \in SUBSET S, s # {}
                 PROVE g[<<Max(s), h[s \ {Max(s)}]>>] = Add(Max(s), h[s \ {Max(s)}])
      OBVIOUS
    <3>1. s \ {Max(s)} \in SUBSET S
      OBVIOUS
    <3> QED BY <1>4, <1>5, <1>6, <3>1
  <2> QED BY <1>5, <2>1 DEF OrderedOn
<1> DEFINE k == CHOOSE x : On(x)
<1>8. On(k)
  BY <1>7
<1> HIDE DEF k
<1>9. \A s \in SUBSET S : k[s] \in V
  <2>1. k[{}] \in V
    BY <1>8 DEF V
  <2>2. ASSUME NEW s \in SUBSET S, s # {} PROVE \E x \in s : k[s \ {x}] \in V => k[s] \in V
    <3>1. Max(s) \in s /\ Max(s) \in S
      BY <1>6, <2>2
    <3>2. k[s] = Add(Max(s), k[s \ {Max(s)}])
      BY <1>8, <2>2
    <3>3. k[s \ {Max(s)}] \in V => k[s] \in V
      BY <1>3, <3>1, <3>2
    <3> QED BY ONLY <3>1, <3>3
  <2> QED BY ONLY <1>2, <2>1, <2>2, FoldKeeps
<1> DEFINE W == [s \in SUBSET S |-> {p \in V : Grows(start, p, Listed(es, s))}]
<1>10. \A s \in SUBSET S : W[s] = {p \in V : Grows(start, p, Listed(es, s))}
  OBVIOUS
<1>11. k[{}] \in W[{}]
  <2>1. k[{}] = start /\ k[{}] \in V
    BY <1>8, <1>9
  <2>2. Listed(es, {}) = {}
    BY DEF Listed
  <2> QED BY <1>10, <2>1, <2>2, GrowsNot
<1>12. ASSUME NEW s \in SUBSET S, s # {} PROVE \E x \in s : k[s \ {x}] \in W[s \ {x}] => k[s] \in W[s]
  <2> DEFINE x == Max(s)
             prev == k[s \ {x}]
             here == {es[x].proto} \X PortsOf(es[x])
  <2>1. x \in s /\ x \in S
    BY <1>6, <1>12
  <2>2. k[s] = Add(x, prev) /\ k[s] \in V /\ prev \in V
    BY <1>8, <1>9, <1>12
  <2>3. prev \in W[s \ {x}] => Grows(start, prev, Listed(es, s \ {x}))
    BY <1>10
  <2> HIDE DEF x, prev
  <2>4. Grows(prev, k[s], here)
    BY <1>a, <2>1, <2>2
  <2>5. Listed(es, s \ {x}) \cup here = Listed(es, s)
    BY <2>1 DEF Listed
  <2> HIDE DEF here
  <2>6. Grows(start, prev, Listed(es, s \ {x})) => Grows(start, k[s], Listed(es, s))
    BY <2>4, <2>5, GrowsOn
  <2>7. prev \in W[s \ {x}] => k[s] \in W[s]
    BY <1>10, <2>2, <2>3, <2>6
  <2> QED BY <2>1, <2>7 DEF prev
<1>13. k[S] \in W[S]
  <2> HIDE DEF W
  <2>1. \A s \in SUBSET S : k[s] \in W[s]
    BY ONLY <1>2, <1>11, <1>12, FoldBuilds
  <2> QED BY <2>1
<1> QED BY <1>1, <1>10, <1>13 DEF V, k, S

LEMMA BlockFacts ==
  ASSUME NEW es \in Seq(PortExcerpt)
  PROVE  /\ gameBase(es) \in Nat /\ blockLen(es) \in Int /\ blockLen(es) >= 1
         /\ \A e \in PortExcerpts(es) :
              e.begin >= gameBase(es) => e.begin + e.len - gameBase(es) <= blockLen(es)
<1>1. DOMAIN es \subseteq Nat /\ IsFiniteSet(DOMAIN es) /\ \A n \in DOMAIN es : es[n] \in PortExcerpt
  BY ExcerptFacts
<1>2. \A n \in DOMAIN es : es[n].begin \in Nat /\ es[n].len \in Nat
  BY <1>1, ExcerptIs
<1> DEFINE marked == {n \in DOMAIN es : es[n].isGamePort}
<1>3. gameBase(es) \in Nat
  <2>1. gameBase(es) = IF marked = {} THEN 0 ELSE es[Min(marked)].begin
    BY DEF gameBase
  <2>2. marked \in SUBSET Nat /\ marked \subseteq DOMAIN es
    BY <1>1
  <2> HIDE DEF marked
  <2>3. marked # {} => Min(marked) \in marked
    BY <2>2, MinNat
  <2>4. marked # {} => es[Min(marked)].begin \in Nat
    BY ONLY <1>2, <2>2, <2>3
  <2> QED BY ONLY <2>1, <2>4
<1> DEFINE f == [n \in DOMAIN es |-> es[n].begin + es[n].len - gameBase(es)]
           W == {f[n] : n \in DOMAIN es}
           T == {e.begin + e.len - gameBase(es) : e \in {x \in PortExcerpts(es) : x.begin >= gameBase(es)}}
<1>4. IsFiniteSet(W)
  <2> HIDE DEF f
  <2> QED BY ONLY <1>1, ImageFinite
<1>5. T \in SUBSET W
  BY DEF PortExcerpts, ToSet
<1>6. W \subseteq Int
  BY <1>2, <1>3
<1>7. blockLen(es) = Max({1} \cup T)
  BY DEF blockLen
<1> HIDE DEF T, W
<1>8. IsFiniteSet({1} \cup T)
  <2>1. IsFiniteSet(T)
    BY ONLY <1>4, <1>5, FS_Subset
  <2>2. IsFiniteSet({1})
    BY ONLY FS_Singleton
  <2> QED BY ONLY <2>1, <2>2, FS_Union
<1> DEFINE X == {1} \cup T
<1>9. X \in SUBSET Int /\ X # {}
  BY <1>5, <1>6
<1>10. Max(X) \in X /\ \A y \in X : Max(X) >= y
  <2>1. IsFiniteSet(X)
    BY <1>8
  <2> HIDE DEF X
  <2> QED BY ONLY <1>9, <2>1, MaxIs
<1>11. Max(X) \in Int /\ Max(X) >= 1 /\ \A y \in T : Max(X) >= y
  <2>1. 1 \in X /\ T \subseteq X
    OBVIOUS
  <2> HIDE DEF X
  <2> QED BY ONLY <1>9, <1>10, <2>1
<1> HIDE DEF X
<1>12. ASSUME NEW e \in PortExcerpts(es), e.begin >= gameBase(es)
       PROVE  e.begin + e.len - gameBase(es) <= blockLen(es)
  <2>1. e.begin + e.len - gameBase(es) \in T
    BY <1>12 DEF T
  <2>2. e.begin + e.len - gameBase(es) \in Int
    BY <1>5, <1>6, <2>1
  <2> QED BY <1>7, <1>11, <2>1, <2>2 DEF X
<1> QED BY <1>3, <1>7, <1>11, <1>12 DEF X

LEMMA ContiguousIs ==
  ASSUME NEW count \in Int, NEW used
  PROVE  LET host == allocateContiguousHostPorts(count, used)
         IN /\ host \in Nat
            /\ host # NoPort => host \in TCP_PORT_BEGIN .. TCP_PORT_END
            /\ host # NoPort => \A k \in 0 .. count - 1 : ~portInUse(used, ProtocolType, host + k)
<1> DEFINE starts == {s \in TCP_PORT_BEGIN .. TCP_PORT_END :
                        /\ s + count - 1 <= TCP_PORT_END
                        /\ \A k \in 0 .. count - 1 : ~portInUse(used, ProtocolType, s + k)}
<1>1. starts \in SUBSET Nat /\ NoPort \in Nat
  BY PortBounds, PortsAreNumbers
<1>2. allocateContiguousHostPorts(count, used) = IF starts = {} THEN NoPort ELSE Min(starts)
  BY DEF allocateContiguousHostPorts
<1>3. ASSUME starts # {} PROVE Min(starts) \in starts
  <2> HIDE DEF starts
  <2> QED BY <1>1, <1>3, MinNat
<1>4. ASSUME starts # {}
      PROVE  Min(starts) \in Nat /\ Min(starts) \in TCP_PORT_BEGIN .. TCP_PORT_END /\ \A k \in 0 .. count - 1 : ~portInUse(used, ProtocolType, Min(starts) + k)
  BY <1>1, <1>3, <1>4
<1> HIDE DEF starts
<1> QED BY <1>1, <1>2, <1>4

\* The rows of an injected block that begins at host.
BlockRows(es, host) ==
  UNION {Rows(portRequirement(es, gameBase(es) + k), host + k, host + k, k = 0) : k \in 0 .. blockLen(es) - 1}

LEMMA InjectedPlan ==
  ASSUME NEW c \in ContainerConfig, NEW used \in Usage
  PROVE  LET plan == planPortsInjected(c, used)
             es == c.excerpts
         IN /\ plan \in Clean(used)
            /\ plan.ok =>
                 /\ gameBase(es) # 0
                 /\ \E host \in TCP_PORT_BEGIN .. TCP_PORT_END : \E from :
                      /\ from.rows = BlockRows(es, host)
                      /\ Grows(from, plan, Listed(es, {n \in DOMAIN es : es[n].begin < gameBase(es)}))
<1> DEFINE es == c.excerpts
           base == gameBase(es)
           block == 0 .. blockLen(es) - 1
           host == allocateContiguousHostPorts(blockLen(es), used)
           taken == [p \in ProtocolType |-> used[p] \cup {host + k : k \in block}]
           Of(k) == Rows(portRequirement(es, base + k), host + k, host + k, k = 0)
           rows == UNION {Of(k) : k \in block}
           start == [ok |-> TRUE, used |-> taken, rows |-> rows]
<1>1. planPortsInjected(c, used) = IF base = 0 \/ host = NoPort THEN NoPlan ELSE mapPortExtraNAT(es, base, start)
  BY DEF planPortsInjected
<1>2. es \in Seq(PortExcerpt)
  BY DEF ContainerConfig
<1> HIDE DEF es
<1>3. base \in Nat /\ blockLen(es) \in Int /\ \A port : portRequirement(es, port) \in SUBSET ProtocolType
  BY <1>2, BlockFacts, ExcerptFacts
<1>4. /\ host \in Nat
      /\ host # NoPort => host \in TCP_PORT_BEGIN .. TCP_PORT_END
      /\ host # NoPort => \A k \in block : ~portInUse(used, ProtocolType, host + k)
  BY <1>3, ContiguousIs
<1>5. \A k \in block : k \in Nat
  BY <1>3
<1>6. ASSUME NEW k \in block, NEW r \in Of(k)
      PROVE  r \in PlanRow /\ r.host = host + k /\ r = [proto |-> r.proto, host |-> host + k,
                                                       container |-> host + k, isGamePort |-> k = 0 /\ r.proto = "tcp"]
  <2> DEFINE protos == portRequirement(es, base + k)
             h == host + k
             first == k = 0
  <2>1. protos \in SUBSET ProtocolType /\ h \in Nat
    BY <1>3, <1>4, <1>5
  <2>2. r \in Rows(protos, h, h, first)
    OBVIOUS
  <2>3. r = [proto |-> r.proto, host |-> h, container |-> h, isGamePort |-> first /\ r.proto = "tcp"]
    BY <2>2 DEF Rows
  <2> HIDE DEF protos, h, first
  <2>4. r \in PlanRow /\ r.host = h
    BY <2>1, <2>2, RowsType
  <2> QED BY <2>3, <2>4 DEF h, first
<1> HIDE DEF host, base, block
<1>7. ASSUME host # NoPort PROVE start \in Clean(used)
  <2>1. \A r \in rows : \E k \in block : r \in Of(k)
    OBVIOUS
  <2> HIDE DEF Of
  <2>2. taken \in Usage /\ \A q \in ProtocolType : used[q] \subseteq taken[q] /\ \A k \in block : host + k \in taken[q]
    BY <1>4, <1>5 DEF Usage
  <2>3. rows \in SUBSET PlanRow
    BY <1>6, <2>1
  <2> HIDE DEF taken, rows
  <2>4. start \in PlanType /\ start.rows = rows /\ start.used = taken
    BY <2>2, <2>3 DEF PlanType
  <2>5. \A r \in rows : r.host \in taken[r.proto] /\ r.host \notin used[r.proto]
    <3> SUFFICES ASSUME NEW r \in rows PROVE r.host \in taken[r.proto] /\ r.host \notin used[r.proto]
      OBVIOUS
    <3>1. PICK k \in block : r \in Of(k)
      BY <2>1
    <3>2. r.host = host + k /\ r.proto \in ProtocolType
      BY <1>6, <3>1 DEF PlanRow
    <3> QED BY <1>4, <1>7, <2>2, <3>2 DEF portInUse
  <2>6. ASSUME NEW r \in rows, NEW s \in rows, r.proto = s.proto, r.host = s.host PROVE r = s
    <3>1. PICK k \in block : r \in Of(k)
      BY <2>1
    <3>2. PICK l \in block : s \in Of(l)
      BY <2>1
    <3>3. r.host = host + k /\ s.host = host + l
      BY <1>6, <3>1, <3>2
    <3>4. k = l
      <4>1. k \in Nat /\ l \in Nat /\ host \in Nat
        BY <1>4, <1>5
      <4>2. host + k = host + l
        BY ONLY r.host = s.host, <3>3
      <4> QED BY ONLY <4>1, <4>2
    <3>5. /\ r = [proto |-> r.proto, host |-> host + k, container |-> host + k, isGamePort |-> k = 0 /\ r.proto = "tcp"]
          /\ s = [proto |-> s.proto, host |-> host + l, container |-> host + l, isGamePort |-> l = 0 /\ s.proto = "tcp"]
      BY <1>6, <3>1, <3>2
    <3> QED BY ONLY r.proto = s.proto, <3>4, <3>5
  <2> HIDE DEF start
  <2> QED BY <2>2, <2>4, <2>5, <2>6 DEF Clean
<1>b. start.rows = BlockRows(es, host)
  BY DEF BlockRows, base, block
<1> HIDE DEF start
<1> DEFINE plan == mapPortExtraNAT(es, base, start)
<1>8. ASSUME host # NoPort
      PROVE  plan \in Clean(used) /\ Grows(start, plan, Listed(es, {n \in DOMAIN es : es[n].begin < base}))
  BY <1>2, <1>7, <1>8, ExtraPlan
<1> HIDE DEF plan
<1>9. CASE base = 0 \/ host = NoPort
  <2>1. planPortsInjected(c, used) = NoPlan
    BY ONLY <1>1, <1>9
  <2>2. NoPlan \in Clean(used) /\ ~NoPlan.ok
    BY NoPlanClean DEF NoPlan
  <2> QED BY ONLY <2>1, <2>2
<1>10. CASE base # 0 /\ host # NoPort
  <2>1. planPortsInjected(c, used) = plan
    BY <1>1, <1>10 DEF plan
  <2>2. \E h \in TCP_PORT_BEGIN .. TCP_PORT_END : \E from :
          /\ from.rows = BlockRows(es, h)
          /\ Grows(from, plan, Listed(es, {n \in DOMAIN es : es[n].begin < base}))
    BY <1>4, <1>8, <1>10, <1>b
  <2> QED BY <1>8, <1>10, <2>1, <2>2 DEF base, es
<1> QED BY <1>9, <1>10

LEMMA PlanClean ==
  ASSUME NEW c \in ContainerConfig, NEW used \in Usage
  PROVE  PlanPorts(c, used) \in Clean(used)
BY NatPlan, InjectedPlan DEF PlanPorts
-----------------------------------------------------------------------------
(* Scores are numbers, so one of the eligible agents is the best.          *)

LEMMA AgentFacts ==
  ASSUME NEW a \in Agents
  PROVE  /\ Cap[a] \in [Dims -> Nat] /\ Used[a] \in Nat /\ Freq[a] \in Nat
         /\ Samples[a] \in Seq([cpu : Nat, bw : Nat])
         /\ "cpu" \in HardDims /\ "cpu" \in Dims /\ "bw" \in Dims /\ "disk" \in Dims
BY PlacementAssumption DEF Dims

LEMMA SampleFacts ==
  ASSUME NEW a \in Agents
  PROVE  /\ DOMAIN Samples[a] = 1 .. Len(Samples[a]) /\ Len(Samples[a]) \in Nat
         /\ \A n \in DOMAIN Samples[a] : Samples[a][n].cpu \in Nat /\ Samples[a][n].bw \in Nat
<1> DEFINE Sample == [cpu : Nat, bw : Nat]
           s == Samples[a]
<1>1. s \in Seq(Sample)
  BY AgentFacts
<1>2. \A x \in Sample : x.cpu \in Nat /\ x.bw \in Nat
  OBVIOUS
<1> HIDE DEF Sample, s
<1>3. DOMAIN s = 1 .. Len(s) /\ Len(s) \in Nat /\ \A n \in DOMAIN s : s[n] \in Sample
  BY ONLY <1>1
<1>4. \A n \in DOMAIN s : s[n].cpu \in Nat /\ s[n].bw \in Nat
  BY ONLY <1>2, <1>3
<1> QED BY <1>3, <1>4 DEF s

LEMMA MaxOfTwo ==
  ASSUME NEW x \in Int, NEW y \in Int
  PROVE  Max({x, y}) \in {x, y} /\ Max({x, y}) >= x /\ Max({x, y}) >= y
<1> DEFINE S == {x, y}
<1>1. S \in SUBSET Int /\ S # {} /\ x \in S /\ y \in S
  OBVIOUS
<1>2. IsFiniteSet(S)
  <2>1. IsFiniteSet({x}) /\ IsFiniteSet({y})
    BY FS_Singleton
  <2>2. S = {x} \cup {y}
    OBVIOUS
  <2> HIDE DEF S
  <2> QED BY ONLY <2>1, <2>2, FS_Union
<1> HIDE DEF S
<1>3. Max(S) \in S /\ \A z \in S : Max(S) >= z
  BY ONLY <1>1, <1>2, MaxIs
<1> QED BY <1>1, <1>3 DEF S

LEMMA MinOfTwo ==
  ASSUME NEW x \in Int, NEW y \in Int
  PROVE  Min({x, y}) \in {x, y} /\ Min({x, y}) <= x /\ Min({x, y}) <= y
<1> DEFINE S == {x, y}
<1>1. S \in SUBSET Int /\ S # {} /\ x \in S /\ y \in S
  OBVIOUS
<1>2. IsFiniteSet(S)
  <2>1. IsFiniteSet({x}) /\ IsFiniteSet({y})
    BY FS_Singleton
  <2>2. S = {x} \cup {y}
    OBVIOUS
  <2> HIDE DEF S
  <2> QED BY ONLY <2>1, <2>2, FS_Union
<1> HIDE DEF S
<1>3. Min(S) \in S /\ \A z \in S : Min(S) <= z
  BY ONLY <1>1, <1>2, MinIs
<1> QED BY <1>1, <1>3 DEF S

LEMMA Percentile ==
  ASSUME NEW values \in Seq(Nat)
  PROVE  percentile95(values) \in Nat
<1> DEFINE UpTo(k) == {n \in DOMAIN values : values[n] <= values[k]}
           rank == ((Len(values) - 1) * 19) \div 20
           late == {k \in DOMAIN values : Cardinality(UpTo(k)) > rank}
           W == {values[k] : k \in late}
<1> SUFFICES ASSUME values # <<>> PROVE Min(W) \in Nat
  BY DEF percentile95
<1>1. DOMAIN values = 1 .. Len(values) /\ Len(values) \in Nat /\ Len(values) > 0 /\ 1 \in DOMAIN values
  OBVIOUS
<1>2. values \in [DOMAIN values -> Int] /\ DOMAIN values \subseteq Int /\ \A n \in DOMAIN values : values[n] \in Nat
  BY <1>1
<1>3. IsFiniteSet(DOMAIN values) /\ Cardinality(DOMAIN values) = Len(values)
  BY <1>1, FS_Interval
<1> DEFINE U == DOMAIN values
<1>4. PICK k \in U : Best(U, values, k)
  <2>1. U # {} /\ U \subseteq Int /\ IsFiniteSet(U) /\ values \in [U -> Int]
    BY <1>1, <1>2, <1>3
  <2> HIDE DEF U
  <2> QED BY ONLY <2>1, BestExists
<1>5. \A n \in U : values[n] <= values[k]
  BY <1>2, <1>4 DEF Best
<1>6. UpTo(k) = U
  BY <1>5
<1>7. rank < Len(values)
  BY <1>1
<1>8. Cardinality(UpTo(k)) > rank
  BY <1>1, <1>3, <1>6, <1>7
<1>9. k \in late
  BY <1>8
<1>10. W \in SUBSET Nat /\ W # {}
  BY <1>2, <1>9
<1> HIDE DEF W
<1> QED BY <1>10, MinNat

LEMMA Average ==
  ASSUME NEW a \in Agents, Cap[a]["cpu"] > 0
  PROVE  avgUtilization(a) \in Int
<1> SUFFICES ASSUME Samples[a] # <<>> PROVE avgUtilization(a) \in Int
  BY DEF avgUtilization
<1> DEFINE D == DOMAIN Samples[a]
           w == [n \in D |-> Samples[a][n].cpu]
           On(x) == x = [s \in SUBSET D |-> IF s = {} THEN 0 ELSE Samples[a][Pick1(s)].cpu + x[s \ {Pick1(s)}]]
           k == CHOOSE x : On(x)
<1>1. Samples[a] \in Seq([cpu : Nat, bw : Nat]) /\ Cap[a]["cpu"] \in Nat
  BY AgentFacts
<1>2. D = 1 .. Len(Samples[a]) /\ Len(Samples[a]) \in Nat /\ Len(Samples[a]) > 0
  BY <1>1
<1>3. IsFiniteSet(D) /\ w \in [D -> Nat]
  <2>1. IsFiniteSet(D)
    BY <1>2, FS_Interval
  <2>2. \A n \in D : Samples[a][n].cpu \in Nat
    BY SampleFacts
  <2> QED BY <2>1, <2>2
<1>4. avgUtilization(a) = (k[D] * 10) \div (Len(Samples[a]) * Cap[a]["cpu"])
  BY DEF avgUtilization, MapThenSumSet, MapThenFoldSet, Pick1
<1>5. \A s \in SUBSET D : s # {} => w[Pick1(s)] = Samples[a][Pick1(s)].cpu
  BY Picked
<1>6. D \in SUBSET D
  OBVIOUS
<1> HIDE DEF D, w
<1>7. PICK h : SumOn(w, D, h)
  BY ONLY <1>3, <1>6, SumExists
<1>8. On(h)
  BY <1>5, <1>7 DEF SumOn
<1>9. On(k)
  BY <1>8
<1> HIDE DEF k
<1>10. SumOn(w, D, k)
  BY <1>5, <1>9 DEF SumOn
<1>11. k[D] \in Nat
  BY ONLY <1>3, <1>6, <1>10, SumNat
<1>12. Len(Samples[a]) * Cap[a]["cpu"] \in Nat \ {0}
  BY ONLY <1>1, <1>2, Cap[a]["cpu"] > 0
<1> QED BY ONLY <1>4, <1>11, <1>12

LEMMA Ratios ==
  ASSUME NEW a \in Agents, NEW v \in AgentRow, Cap[a]["cpu"] > 0
  PROVE  bandwidthRatio(a, v) \in Int /\ utilizationOf(a, v) \in Int
<1>1. /\ Cap[a] \in [Dims -> Nat] /\ Used[a] \in Nat /\ "cpu" \in Dims /\ "bw" \in Dims
      /\ Samples[a] \in Seq([cpu : Nat, bw : Nat])
  BY AgentFacts
<1>2. Cap[a]["cpu"] \in Nat /\ Cap[a]["bw"] \in Nat /\ v.reserved["cpu"] \in Nat /\ v.reserved["bw"] \in Nat
  BY <1>1 DEF AgentRow
<1>3. utilizationOf(a, v) \in Int
  <2> DEFINE m == Max({v.reserved["cpu"], Used[a]})
  <2>1. m \in Int
    <3>1. Used[a] \in Int /\ v.reserved["cpu"] \in Int
      BY <1>1, <1>2
    <3>2. m \in {v.reserved["cpu"], Used[a]}
      BY ONLY <3>1, MaxOfTwo
    <3> QED BY ONLY <3>1, <3>2
  <2>2. utilizationOf(a, v) = (m * 10) \div Cap[a]["cpu"]
    BY DEF utilizationOf
  <2> HIDE DEF m
  <2> QED BY <1>2, <2>1, <2>2
<1>4. bandwidthRatio(a, v) \in Int
  <2> DEFINE values == [n \in DOMAIN Samples[a] |-> Samples[a][n].bw]
             p95 == percentile95(values)
             spent == Max({v.reserved["bw"], p95})
             share == ((Cap[a]["bw"] - spent) * 10) \div Cap[a]["bw"]
  <2>1. values \in Seq(Nat)
    <3>1. DOMAIN Samples[a] = 1 .. Len(Samples[a]) /\ Len(Samples[a]) \in Nat
          /\ \A n \in DOMAIN Samples[a] : Samples[a][n].bw \in Nat
      BY SampleFacts
    <3>2. values \in [1 .. Len(Samples[a]) -> Nat]
      BY <3>1
    <3> QED BY <3>1, <3>2
  <2> HIDE DEF values
  <2>2. p95 \in Nat
    BY <2>1, Percentile
  <2> HIDE DEF p95
  <2>3. spent \in Int
    <3>1. v.reserved["bw"] \in Int /\ p95 \in Int
      BY <1>2, <2>2
    <3>2. spent \in {v.reserved["bw"], p95}
      BY ONLY <3>1, MaxOfTwo
    <3> QED BY ONLY <3>1, <3>2
  <2> HIDE DEF spent
  <2>4. Cap[a]["bw"] # 0 => share \in Int
    BY <1>2, <2>3
  <2>5. bandwidthRatio(a, v) = IF Cap[a]["bw"] = 0 THEN 0 ELSE clamp01(share)
    BY DEF bandwidthRatio, spent, p95, values
  <2> HIDE DEF share
  <2> QED BY <2>4, <2>5 DEF clamp01
<1> QED BY <1>3, <1>4

LEMMA FreqBounds ==
  ASSUME NEW E \in SUBSET Agents, E # {}
  PROVE  freqRange(E).min \in Int /\ freqRange(E).max \in Int
<1> DEFINE W == {Freq[a] : a \in E}
<1>1. IsFiniteSet(W)
  <2>1. IsFiniteSet(E)
    BY PlacementAssumption, FS_Subset
  <2> QED BY ONLY <2>1, ImageFinite
<1>2. W \in SUBSET Int /\ W # {}
  BY AgentFacts
<1>3. freqRange(E).min = Min(W) /\ freqRange(E).max = Max(W)
  BY DEF freqRange
<1> HIDE DEF W
<1>4. Min(W) \in W /\ Max(W) \in W
  BY ONLY <1>1, <1>2, MinIs, MaxIs
<1> QED BY ONLY <1>2, <1>3, <1>4

LEMMA ScoreIsNumber ==
  ASSUME NEW i, NEW E \in SUBSET Agents, NEW a \in E, NEW v \in AgentRow, NEW single, Cap[a]["cpu"] > 0
  PROVE  ComputeScore(i, a, v, E, single) \in Int
<1> DEFINE n1 == Flag(Region[i] # "" /\ Location[a] = Region[i])
           n2 == bandwidthRatio(a, v)
           n3 == Flag(inst[i].agent = a)
           n4 == 10 - clamp01(avgUtilization(a))
           n5 == 10 - clamp01(utilizationOf(a, v))
           n6 == Flag(v.health = "degraded")
           f == freqRange(E)
           n7 == IF single /\ f.max > f.min THEN ((Freq[a] - f.min) * 10) \div (f.max - f.min) ELSE 0
           n8 == Flag(HasCache(a) /\ utilizationOf(a, v) <= cacheSpillWatermark)
           w == DefaultScoreWeights
<1>1. \A b : Flag(b) \in Int
  BY DEF Flag
<1>2. \A x \in Int : clamp01(x) \in Int
  BY DEF clamp01
<1>3. n1 \in Int /\ n3 \in Int /\ n6 \in Int /\ n8 \in Int
  BY <1>1
<1>4. n2 \in Int /\ utilizationOf(a, v) \in Int /\ avgUtilization(a) \in Int
  BY Ratios, Average
<1>5. n4 \in Int /\ n5 \in Int
  BY <1>2, <1>4
<1>6. n7 \in Int
  <2>1. f.min \in Int /\ f.max \in Int /\ Freq[a] \in Nat
    BY FreqBounds, AgentFacts
  <2>2. f.max > f.min => ((Freq[a] - f.min) * 10) \div (f.max - f.min) \in Int
    <3> HIDE DEF f
    <3> SUFFICES ASSUME f.max > f.min PROVE ((Freq[a] - f.min) * 10) \div (f.max - f.min) \in Int
      OBVIOUS
    <3> DEFINE x == (Freq[a] - f.min) * 10
               y == f.max - f.min
    <3>1. x \in Int /\ y \in Int /\ y > 0
      BY <2>1
    <3> HIDE DEF x, y
    <3>2. x \div y \in Int
      BY ONLY <3>1
    <3> QED BY <3>2 DEF x, y
  <2> HIDE DEF f
  <2> QED BY <2>2
<1>7. ComputeScore(i, a, v, E, single) = w.region * n1 + w.bandwidth * n2 + w.locality * n3 + w.history * n4
                                 + w.balance * n5 - w.degraded * n6 + w.frequency * n7 + w.cache * n8
  BY DEF ComputeScore
<1>8. /\ w.region = 10 /\ w.bandwidth = 8 /\ w.locality = 5 /\ w.history = 6
      /\ w.balance = 7 /\ w.degraded = 20 /\ w.frequency = 0 /\ w.cache = 20
  BY DEF DefaultScoreWeights
<1> HIDE DEF n1, n2, n3, n4, n5, n6, n7, n8, w
<1> QED BY ONLY <1>3, <1>4, <1>5, <1>6, <1>7, <1>8

LEMMA BestIsEligible ==
  ASSUME NEW i, NEW single, NEW A \in SUBSET Agents, NEW view \in [A -> AgentRow], NEW E \in SUBSET A, E # {},
         \A a \in E : Cap[a]["cpu"] > 0
  PROVE  pickBest(i, view, E, single) \in E
<1> DEFINE f == [a \in E |-> ComputeScore(i, a, view[a], E, single)]
<1>1. f \in [E -> Int]
  <2>1. \A a \in E : ComputeScore(i, a, view[a], E, single) \in Int
    <3> SUFFICES ASSUME NEW a \in E PROVE ComputeScore(i, a, view[a], E, single) \in Int
      OBVIOUS
    <3>1. E \in SUBSET Agents /\ view[a] \in AgentRow /\ Cap[a]["cpu"] > 0
      OBVIOUS
    <3> QED BY <3>1, ScoreIsNumber
  <2> QED BY <2>1
<1>2. E \subseteq Int /\ IsFiniteSet(E)
  <2>1. E \in SUBSET Agents /\ Agents \subseteq Int /\ IsFiniteSet(Agents)
    BY PlacementAssumption
  <2>2. IsFiniteSet(E)
    BY ONLY <2>1, FS_Subset
  <2> QED BY <2>1, <2>2
<1>3. \E a \in E : Best(E, f, a)
  <2> HIDE DEF f
  <2> QED BY ONLY <1>1, <1>2, E # {}, BestExists
<1>4. \E a \in E : \A b \in E \ {a} :
        LET sa == ComputeScore(i, a, view[a], E, single)
            sb == ComputeScore(i, b, view[b], E, single)
        IN sa > sb \/ (sa = sb /\ a < b)
  BY <1>3 DEF Best
<1> QED BY <1>4 DEF pickBest

\* An agent the filter lets through has room for the request.
LEMMA EligibleFits ==
  ASSUME NEW i, NEW a, NEW v, NEW req, NEW branch, Reason(i, a, v, req, branch) = "eligible"
  PROVE  ResourcesSatisfied(a, v, req)
<1> DEFINE con == applyConstraints(i, a, v, req, branch)
           failed == {k \in DOMAIN con : ~con[k].holds}
<1>1. DOMAIN con = 1 .. 9
  BY DEF applyConstraints
<1>2. \A k \in 1 .. 9 : con[k].reason # "eligible"
  <2>1. /\ con[1].reason = "not enabled" /\ con[2].reason = "unhealthy" /\ con[3].reason = "no heartbeat"
        /\ con[4].reason = "heartbeat late" /\ con[5].reason = "shortage" /\ con[6].reason = "ports"
        /\ con[7].reason = "no branch" /\ con[8].reason = "cache disk" /\ con[9].reason = "pressure"
    BY DEF applyConstraints
  <2> HIDE DEF con
  <2>2. \A k \in 1 .. 9 : \/ k = 1 \/ k = 2 \/ k = 3 \/ k = 4 \/ k = 5 \/ k = 6 \/ k = 7 \/ k = 8 \/ k = 9
    OBVIOUS
  <2> QED BY ONLY <2>1, <2>2
<1>3. con[5].holds = ResourcesSatisfied(a, v, req)
  BY DEF applyConstraints
<1>4. Reason(i, a, v, req, branch) = IF failed = {} THEN "eligible" ELSE con[Min(failed)].reason
  BY DEF Reason
<1>5. failed \in SUBSET Nat /\ failed \subseteq 1 .. 9
  BY <1>1
<1> HIDE DEF con
<1>6. failed = {}
  <2> HIDE DEF failed
  <2>1. failed # {} => Min(failed) \in failed
    BY <1>5, MinNat
  <2> QED BY <1>2, <1>4, <1>5, <2>1
<1>7. 5 \in DOMAIN con
  BY <1>1
<1> QED BY <1>3, <1>6, <1>7

LEMMA ChosenFits ==
  ASSUME NEW i, NEW branch, NEW single, NEW A \in SUBSET Agents, NEW view \in [A -> AgentRow],
         NEW req \in [Dims -> Nat],
         req["cpu"] > 0, Eligible(Filter(i, view, req, branch)) # {}
  PROVE  LET best == pickBest(i, view, Eligible(Filter(i, view, req, branch)), single)
         IN best \in A /\ ResourcesSatisfied(best, view[best], req)
<1> DEFINE E == Eligible(Filter(i, view, req, branch))
<1>1. E \in SUBSET A /\ \A a \in E : Reason(i, a, view[a], req, branch) = "eligible"
  BY DEF Eligible, Filter
<1>2. \A a \in E : ResourcesSatisfied(a, view[a], req)
  BY <1>1, EligibleFits
<1>3. \A a \in E : Cap[a]["cpu"] > 0
  <2> SUFFICES ASSUME NEW a \in E PROVE Cap[a]["cpu"] > 0
    OBVIOUS
  <2>1. a \in Agents /\ view[a] \in AgentRow
    BY <1>1
  <2>2. Cap[a]["cpu"] \in Nat /\ "cpu" \in HardDims /\ "cpu" \in Dims /\ Target \in 1 .. 10
    BY <2>1, AgentFacts, PlacementAssumption
  <2>3. view[a].reserved["cpu"] \in Nat /\ req["cpu"] \in Nat
    BY <2>1, <2>2 DEF AgentRow
  <2>4. ((Cap[a]["cpu"] * Target) \div 10) - view[a].reserved["cpu"] >= req["cpu"]
    BY <1>2, <2>2 DEF ResourcesSatisfied, Allocatable, capacityLimit
  <2> DEFINE n == Cap[a]["cpu"]
             m == view[a].reserved["cpu"]
             q == req["cpu"]
  <2>5. n \in Nat /\ m \in Nat /\ q \in Nat /\ q > 0 /\ ((n * Target) \div 10) - m >= q
    BY <2>2, <2>3, <2>4
  <2> HIDE DEF n, m, q
  <2>6. n # 0
    <3>1. n = 0 => n * Target = 0
      BY ONLY <2>2
    <3> QED BY ONLY <2>2, <2>5, <3>1
  <2> QED BY <2>5, <2>6 DEF n
<1> HIDE DEF E
<1>4. E # {}
  BY DEF E
<1>5. pickBest(i, view, E, single) \in E
  BY ONLY A \in SUBSET Agents, view \in [A -> AgentRow], <1>1, <1>3, <1>4, BestIsEligible
<1> QED BY <1>1, <1>2, <1>5 DEF E
-----------------------------------------------------------------------------
(* What a node has promised: rows n of the instances, agent a, dimension d. *)

Holding(x) == x.status \in {"Warming", "Preparing"}
HeldBy(n, a) == {i \in Instances : n[i].agent = a /\ Holding(n[i])}
ReqOf(n, d) == [i \in Instances |-> n[i].req[d]]
Promised(n, a, d) == Total(ReqOf(n, d), HeldBy(n, a))

LEMMA InstanceFacts ==
  ASSUME NEW n \in [Instances -> InstanceRow], NEW d \in Dims, NEW a
  PROVE  /\ IsFiniteSet(Instances) /\ ReqOf(n, d) \in [Instances -> Nat]
         /\ \A i \in Instances : ReqOf(n, d)[i] = n[i].req[d] /\ n[i].req[d] \in Nat
         /\ HeldBy(n, a) \in SUBSET Instances
<1>1. \A i \in Instances : n[i].req[d] \in Nat
  BY DEF InstanceRow
<1> QED BY <1>1, PlacementAssumption DEF ReqOf, HeldBy

LEMMA PromisedIs ==
  ASSUME NEW n \in [Instances -> InstanceRow], NEW a, NEW d \in Dims
  PROVE  MapThenSumSet(LAMBDA i : n[i].req[d], HeldBy(n, a)) = Promised(n, a, d)
<1> DEFINE D == HeldBy(n, a)
           w == ReqOf(n, d)
           On(x) == x = [s \in SUBSET D |-> IF s = {} THEN 0 ELSE n[Pick1(s)].req[d] + x[s \ {Pick1(s)}]]
           k == CHOOSE x : On(x)
<1>1. IsFiniteSet(Instances) /\ w \in [Instances -> Nat] /\ D \in SUBSET Instances
  BY InstanceFacts
<1>2. MapThenSumSet(LAMBDA i : n[i].req[d], HeldBy(n, a)) = k[D]
  BY DEF MapThenSumSet, MapThenFoldSet, Pick1
<1>3. \A s \in SUBSET D : s # {} => w[Pick1(s)] = n[Pick1(s)].req[d]
  BY <1>1, Picked DEF ReqOf
<1>4. Promised(n, a, d) = Total(w, D)
  BY DEF Promised
<1> HIDE DEF D, w
<1>5. PICK h : SumOn(w, D, h)
  BY ONLY <1>1, SumExists
<1>6. On(h)
  BY <1>3, <1>5 DEF SumOn
<1>7. On(k)
  BY <1>6
<1> HIDE DEF k
<1>8. SumOn(w, D, k)
  BY <1>3, <1>7 DEF SumOn
<1>9. Total(w, D) = k[D]
  BY ONLY <1>1, <1>8, TotalValue
<1> QED BY <1>2, <1>4, <1>9

LEMMA PromisedNat ==
  ASSUME NEW n \in [Instances -> InstanceRow], NEW a, NEW d \in Dims
  PROVE  Promised(n, a, d) \in Nat
<1> DEFINE D == HeldBy(n, a)
           w == ReqOf(n, d)
<1>1. IsFiniteSet(Instances) /\ w \in [Instances -> Nat] /\ D \in SUBSET Instances
  BY InstanceFacts
<1> HIDE DEF D, w
<1>2. Total(w, D) \in Nat
  BY ONLY <1>1, TotalNat
<1> QED BY <1>2 DEF Promised, D, w

\* Only the rows of instances that hold something count.
LEMMA PromisedSame ==
  ASSUME NEW n \in [Instances -> InstanceRow], NEW m \in [Instances -> InstanceRow],
         \A i \in Instances : Holding(n[i]) <=> Holding(m[i]),
         \A i \in Instances : Holding(n[i]) => n[i].agent = m[i].agent /\ n[i].req = m[i].req,
         NEW a, NEW d \in Dims
  PROVE  Promised(n, a, d) = Promised(m, a, d)
<1>1. HeldBy(n, a) = HeldBy(m, a)
  BY DEF HeldBy
<1> DEFINE D == HeldBy(n, a)
           w == ReqOf(n, d)
           v == ReqOf(m, d)
<1>2. IsFiniteSet(Instances) /\ w \in [Instances -> Nat] /\ v \in [Instances -> Nat] /\ D \in SUBSET Instances
  BY InstanceFacts
<1>3. \A i \in D : w[i] = v[i]
  BY DEF HeldBy, ReqOf
<1> HIDE DEF D, w, v
<1>4. Total(w, D) = Total(v, D)
  BY ONLY <1>2, <1>3, TotalSame
<1> QED BY <1>1, <1>4 DEF Promised, D, w, v

\* n is m with what instance i holds.
LEMMA PromisedWith ==
  ASSUME NEW n \in [Instances -> InstanceRow], NEW m \in [Instances -> InstanceRow],
         NEW i \in Instances, \A j \in Instances \ {i} : n[j] = m[j],
         Holding(n[i]), ~Holding(m[i]), NEW a, NEW d \in Dims
  PROVE  Promised(n, a, d) = (IF n[i].agent = a THEN n[i].req[d] ELSE 0) + Promised(m, a, d)
<1> DEFINE A == HeldBy(n, a)
           B == HeldBy(m, a)
           w == ReqOf(n, d)
           v == ReqOf(m, d)
<1>1. /\ IsFiniteSet(Instances) /\ w \in [Instances -> Nat] /\ v \in [Instances -> Nat]
      /\ A \in SUBSET Instances /\ B \in SUBSET Instances /\ w[i] = n[i].req[d]
  BY InstanceFacts
<1>2. B = A \ {i} /\ (i \in A <=> n[i].agent = a)
  BY DEF HeldBy
<1>3. \A j \in B : w[j] = v[j]
  BY <1>2 DEF HeldBy, ReqOf
<1>4. Promised(n, a, d) = Total(w, A) /\ Promised(m, a, d) = Total(v, B)
  BY DEF Promised
<1> HIDE DEF A, B, w, v
<1>5. Total(w, B) = Total(v, B) /\ Total(w, B) \in Nat
  <2>1. Total(w, B) = Total(v, B)
    BY ONLY <1>1, <1>3, TotalSame
  <2>2. Total(w, B) \in Nat
    BY ONLY <1>1, TotalNat
  <2> QED BY <2>1, <2>2
<1>6. CASE n[i].agent = a
  <2>1. i \in A
    BY <1>2, <1>6
  <2>2. Total(w, A) = w[i] + Total(w, A \ {i})
    BY ONLY <1>1, <2>1, TotalRemoves
  <2> QED BY <1>1, <1>2, <1>4, <1>5, <1>6, <2>2
<1>7. CASE n[i].agent # a
  <2>1. A = B
    BY <1>2, <1>7
  <2> QED BY <1>4, <1>5, <1>7, <2>1
<1> QED BY <1>6, <1>7
-----------------------------------------------------------------------------
(* The inductive invariant.                                                *)

\* The rows of some of the agents.
IsView(v) == \E A \in SUBSET Agents : v \in [A -> AgentRow]

QueueRow == [attempts : Nat, wake : {w \in Int : w <= Max({backoffBase, backoffMax})}, left : 0 .. timeout,
             priority : {PriorityOf(i) : i \in Instances}]
PortRow == [inst : Instances, agent : Agents, proto : ProtocolType, host : Nat,
            container : Nat, isGamePort : BOOLEAN]

\* Tables and snapshots.
TablesOK ==
  /\ agent \in [Agents -> AgentRow]
  /\ cache \in [Agents -> {"missing", "downloading", "available"}]
  /\ steam \in Branches
  /\ config \in ContainerConfig
  /\ editing # None => editing \in Seq(PortExcerpt)

QueueOK == row \in [Instances -> QueueRow \cup {None}]

\* Rows of the instances: one that holds something or is being stopped again
\* has an agent, one that waits has none, and a failed stop that kept its
\* agent has no request left to give back.
SoundRow(x) ==
  /\ x.status \in {"Warming", "Preparing", "Stopping"} => x.agent \in Agents
  /\ x.status \in {"Stopped", "Scheduling", "Queued"} => x.agent = 0
  /\ x.status = "Stopping" \/ (x.status = "Failed" /\ x.agent # 0) => x.req = Zero

InstancesOK ==
  /\ inst \in [Instances -> InstanceRow]
  /\ \A i \in Instances : SoundRow(inst[i])
PortsOK == ports \in SUBSET PortRow /\ PortsExclusive

\* What a call of Schedule may rely on, step by step: a request that asks for
\* cpu, rows of agents, an agent that had room, ports each given once.
JobOf(pc, attempt, view, best, req, branch, single, warm, rows) ==
  [pc |-> pc, attempt |-> attempt, view |-> view, best |-> best, req |-> req,
   branch |-> branch, single |-> single, warm |-> warm, rows |-> rows]
Shaped(x) == x = JobOf(x.pc, x.attempt, x.view, x.best, x.req, x.branch, x.single, x.warm, x.rows)
SoundJob(x) ==
  /\ Shaped(x)
  /\ x.pc \in {"idle", "check", "load", "choose", "plan", "reserve"}
  /\ x.attempt \in 0 .. reservationRetry /\ x.req \in [Dims -> Nat] /\ x.rows \in SUBSET PlanRow
  /\ x.pc \in {"load", "choose", "plan", "reserve"} => x.req["cpu"] > 0
  /\ x.pc \in {"choose", "plan", "reserve"} => IsView(x.view)
  /\ x.pc \in {"plan", "reserve"} =>
       x.best \in DOMAIN x.view /\ ResourcesSatisfied(x.best, x.view[x.best], x.req)
  /\ x.pc = "reserve" => \A r, s \in x.rows : r.proto = s.proto /\ r.host = s.host => r = s

\* Calls are made for instances that are being scheduled and nothing else.
JobsOK ==
  /\ job = [i \in Instances |-> job[i]]
  /\ \A i \in Instances : SoundJob(job[i])
  /\ \A i \in Instances : job[i].pc # "idle" => inst[i].status = "Scheduling"

Kept == TablesOK /\ QueueOK /\ InstancesOK /\ PortsOK /\ JobsOK /\ NeverOvercommitted

CleaningOK == cleaning \subseteq Instances
-----------------------------------------------------------------------------
(* Facts about the operators the actions use.                              *)

LEMMA CapNat ==
  ASSUME NEW a \in Agents, NEW d \in Dims
  PROVE  capacityLimit(a, d) \in Nat
<1>1. Cap[a][d] \in Nat /\ Target \in 1 .. 10
  BY PlacementAssumption
<1>2. Cap[a][d] * Target \in Nat
  BY ONLY <1>1
<1> QED BY ONLY <1>2 DEF capacityLimit

LEMMA WakeBound ==
  /\ backoffBase \in Nat /\ backoffMax \in Nat /\ timeout \in Nat /\ reservationRetry \in Nat
  /\ Max({backoffBase, backoffMax}) \in Nat
  /\ backoffBase <= Max({backoffBase, backoffMax}) /\ backoffMax <= Max({backoffBase, backoffMax})
<1>1. /\ backoffBase \in Nat /\ backoffMax \in Nat /\ timeout \in Nat /\ reservationRetry \in Nat
  BY PlacementAssumption
<1>2. backoffBase \in Int /\ backoffMax \in Int
  BY <1>1
<1>3. /\ Max({backoffBase, backoffMax}) \in {backoffBase, backoffMax}
      /\ Max({backoffBase, backoffMax}) >= backoffBase /\ Max({backoffBase, backoffMax}) >= backoffMax
  BY ONLY <1>2, MaxOfTwo
<1> QED BY <1>1, <1>3

LEMMA BackoffBound ==
  ASSUME NEW n \in Nat
  PROVE  backoff(n) \in Int /\ backoff(n) <= Max({backoffBase, backoffMax})
<1> DEFINE top == Max({backoffBase, backoffMax})
           grown == backoffBase * 2^(n - 1)
<1>1. backoffBase \in Nat /\ backoffMax \in Nat /\ top \in Nat /\ backoffBase <= top /\ backoffMax <= top
  BY WakeBound
<1>2. backoff(n) = IF n <= 1 THEN backoffBase ELSE Min({backoffMax, grown})
  BY DEF backoff
<1>3. ASSUME n > 1 PROVE Min({backoffMax, grown}) \in Int /\ Min({backoffMax, grown}) <= top
  <2>1. 2^(n - 1) \in Int
    <3> DEFINE k == n - 1
    <3>1. k \in Nat
      BY <1>3
    <3> HIDE DEF k
    <3>2. 2^k \in Int
      BY <3>1
    <3> QED BY <3>2 DEF k
  <2>2. grown \in Int
    BY <1>1, <2>1
  <2> HIDE DEF grown, top
  <2>3. backoffMax \in Int /\ grown \in Int
    BY <1>1, <2>2
  <2>4. Min({backoffMax, grown}) \in {backoffMax, grown} /\ Min({backoffMax, grown}) <= backoffMax
    BY ONLY <2>3, MinOfTwo
  <2> QED BY <1>1, <2>2, <2>4
<1> HIDE DEF grown, top
<1>4. backoff(n) \in Int /\ backoff(n) <= top
  BY <1>1, <1>2, <1>3
<1> QED BY <1>4 DEF top

LEMMA RequestOK ==
  ASSUME TablesOK, InstancesOK, NEW i \in Instances
  PROVE  resolveRequest(i) \in [Dims -> Nat] /\ resolveRequest(i)["cpu"] > 0
<1>1. config.req \in [Dims -> Nat] /\ Given(i) \in [Dims -> Nat] /\ DefaultReq \in [Dims -> Nat]
      /\ "cpu" \in Dims /\ "cpu" \in HardDims /\ DefaultReq["cpu"] > 0
  <2>1. inst[i].req \in [Dims -> Nat] /\ Zero \in [Dims -> Nat]
    BY DEF InstancesOK, InstanceRow, Zero
  <2> QED BY <2>1, PlacementAssumption DEF TablesOK, ContainerConfig, Dims, Given
<1>2. \A d \in Dims : Given(i)[d] \in Nat /\ config.req[d] \in Nat /\ DefaultReq[d] \in Nat
  BY <1>1
<1> QED BY <1>1, <1>2 DEF resolveRequest

LEMMA UsedOK ==
  ASSUME PortsOK, NEW a
  PROVE  usedHostPorts(RowsOf(a)) \in Usage
BY DEF PortsOK, PortRow, usedHostPorts, RowsOf, Usage

LEMMA PlanOK ==
  ASSUME TablesOK, PortsOK, NEW a
  PROVE  PlanOn(a) \in Clean(usedHostPorts(RowsOf(a)))
<1>1. config \in ContainerConfig /\ usedHostPorts(RowsOf(a)) \in Usage
  BY UsedOK DEF TablesOK
<1> QED BY ONLY <1>1, PlanClean DEF PlanOn

\* The port of an excerpt is declared, for the excerpt's protocol.
LEMMA DeclaredIs ==
  ASSUME NEW es \in Seq(PortExcerpt), NEW port, NEW p
  PROVE  p \in portRequirement(es, port) <=> \E n \in DOMAIN es : p = es[n].proto /\ port \in PortsOf(es[n])
BY DEF portRequirement, PortExcerpts, ToSet

LEMMA RequiredIsDeclared ==
  ASSUME NEW es \in Seq(PortExcerpt), NEW port, NEW p \in portRequirement(es, port)
  PROVE  port \in Declared(es) /\ p \in ProtocolType
<1>1. PICK n \in DOMAIN es : p = es[n].proto /\ port \in PortsOf(es[n])
  BY DeclaredIs
<1>2. es[n] \in PortExcerpts(es)
  BY DEF PortExcerpts, ToSet
<1>3. p \in ProtocolType
  BY ExcerptFacts
<1> QED BY <1>1, <1>2, <1>3 DEF Declared

\* Where the rows of an injected plan come from: the block, or an excerpt
\* below it.
LEMMA InjectedServes ==
  ASSUME NEW es \in Seq(PortExcerpt), NEW host \in Nat, NEW from, NEW plan,
         from.rows = BlockRows(es, host), plan.ok,
         Grows(from, plan, Listed(es, {n \in DOMAIN es : es[n].begin < gameBase(es)}))
  PROVE  LET base == gameBase(es)
             inside == base .. base + blockLen(es) - 1
         IN /\ \A port \in inside : \A p \in portRequirement(es, port) :
                 \E r \in plan.rows : /\ r.proto = p /\ r.container = host + (port - base) /\ r.host = r.container
                                      /\ (r.isGamePort <=> (port = base /\ p = "tcp"))
            /\ \A port \in Declared(es) \ inside : \A p \in portRequirement(es, port) :
                 \E r \in plan.rows : r.proto = p /\ r.container = port
            /\ \A r \in plan.rows :
                 \/ \E port \in inside : /\ r.proto \in portRequirement(es, port)
                                         /\ r.container = host + (port - base) /\ r.host = r.container
                                         /\ (r.isGamePort <=> (port = base /\ r.proto = "tcp"))
                 \/ /\ r.container \in Declared(es) /\ r.proto \in portRequirement(es, r.container)
                    /\ ~r.isGamePort
<1> DEFINE base == gameBase(es)
           inside == base .. base + blockLen(es) - 1
           below == {n \in DOMAIN es : es[n].begin < base}
           Of(k) == Rows(portRequirement(es, base + k), host + k, host + k, k = 0)
<1>1. /\ base \in Nat /\ blockLen(es) \in Int
      /\ \A e \in PortExcerpts(es) : e.begin >= base => e.begin + e.len - base <= blockLen(es)
  BY BlockFacts
<1>2. \A n \in DOMAIN es : /\ es[n] \in PortExcerpts(es) /\ es[n].begin \in Nat /\ es[n].len \in Nat
  <2>1. \A n \in DOMAIN es : es[n] \in PortExcerpt /\ es[n] \in PortExcerpts(es)
    BY ExcerptFacts DEF PortExcerpts, ToSet
  <2> QED BY <2>1, ExcerptIs
<1>3. /\ from.rows \subseteq plan.rows
      /\ \A w \in Listed(es, below) : \E r \in plan.rows : r.proto = w[1] /\ r.container = w[2]
      /\ \A r \in plan.rows \ from.rows : <<r.proto, r.container>> \in Listed(es, below) /\ ~r.isGamePort
  BY DEF Grows
<1>4. from.rows = UNION {Of(k) : k \in 0 .. blockLen(es) - 1}
  BY DEF BlockRows
<1>5. ASSUME NEW k, NEW p \in portRequirement(es, base + k)
      PROVE  \E r \in Of(k) : r.proto = p
  <2> DEFINE mark == k = 0 /\ p = "tcp"
             r == [proto |-> p, host |-> host + k, container |-> host + k, isGamePort |-> mark]
  <2>1. r \in Of(k)
    BY <1>5 DEF Rows
  <2>2. r.proto = p
    BY DEF r
  <2> QED BY <2>1, <2>2
<1>6. ASSUME NEW k, NEW r \in Of(k)
      PROVE  /\ r.proto \in portRequirement(es, base + k) /\ r.host = host + k /\ r.container = host + k
             /\ (r.isGamePort <=> (k = 0 /\ r.proto = "tcp"))
  <2> DEFINE mark(p) == k = 0 /\ p = "tcp"
             One(p) == [proto |-> p, host |-> host + k, container |-> host + k, isGamePort |-> mark(p)]
  <2>1. PICK p \in portRequirement(es, base + k) : r = One(p)
    BY DEF Rows
  <2>2. mark(p) \in BOOLEAN
    OBVIOUS
  <2> HIDE DEF mark
  <2>3. r.proto = p /\ r.host = host + k /\ r.container = host + k /\ r.isGamePort = mark(p)
    BY <2>1
  <2> QED BY <2>2, <2>3 DEF mark
<1> HIDE DEF Of, base
<1>7. ASSUME NEW port \in inside, NEW p \in portRequirement(es, port)
      PROVE  \E r \in plan.rows : /\ r.proto = p /\ r.container = host + (port - base) /\ r.host = r.container
                                  /\ (r.isGamePort <=> (port = base /\ p = "tcp"))
  <2> DEFINE k == port - base
  <2>1. port \in Int /\ k \in 0 .. blockLen(es) - 1 /\ base + k = port /\ (k = 0 <=> port = base)
    BY <1>1
  <2> HIDE DEF k
  <2>2. PICK r \in Of(k) : r.proto = p
    BY <1>5, <2>1
  <2>3. r \in plan.rows
    BY <1>3, <1>4, <2>1
  <2>4. r.host = host + k /\ r.container = host + k /\ (r.isGamePort <=> (k = 0 /\ r.proto = "tcp"))
    BY <1>6
  <2> QED BY <2>1, <2>2, <2>3, <2>4 DEF k
<1>8. ASSUME NEW port \in Declared(es) \ inside, NEW p \in portRequirement(es, port)
      PROVE  \E r \in plan.rows : r.proto = p /\ r.container = port
  <2>1. PICK n \in DOMAIN es : p = es[n].proto /\ port \in PortsOf(es[n])
    BY DeclaredIs
  <2>2. port \in Int /\ es[n].begin <= port /\ port <= es[n].begin + es[n].len - 1
    BY <1>2, <2>1 DEF PortsOf
  <2>3. es[n].begin < base
    <3> SUFFICES ASSUME es[n].begin >= base PROVE port \in inside
      BY <1>1, <1>2, <1>8
    <3>1. es[n].begin + es[n].len - base <= blockLen(es)
      BY <1>1, <1>2
    <3>2. es[n].begin \in Int /\ es[n].len \in Int /\ base \in Int /\ blockLen(es) \in Int
      BY <1>1, <1>2
    <3> QED BY ONLY es[n].begin >= base, <2>2, <3>1, <3>2
  <2>4. <<p, port>> \in Listed(es, below)
    BY <2>1, <2>3 DEF Listed
  <2> QED BY <1>3, <2>4
<1>9. ASSUME NEW r \in plan.rows
      PROVE  \/ \E port \in inside : /\ r.proto \in portRequirement(es, port)
                                      /\ r.container = host + (port - base) /\ r.host = r.container
                                      /\ (r.isGamePort <=> (port = base /\ r.proto = "tcp"))
             \/ /\ r.container \in Declared(es) /\ r.proto \in portRequirement(es, r.container)
                /\ ~r.isGamePort
  <2>1. CASE r \in from.rows
    <3>1. PICK k \in 0 .. blockLen(es) - 1 : r \in Of(k)
      BY <1>4, <2>1
    <3> DEFINE port == base + k
    <3>2. port \in inside /\ port - base = k /\ (port = base <=> k = 0)
      BY <1>1
    <3> QED BY <1>6, <3>1, <3>2
  <2>2. CASE r \notin from.rows
    <3>1. <<r.proto, r.container>> \in Listed(es, below) /\ ~r.isGamePort
      BY <1>3, <2>2
    <3>2. PICK n \in below : r.proto = es[n].proto /\ r.container \in PortsOf(es[n])
      BY <3>1 DEF Listed
    <3>3. r.proto \in portRequirement(es, r.container)
      BY <3>2, DeclaredIs
    <3> QED BY <3>1, <3>3, RequiredIsDeclared
  <2> QED BY <2>1, <2>2
<1> QED BY <1>7, <1>8, <1>9 DEF base

LEMMA ViewOK ==
  ASSUME TablesOK
  PROVE  IsView(loadCandidates)
<1> DEFINE A == {x \in Agents : agent[x].status # "unregistered"}
<1>1. A \in SUBSET Agents
  OBVIOUS
<1>2. loadCandidates \in [A -> AgentRow]
  BY DEF loadCandidates, TablesOK
<1> QED BY <1>1, <1>2 DEF IsView

\* The counters g of the agents and the rows n of the instances agree.
Counted(g, n) ==
  \A a \in Agents, d \in Dims :
    /\ g[a].reserved[d] = Promised(n, a, d)
    /\ d \in HardDims => g[a].reserved[d] <= capacityLimit(a, d)

LEMMA CountedNow == inst \in [Instances -> InstanceRow] => (NeverOvercommitted <=> Counted(agent, inst))
<1> SUFFICES ASSUME inst \in [Instances -> InstanceRow] PROVE NeverOvercommitted <=> Counted(agent, inst)
  OBVIOUS
<1>1. \A a : {i \in Instances : Holds(i, a)} = HeldBy(inst, a)
  BY DEF Holds, HeldBy, Holding, Placed
<1>2. \A a \in Agents, d \in Dims : MapThenSumSet(LAMBDA i : inst[i].req[d], HeldBy(inst, a)) = Promised(inst, a, d)
  BY PromisedIs
<1>3. \A a \in Agents, d \in Dims :
        MapThenSumSet(LAMBDA i : inst[i].req[d], {i \in Instances : Holds(i, a)}) = Promised(inst, a, d)
  BY <1>1, <1>2
<1> QED BY <1>3 DEF NeverOvercommitted, Counted

LEMMA CountedNext == inst' \in [Instances -> InstanceRow] => (NeverOvercommitted' <=> Counted(agent', inst'))
<1>1. (inst \in [Instances -> InstanceRow])' => (NeverOvercommitted' <=> Counted(agent, inst)')
  BY CountedNow, PTL
<1>2. Counted(agent, inst)' <=> Counted(agent', inst')
  BY DEF Counted
<1> QED BY <1>1, <1>2

\* Statuses that hold nothing come and go without effect on the counters.
LEMMA CountsSame ==
  ASSUME NeverOvercommitted, inst \in [Instances -> InstanceRow], inst' \in [Instances -> InstanceRow],
         \A a \in Agents : agent'[a].reserved = agent[a].reserved,
         \A i \in Instances : Holding(inst[i]) <=> Holding(inst'[i]),
         \A i \in Instances : Holding(inst[i]) => inst[i].agent = inst'[i].agent /\ inst[i].req = inst'[i].req
  PROVE  NeverOvercommitted'
<1>1. Counted(agent, inst)
  BY CountedNow
<1>2. \A a \in Agents, d \in Dims : Promised(inst, a, d) = Promised(inst', a, d)
  BY PromisedSame
<1>3. Counted(agent', inst')
  BY <1>1, <1>2 DEF Counted
<1> QED BY <1>3, CountedNext

\* One call goes on, the others are where they were.
LEMMA JobGoesOn ==
  ASSUME JobsOK, NEW i \in Instances, NEW x, SoundJob(x), job' = [job EXCEPT ![i] = x],
         x.pc # "idle" => inst'[i].status = "Scheduling",
         \A j \in Instances \ {i} : inst'[j] = inst[j]
  PROVE  JobsOK'
<1>1. job = [j \in Instances |-> job[j]]
  BY DEF JobsOK
<1>2. job' = [j \in Instances |-> job'[j]] /\ job'[i] = x /\ \A j \in Instances \ {i} : job'[j] = job[j]
  BY <1>1
<1>3. \A j \in Instances : SoundJob(job'[j])
  BY <1>2 DEF JobsOK
<1>4. \A j \in Instances : job'[j].pc # "idle" => inst'[j].status = "Scheduling"
  BY <1>2 DEF JobsOK
<1> QED BY <1>2, <1>3, <1>4 DEF JobsOK

LEMMA JobOfIs ==
  ASSUME NEW x, NEW pc, NEW n, NEW v, NEW b, NEW q, NEW c, NEW s, NEW w, NEW r,
         x = JobOf(pc, n, v, b, q, c, s, w, r)
  PROVE  Shaped(x) /\ x.pc = pc /\ x.attempt = n /\ x.view = v /\ x.best = b /\ x.req = q
         /\ x.branch = c /\ x.single = s /\ x.warm = w /\ x.rows = r
<1>1. x.pc = pc /\ x.attempt = n /\ x.view = v /\ x.best = b /\ x.req = q
         /\ x.branch = c /\ x.single = s /\ x.warm = w /\ x.rows = r
  BY DEF JobOf
<1> QED BY <1>1 DEF Shaped

\* The updates of a call's record that the actions make, written out.
LEMMA SetPc ==
  ASSUME NEW x, Shaped(x), NEW pc, NEW e, e = [x EXCEPT !.pc = pc]
  PROVE  /\ e = JobOf(pc, x.attempt, x.view, x.best, x.req, x.branch, x.single, x.warm, x.rows)
         /\ Shaped(e) /\ e.pc = pc /\ e.attempt = x.attempt /\ e.view = x.view /\ e.best = x.best
         /\ e.req = x.req /\ e.branch = x.branch /\ e.single = x.single /\ e.warm = x.warm /\ e.rows = x.rows
<1>1. e = JobOf(pc, x.attempt, x.view, x.best, x.req, x.branch, x.single, x.warm, x.rows)
  BY DEF Shaped, JobOf
<1>2. /\ Shaped(e) /\ e.pc = pc /\ e.attempt = x.attempt /\ e.view = x.view /\ e.best = x.best
      /\ e.req = x.req /\ e.branch = x.branch /\ e.single = x.single /\ e.warm = x.warm /\ e.rows = x.rows
  BY ONLY <1>1, JobOfIs
<1> QED BY <1>1, <1>2

\* One more field, after the others.
LEMMA SetField ==
  ASSUME NEW x, Shaped(x), NEW y
  PROVE  /\ [x EXCEPT !.req = y] = JobOf(x.pc, x.attempt, x.view, x.best, y, x.branch, x.single, x.warm, x.rows)
         /\ [x EXCEPT !.branch = y] = JobOf(x.pc, x.attempt, x.view, x.best, x.req, y, x.single, x.warm, x.rows)
         /\ [x EXCEPT !.single = y] = JobOf(x.pc, x.attempt, x.view, x.best, x.req, x.branch, y, x.warm, x.rows)
<1>1. [x EXCEPT !.req = y] = JobOf(x.pc, x.attempt, x.view, x.best, y, x.branch, x.single, x.warm, x.rows)
  BY DEF Shaped, JobOf
<1>2. [x EXCEPT !.branch = y] = JobOf(x.pc, x.attempt, x.view, x.best, x.req, y, x.single, x.warm, x.rows)
  BY DEF Shaped, JobOf
<1>3. [x EXCEPT !.single = y] = JobOf(x.pc, x.attempt, x.view, x.best, x.req, x.branch, y, x.warm, x.rows)
  BY DEF Shaped, JobOf
<1> QED BY ONLY <1>1, <1>2, <1>3

\* What a call reads once, alone, when it begins and when it starts over.
Read(x, q, c, s) == [x EXCEPT !.req = q, !.branch = c, !.single = s]
Started(x, pc, q, c, s) == [x EXCEPT !.pc = pc, !.req = q, !.branch = c, !.single = s]
Again(x, pc, n, q, c, s) == [x EXCEPT !.pc = pc, !.attempt = n, !.req = q, !.branch = c, !.single = s]

LEMMA SetRead ==
  ASSUME NEW x, Shaped(x), NEW q, NEW c, NEW s
  PROVE  Read(x, q, c, s) = JobOf(x.pc, x.attempt, x.view, x.best, q, c, s, x.warm, x.rows)
<1> DEFINE e == [x EXCEPT !.req = q]
           f == [e EXCEPT !.branch = c]
<1>1. e = JobOf(x.pc, x.attempt, x.view, x.best, q, x.branch, x.single, x.warm, x.rows)
  BY ONLY Shaped(x), SetField
<1> HIDE DEF e
<1>2. /\ Shaped(e) /\ e.pc = x.pc /\ e.attempt = x.attempt /\ e.view = x.view /\ e.best = x.best
      /\ e.req = q /\ e.single = x.single /\ e.warm = x.warm /\ e.rows = x.rows
  BY ONLY <1>1, JobOfIs
<1>3. f = JobOf(e.pc, e.attempt, e.view, e.best, e.req, c, e.single, e.warm, e.rows)
  BY ONLY <1>2, SetField
<1> HIDE DEF f
<1>4. /\ Shaped(f) /\ f.pc = e.pc /\ f.attempt = e.attempt /\ f.view = e.view /\ f.best = e.best
      /\ f.req = e.req /\ f.branch = c /\ f.warm = e.warm /\ f.rows = e.rows
  BY ONLY <1>3, JobOfIs
<1>5. [f EXCEPT !.single = s] = JobOf(f.pc, f.attempt, f.view, f.best, f.req, f.branch, s, f.warm, f.rows)
  BY ONLY <1>4, SetField
<1>6. [f EXCEPT !.single = s] = JobOf(x.pc, x.attempt, x.view, x.best, q, c, s, x.warm, x.rows)
  BY ONLY <1>2, <1>4, <1>5
<1> QED BY <1>6 DEF e, f, Read

LEMMA SetReq ==
  ASSUME NEW x, Shaped(x), NEW pc, NEW q, NEW c, NEW s
  PROVE  Started(x, pc, q, c, s) = JobOf(pc, x.attempt, x.view, x.best, q, c, s, x.warm, x.rows)
<1> DEFINE e == [x EXCEPT !.pc = pc]
<1>1. e = JobOf(pc, x.attempt, x.view, x.best, x.req, x.branch, x.single, x.warm, x.rows)
  BY ONLY Shaped(x), SetPc
<1> HIDE DEF e
<1>2. /\ Shaped(e) /\ e.pc = pc /\ e.attempt = x.attempt /\ e.view = x.view /\ e.best = x.best
      /\ e.warm = x.warm /\ e.rows = x.rows
  BY ONLY <1>1, JobOfIs
<1>3. Read(e, q, c, s) = JobOf(e.pc, e.attempt, e.view, e.best, q, c, s, e.warm, e.rows)
  BY ONLY <1>2, SetRead
<1>4. Read(e, q, c, s) = JobOf(pc, x.attempt, x.view, x.best, q, c, s, x.warm, x.rows)
  BY ONLY <1>2, <1>3
<1> QED BY <1>4 DEF e, Read, Started

LEMMA SetView ==
  ASSUME NEW x, Shaped(x), NEW pc, NEW y
  PROVE  [x EXCEPT !.pc = pc, !.view = y] = JobOf(pc, x.attempt, y, x.best, x.req, x.branch, x.single, x.warm, x.rows)
<1> DEFINE e == [x EXCEPT !.pc = pc]
<1>1. e = JobOf(pc, x.attempt, x.view, x.best, x.req, x.branch, x.single, x.warm, x.rows)
  BY ONLY Shaped(x), SetPc
<1> HIDE DEF e
<1>2. /\ Shaped(e) /\ e.pc = pc /\ e.attempt = x.attempt /\ e.view = x.view /\ e.best = x.best
      /\ e.req = x.req /\ e.branch = x.branch /\ e.single = x.single /\ e.warm = x.warm /\ e.rows = x.rows
  BY ONLY <1>1, JobOfIs
<1>3. [e EXCEPT !.view = y] = JobOf(e.pc, e.attempt, y, e.best, e.req, e.branch, e.single, e.warm, e.rows)
  <2>1. Shaped(e)
    BY ONLY <1>2
  <2> QED BY ONLY <2>1 DEF Shaped, JobOf
<1>4. [e EXCEPT !.view = y] = JobOf(pc, x.attempt, y, x.best, x.req, x.branch, x.single, x.warm, x.rows)
  BY ONLY <1>2, <1>3
<1> QED BY <1>4 DEF e

LEMMA SetRows ==
  ASSUME NEW x, Shaped(x), NEW pc, NEW y
  PROVE  [x EXCEPT !.pc = pc, !.rows = y] = JobOf(pc, x.attempt, x.view, x.best, x.req, x.branch, x.single, x.warm, y)
<1> DEFINE e == [x EXCEPT !.pc = pc]
<1>1. e = JobOf(pc, x.attempt, x.view, x.best, x.req, x.branch, x.single, x.warm, x.rows)
  BY ONLY Shaped(x), SetPc
<1> HIDE DEF e
<1>2. /\ Shaped(e) /\ e.pc = pc /\ e.attempt = x.attempt /\ e.view = x.view /\ e.best = x.best
      /\ e.req = x.req /\ e.branch = x.branch /\ e.single = x.single /\ e.warm = x.warm /\ e.rows = x.rows
  BY ONLY <1>1, JobOfIs
<1>3. [e EXCEPT !.rows = y] = JobOf(e.pc, e.attempt, e.view, e.best, e.req, e.branch, e.single, e.warm, y)
  <2>1. Shaped(e)
    BY ONLY <1>2
  <2> QED BY ONLY <2>1 DEF Shaped, JobOf
<1>4. [e EXCEPT !.rows = y] = JobOf(pc, x.attempt, x.view, x.best, x.req, x.branch, x.single, x.warm, y)
  BY ONLY <1>2, <1>3
<1> QED BY <1>4 DEF e

LEMMA SetBestOnly ==
  ASSUME NEW x, Shaped(x), NEW pc, NEW y
  PROVE  [x EXCEPT !.pc = pc, !.best = y] = JobOf(pc, x.attempt, x.view, y, x.req, x.branch, x.single, x.warm, x.rows)
<1> DEFINE e == [x EXCEPT !.pc = pc]
<1>1. e = JobOf(pc, x.attempt, x.view, x.best, x.req, x.branch, x.single, x.warm, x.rows)
  BY ONLY Shaped(x), SetPc
<1> HIDE DEF e
<1>2. /\ Shaped(e) /\ e.pc = pc /\ e.attempt = x.attempt /\ e.view = x.view /\ e.best = x.best
      /\ e.req = x.req /\ e.branch = x.branch /\ e.single = x.single /\ e.warm = x.warm /\ e.rows = x.rows
  BY ONLY <1>1, JobOfIs
<1>3. [e EXCEPT !.best = y] = JobOf(e.pc, e.attempt, e.view, y, e.req, e.branch, e.single, e.warm, e.rows)
  <2>1. Shaped(e)
    BY ONLY <1>2
  <2> QED BY ONLY <2>1 DEF Shaped, JobOf
<1>4. [e EXCEPT !.best = y] = JobOf(pc, x.attempt, x.view, y, x.req, x.branch, x.single, x.warm, x.rows)
  BY ONLY <1>2, <1>3
<1> QED BY <1>4 DEF e

LEMMA SetAttemptOnly ==
  ASSUME NEW x, Shaped(x), NEW pc, NEW n
  PROVE  [x EXCEPT !.pc = pc, !.attempt = n] = JobOf(pc, n, x.view, x.best, x.req, x.branch, x.single, x.warm, x.rows)
<1> DEFINE e == [x EXCEPT !.pc = pc]
<1>1. e = JobOf(pc, x.attempt, x.view, x.best, x.req, x.branch, x.single, x.warm, x.rows)
  BY ONLY Shaped(x), SetPc
<1> HIDE DEF e
<1>2. /\ Shaped(e) /\ e.pc = pc /\ e.attempt = x.attempt /\ e.view = x.view /\ e.best = x.best
      /\ e.req = x.req /\ e.branch = x.branch /\ e.single = x.single /\ e.warm = x.warm /\ e.rows = x.rows
  BY ONLY <1>1, JobOfIs
<1>3. [e EXCEPT !.attempt = n] = JobOf(e.pc, n, e.view, e.best, e.req, e.branch, e.single, e.warm, e.rows)
  <2>1. Shaped(e)
    BY ONLY <1>2
  <2> QED BY ONLY <2>1 DEF Shaped, JobOf
<1>4. [e EXCEPT !.attempt = n] = JobOf(pc, n, x.view, x.best, x.req, x.branch, x.single, x.warm, x.rows)
  BY ONLY <1>2, <1>3
<1> QED BY <1>4 DEF e

LEMMA SetBest ==
  ASSUME NEW x, Shaped(x), NEW pc, NEW y, NEW z
  PROVE  [x EXCEPT !.pc = pc, !.best = y, !.warm = z] = JobOf(pc, x.attempt, x.view, y, x.req, x.branch, x.single, z, x.rows)
<1> DEFINE e == [x EXCEPT !.pc = pc, !.best = y]
<1>1. e = JobOf(pc, x.attempt, x.view, y, x.req, x.branch, x.single, x.warm, x.rows)
  BY ONLY Shaped(x), SetBestOnly
<1> HIDE DEF e
<1>2. /\ Shaped(e) /\ e.pc = pc /\ e.attempt = x.attempt /\ e.view = x.view /\ e.best = y
      /\ e.req = x.req /\ e.branch = x.branch /\ e.single = x.single /\ e.warm = x.warm /\ e.rows = x.rows
  BY ONLY <1>1, JobOfIs
<1>3. [e EXCEPT !.warm = z] = JobOf(e.pc, e.attempt, e.view, e.best, e.req, e.branch, e.single, z, e.rows)
  <2>1. Shaped(e)
    BY ONLY <1>2
  <2> QED BY ONLY <2>1 DEF Shaped, JobOf
<1>4. [e EXCEPT !.warm = z] = JobOf(pc, x.attempt, x.view, y, x.req, x.branch, x.single, z, x.rows)
  BY ONLY <1>2, <1>3
<1> QED BY <1>4 DEF e

LEMMA SetAttempt ==
  ASSUME NEW x, Shaped(x), NEW pc, NEW n, NEW q, NEW c, NEW s
  PROVE  Again(x, pc, n, q, c, s) = JobOf(pc, n, x.view, x.best, q, c, s, x.warm, x.rows)
<1> DEFINE e == [x EXCEPT !.pc = pc, !.attempt = n]
<1>1. e = JobOf(pc, n, x.view, x.best, x.req, x.branch, x.single, x.warm, x.rows)
  BY ONLY Shaped(x), SetAttemptOnly
<1> HIDE DEF e
<1>2. /\ Shaped(e) /\ e.pc = pc /\ e.attempt = n /\ e.view = x.view /\ e.best = x.best
      /\ e.warm = x.warm /\ e.rows = x.rows
  BY ONLY <1>1, JobOfIs
<1>3. Read(e, q, c, s) = JobOf(e.pc, e.attempt, e.view, e.best, q, c, s, e.warm, e.rows)
  BY ONLY <1>2, SetRead
<1>4. Read(e, q, c, s) = JobOf(pc, n, x.view, x.best, q, c, s, x.warm, x.rows)
  BY ONLY <1>2, <1>3
<1> QED BY <1>4 DEF e, Read, Again

LEMMA IdleIsSound ==
  /\ SoundJob(IdleJob) /\ IdleJob.pc = "idle" /\ IdleJob.attempt = 0 /\ IdleJob.view = None
  /\ IdleJob.req = Zero /\ IdleJob.rows = {} /\ Zero \in [Dims -> Nat]
<1>1. Zero \in [Dims -> Nat] /\ 0 \in 0 .. reservationRetry
  BY WakeBound DEF Zero
<1> QED BY <1>1 DEF SoundJob, Shaped, JobOf, IdleJob

LEMMA NewIsSound ==
  LET x == [IdleJob EXCEPT !.pc = "check"] IN SoundJob(x) /\ x.pc = "check"
<1> DEFINE x == [IdleJob EXCEPT !.pc = "check"]
           j == IdleJob
<1>1. Shaped(j) /\ SoundJob(j)
  BY IdleIsSound DEF SoundJob
<1>2. x = JobOf("check", j.attempt, j.view, j.best, j.req, j.branch, j.single, j.warm, j.rows)
  BY ONLY <1>1, SetPc
<1> HIDE DEF x, j
<1>3. /\ Shaped(x) /\ x.pc = "check" /\ x.attempt = j.attempt /\ x.view = j.view /\ x.best = j.best
      /\ x.req = j.req /\ x.branch = j.branch /\ x.single = j.single /\ x.warm = j.warm /\ x.rows = j.rows
  BY ONLY <1>2, JobOfIs
<1>4. SoundJob(x)
  BY <1>1, <1>3 DEF SoundJob
<1> QED BY <1>3, <1>4 DEF x

\* The dispatcher's end of a call.
LEMMA EndKeeps ==
  ASSUME InstancesOK, JobsOK, NeverOvercommitted, UNCHANGED agent, NEW i \in Instances, job[i].pc # "idle",
         NEW status \in {"Queued", "Failed"},
         NEW why \in {"config_error", "structural", "conflicts", "queue_timeout", ""}, Ends(i, status, why)
  PROVE  InstancesOK' /\ JobsOK' /\ NeverOvercommitted'
<1>1. inst \in [Instances -> InstanceRow] /\ inst[i].status = "Scheduling"
  BY DEF InstancesOK, JobsOK
<1>2. inst' = [inst EXCEPT ![i] = [inst[i] EXCEPT !.status = status, !.why = why]]
  BY <1>1 DEF Ends, InstanceRow
<1> DEFINE x == [inst[i] EXCEPT !.status = status, !.why = why]
<1>3. x \in InstanceRow /\ x.status = status /\ x.agent = inst[i].agent
  BY <1>1 DEF InstanceRow
<1>4. ~Holding(x) /\ ~Holding(inst[i]) /\ SoundRow(x)
  BY <1>1, <1>3 DEF Holding, InstancesOK, SoundRow
<1> HIDE DEF x
<1>5. inst' \in [Instances -> InstanceRow] /\ inst'[i] = x /\ \A j \in Instances \ {i} : inst'[j] = inst[j]
  BY <1>1, <1>2, <1>3 DEF x
<1>6. InstancesOK'
  BY <1>4, <1>5 DEF InstancesOK
<1>7. JobsOK'
  BY <1>5, IdleIsSound, JobGoesOn DEF Ends
<1>8. NeverOvercommitted'
  <2>1. \A j \in Instances : Holding(inst[j]) <=> Holding(inst'[j])
    BY <1>4, <1>5
  <2>2. \A j \in Instances : Holding(inst[j]) => inst[j].agent = inst'[j].agent /\ inst[j].req = inst'[j].req
    BY <1>4, <1>5
  <2>3. \A a \in Agents : agent'[a].reserved = agent[a].reserved
    OBVIOUS
  <2> QED BY ONLY NeverOvercommitted, <1>1, <1>5, <2>1, <2>2, <2>3, CountsSame
<1> QED BY <1>6, <1>7, <1>8

LEMMA InitKept == Init => Kept
<1> SUFFICES ASSUME Init PROVE Kept
  OBVIOUS
<1>1. Zero \in [Dims -> Nat]
  BY DEF Zero
<1>2. TablesOK
  <2>1. cache \in [Agents -> {"missing", "downloading", "available"}] /\ steam \in Branches
        /\ config \in ContainerConfig /\ editing = None
    BY PlacementAssumption DEF Init
  <2>2. \A beat \in {"fresh", "stale"} :
          [status |-> "enabled", health |-> "healthy", beat |-> beat, pressure |-> "Normal", reserved |-> Zero]
            \in AgentRow
    BY <1>1 DEF AgentRow
  <2>3. agent \in [Agents -> AgentRow]
    BY <2>2 DEF Init
  <2> QED BY <2>1, <2>3 DEF TablesOK
<1>3. QueueOK
  BY DEF Init, QueueOK
<1>4. inst \in [Instances -> InstanceRow] /\ \A i \in Instances : ~Holding(inst[i]) /\ SoundRow(inst[i])
  <2> DEFINE x(i) == [status |-> "Stopped", agent |-> 0, req |-> Override[i], why |-> ""]
  <2>1. \A i \in Instances : x(i) \in InstanceRow /\ ~Holding(x(i)) /\ SoundRow(x(i))
    BY PlacementAssumption DEF InstanceRow, Holding, SoundRow
  <2>2. inst = [i \in Instances |-> x(i)]
    BY DEF Init
  <2> HIDE DEF x
  <2> QED BY <2>1, <2>2
<1>5. InstancesOK
  BY <1>4 DEF InstancesOK
<1>6. PortsOK
  BY DEF Init, PortsOK, PortsExclusive
<1>7. JobsOK
  BY IdleIsSound DEF Init, JobsOK
<1>8. NeverOvercommitted
  <2>1. \A a \in Agents, d \in Dims : agent[a].reserved[d] = 0 /\ capacityLimit(a, d) \in Nat
    <3>1. \A a \in Agents : agent[a].reserved = Zero
      <4>1. PICK beat \in {"fresh", "stale"} :
              agent = [a \in Agents |-> [status |-> "enabled", health |-> "healthy",
                                         beat |-> beat, pressure |-> "Normal", reserved |-> Zero]]
        BY DEF Init
      <4> QED BY <4>1
    <3>2. \A d \in Dims : Zero[d] = 0
      BY DEF Zero
    <3> QED BY <3>1, <3>2, CapNat
  <2>2. \A a \in Agents, d \in Dims : Promised(inst, a, d) = 0
    <3> SUFFICES ASSUME NEW a \in Agents, NEW d \in Dims PROVE Promised(inst, a, d) = 0
      OBVIOUS
    <3>1. HeldBy(inst, a) = {}
      BY <1>4 DEF HeldBy
    <3>2. IsFiniteSet(Instances) /\ ReqOf(inst, d) \in [Instances -> Nat] /\ {} \in SUBSET Instances
      BY <1>4, InstanceFacts
    <3>3. Total(ReqOf(inst, d), {}) = 0
      BY <3>2, TotalIs
    <3> QED BY <3>1, <3>3 DEF Promised
  <2> QED BY <1>4, <2>1, <2>2, CountedNow DEF Counted
<1> QED BY <1>2, <1>3, <1>5, <1>6, <1>7, <1>8 DEF Kept
-----------------------------------------------------------------------------
(* Every step keeps the invariant.                                         *)

LEMMA TablesSame ==
  TablesOK /\ UNCHANGED <<agent, cache, steam, config, editing>> => TablesOK'
BY DEF TablesOK

LEMMA PortsSame == PortsOK /\ UNCHANGED ports => PortsOK'
BY DEF PortsOK, PortsExclusive

LEMMA RowsSame ==
  ASSUME InstancesOK, JobsOK, NeverOvercommitted, UNCHANGED <<agent, inst>>,
         NEW i \in Instances, NEW x, SoundJob(x), job[i].pc # "idle", job' = [job EXCEPT ![i] = x]
  PROVE  InstancesOK' /\ JobsOK' /\ NeverOvercommitted'
<1>1. InstancesOK'
  BY DEF InstancesOK
<1>2. JobsOK'
  <2>1. inst'[i].status = "Scheduling"
    BY DEF JobsOK
  <2>2. \A j \in Instances \ {i} : inst'[j] = inst[j]
    OBVIOUS
  <2> QED BY <2>1, <2>2, JobGoesOn
<1>3. NeverOvercommitted'
  <2>1. inst \in [Instances -> InstanceRow] /\ inst' \in [Instances -> InstanceRow]
    BY DEF InstancesOK
  <2> QED BY <2>1, CountedNow, CountedNext
<1> QED BY <1>1, <1>2, <1>3

LEMMA RetryKeeps ==
  ASSUME InstancesOK, JobsOK, QueueOK, NeverOvercommitted, UNCHANGED agent,
         NEW i \in Instances, job[i].pc \in {"plan", "reserve"}, Retry(i)
  PROVE  InstancesOK' /\ JobsOK' /\ QueueOK' /\ NeverOvercommitted'
<1>1. job[i].pc # "idle" /\ SoundJob(job[i])
  BY DEF JobsOK
<1>2. UNCHANGED row
  BY DEF Retry, ToFailed
<1>3. QueueOK'
  BY <1>2 DEF QueueOK
<1>4. CASE job[i].attempt >= reservationRetry
  <2>1. Ends(i, "Failed", "conflicts")
    BY <1>4 DEF Retry, ToFailed
  <2> QED BY <1>1, <1>3, <2>1, EndKeeps
<1>5. CASE ~(job[i].attempt >= reservationRetry)
  <2> DEFINE x == [IdleJob EXCEPT !.pc = "load", !.attempt = job[i].attempt + 1, !.req = job[i].req,
                               !.branch = job[i].branch, !.single = job[i].single]
  <2>1. job' = [job EXCEPT ![i] = x] /\ UNCHANGED inst
    BY <1>5 DEF Retry
  <2>2. job[i].attempt + 1 \in 0 .. reservationRetry /\ job[i].req \in [Dims -> Nat] /\ job[i].req["cpu"] > 0
    BY <1>1, <1>5, WakeBound DEF SoundJob
  <2>3. SoundJob(x)
    <3> DEFINE j == IdleJob
               n == job[i].attempt + 1
               q == job[i].req
               c == job[i].branch
               s == job[i].single
    <3>1. SoundJob(j) /\ Shaped(j) /\ j.rows = {} /\ n \in 0 .. reservationRetry /\ q \in [Dims -> Nat] /\ q["cpu"] > 0
      BY <2>2, IdleIsSound DEF SoundJob
    <3>2. x = JobOf("load", n, j.view, j.best, q, c, s, j.warm, j.rows)
      <4>1. Shaped(j)
        BY <3>1
      <4> HIDE DEF j, n, q, c, s
      <4>2. Again(j, "load", n, q, c, s) = JobOf("load", n, j.view, j.best, q, c, s, j.warm, j.rows)
        BY ONLY <4>1, SetAttempt
      <4> QED BY <4>2 DEF j, n, q, c, s, Again
    <3> HIDE DEF x, j, n, q, c, s
    <3>3. Shaped(x) /\ x.pc = "load" /\ x.attempt = n /\ x.req = q /\ x.rows = j.rows
      BY ONLY <3>2, JobOfIs
    <3> QED BY <3>1, <3>3 DEF SoundJob
  <2> HIDE DEF x
  <2> QED BY <1>1, <1>3, <2>1, <2>3, RowsSame
<1> QED BY <1>4, <1>5

LEMMA ToQueueKeeps ==
  ASSUME QueueOK, NEW i \in Instances, ToQueue(i)
  PROVE  QueueOK' /\ \E status \in {"Queued", "Failed"}, why \in {"", "queue_timeout"} : Ends(i, status, why)
<1>1. row \in [Instances -> QueueRow \cup {None}]
  BY DEF QueueOK
<1>2. ASSUME Enqueue(i) PROVE QueueOK'
  <2> DEFINE x == [attempts |-> 0, wake |-> backoffBase, left |-> timeout, priority |-> PriorityOf(i)]
  <2>1. x \in QueueRow
    BY WakeBound DEF QueueRow
  <2>2. row' = [row EXCEPT ![i] = x]
    BY <1>2 DEF Enqueue
  <2> HIDE DEF x
  <2> QED BY <1>1, <2>1, <2>2 DEF QueueOK
<1>3. ASSUME Dequeue(i) PROVE QueueOK'
  BY <1>1, <1>3 DEF Dequeue, QueueOK
<1>4. ASSUME row[i] # None, OnStillQueued(i) PROVE QueueOK'
  <2> DEFINE n == row[i].attempts + 1
             x == [row[i] EXCEPT !.attempts = n, !.wake = backoff(n)]
  <2>1. row[i] \in QueueRow
    BY <1>1, <1>4
  <2>2. n \in Nat
    BY <2>1 DEF QueueRow
  <2>3. row' = [row EXCEPT ![i] = x]
    BY <1>1, <1>4, <2>1 DEF OnStillQueued, QueueRow
  <2> HIDE DEF n
  <2>4. backoff(n) \in Int /\ backoff(n) <= Max({backoffBase, backoffMax})
    BY <2>2, BackoffBound
  <2>5. x \in QueueRow
    BY <2>1, <2>2, <2>4 DEF QueueRow
  <2> HIDE DEF x
  <2> QED BY <1>1, <2>3, <2>5 DEF QueueOK
<1>5. QueueOK'
  BY <1>2, <1>3, <1>4 DEF ToQueue
<1>6. \E status \in {"Queued", "Failed"}, why \in {"", "queue_timeout"} : Ends(i, status, why)
  BY DEF ToQueue
<1> QED BY <1>5, <1>6

LEMMA BeginKeeps ==
  ASSUME Kept, NEW i \in Instances, Begin(i)
  PROVE  Kept'
<1> USE DEF Kept
<1>1. UNCHANGED <<agent, cache, steam, config, editing, ports, row>>
  BY DEF Begin
<1>2. TablesOK' /\ PortsOK' /\ QueueOK'
  BY <1>1, TablesSame, PortsSame DEF QueueOK
<1> DEFINE x == [inst[i] EXCEPT !.status = "Scheduling", !.why = ""]
           j == [IdleJob EXCEPT !.pc = "check"]
<1>3. inst \in [Instances -> InstanceRow] /\ inst[i] \in InstanceRow
  BY DEF InstancesOK
<1>4. inst' = [inst EXCEPT ![i] = x] /\ job' = [job EXCEPT ![i] = j]
  BY <1>3 DEF Begin, InstanceRow
<1>5. x \in InstanceRow /\ x.status = "Scheduling" /\ x.agent = inst[i].agent
  BY <1>3 DEF InstanceRow
<1>6. ~Holding(x) /\ ~Holding(inst[i]) /\ SoundRow(x)
  <2>1. inst[i].agent = 0
    BY DEF Begin, IsStopFailure, InstancesOK, SoundRow
  <2> QED BY <1>5, <2>1 DEF Holding, Begin, SoundRow
<1> HIDE DEF x, j
<1>7. inst' \in [Instances -> InstanceRow] /\ inst'[i] = x /\ \A k \in Instances \ {i} : inst'[k] = inst[k]
  BY <1>3, <1>4, <1>5
<1>8. InstancesOK'
  BY <1>6, <1>7 DEF InstancesOK
<1>9. JobsOK'
  <2>1. SoundJob(j)
    BY NewIsSound DEF j
  <2> QED BY <1>4, <1>5, <1>7, <2>1, JobGoesOn
<1>10. NeverOvercommitted'
  <2>1. \A k \in Instances : Holding(inst[k]) <=> Holding(inst'[k])
    BY <1>6, <1>7
  <2>2. \A k \in Instances : Holding(inst[k]) => inst[k].agent = inst'[k].agent /\ inst[k].req = inst'[k].req
    BY <1>6, <1>7
  <2>3. \A a \in Agents : agent'[a].reserved = agent[a].reserved
    BY <1>1
  <2> QED BY ONLY Kept, <1>3, <1>7, <2>1, <2>2, <2>3, CountsSame DEF Kept
<1> QED BY <1>2, <1>8, <1>9, <1>10

LEMMA CheckKeeps ==
  ASSUME Kept, NEW i \in Instances, Check(i)
  PROVE  Kept'
<1> USE DEF Kept
<1>1. UNCHANGED <<agent, cache, steam, config, editing, ports, row>> /\ job[i].pc = "check"
  BY DEF Check, ToFailed
<1>2. TablesOK' /\ PortsOK' /\ QueueOK'
  BY <1>1, TablesSame, PortsSame DEF QueueOK
<1>3. SoundJob(job[i]) /\ job[i].pc # "idle"
  BY <1>1 DEF JobsOK
<1>4. CASE Ends(i, "Failed", "config_error")
  BY <1>1, <1>2, <1>3, <1>4, EndKeeps
<1>5. CASE /\ job' = [job EXCEPT ![i].pc = "load", ![i].req = resolveRequest(i),
                                 ![i].branch = resolveBranch, ![i].single = config.single]
           /\ UNCHANGED inst
  <2> DEFINE x == [job[i] EXCEPT !.pc = "load", !.req = resolveRequest(i),
                                 !.branch = resolveBranch, !.single = config.single]
  <2>1. job = [k \in Instances |-> job[k]]
    BY DEF JobsOK
  <2>3. job' = [job EXCEPT ![i] = x]
    BY <1>3, <1>5, <2>1 DEF SoundJob
  <2>5. SoundJob(x)
    <3> DEFINE j == job[i]
               q == resolveRequest(i)
               c == resolveBranch
               s == config.single
    <3>1. SoundJob(j) /\ Shaped(j) /\ q \in [Dims -> Nat] /\ q["cpu"] > 0
      BY <1>3, RequestOK DEF SoundJob
    <3>2. x = JobOf("load", j.attempt, j.view, j.best, q, c, s, j.warm, j.rows)
      <4>1. Shaped(j)
        BY <3>1
      <4> HIDE DEF j, q, c, s
      <4>2. Started(j, "load", q, c, s) = JobOf("load", j.attempt, j.view, j.best, q, c, s, j.warm, j.rows)
        BY ONLY <4>1, SetReq
      <4> QED BY <4>2 DEF j, q, c, s, Started
    <3> HIDE DEF x, j, q, c, s
    <3>3. Shaped(x) /\ x.pc = "load" /\ x.attempt = j.attempt /\ x.req = q /\ x.rows = j.rows
      BY ONLY <3>2, JobOfIs
    <3> QED BY <3>1, <3>3 DEF SoundJob
  <2> HIDE DEF x
  <2> QED BY <1>1, <1>2, <1>3, <1>5, <2>3, <2>5, RowsSame
<1> QED BY <1>4, <1>5 DEF Check, ToFailed

LEMMA LoadKeeps ==
  ASSUME Kept, NEW i \in Instances, Load(i)
  PROVE  Kept'
<1> USE DEF Kept
<1>1. UNCHANGED <<agent, cache, steam, config, editing, ports, row, inst>> /\ job[i].pc = "load"
  BY DEF Load
<1>2. TablesOK' /\ PortsOK' /\ QueueOK'
  BY <1>1, TablesSame, PortsSame DEF QueueOK
<1>3. SoundJob(job[i]) /\ job[i].pc # "idle" /\ job = [k \in Instances |-> job[k]]
  BY <1>1 DEF JobsOK
<1> DEFINE x == [job[i] EXCEPT !.pc = "choose", !.view = loadCandidates]
<1>5. job' = [job EXCEPT ![i] = x]
  BY <1>3 DEF SoundJob, Load
<1>7. SoundJob(x)
  <2> DEFINE j == job[i]
             v == loadCandidates
  <2>1. SoundJob(j) /\ Shaped(j) /\ IsView(v) /\ j.pc = "load"
    BY <1>1, <1>3, ViewOK DEF SoundJob
  <2>2. x = JobOf("choose", j.attempt, v, j.best, j.req, j.branch, j.single, j.warm, j.rows)
    <3>1. Shaped(j)
      BY <2>1
    <3> HIDE DEF j, v
    <3>2. [j EXCEPT !.pc = "choose", !.view = v] = JobOf("choose", j.attempt, v, j.best, j.req, j.branch, j.single, j.warm, j.rows)
      BY ONLY <3>1, SetView
    <3> QED BY <3>2 DEF j, v
  <2> HIDE DEF x, j, v
  <2>3. Shaped(x) /\ x.pc = "choose" /\ x.attempt = j.attempt /\ x.req = j.req /\ x.rows = j.rows /\ x.view = v
    BY ONLY <2>2, JobOfIs
  <2> QED BY <2>1, <2>3 DEF SoundJob
<1> HIDE DEF x
<1> QED BY <1>1, <1>2, <1>3, <1>5, <1>7, RowsSame

LEMMA ChooseKeeps ==
  ASSUME Kept, NEW i \in Instances, Choose(i)
  PROVE  Kept'
<1> USE DEF Kept
<1> DEFINE j == job[i]
           view == j.view
           E == Eligible(Filter(i, view, j.req, j.branch))
           best == pickBest(i, view, E, j.single)
           w == ~HasCache(best)
<1>1. UNCHANGED <<agent, cache, steam, config, editing, ports>> /\ job[i].pc = "choose"
  BY DEF Choose
<1>2. TablesOK' /\ PortsOK'
  BY <1>1, TablesSame, PortsSame
<1>3. SoundJob(j) /\ j.pc # "idle" /\ job = [k \in Instances |-> job[k]]
  BY <1>1 DEF JobsOK
<1>4. \/ E # {} /\ job' = [job EXCEPT ![i].pc = "plan", ![i].best = best, ![i].warm = w] /\ UNCHANGED <<inst, row>>
      \/ ToQueue(i)
      \/ ToFailed(i, "structural")
  BY DEF Choose
<1>5. CASE ToQueue(i)
  <2>1. QueueOK' /\ \E status \in {"Queued", "Failed"}, why \in {"", "queue_timeout"} : Ends(i, status, why)
    BY <1>5, ToQueueKeeps
  <2>2. PICK status \in {"Queued", "Failed"}, why \in {"", "queue_timeout"} : Ends(i, status, why)
    BY <2>1
  <2>3. InstancesOK' /\ JobsOK' /\ NeverOvercommitted'
    BY <1>1, <1>3, <2>2, EndKeeps
  <2> QED BY <1>2, <2>1, <2>3
<1>6. CASE ToFailed(i, "structural")
  <2>1. InstancesOK' /\ JobsOK' /\ NeverOvercommitted'
    BY <1>1, <1>3, <1>6, EndKeeps DEF ToFailed
  <2>2. QueueOK'
    BY <1>6 DEF ToFailed, QueueOK
  <2> QED BY <1>2, <2>1, <2>2
<1>7. CASE E # {} /\ job' = [job EXCEPT ![i].pc = "plan", ![i].best = best, ![i].warm = w] /\ UNCHANGED <<inst, row>>
  <2>1. QueueOK'
    BY <1>7 DEF QueueOK
  <2>2. PICK A \in SUBSET Agents : view \in [A -> AgentRow]
    BY <1>1, <1>3 DEF SoundJob, IsView
  <2>3. j.req \in [Dims -> Nat] /\ j.req["cpu"] > 0
    BY <1>1, <1>3 DEF SoundJob
  <2>4. best \in A /\ ResourcesSatisfied(best, view[best], j.req)
    BY <1>7, <2>2, <2>3, ChosenFits
  <2> DEFINE x == [j EXCEPT !.pc = "plan", !.best = best, !.warm = w]
  <2> HIDE DEF w, best, E
  <2>5. job' = [job EXCEPT ![i] = x]
    BY <1>3, <1>7 DEF SoundJob
  <2>6. SoundJob(x)
    <3>1. Shaped(j) /\ j.pc = "choose"
      BY <1>1, <1>3 DEF SoundJob
    <3> HIDE DEF j, view
    <3>2. x = JobOf("plan", j.attempt, j.view, best, j.req, j.branch, j.single, w, j.rows)
      BY ONLY <3>1, SetBest
    <3> HIDE DEF x
    <3>3. Shaped(x) /\ x.pc = "plan" /\ x.attempt = j.attempt /\ x.req = j.req /\ x.rows = j.rows
          /\ x.view = j.view /\ x.best = best
      BY ONLY <3>2, JobOfIs
    <3>4. IsView(j.view) /\ best \in DOMAIN j.view /\ ResourcesSatisfied(best, j.view[best], j.req)
      BY <1>3, <2>2, <2>4, <3>1 DEF SoundJob, view
    <3> QED BY <1>3, <2>3, <3>3, <3>4 DEF SoundJob
  <2> HIDE DEF x
  <2>7. InstancesOK' /\ JobsOK' /\ NeverOvercommitted'
    BY <1>1, <1>3, <1>7, <2>5, <2>6, RowsSame
  <2> QED BY <1>2, <2>1, <2>7
<1> QED BY <1>4, <1>5, <1>6, <1>7

LEMMA PlanKeeps ==
  ASSUME Kept, NEW i \in Instances, Plan(i)
  PROVE  Kept'
<1> USE DEF Kept
<1> DEFINE j == job[i]
           plan == PlanOn(j.best)
<1>1. UNCHANGED <<agent, cache, steam, config, editing, ports>> /\ job[i].pc = "plan"
  BY DEF Plan
<1>2. TablesOK' /\ PortsOK'
  BY <1>1, TablesSame, PortsSame
<1>3. SoundJob(j) /\ j.pc # "idle" /\ job = [k \in Instances |-> job[k]]
  BY <1>1 DEF JobsOK
<1>4. CASE Retry(i)
  <2>1. InstancesOK' /\ JobsOK' /\ QueueOK' /\ NeverOvercommitted'
    BY <1>1, <1>4, RetryKeeps
  <2> QED BY <1>2, <2>1
<1>5. CASE job' = [job EXCEPT ![i].pc = "reserve", ![i].rows = plan.rows] /\ UNCHANGED <<inst, row>>
  <2>1. QueueOK'
    BY <1>5 DEF QueueOK
  <2>2. plan.rows \in SUBSET PlanRow /\ \A r, s \in plan.rows : r.proto = s.proto /\ r.host = s.host => r = s
    <3>1. plan \in Clean(usedHostPorts(RowsOf(j.best)))
      BY PlanOK
    <3> HIDE DEF plan
    <3> QED BY <3>1 DEF Clean, PlanType
  <2> DEFINE x == [j EXCEPT !.pc = "reserve", !.rows = plan.rows]
  <2> HIDE DEF plan
  <2>3. job' = [job EXCEPT ![i] = x]
    BY <1>3, <1>5 DEF SoundJob
  <2>4. SoundJob(x)
    <3>1. Shaped(j) /\ j.pc = "plan"
      BY <1>1, <1>3 DEF SoundJob
    <3> HIDE DEF j
    <3>2. x = JobOf("reserve", j.attempt, j.view, j.best, j.req, j.branch, j.single, j.warm, plan.rows)
      BY ONLY <3>1, SetRows
    <3> HIDE DEF x
    <3>3. Shaped(x) /\ x.pc = "reserve" /\ x.attempt = j.attempt /\ x.req = j.req /\ x.rows = plan.rows
          /\ x.view = j.view /\ x.best = j.best
      BY ONLY <3>2, JobOfIs
    <3>4. IsView(j.view) /\ j.best \in DOMAIN j.view /\ ResourcesSatisfied(j.best, j.view[j.best], j.req)
      BY <1>3, <3>1 DEF SoundJob
    <3> QED BY <1>3, <2>2, <3>1, <3>3, <3>4 DEF SoundJob
  <2> HIDE DEF x
  <2>5. InstancesOK' /\ JobsOK' /\ NeverOvercommitted'
    BY <1>1, <1>3, <1>5, <2>3, <2>4, RowsSame
  <2> QED BY <1>2, <2>1, <2>5
<1> QED BY <1>4, <1>5 DEF Plan

\* What a granted reservation adds is what the node promises to the instance.
LEMMA GrantCounts ==
  ASSUME Kept, NEW i \in Instances, NEW a \in Agents, inst[i].status = "Scheduling",
         job[i].req \in [Dims -> Nat], ~Full(i, a), inst' \in [Instances -> InstanceRow],
         \A k \in Instances \ {i} : inst'[k] = inst[k],
         Holding(inst'[i]), inst'[i].agent = a, inst'[i].req = job[i].req,
         agent' = [agent EXCEPT ![a].reserved = [d \in Dims |-> agent[a].reserved[d] + job[i].req[d]]]
  PROVE  NeverOvercommitted'
<1> DEFINE q == job[i].req
<1>1. inst \in [Instances -> InstanceRow] /\ agent \in [Agents -> AgentRow] /\ ~Holding(inst[i])
  BY DEF Kept, InstancesOK, TablesOK, Holding
<1>2. Counted(agent, inst)
  BY <1>1, CountedNow DEF Kept
<1>3. \A b \in Agents, d \in Dims :
        Promised(inst', b, d) = (IF inst'[i].agent = b THEN inst'[i].req[d] ELSE 0) + Promised(inst, b, d)
  BY <1>1, PromisedWith
<1>4. \A b \in Agents, d \in Dims : Promised(inst, b, d) \in Nat /\ capacityLimit(b, d) \in Nat
  BY <1>1, PromisedNat, CapNat
<1>5. \A b \in Agents \ {a} : agent'[b] = agent[b]
  BY <1>1
<1>6. \A d \in Dims : agent'[a].reserved[d] = agent[a].reserved[d] + q[d]
  BY <1>1 DEF AgentRow
<1>7. \A d \in Dims : q[d] \in Nat
  OBVIOUS
<1>8. \A d \in HardDims : ~(agent[a].reserved[d] + q[d] > capacityLimit(a, d))
  BY DEF Full
<1>9. ASSUME NEW b \in Agents, NEW d \in Dims
      PROVE  /\ agent'[b].reserved[d] = Promised(inst', b, d)
             /\ d \in HardDims => agent'[b].reserved[d] <= capacityLimit(b, d)
  <2>1. agent[b].reserved[d] = Promised(inst, b, d) /\ (d \in HardDims => agent[b].reserved[d] <= capacityLimit(b, d))
    BY <1>2 DEF Counted
  <2>2. CASE b = a
    <3>1. Promised(inst', b, d) = q[d] + Promised(inst, b, d)
      BY <1>3, <2>2
    <3>2. agent'[b].reserved[d] = agent[b].reserved[d] + q[d]
      BY <1>6, <2>2
    <3>3. d \in HardDims => ~(agent[b].reserved[d] + q[d] > capacityLimit(b, d))
      BY <1>8, <2>2
    <3>4. q[d] \in Nat /\ Promised(inst, b, d) \in Nat /\ capacityLimit(b, d) \in Nat
      BY <1>4, <1>7
    <3> HIDE DEF q
    <3> QED BY ONLY <2>1, <3>1, <3>2, <3>3, <3>4
  <2>3. CASE b # a
    <3>1. Promised(inst', b, d) = 0 + Promised(inst, b, d)
      BY <1>3, <2>3
    <3>2. agent'[b].reserved[d] = agent[b].reserved[d]
      BY <1>5, <2>3
    <3>3. Promised(inst, b, d) \in Nat
      BY <1>4
    <3> QED BY ONLY <2>1, <3>1, <3>2, <3>3
  <2> QED BY <2>2, <2>3
<1> QED BY <1>9, CountedNext DEF Counted

\* The new rows take ports that no row of the agent has.
LEMMA GrantPorts ==
  ASSUME PortsOK, NEW i \in Instances, SoundJob(job[i]), job[i].pc = "reserve", job[i].best \in Agents,
         ~PortTaken(i, job[i].best), ports' = ports \cup Planned(i)
  PROVE  PortsOK'
<1> DEFINE a == job[i].best
           R == job[i].rows
<1>1. R \in SUBSET PlanRow /\ \A r, s \in R : r.proto = s.proto /\ r.host = s.host => r = s
  BY DEF SoundJob
<1>2. \A p \in ports, r \in R : ~(p.agent = a /\ p.host = r.host /\ p.proto = r.proto)
  BY DEF PortTaken, RowsOf
<1>3. \A n \in Planned(i) : \E r \in R : n = [inst |-> i, agent |-> a, proto |-> r.proto, host |-> r.host,
                                            container |-> r.container, isGamePort |-> r.isGamePort]
  BY DEF Planned
<1> HIDE DEF a, R
<1>4. \A n \in Planned(i) : n \in PortRow /\ n.agent = a
  <2> SUFFICES ASSUME NEW n \in Planned(i) PROVE n \in PortRow /\ n.agent = a
    OBVIOUS
  <2>1. PICK r \in R : n = [inst |-> i, agent |-> a, proto |-> r.proto, host |-> r.host,
                            container |-> r.container, isGamePort |-> r.isGamePort]
    BY <1>3
  <2>2. r \in PlanRow /\ a \in Agents
    BY <1>1 DEF a
  <2>3. n \in PortRow
    BY <2>1, <2>2 DEF PlanRow, PortRow
  <2> QED BY <2>1, <2>3
<1>5. ports' \in SUBSET PortRow
  BY <1>4 DEF PortsOK
<1>6. ASSUME NEW n \in Planned(i), NEW m \in Planned(i), n.proto = m.proto, n.host = m.host PROVE n = m
  <2>1. PICK r \in R : n = [inst |-> i, agent |-> a, proto |-> r.proto, host |-> r.host,
                            container |-> r.container, isGamePort |-> r.isGamePort]
    BY <1>3
  <2>2. PICK s \in R : m = [inst |-> i, agent |-> a, proto |-> s.proto, host |-> s.host,
                            container |-> s.container, isGamePort |-> s.isGamePort]
    BY <1>3
  <2>3. n.proto = r.proto /\ n.host = r.host /\ m.proto = s.proto /\ m.host = s.host
    BY ONLY <2>1, <2>2
  <2>4. r = s
    BY ONLY <1>1, <1>6, <2>1, <2>2, <2>3
  <2> QED BY ONLY <2>1, <2>2, <2>4
<1>7. \A n \in Planned(i), p \in ports : ~(p.agent = n.agent /\ p.proto = n.proto /\ p.host = n.host)
  <2> SUFFICES ASSUME NEW n \in Planned(i), NEW p \in ports, p.agent = n.agent, p.proto = n.proto, p.host = n.host
               PROVE FALSE
    OBVIOUS
  <2>1. PICK r \in R : n = [inst |-> i, agent |-> a, proto |-> r.proto, host |-> r.host,
                            container |-> r.container, isGamePort |-> r.isGamePort]
    BY <1>3
  <2>2. n.proto = r.proto /\ n.host = r.host /\ n.agent = a
    BY ONLY <2>1
  <2> QED BY <1>2, <2>2
<1>8. PortsExclusive'
  <2> SUFFICES ASSUME NEW r \in ports', NEW s \in ports', r.agent = s.agent, r.proto = s.proto, r.host = s.host
               PROVE r = s
    BY DEF PortsExclusive
  <2>1. CASE r \in ports /\ s \in ports
    BY <2>1 DEF PortsOK, PortsExclusive
  <2>2. CASE r \in Planned(i) /\ s \in Planned(i)
    BY <1>6, <2>2
  <2>3. CASE r \in Planned(i) /\ s \in ports
    BY <1>7, <2>3
  <2>4. CASE r \in ports /\ s \in Planned(i)
    BY <1>7, <2>4
  <2> QED BY <2>1, <2>2, <2>3, <2>4
<1> QED BY <1>5, <1>8 DEF PortsOK

LEMMA ReservedAgent ==
  ASSUME NEW i, SoundJob(job[i]), job[i].pc \in {"plan", "reserve"}
  PROVE  job[i].best \in Agents
BY DEF SoundJob, IsView

LEMMA TryReserveKeeps ==
  ASSUME Kept, NEW i \in Instances, TryReserve(i)
  PROVE  Kept'
<1> USE DEF Kept
<1> DEFINE a == job[i].best
<1>1. UNCHANGED <<cache, steam, config, editing>> /\ job[i].pc = "reserve"
  BY DEF TryReserve
<1>2. SoundJob(job[i]) /\ job[i].pc # "idle" /\ inst[i].status = "Scheduling"
  BY <1>1 DEF JobsOK
<1>3. a \in Agents /\ job[i].req \in [Dims -> Nat]
  BY <1>1, <1>2, ReservedAgent DEF SoundJob
<1>4. CASE Retry(i) /\ UNCHANGED <<agent, ports>>
  <2>1. TablesOK' /\ PortsOK'
    BY <1>1, <1>4, TablesSame, PortsSame
  <2>2. InstancesOK' /\ JobsOK' /\ QueueOK' /\ NeverOvercommitted'
    BY <1>1, <1>4, RetryKeeps
  <2> QED BY <2>1, <2>2
<1>5. CASE ~Full(i, a) /\ ~PortTaken(i, a) /\ Granted(i, a)
  <2> DEFINE x == [status |-> IF job[i].warm THEN "Warming" ELSE "Preparing",
                   agent |-> a, req |-> job[i].req, why |-> ""]
             sum == [d \in Dims |-> agent[a].reserved[d] + job[i].req[d]]
  <2>1. agent \in [Agents -> AgentRow] /\ agent[a] \in AgentRow /\ inst \in [Instances -> InstanceRow]
    BY <1>3 DEF TablesOK, InstancesOK
  <2>2. agent' = [agent EXCEPT ![a].reserved = sum]
    BY <1>5, <2>1 DEF Granted
  <2>3. sum \in [Dims -> Nat]
    <3>1. \A d \in Dims : agent[a].reserved[d] \in Nat /\ job[i].req[d] \in Nat
      BY <1>3, <2>1 DEF AgentRow
    <3> QED BY <3>1
  <2>4. TablesOK'
    <3> HIDE DEF sum
    <3>1. agent' \in [Agents -> AgentRow]
      BY <2>1, <2>2, <2>3 DEF AgentRow
    <3> QED BY <1>1, <3>1 DEF TablesOK
  <2>5. PortsOK'
    BY <1>1, <1>2, <1>3, <1>5, GrantPorts DEF Granted
  <2>6. QueueOK'
    BY <1>5 DEF Granted, Dequeue, QueueOK
  <2>7. x \in InstanceRow /\ Holding(x) /\ x.agent = a /\ x.req = job[i].req /\ SoundRow(x)
    BY <1>3 DEF InstanceRow, Holding, SoundRow
  <2>8. inst' = [inst EXCEPT ![i] = x]
    BY <1>5 DEF Granted
  <2> HIDE DEF x
  <2>9. inst' \in [Instances -> InstanceRow] /\ inst'[i] = x /\ \A k \in Instances \ {i} : inst'[k] = inst[k]
    BY <2>1, <2>7, <2>8
  <2>10. InstancesOK'
    BY <1>3, <2>7, <2>9 DEF InstancesOK
  <2>11. JobsOK'
    BY <1>5, <2>9, IdleIsSound, JobGoesOn DEF Granted
  <2>12. NeverOvercommitted'
    <3>1. Holding(inst'[i]) /\ inst'[i].agent = a /\ inst'[i].req = job[i].req
      BY <2>7, <2>9
    <3>2. agent' = [agent EXCEPT ![a].reserved = [d \in Dims |-> agent[a].reserved[d] + job[i].req[d]]]
      BY <2>2
    <3> QED BY ONLY Kept, i \in Instances, <1>2, <1>3, <1>5, <2>9, <3>1, <3>2, GrantCounts
  <2> QED BY <2>4, <2>5, <2>6, <2>10, <2>11, <2>12
<1> QED BY <1>4, <1>5 DEF TryReserve

\* A row that holds nothing is replaced by another one.
LEMMA RowKeeps ==
  ASSUME Kept, UNCHANGED <<agent, cache, steam, config, editing, ports, job, row>>,
         NEW i \in Instances, inst[i].status # "Scheduling", ~Holding(inst[i]),
         NEW x \in InstanceRow, SoundRow(x), ~Holding(x), inst' = [inst EXCEPT ![i] = x]
  PROVE  Kept'
<1> USE DEF Kept
<1>1. TablesOK' /\ QueueOK' /\ PortsOK'
  BY TablesSame, PortsSame DEF QueueOK
<1>2. inst \in [Instances -> InstanceRow]
  BY DEF InstancesOK
<1>3. inst' \in [Instances -> InstanceRow] /\ inst'[i] = x /\ \A k \in Instances \ {i} : inst'[k] = inst[k]
  BY <1>2
<1>4. InstancesOK'
  BY <1>3 DEF InstancesOK
<1>5. JobsOK'
  <2>1. job[i].pc = "idle"
    BY DEF JobsOK
  <2>2. \A k \in Instances : job'[k].pc # "idle" => inst'[k].status = "Scheduling"
    BY <1>3, <2>1 DEF JobsOK
  <2> QED BY <2>2 DEF JobsOK
<1>6. NeverOvercommitted'
  <2>1. \A k \in Instances : Holding(inst[k]) <=> Holding(inst'[k])
    BY <1>3
  <2>2. \A k \in Instances : Holding(inst[k]) => inst[k].agent = inst'[k].agent /\ inst[k].req = inst'[k].req
    BY <1>3
  <2>3. \A a \in Agents : agent'[a].reserved = agent[a].reserved
    OBVIOUS
  <2> QED BY ONLY Kept, <1>2, <1>3, <2>1, <2>2, <2>3, CountsSame DEF Kept
<1> QED BY <1>1, <1>4, <1>5, <1>6

LEMMA EndingsKeep ==
  ASSUME Kept, NEW i \in Instances, onCleanInstanceSucceeded(i) \/ FailedInstance(i) \/ StopGameInstance(i)
  PROVE  Kept'
<1>1. inst[i] \in InstanceRow /\ SoundRow(inst[i]) /\ Zero \in [Dims -> Nat]
  BY IdleIsSound DEF Kept, InstancesOK
<1>2. /\ UNCHANGED <<agent, cache, steam, config, editing, ports, job, row>>
      /\ inst[i].status \in {"Releasing", "Failed"}
  BY DEF onCleanInstanceSucceeded, FailedInstance, StopGameInstance, IsStopFailure
<1>3. inst[i].status # "Scheduling" /\ ~Holding(inst[i])
  BY <1>2 DEF Holding
<1> DEFINE clean == [inst[i] EXCEPT !.status = "Stopped", !.agent = 0]
           kept == [inst[i] EXCEPT !.status = "Failed", !.req = Zero]
           freed == [inst[i] EXCEPT !.status = "Failed", !.agent = 0]
           again == [inst[i] EXCEPT !.status = "Stopping"]
           Fits(x) == x \in InstanceRow /\ SoundRow(x) /\ ~Holding(x)
<1>4. Fits(clean)
  BY <1>1 DEF InstanceRow, SoundRow, Holding
<1>5. Fits(kept)
  BY <1>1 DEF InstanceRow, SoundRow, Holding
<1>6. Fits(freed)
  BY <1>1 DEF InstanceRow, SoundRow, Holding
<1>7. IsStopFailure(i) => Fits(again)
  BY <1>1 DEF InstanceRow, SoundRow, Holding, IsStopFailure
<1>8. \/ inst' = [inst EXCEPT ![i] = clean]
      \/ inst' = [inst EXCEPT ![i] = kept]
      \/ inst' = [inst EXCEPT ![i] = freed]
      \/ IsStopFailure(i) /\ inst' = [inst EXCEPT ![i] = again]
  <2>1. inst \in [Instances -> InstanceRow]
    BY DEF Kept, InstancesOK
  <2> QED BY <1>1, <2>1 DEF InstanceRow, onCleanInstanceSucceeded, FailedInstance, StopGameInstance
<1> HIDE DEF clean, kept, freed, again
<1>9. PICK x : Fits(x) /\ inst' = [inst EXCEPT ![i] = x]
  <2> HIDE DEF Fits
  <2> QED BY <1>4, <1>5, <1>6, <1>7, <1>8
<1> QED BY ONLY Kept, i \in Instances, <1>2, <1>3, <1>9, RowKeeps

LEMMA ReleasePortsKeeps ==
  ASSUME Kept, NEW i \in Instances, ReleasePorts(i)
  PROVE  Kept'
<1>1. UNCHANGED <<agent, cache, steam, config, editing, inst, job, row>> /\ ports' \subseteq ports
  BY DEF ReleasePorts
<1>2. TablesOK' /\ QueueOK' /\ InstancesOK' /\ JobsOK'
  BY <1>1, TablesSame DEF Kept, QueueOK, InstancesOK, JobsOK
<1>3. PortsOK'
  BY <1>1 DEF Kept, PortsOK, PortsExclusive
<1>4. NeverOvercommitted'
  <2>1. inst \in [Instances -> InstanceRow] /\ inst' \in [Instances -> InstanceRow]
    BY <1>1 DEF Kept, InstancesOK
  <2> QED BY <1>1, <2>1, CountedNow, CountedNext DEF Kept
<1> QED BY <1>2, <1>3, <1>4 DEF Kept

\* What an end gives back: of an instance that holds something its request,
\* which the counter has, so that the clamp at zero never bites; of a repeated
\* stop nothing.
Share(i, d) == IF Holding(inst[i]) THEN inst[i].req[d] ELSE 0

LEMMA ReleaseIs ==
  ASSUME Kept, NEW i \in Instances, Release(i)
  PROVE  /\ inst[i].agent \in Agents /\ inst[i].status # "Scheduling"
         /\ inst' \in [Instances -> InstanceRow] /\ \A k \in Instances \ {i} : inst'[k] = inst[k]
         /\ ~Holding(inst'[i]) /\ SoundRow(inst'[i])
         /\ \A b \in Agents, d \in Dims :
              Promised(inst, b, d) = (IF inst[i].agent = b THEN Share(i, d) ELSE 0) + Promised(inst', b, d)
         /\ agent' \in [Agents -> AgentRow] /\ \A b \in Agents \ {inst[i].agent} : agent'[b] = agent[b]
         /\ \A d \in Dims : Share(i, d) \in Nat
         /\ agent'[inst[i].agent].reserved
              = [d \in Dims |-> agent[inst[i].agent].reserved[d] - Share(i, d)]
<1> DEFINE a == inst[i].agent
           q == inst[i].req
           x == [inst[i] EXCEPT !.status = "Releasing"]
           rest == [d \in Dims |-> Max({agent[a].reserved[d] - q[d], 0})]
           less == [d \in Dims |-> agent[a].reserved[d] - Share(i, d)]
<1>1. inst \in [Instances -> InstanceRow] /\ inst[i] \in InstanceRow /\ SoundRow(inst[i])
      /\ agent \in [Agents -> AgentRow]
  BY DEF Kept, InstancesOK, TablesOK
<1>2. inst[i].status \in {"Warming", "Preparing", "Stopping"}
  BY DEF Release
<1>3. a \in Agents /\ (~Holding(inst[i]) => q = Zero)
  BY <1>1, <1>2 DEF SoundRow, Holding
<1>4. inst' = [inst EXCEPT ![i] = x]
  BY <1>1 DEF Release, InstanceRow
<1>5. x \in InstanceRow /\ ~Holding(x) /\ SoundRow(x)
  BY <1>1 DEF InstanceRow, Holding, SoundRow
<1> HIDE DEF x
<1>6. inst' \in [Instances -> InstanceRow] /\ inst'[i] = x /\ \A k \in Instances \ {i} : inst'[k] = inst[k]
  BY <1>1, <1>4, <1>5
<1>7. agent' = [agent EXCEPT ![a].reserved = rest]
  BY <1>1 DEF Release
<1>8. \A d \in Dims : q[d] \in Nat /\ agent[a].reserved[d] \in Nat /\ Zero[d] = 0
  <2>1. \A d \in Dims : q[d] \in Nat
    BY <1>1 DEF InstanceRow
  <2>2. agent[a] \in AgentRow
    BY <1>1, <1>3
  <2>3. \A d \in Dims : agent[a].reserved[d] \in Nat
    BY <2>2 DEF AgentRow
  <2>4. \A d \in Dims : Zero[d] = 0
    BY DEF Zero
  <2> QED BY <2>1, <2>3, <2>4
<1>9. \A d \in Dims : Share(i, d) = q[d] /\ Share(i, d) \in Nat
  BY <1>3, <1>8 DEF Share
<1>10. ASSUME NEW b \in Agents, NEW d \in Dims
       PROVE  Promised(inst, b, d) = (IF a = b THEN Share(i, d) ELSE 0) + Promised(inst', b, d)
  <2>1. CASE Holding(inst[i])
    <3>1. Promised(inst, b, d) = (IF inst[i].agent = b THEN inst[i].req[d] ELSE 0) + Promised(inst', b, d)
      BY ONLY i \in Instances, d \in Dims, <1>1, <1>5, <1>6, <2>1, PromisedWith
    <3> QED BY <1>9, <3>1
  <2>2. CASE ~Holding(inst[i])
    <3>1. \A k \in Instances : Holding(inst[k]) <=> Holding(inst'[k])
      BY <1>5, <1>6, <2>2
    <3>2. \A k \in Instances : Holding(inst[k]) => inst[k].agent = inst'[k].agent /\ inst[k].req = inst'[k].req
      BY <1>6, <2>2
    <3>3. Promised(inst, b, d) = Promised(inst', b, d)
      BY ONLY d \in Dims, <1>1, <1>6, <3>1, <3>2, PromisedSame
    <3>4. Promised(inst', b, d) \in Nat /\ Share(i, d) = 0
      BY <1>6, <2>2, PromisedNat DEF Share
    <3> QED BY <3>3, <3>4
  <2> QED BY <2>1, <2>2
<1>11. ASSUME NEW d \in Dims
       PROVE  rest[d] = less[d] /\ less[d] \in Nat
  <2> DEFINE y == agent[a].reserved[d] - q[d]
             m == Max({y, 0})
  <2>1. agent[a].reserved[d] = Promised(inst, a, d)
    BY <1>1, <1>3, CountedNow DEF Kept, Counted
  <2>2. Promised(inst', a, d) \in Nat
    BY <1>6, PromisedNat
  <2>3. y \in Nat
    BY <1>3, <1>8, <1>9, <1>10, <2>1, <2>2
  <2>4. rest[d] = m /\ less[d] = y
    BY <1>9
  <2> HIDE DEF y
  <2>5. y \in Int /\ 0 \in Int
    BY <2>3
  <2>6. m \in {y, 0} /\ m >= y
    BY ONLY <2>5, MaxOfTwo
  <2> HIDE DEF m
  <2>7. m = y
    BY ONLY <2>3, <2>6
  <2> HIDE DEF rest, less
  <2> QED BY <2>3, <2>4, <2>7
<1>12. rest = less /\ less \in [Dims -> Nat]
  <2>1. rest = [d \in Dims |-> rest[d]] /\ less = [d \in Dims |-> less[d]]
    OBVIOUS
  <2> HIDE DEF rest, less
  <2> QED BY <1>11, <2>1
<1>13. agent' \in [Agents -> AgentRow] /\ agent'[a].reserved = less /\ \A b \in Agents \ {a} : agent'[b] = agent[b]
  <2> DEFINE y == [agent[a] EXCEPT !.reserved = less]
  <2> HIDE DEF rest, less
  <2>1. agent[a] \in AgentRow /\ agent' = [agent EXCEPT ![a] = y]
    BY <1>1, <1>3, <1>7, <1>12
  <2>2. y \in AgentRow /\ y.reserved = less
    BY <1>12, <2>1 DEF AgentRow
  <2> HIDE DEF y
  <2> QED BY <1>1, <1>3, <2>1, <2>2
<1>14. inst[i].status # "Scheduling" /\ ~Holding(inst'[i]) /\ SoundRow(inst'[i])
  BY <1>2, <1>5, <1>6
<1> QED BY <1>3, <1>6, <1>9, <1>10, <1>13, <1>14

LEMMA ReleaseKeeps ==
  ASSUME Kept, NEW i \in Instances, Release(i)
  PROVE  Kept'
<1> USE DEF Kept
<1> DEFINE a == inst[i].agent
<1>1. UNCHANGED <<cache, steam, config, editing, ports, job, row>>
  BY DEF Release
<1>2. /\ a \in Agents /\ inst[i].status # "Scheduling"
      /\ inst' \in [Instances -> InstanceRow] /\ \A k \in Instances \ {i} : inst'[k] = inst[k]
      /\ ~Holding(inst'[i]) /\ SoundRow(inst'[i])
  BY ReleaseIs
<1>3. /\ agent' \in [Agents -> AgentRow] /\ \A b \in Agents \ {a} : agent'[b] = agent[b]
      /\ \A d \in Dims : Share(i, d) \in Nat
      /\ agent'[a].reserved = [d \in Dims |-> agent[a].reserved[d] - Share(i, d)]
  BY ReleaseIs
<1>4. \A b \in Agents, d \in Dims :
        Promised(inst, b, d) = (IF a = b THEN Share(i, d) ELSE 0) + Promised(inst', b, d)
  BY ReleaseIs
<1>5. TablesOK' /\ PortsOK' /\ QueueOK'
  BY <1>1, <1>3, PortsSame DEF TablesOK, QueueOK
<1>6. InstancesOK'
  BY <1>2 DEF InstancesOK
<1>7. JobsOK'
  <2>1. job[i].pc = "idle"
    BY <1>2 DEF JobsOK
  <2>2. \A k \in Instances : job'[k].pc # "idle" => inst'[k].status = "Scheduling"
    BY <1>1, <1>2, <2>1 DEF JobsOK
  <2> QED BY <1>1, <2>2 DEF JobsOK
<1>8. ASSUME NEW b \in Agents, NEW d \in Dims
      PROVE  /\ agent'[b].reserved[d] = Promised(inst', b, d)
             /\ d \in HardDims => agent'[b].reserved[d] <= capacityLimit(b, d)
  <2> DEFINE given == IF a = b THEN Share(i, d) ELSE 0
  <2>1. agent[b].reserved[d] = Promised(inst, b, d) /\ (d \in HardDims => agent[b].reserved[d] <= capacityLimit(b, d))
    BY CountedNow DEF Counted, InstancesOK
  <2>2. Promised(inst', b, d) \in Nat /\ capacityLimit(b, d) \in Nat /\ given \in Nat
    BY <1>2, <1>3, PromisedNat, CapNat
  <2>3. agent[b].reserved[d] \in Nat
    BY DEF TablesOK, AgentRow
  <2>4. agent'[b].reserved[d] = agent[b].reserved[d] - given
    BY <1>3, <2>3
  <2>5. Promised(inst, b, d) = given + Promised(inst', b, d)
    BY <1>4
  <2> HIDE DEF given
  <2> QED BY ONLY <2>1, <2>2, <2>3, <2>4, <2>5
<1>9. NeverOvercommitted'
  BY <1>2, <1>8, CountedNext DEF Counted
<1> QED BY <1>5, <1>6, <1>7, <1>9

\* Queued instances that are woken are scheduled again, rows of others go.
LEMMA WakeKeeps ==
  ASSUME Kept, wakeOnce
  PROVE  Kept'
<1> USE DEF Kept
<1> DEFINE due == {i \in Instances : row[i] # None /\ row[i].wake = 0}
           queued == {i \in due : inst[i].status = "Queued"}
           reached == {i \in due : Cardinality({j \in queued : Before(j, i)}) < maxPerRound}
           woken == queued \cap reached
           stale == reached \ queued
           x(i) == [inst[i] EXCEPT !.status = "Scheduling"]
           fresh == [IdleJob EXCEPT !.pc = "check"]
<1>1. /\ UNCHANGED <<agent, cache, steam, config, editing, ports>>
      /\ row' = [i \in Instances |-> IF i \in stale THEN None ELSE row[i]]
      /\ inst' = [i \in Instances |-> IF i \in woken THEN x(i) ELSE inst[i]]
      /\ job' = [i \in Instances |-> IF i \in woken THEN fresh ELSE job[i]]
  BY DEF wakeOnce
<1>2. \A i \in woken : i \in Instances /\ inst[i].status = "Queued"
  OBVIOUS
<1> HIDE DEF woken, stale
<1>3. TablesOK' /\ PortsOK'
  BY <1>1, TablesSame, PortsSame
<1>4. QueueOK'
  BY <1>1 DEF QueueOK
<1>5. inst \in [Instances -> InstanceRow]
  BY DEF InstancesOK
<1>6. \A i \in woken : /\ x(i) \in InstanceRow /\ x(i).status = "Scheduling" /\ SoundRow(x(i))
                       /\ ~Holding(x(i)) /\ ~Holding(inst[i])
  <2>1. \A i \in woken : inst[i].agent = 0
    BY <1>2 DEF InstancesOK, SoundRow
  <2> QED BY <1>2, <1>5, <2>1 DEF InstanceRow, Holding, SoundRow
<1> HIDE DEF x
<1>7. /\ inst' \in [Instances -> InstanceRow]
      /\ \A i \in Instances : inst'[i] = IF i \in woken THEN x(i) ELSE inst[i]
  BY <1>1, <1>5, <1>6
<1>8. InstancesOK'
  BY <1>6, <1>7 DEF InstancesOK
<1>9. JobsOK'
  <2>1. SoundJob(fresh)
    BY NewIsSound
  <2> HIDE DEF fresh
  <2>2. \A i \in Instances : job'[i] = IF i \in woken THEN fresh ELSE job[i]
    BY <1>1
  <2>3. \A i \in Instances : SoundJob(job'[i])
    BY <2>1, <2>2 DEF JobsOK
  <2>4. \A i \in Instances : job'[i].pc # "idle" => inst'[i].status = "Scheduling"
    BY <1>6, <1>7, <2>2 DEF JobsOK
  <2>5. job' = [i \in Instances |-> job'[i]]
    BY <1>1
  <2> QED BY <2>3, <2>4, <2>5 DEF JobsOK
<1>10. NeverOvercommitted'
  <2>1. \A i \in Instances : Holding(inst[i]) <=> Holding(inst'[i])
    BY <1>6, <1>7
  <2>2. \A i \in Instances : Holding(inst[i]) => inst[i].agent = inst'[i].agent /\ inst[i].req = inst'[i].req
    BY <1>6, <1>7
  <2>3. \A a \in Agents : agent'[a].reserved = agent[a].reserved
    BY <1>1
  <2> QED BY ONLY Kept, <1>5, <1>7, <2>1, <2>2, <2>3, CountsSame DEF Kept
<1> QED BY <1>3, <1>4, <1>8, <1>9, <1>10

\* Steps that leave the instances, their calls and the counters alone.
LEMMA QuietKeeps ==
  ASSUME Kept, UNCHANGED <<inst, job, ports>>, TablesOK', QueueOK',
         \A a \in Agents : agent'[a].reserved = agent[a].reserved
  PROVE  Kept'
<1> USE DEF Kept
<1>1. PortsOK' /\ InstancesOK' /\ JobsOK'
  BY PortsSame DEF InstancesOK, JobsOK
<1>2. NeverOvercommitted'
  <2>1. inst \in [Instances -> InstanceRow] /\ inst' \in [Instances -> InstanceRow]
    BY DEF InstancesOK
  <2> QED BY <2>1, CountsSame
<1> QED BY <1>1, <1>2

LEMMA TickKeeps ==
  ASSUME Kept, Tick
  PROVE  Kept'
<1> USE DEF Kept
<1>1. /\ UNCHANGED <<agent, cache, steam, config, editing, ports, inst, job>>
      /\ row' = [i \in Instances |-> IF row[i] = None THEN None
                                     ELSE [row[i] EXCEPT !.wake = Less(@), !.left = Less(@)]]
  BY DEF Tick
<1>2. ASSUME NEW i \in Instances, row[i] # None
      PROVE  [row[i] EXCEPT !.wake = Less(@), !.left = Less(@)] \in QueueRow
  <2>1. row[i] \in QueueRow
    BY <1>2 DEF QueueOK
  <2> DEFINE top == Max({backoffBase, backoffMax})
             n == Less(row[i].wake)
             m == Less(row[i].left)
  <2>2. top \in Nat /\ row[i].wake \in Int /\ row[i].wake <= top /\ row[i].left \in 0 .. timeout /\ timeout \in Nat
    BY <2>1, WakeBound DEF QueueRow
  <2>3. n \in Int /\ n <= top /\ m \in 0 .. timeout
    BY ONLY <2>2 DEF Less
  <2>4. [row[i] EXCEPT !.wake = Less(@), !.left = Less(@)] = [row[i] EXCEPT !.wake = n, !.left = m]
    BY <2>1 DEF QueueRow
  <2> HIDE DEF n, m
  <2>5. [row[i] EXCEPT !.wake = n, !.left = m] \in QueueRow
    BY <2>1, <2>3 DEF QueueRow
  <2> QED BY <2>4, <2>5
<1>3. QueueOK'
  BY <1>1, <1>2 DEF QueueOK
<1>4. TablesOK'
  BY <1>1, TablesSame
<1> QED BY <1>1, <1>3, <1>4, QuietKeeps

\* Neither people nor monitors touch what is reserved.
LEMMA CountersLeft ==
  ASSUME Kept, NEW a \in Agents, AgentChanges(a)
  PROVE  agent' \in [Agents -> AgentRow] /\ \A b \in Agents : agent'[b].reserved = agent[b].reserved
<1>0. agent \in [Agents -> AgentRow]
  BY DEF Kept, TablesOK
<1> DEFINE Only(y) == y \in AgentRow /\ y.reserved = agent[a].reserved /\ agent' = [agent EXCEPT ![a] = y]
<1>1. ASSUME NEW s \in {"enabled", "disabled", "unregistered"}, agent' = [agent EXCEPT ![a].status = s]
      PROVE  Only([agent[a] EXCEPT !.status = s])
  BY <1>0, <1>1 DEF AgentRow
<1>2. ASSUME NEW h \in {"healthy", "degraded", "unhealthy"}, agent' = [agent EXCEPT ![a].health = h]
      PROVE  Only([agent[a] EXCEPT !.health = h])
  BY <1>0, <1>2 DEF AgentRow
<1>3. ASSUME NEW b \in {"fresh", "stale"}, agent' = [agent EXCEPT ![a].beat = b]
      PROVE  Only([agent[a] EXCEPT !.beat = b])
  BY <1>0, <1>3 DEF AgentRow
<1>4. ASSUME NEW p \in {"Normal", "Critical"}, agent' = [agent EXCEPT ![a].pressure = p]
      PROVE  Only([agent[a] EXCEPT !.pressure = p])
  BY <1>0, <1>4 DEF AgentRow
<1>5. \E y : Only(y)
  <2> HIDE DEF Only
  <2>1. CASE \E s \in {"enabled", "disabled", "unregistered"} : agent' = [agent EXCEPT ![a].status = s]
    BY <1>1, <2>1
  <2>2. CASE \E h \in {"healthy", "degraded", "unhealthy"} : agent' = [agent EXCEPT ![a].health = h]
    BY <1>2, <2>2
  <2>3. CASE \E b \in {"fresh", "stale"} : agent' = [agent EXCEPT ![a].beat = b]
    BY <1>3, <2>3
  <2>4. CASE \E p \in {"Normal", "Critical"} : agent' = [agent EXCEPT ![a].pressure = p]
    BY <1>4, <2>4
  <2> QED BY <2>1, <2>2, <2>3, <2>4 DEF AgentChanges
<1>6. PICK y : Only(y)
  BY <1>5
<1> QED BY <1>0, <1>6

LEMMA AgentChangesKeeps ==
  ASSUME Kept, NEW a \in Agents, AgentChanges(a)
  PROVE  Kept'
<1> USE DEF Kept
<1>1. UNCHANGED <<cache, steam, config, editing, ports, inst, job, row>>
  BY DEF AgentChanges
<1>2. agent' \in [Agents -> AgentRow] /\ \A b \in Agents : agent'[b].reserved = agent[b].reserved
  BY CountersLeft
<1>3. TablesOK' /\ QueueOK'
  BY <1>1, <1>2 DEF TablesOK, QueueOK
<1> QED BY <1>1, <1>2, <1>3, QuietKeeps

LEMMA CacheChangesKeeps ==
  ASSUME Kept, NEW a \in Agents, CacheChanges(a)
  PROVE  Kept'
<1> USE DEF Kept
<1>1. UNCHANGED <<agent, steam, config, editing, ports, inst, job, row>>
  BY DEF CacheChanges
<1>2. cache' \in [Agents -> {"missing", "downloading", "available"}]
  BY DEF CacheChanges, TablesOK
<1>3. TablesOK' /\ QueueOK'
  BY <1>1, <1>2 DEF TablesOK, QueueOK
<1> QED BY <1>1, <1>3, QuietKeeps

LEMMA AdminKeeps ==
  ASSUME Kept, SteamChanges \/ UpdateConfig \/ ReplacePortExcerpts
  PROVE  Kept'
<1> USE DEF Kept
<1>1. UNCHANGED <<agent, cache, ports, inst, job, row>>
  BY DEF SteamChanges, UpdateConfig, ReplacePortExcerpts
<1>2. TablesOK'
  <2>1. CASE SteamChanges
    BY <2>1 DEF SteamChanges, TablesOK
  <2>2. CASE UpdateConfig
    <3>1. PICK c \in Configs : config' = [c EXCEPT !.excerpts = config.excerpts] /\ editing' = c.excerpts
      BY <2>2 DEF UpdateConfig
    <3>2. c \in ContainerConfig /\ config \in ContainerConfig
      BY PlacementAssumption DEF TablesOK
    <3>3. config' \in ContainerConfig /\ editing' \in Seq(PortExcerpt)
      BY <3>1, <3>2 DEF ContainerConfig
    <3> QED BY <2>2, <3>3 DEF UpdateConfig, TablesOK
  <2>3. CASE ReplacePortExcerpts
    <3>1. editing \in Seq(PortExcerpt) /\ config \in ContainerConfig /\ config' = [config EXCEPT !.excerpts = editing]
          /\ editing' = None
      BY <2>3 DEF ReplacePortExcerpts, TablesOK
    <3>2. config' \in ContainerConfig
      BY <3>1 DEF ContainerConfig
    <3> QED BY <2>3, <3>1, <3>2 DEF ReplacePortExcerpts, TablesOK
  <2> QED BY <2>1, <2>2, <2>3
<1>3. QueueOK'
  BY <1>1 DEF QueueOK
<1> QED BY <1>1, <1>2, <1>3, QuietKeeps

LEMMA NextKeeps == Kept /\ [Next]_vars => Kept'
<1> SUFFICES ASSUME Kept, [Next]_vars PROVE Kept'
  OBVIOUS
<1>1. CASE UNCHANGED vars
  <2>1. UNCHANGED <<agent, cache, steam, config, editing, ports, inst, job, row>>
    BY <1>1 DEF vars
  <2>2. TablesOK' /\ QueueOK'
    BY <2>1, TablesSame DEF Kept, QueueOK
  <2> QED BY <2>1, <2>2, QuietKeeps
<1>2. ASSUME NEW i \in Instances, Begin(i) \/ Schedule(i) \/ ReleasePorts(i) \/ Release(i) PROVE Kept'
  BY <1>2, BeginKeeps, CheckKeeps, LoadKeeps, ChooseKeeps, PlanKeeps, TryReserveKeeps, ReleasePortsKeeps,
     ReleaseKeeps DEF Schedule
<1>6. ASSUME NEW i \in Instances, onCleanInstanceSucceeded(i) \/ FailedInstance(i) \/ StopGameInstance(i) PROVE Kept'
  BY <1>6, EndingsKeep
<1>3. ASSUME NEW a \in Agents, AgentChanges(a) \/ CacheChanges(a) PROVE Kept'
  BY <1>3, AgentChangesKeeps, CacheChangesKeeps
<1>4. CASE wakeOnce \/ Tick
  BY <1>4, WakeKeeps, TickKeeps
<1>5. CASE SteamChanges \/ UpdateConfig \/ ReplacePortExcerpts
  BY <1>5, AdminKeeps
<1> QED BY <1>1, <1>2, <1>3, <1>4, <1>5, <1>6 DEF Next

LEMMA CleaningKeeps == CleaningOK /\ [Next]_vars => CleaningOK'
<1> SUFFICES ASSUME CleaningOK, [Next]_vars PROVE CleaningOK'
  OBVIOUS
<1> USE DEF CleaningOK
<1>1. ASSUME NEW i \in Instances, Begin(i) \/ Schedule(i) PROVE CleaningOK'
  BY <1>1 DEF Begin, Schedule, Check, Load, Choose, Plan, TryReserve
<1>2. ASSUME NEW i \in Instances,
             \/ Release(i) \/ onCleanInstanceSucceeded(i) \/ ReleasePorts(i)
             \/ FailedInstance(i) \/ StopGameInstance(i)
      PROVE CleaningOK'
  BY <1>2 DEF Release, onCleanInstanceSucceeded, ReleasePorts, FailedInstance, StopGameInstance
<1>3. CASE \/ UNCHANGED vars \/ wakeOnce \/ Tick \/ SteamChanges \/ UpdateConfig \/ ReplacePortExcerpts
           \/ \E a \in Agents : AgentChanges(a) \/ CacheChanges(a)
  BY <1>3 DEF vars, wakeOnce, Tick, SteamChanges, UpdateConfig, ReplacePortExcerpts, AgentChanges, CacheChanges
<1> QED BY <1>1, <1>2, <1>3 DEF Next

LEMMA AlwaysKept == Spec => []Kept
BY InitKept, NextKeeps, PTL DEF Spec

LEMMA AlwaysCleaning == Spec => []CleaningOK
<1>1. Init => CleaningOK
  BY DEF Init, CleaningOK
<1> QED BY <1>1, CleaningKeeps, PTL DEF Spec

LEMMA KeptIsLimits == Kept /\ CleaningOK => LimitsKept
<1> SUFFICES ASSUME Kept, CleaningOK PROVE LimitsKept
  OBVIOUS
<1>1. \A r \in ports : r.inst \in Instances /\ r.agent \in Agents /\ r.proto \in ProtocolType
  BY DEF Kept, PortsOK, PortRow
<1>2. \A i \in Instances : /\ job[i].pc \in {"idle", "check", "load", "choose", "plan", "reserve"}
                           /\ job[i].attempt \in 0 .. reservationRetry
  BY DEF Kept, JobsOK, SoundJob
<1>3. \A i \in Instances : row[i] # None => row[i].wake <= Max({backoffBase, backoffMax}) /\ row[i].left <= timeout
  <2> SUFFICES ASSUME NEW i \in Instances, row[i] # None
               PROVE row[i].wake <= Max({backoffBase, backoffMax}) /\ row[i].left <= timeout
    OBVIOUS
  <2>1. row[i] \in QueueRow
    BY DEF Kept, QueueOK
  <2> QED BY <2>1, WakeBound DEF QueueRow
<1>4. TypeOK
  BY <1>1, <1>2, <1>3 DEF TypeOK, Kept, TablesOK, InstancesOK, CleaningOK
<1> QED BY <1>4 DEF LimitsKept, Kept, PortsOK

-----------------------------------------------------------------------------
(* Plans are complete and lead to the game.                                *)

LEMMA OnlyOne ==
  ASSUME NEW h \in Nat, NEW S, S = {h}
  PROVE  Min(S) = h
BY MinNat

LEMMA KeptServes == Kept => PlanServes
<1> SUFFICES ASSUME Kept, NEW a \in Agents, PlanOn(a).ok
             PROVE LET plan == PlanOn(a)
                       es == config.excerpts
                   IN /\ \E start \in TCP_PORT_BEGIN .. TCP_PORT_END :
                           /\ \A port \in Declared(es) : \A p \in portRequirement(es, port) :
                                \E r \in plan.rows :
                                  /\ r.proto = p /\ r.container = ListensOn(start, port)
                                  /\ InBlock(port) => r.host = r.container
                                  /\ ~portInUse(usedHostPorts(RowsOf(a)), {p}, r.host)
                           /\ \A r \in plan.rows : \E port \in Declared(es) :
                                /\ r.proto \in portRequirement(es, port)
                                /\ r.container \in {port, ListensOn(start, port)}
                      /\ \A r, s \in plan.rows : r.host = s.host /\ r.proto = s.proto => r = s
                      /\ ~Injected => \A r, s \in plan.rows : r.container = s.container => r.host = s.host
  BY DEF PlanServes
<1> DEFINE plan == PlanOn(a)
           es == config.excerpts
           used == usedHostPorts(RowsOf(a))
<1>1. config \in ContainerConfig /\ used \in Usage /\ plan \in Clean(used)
  BY UsedOK, PlanOK DEF Kept, TablesOK
<1>2. es \in Seq(PortExcerpt)
  BY <1>1 DEF ContainerConfig
<1>3. \A r, s \in plan.rows : r.host = s.host /\ r.proto = s.proto => r = s
  BY <1>1 DEF Clean
<1>4. \A r \in plan.rows : ~portInUse(used, {r.proto}, r.host)
  BY <1>1 DEF Clean, portInUse
<1>5. TCP_PORT_BEGIN \in TCP_PORT_BEGIN .. TCP_PORT_END
  BY PortBounds
<1>6. CASE ~Injected
  <2>1. plan = planPortsNAT(config, used)
    BY <1>6 DEF PlanOn, PlanPorts, Injected
  <2>2. Serves(es, used, plan, Declared(es)) /\ plan.ok
    BY <1>1, <2>1, NatPlan
  <2>3. /\ \A w \in Wanted(es, Declared(es)) : \E r \in plan.rows : r.proto = w[1] /\ r.container = w[2]
        /\ \A r \in plan.rows : <<r.proto, r.container>> \in Wanted(es, Declared(es))
        /\ \A r, s \in plan.rows : r.container = s.container => r.host = s.host
    BY <2>2 DEF Serves, Grows
  <2>4. \A port : ~InBlock(port) /\ ListensOn(TCP_PORT_BEGIN, port) = port
    BY <1>6 DEF InBlock, ListensOn
  <2> HIDE DEF plan, es, used
  <2>5. ASSUME NEW port \in Declared(es), NEW p \in portRequirement(es, port)
        PROVE  \E r \in plan.rows : /\ r.proto = p /\ r.container = port /\ ~portInUse(used, {p}, r.host)
    <3>1. <<p, port>> \in Wanted(es, Declared(es))
      BY <1>2, RequiredIsDeclared DEF Wanted
    <3>2. PICK r \in plan.rows : r.proto = p /\ r.container = port
      BY <2>3, <3>1
    <3> QED BY <1>4, <3>2
  <2>6. \A r \in plan.rows : r.container \in Declared(es) /\ r.proto \in portRequirement(es, r.container)
    BY <2>3 DEF Wanted
  <2>7. \A port \in Declared(es) : \A p \in portRequirement(es, port) :
           \E r \in plan.rows : /\ r.proto = p /\ r.container = ListensOn(TCP_PORT_BEGIN, port)
                                /\ InBlock(port) => r.host = r.container
                                /\ ~portInUse(used, {p}, r.host)
    BY ONLY <2>4, <2>5
  <2>8. \A r \in plan.rows : \E port \in Declared(es) :
           /\ r.proto \in portRequirement(es, port)
           /\ r.container \in {port, ListensOn(TCP_PORT_BEGIN, port)}
    BY ONLY <2>6
  <2>9. \E start \in TCP_PORT_BEGIN .. TCP_PORT_END :
          /\ \A port \in Declared(es) : \A p \in portRequirement(es, port) :
               \E r \in plan.rows : /\ r.proto = p /\ r.container = ListensOn(start, port)
                                    /\ InBlock(port) => r.host = r.container
                                    /\ ~portInUse(used, {p}, r.host)
          /\ \A r \in plan.rows : \E port \in Declared(es) :
               /\ r.proto \in portRequirement(es, port)
               /\ r.container \in {port, ListensOn(start, port)}
    BY ONLY <1>5, <2>7, <2>8
  <2>10. \A r, s \in plan.rows : r.container = s.container => r.host = s.host
    BY ONLY <2>3
  <2> QED BY <1>3, <2>9, <2>10 DEF plan, es, used
<1>7. CASE Injected
  <2>1. plan = planPortsInjected(config, used)
    BY <1>7 DEF PlanOn, PlanPorts, Injected
  <2>2. PICK start, from :
          /\ start \in TCP_PORT_BEGIN .. TCP_PORT_END
          /\ from.rows = BlockRows(es, start)
          /\ Grows(from, plan, Listed(es, {n \in DOMAIN es : es[n].begin < gameBase(es)}))
    BY <1>1, <2>1, InjectedPlan
  <2> DEFINE base == gameBase(es)
             inside == base .. base + blockLen(es) - 1
  <2>3. \A port : /\ InBlock(port) <=> port \in inside
                  /\ ListensOn(start, port) = IF port \in inside THEN start + (port - base) ELSE port
    BY <1>7 DEF InBlock, ListensOn
  <2>4. start \in Nat /\ plan.ok
    BY <2>2, PortBounds
  <2> HIDE DEF plan, es, used
  <2>5. /\ \A port \in inside : \A p \in portRequirement(es, port) :
             \E r \in plan.rows : r.proto = p /\ r.container = start + (port - base) /\ r.host = r.container
        /\ \A port \in Declared(es) \ inside : \A p \in portRequirement(es, port) :
             \E r \in plan.rows : r.proto = p /\ r.container = port
        /\ \A r \in plan.rows :
             \/ \E port \in inside : r.proto \in portRequirement(es, port) /\ r.container = start + (port - base)
             \/ r.container \in Declared(es) /\ r.proto \in portRequirement(es, r.container)
    BY <1>2, <2>2, <2>4, InjectedServes
  <2> HIDE DEF base, inside
  <2>6. ASSUME NEW port \in Declared(es), NEW p \in portRequirement(es, port)
        PROVE  \E r \in plan.rows : /\ r.proto = p /\ r.container = ListensOn(start, port)
                                    /\ InBlock(port) => r.host = r.container
                                    /\ ~portInUse(used, {p}, r.host)
    <3>1. CASE port \in inside
      <4>1. PICK r \in plan.rows : r.proto = p /\ r.container = start + (port - base) /\ r.host = r.container
        BY <2>5, <3>1
      <4>2. ListensOn(start, port) = r.container
        BY ONLY <2>3, <3>1, <4>1
      <4>3. ~portInUse(used, {p}, r.host)
        BY <1>4, <4>1
      <4> QED BY ONLY <4>1, <4>2, <4>3
    <3>2. CASE port \notin inside
      <4>1. port \in Declared(es) \ inside
        BY <3>2
      <4>2. PICK r \in plan.rows : r.proto = p /\ r.container = port
        BY ONLY <2>5, <2>6, <4>1
      <4>3. ListensOn(start, port) = r.container /\ ~InBlock(port)
        BY ONLY <2>3, <3>2, <4>2
      <4>4. ~portInUse(used, {p}, r.host)
        BY <1>4, <4>2
      <4> QED BY ONLY <4>2, <4>3, <4>4
    <3> QED BY ONLY <3>1, <3>2
  <2>7. ASSUME NEW r \in plan.rows
        PROVE  \E port \in Declared(es) : /\ r.proto \in portRequirement(es, port)
                                          /\ r.container \in {port, ListensOn(start, port)}
    <3>1. CASE \E port \in inside : r.proto \in portRequirement(es, port) /\ r.container = start + (port - base)
      <4>1. PICK port \in inside : r.proto \in portRequirement(es, port) /\ r.container = start + (port - base)
        BY <3>1
      <4>2. port \in Declared(es)
        BY <1>2, <4>1, RequiredIsDeclared
      <4>3. ListensOn(start, port) = r.container
        BY ONLY <2>3, <4>1
      <4> QED BY ONLY <4>1, <4>2, <4>3
    <3>2. CASE r.container \in Declared(es) /\ r.proto \in portRequirement(es, r.container)
      BY ONLY <3>2
    <3> QED BY ONLY <2>5, <2>7, <3>1, <3>2
  <2> QED BY <1>3, <1>7, <2>2, <2>6, <2>7 DEF plan, es, used
<1> QED BY <1>6, <1>7

LEMMA KeptReached == Kept => GamePortReached
<1> SUFFICES ASSUME Kept, NEW a \in Agents, PlanOn(a).ok, gameBase(config.excerpts) # 0,
                    portRequirement(config.excerpts, gameBase(config.excerpts)) # {},
                    Injected => "tcp" \in portRequirement(config.excerpts, gameBase(config.excerpts))
             PROVE LET plan == PlanOn(a)
                       es == config.excerpts
                       address == GetInstanceConnectInfo(config, plan.rows)
                       told == buildInstanceEnv(config, plan.rows)
                   IN /\ \E r \in plan.rows : r.host = address /\
                           r.container = (IF Injected THEN address ELSE gameBase(es))
                      /\ told = IF Injected THEN address ELSE 0
  BY DEF GamePortReached
<1> DEFINE plan == PlanOn(a)
           es == config.excerpts
           base == gameBase(es)
           used == usedHostPorts(RowsOf(a))
           flagged == {r.host : r \in {x \in plan.rows : x.isGamePort}}
           named == {r.host : r \in {x \in plan.rows : x.container = base}}
<1>1. config \in ContainerConfig /\ used \in Usage /\ plan \in Clean(used)
  BY UsedOK, PlanOK DEF Kept, TablesOK
<1>2. es \in Seq(PortExcerpt)
  BY <1>1 DEF ContainerConfig
<1>3. \A r \in plan.rows : r.host \in Nat
  BY <1>1 DEF Clean, PlanType, PlanRow
<1>4. gamePort(es) = base
  BY DEF gamePort
<1>5. GetInstanceConnectInfo(config, plan.rows) =
        IF flagged # {} THEN Min(flagged) ELSE IF named # {} THEN Min(named) ELSE 0
  BY <1>4 DEF GetInstanceConnectInfo
<1>6. buildInstanceEnv(config, plan.rows) = IF config.inject /\ flagged # {} THEN Min(flagged) ELSE 0
  BY DEF buildInstanceEnv
<1>7. CASE ~Injected
  <2>1. plan = planPortsNAT(config, used)
    BY <1>7 DEF PlanOn, PlanPorts, Injected
  <2>2. Serves(es, used, plan, Declared(es)) /\ plan.ok
    BY <1>1, <2>1, NatPlan
  <2>3. /\ \A w \in Wanted(es, Declared(es)) : \E r \in plan.rows : r.proto = w[1] /\ r.container = w[2]
        /\ \A r \in plan.rows : ~r.isGamePort
        /\ \A r, s \in plan.rows : r.container = s.container => r.host = s.host
    BY <2>2 DEF Serves, Grows
  <2>4. flagged = {}
    BY <2>3
  <2>5. PICK p \in portRequirement(es, base) : TRUE
    OBVIOUS
  <2>6. <<p, base>> \in Wanted(es, Declared(es))
    BY <1>2, <2>5, RequiredIsDeclared DEF Wanted
  <2>7. PICK r \in plan.rows : r.container = base
    BY <2>3, <2>6
  <2>8. named = {r.host}
    BY <2>3, <2>7
  <2> HIDE DEF flagged, named
  <2>9. Min(named) = r.host
    BY <1>3, <2>7, <2>8, OnlyOne
  <2> QED BY <1>5, <1>6, <1>7, <2>4, <2>7, <2>8, <2>9
<1>8. CASE Injected
  <2>1. plan = planPortsInjected(config, used)
    BY <1>8 DEF PlanOn, PlanPorts, Injected
  <2>2. PICK start, from :
          /\ start \in TCP_PORT_BEGIN .. TCP_PORT_END
          /\ from.rows = BlockRows(es, start)
          /\ Grows(from, plan, Listed(es, {n \in DOMAIN es : es[n].begin < gameBase(es)}))
    BY <1>1, <2>1, InjectedPlan
  <2> DEFINE inside == base .. base + blockLen(es) - 1
  <2>3. start \in Nat /\ plan.ok
    BY <2>2, PortBounds
  <2>4. base \in Nat /\ base \in inside
    BY <1>2, BlockFacts
  <2>5. "tcp" \in portRequirement(es, base)
    BY <1>8
  <2> HIDE DEF plan, es, used, flagged
  <2>6. /\ \A port \in inside : \A p \in portRequirement(es, port) :
             \E r \in plan.rows : /\ r.proto = p /\ r.container = start + (port - base) /\ r.host = r.container
                                  /\ (r.isGamePort <=> (port = base /\ p = "tcp"))
        /\ \A r \in plan.rows :
             \/ \E port \in inside : /\ r.container = start + (port - base) /\ r.host = r.container
                                     /\ (r.isGamePort <=> (port = base /\ r.proto = "tcp"))
             \/ ~r.isGamePort
    BY <1>2, <2>2, <2>3, InjectedServes
  <2> HIDE DEF base, inside
  <2>7. PICK r \in plan.rows : /\ r.container = start + (base - base) /\ r.host = r.container /\ r.isGamePort
    BY <2>4, <2>5, <2>6
  <2>8. start + (base - base) = start
    BY <2>3, <2>4
  <2>9. \A x \in plan.rows : x.isGamePort => x.host = start
    BY <2>6, <2>8
  <2>10. flagged = {start}
    BY <2>7, <2>8, <2>9 DEF flagged
  <2>11. Min(flagged) = start
    BY <2>3, <2>10, OnlyOne
  <2>12. config.inject
    BY <1>8 DEF Injected
  <2> QED BY <1>5, <1>6, <1>8, <2>7, <2>8, <2>10, <2>11, <2>12 DEF plan, es
<1> QED BY <1>7, <1>8

\* Whatever ports are in use, whatever excerpts a configuration has, a plan
\* that succeeds serves every declared port and nothing else, and players and
\* adapter are told the port the game listens on (PlanPorts, its readers).
THEOREM PlansAreUsable == Spec => []PlanIsUsable
<1>1. Kept => PlanIsUsable
  BY KeptServes, KeptReached DEF PlanIsUsable
<1> QED BY <1>1, AlwaysKept, PTL

\* However many calls of Schedule run at once, on rows that others have
\* changed since, and whatever agents, administrators and QueueWaker do
\* meanwhile: the counters of every node are the requests of the instances it
\* holds and within its limit, and no host port is given twice (TryReserve).
THEOREM LimitsAreKept == Spec => []LimitsKept
BY AlwaysKept, AlwaysCleaning, KeptIsLimits, PTL

\* The dry run for administrators, which has its own copy of the decision,
\* tells for every instance what Schedule would do now, wherever both make
\* the same checks beforehand (Preview).
THEOREM PreviewIsTrue == Spec => []PreviewAgrees
<1>1. PreviewAgrees
  <2> SUFFICES ASSUME NEW i \in Instances, DOMAIN loadCandidates # {}, resolveBranch # None, ~regionForce,
                      ~ConfigError(resolveRequest(i)), ~BuildMissing
               PROVE Preview(i) = Decide(i)
    BY DEF PreviewAgrees
  <2> DEFINE reasons == Filter(i, loadCandidates, resolveRequest(i), resolveBranch)
             eligible == Eligible(reasons)
             best == ToString(pickBest(i, loadCandidates, eligible, config.single))
  <2>1. DOMAIN reasons = DOMAIN loadCandidates
    BY DEF Filter
  <2>2. Preview(i) = IF eligible # {} THEN best
                     ELSE IF \A a \in DOMAIN reasons : isResourceOnly(reasons[a]) THEN "Queued" ELSE "Failed"
    BY DEF Preview
  <2>3. Decide(i) = IF eligible = {} THEN classifyNoCandidate(i, reasons, resolveBranch) ELSE best
    BY DEF Decide
  <2> HIDE DEF reasons, best
  <2>4. classifyNoCandidate(i, reasons, resolveBranch) =
          IF \A a \in DOMAIN reasons : isResourceOnly(reasons[a]) THEN "Queued" ELSE "Failed"
    BY <2>1 DEF classifyNoCandidate
  <2> QED BY <2>2, <2>3, <2>4
<1> QED BY <1>1, PTL

\* A call that the transaction turns away has met a change: on the rows it
\* read the node had room, and its plan takes ports free of the agent's rows.
LEMMA RefusedOnChange ==
  ASSUME Kept, NEW i \in Instances, job[i].pc = "reserve", Full(i, job[i].best) \/ PortTaken(i, job[i].best)
  PROVE  LET a == job[i].best
         IN agent[a].reserved # job[i].view[a].reserved \/ job[i].rows # PlanOn(a).rows
<1> DEFINE a == job[i].best
<1>1. SoundJob(job[i]) /\ agent \in [Agents -> AgentRow]
  BY DEF Kept, JobsOK, TablesOK
<1>2. a \in Agents
  BY <1>1, ReservedAgent
<1>3. ASSUME Full(i, a), agent[a].reserved = job[i].view[a].reserved PROVE FALSE
  <2>1. PICK d \in HardDims : agent[a].reserved[d] + job[i].req[d] > capacityLimit(a, d)
    BY <1>3 DEF Full
  <2>2. capacityLimit(a, d) - agent[a].reserved[d] >= job[i].req[d]
    BY <1>1, <1>3 DEF SoundJob, ResourcesSatisfied, Allocatable
  <2>3. d \in Dims
    BY DEF Dims
  <2>4. agent[a].reserved[d] \in Nat /\ job[i].req[d] \in Nat /\ capacityLimit(a, d) \in Nat
    BY <1>1, <1>2, <2>3, CapNat DEF AgentRow, SoundJob
  <2> QED BY ONLY <2>1, <2>2, <2>4
<1>4. ASSUME PortTaken(i, a), job[i].rows = PlanOn(a).rows PROVE FALSE
  <2> DEFINE plan == PlanOn(a)
             used == usedHostPorts(RowsOf(a))
  <2>1. plan \in Clean(used)
    BY PlanOK DEF Kept
  <2>2. PICK p \in RowsOf(a), r \in plan.rows : p.host = r.host /\ p.proto = r.proto
    BY <1>4 DEF PortTaken
  <2>3. p.proto \in ProtocolType
    BY DEF RowsOf, Kept, PortsOK, PortRow
  <2>4. p.host \in used[p.proto]
    BY <2>3 DEF usedHostPorts
  <2> HIDE DEF plan, used
  <2>5. r.host \notin used[r.proto]
    BY <2>1 DEF Clean
  <2> QED BY <2>2, <2>4, <2>5
<1> QED BY <1>3, <1>4

LEMMA RefusalStep ==
  ASSUME Kept, [Next]_vars, NEW i \in Instances, job[i].pc = "reserve", job'[i].pc = "load"
  PROVE  Full(i, job[i].best) \/ PortTaken(i, job[i].best)
<1>1. job = [k \in Instances |-> job[k]] /\ \A k \in Instances : Shaped(job[k])
  BY DEF Kept, JobsOK, SoundJob
<1>2. job'[i] # job[i]
  BY <1>1
<1>3. ASSUME NEW k \in Instances, k # i, Begin(k) \/ Schedule(k) PROVE job'[i] = job[i]
  BY <1>1, <1>3 DEF Begin, Schedule, Check, Load, Choose, Plan, TryReserve,
     ToFailed, ToQueue, Ends, Retry, Granted
<1>4. ASSUME Begin(i) PROVE FALSE
  BY <1>4 DEF Begin
<1>10. ASSUME NEW k \in Instances,
              \/ Release(k) \/ onCleanInstanceSucceeded(k) \/ ReleasePorts(k)
              \/ FailedInstance(k) \/ StopGameInstance(k)
       PROVE FALSE
  BY <1>2, <1>10 DEF Release, onCleanInstanceSucceeded, ReleasePorts, FailedInstance, StopGameInstance
<1>5. ASSUME Check(i) \/ Load(i) \/ Choose(i) \/ Plan(i) PROVE FALSE
  BY <1>5 DEF Check, Load, Choose, Plan
<1>6. ASSUME TryReserve(i) PROVE Full(i, job[i].best) \/ PortTaken(i, job[i].best)
  <2>1. ASSUME Granted(i, job[i].best) PROVE FALSE
    <3>1. job'[i] = IdleJob
      BY <1>1, <2>1 DEF Granted
    <3> QED BY <3>1, IdleIsSound
  <2> QED BY <1>6, <2>1 DEF TryReserve
<1>7. ASSUME wakeOnce PROVE FALSE
  <2> DEFINE fresh == [IdleJob EXCEPT !.pc = "check"]
  <2>1. job'[i] = fresh \/ job'[i] = job[i]
    BY <1>7 DEF wakeOnce
  <2>2. fresh.pc = "check"
    BY NewIsSound
  <2> HIDE DEF fresh
  <2> QED BY <1>2, <2>1, <2>2
<1>8. ASSUME Tick \/ SteamChanges \/ UpdateConfig \/ ReplacePortExcerpts \/ UNCHANGED vars PROVE FALSE
  BY <1>2, <1>8 DEF Tick, SteamChanges, UpdateConfig, ReplacePortExcerpts, vars
<1>9. ASSUME NEW a \in Agents, AgentChanges(a) \/ CacheChanges(a) PROVE FALSE
  BY <1>2, <1>9 DEF AgentChanges, CacheChanges
<1> QED BY <1>2, <1>3, <1>4, <1>5, <1>6, <1>7, <1>8, <1>9, <1>10 DEF Next, Schedule

\* The transaction refuses only what has changed since it was read: a call of
\* Schedule that runs alone gets what it asks for (TryReserve).
THEOREM RefusalsAreEarned == Spec => RefusedOnlyIfChanged
<1>1. Kept /\ [Next]_vars =>
        [\A i \in Instances :
           job[i].pc = "reserve" /\ job'[i].pc = "load" =>
             LET a == job[i].best
             IN \/ agent[a].reserved # job[i].view[a].reserved
                \/ job[i].rows # PlanOn(a).rows]_vars
  BY RefusalStep, RefusedOnChange
<1> QED BY <1>1, AlwaysKept, PTL DEF Spec, RefusedOnlyIfChanged
-----------------------------------------------------------------------------
(* Placement implements Reservations.                                      *)

\* What a step leaves that neither reserves nor releases.
Still ==
  /\ \A i \in Instances : /\ Holding(inst[i]) <=> Holding(inst'[i])
                          /\ Holding(inst[i]) => inst'[i].agent = inst[i].agent /\ inst'[i].req = inst[i].req
  /\ \A a \in Agents : agent'[a].reserved = agent[a].reserved

Counters == [a \in Agents |-> agent[a].reserved]
Held == [i \in Instances |-> IF Placed(i) THEN [agent |-> inst[i].agent, req |-> inst[i].req]
                                         ELSE [agent |-> 0, req |-> Zero]]

LEMMA HeldIs ==
  /\ \A i \in Instances : Held[i] = IF Holding(inst[i]) THEN [agent |-> inst[i].agent, req |-> inst[i].req]
                                                       ELSE [agent |-> 0, req |-> Zero]
  /\ \A i \in Instances : Held'[i] = IF Holding(inst'[i]) THEN [agent |-> inst'[i].agent, req |-> inst'[i].req]
                                                         ELSE [agent |-> 0, req |-> Zero]
BY DEF Held, Placed, Holding, Zero

LEMMA StillRefines ==
  ASSUME Still
  PROVE  UNCHANGED Reservation!rvars
<1>1. UNCHANGED Counters
  BY DEF Still, Counters
<1>2. UNCHANGED Held
  <2>1. \A i \in Instances : Held'[i] = Held[i]
    BY HeldIs DEF Still
  <2>2. Held = [i \in Instances |-> Held[i]] /\ Held' = [i \in Instances |-> Held'[i]]
    BY DEF Held
  <2> HIDE DEF Held
  <2> QED BY ONLY <2>1, <2>2
<1> QED BY <1>1, <1>2 DEF Reservation!rvars, Counters, Held

\* The row of an instance that holds nothing is written, and it holds nothing
\* then either.
LEMMA RestatusStill ==
  ASSUME NEW i \in Instances, UNCHANGED agent, \A k \in Instances \ {i} : inst'[k] = inst[k],
         ~Holding(inst[i]), ~Holding(inst'[i])
  PROVE  Still
BY DEF Still

LEMMA SameStill ==
  ASSUME UNCHANGED inst, \A a \in Agents : agent'[a].reserved = agent[a].reserved
  PROVE  Still
BY DEF Still

LEMMA EndsStill ==
  ASSUME Kept, NEW i \in Instances, NEW status, NEW why, Ends(i, status, why), UNCHANGED agent,
         status \notin {"Warming", "Preparing"}, job[i].pc # "idle"
  PROVE  Still
<1>1. ~Holding(inst[i]) /\ inst \in [Instances -> InstanceRow]
  BY DEF Kept, JobsOK, InstancesOK, Holding
<1>2. inst' = [inst EXCEPT ![i].status = status, ![i].why = why]
  BY DEF Ends
<1>3. ~Holding(inst'[i]) /\ \A k \in Instances \ {i} : inst'[k] = inst[k]
  BY <1>1, <1>2 DEF Holding, InstanceRow
<1> QED BY <1>1, <1>3, RestatusStill

LEMMA RetryStill ==
  ASSUME Kept, NEW i \in Instances, Retry(i), UNCHANGED agent, job[i].pc # "idle"
  PROVE  Still
<1>1. CASE job[i].attempt >= reservationRetry
  <2>1. Ends(i, "Failed", "conflicts")
    BY <1>1 DEF Retry, ToFailed
  <2> QED BY <2>1, EndsStill
<1>2. CASE ~(job[i].attempt >= reservationRetry)
  BY <1>2, SameStill DEF Retry
<1> QED BY <1>1, <1>2

\* A call takes its steps before the transaction without holding anything.
LEMMA DecisionStill ==
  ASSUME Kept, NEW i \in Instances, Begin(i) \/ Check(i) \/ Load(i) \/ Choose(i) \/ Plan(i)
  PROVE  Still
<1>1. inst \in [Instances -> InstanceRow] /\ inst[i] \in InstanceRow
  BY DEF Kept, InstancesOK
<1>2. CASE Begin(i)
  <2>1. ~Holding(inst[i]) /\ UNCHANGED agent
    BY <1>2 DEF Begin, Holding
  <2>2. inst' = [inst EXCEPT ![i].status = "Scheduling", ![i].why = ""]
    BY <1>2 DEF Begin
  <2>3. ~Holding(inst'[i]) /\ \A k \in Instances \ {i} : inst'[k] = inst[k]
    BY <1>1, <2>2 DEF Holding, InstanceRow
  <2> QED BY <2>1, <2>3, RestatusStill
<1>3. CASE Check(i)
  <2>1. job[i].pc # "idle" /\ UNCHANGED agent
    BY <1>3 DEF Check
  <2>2. UNCHANGED inst \/ Ends(i, "Failed", "config_error")
    BY <1>3 DEF Check, ToFailed
  <2> QED BY <2>1, <2>2, EndsStill, SameStill
<1>4. CASE Load(i)
  BY <1>4, SameStill DEF Load
<1>5. CASE Choose(i)
  <2>1. job[i].pc # "idle" /\ UNCHANGED agent
    BY <1>5 DEF Choose
  <2>2. ASSUME ToQueue(i) PROVE Still
    <3>1. \E status \in {"Queued", "Failed"}, why \in {"", "queue_timeout"} : Ends(i, status, why)
      BY <2>2, ToQueueKeeps DEF Kept
    <3> QED BY <2>1, <3>1, EndsStill
  <2>3. UNCHANGED inst \/ ToQueue(i) \/ Ends(i, "Failed", "structural")
    BY <1>5 DEF Choose, ToFailed
  <2> QED BY <2>1, <2>2, <2>3, EndsStill, SameStill
<1>6. CASE Plan(i)
  <2>1. job[i].pc # "idle" /\ UNCHANGED agent
    BY <1>6 DEF Plan
  <2>2. UNCHANGED inst \/ Retry(i)
    BY <1>6 DEF Plan
  <2> QED BY <2>1, <2>2, RetryStill, SameStill
<1> QED BY <1>2, <1>3, <1>4, <1>5, <1>6

\* The ends after the reservation was given back, and the delete of the ports.
LEMMA EndingsStill ==
  ASSUME Kept, NEW i \in Instances,
         onCleanInstanceSucceeded(i) \/ ReleasePorts(i) \/ FailedInstance(i) \/ StopGameInstance(i)
  PROVE  Still
<1>1. CASE ReleasePorts(i)
  BY <1>1, SameStill DEF ReleasePorts
<1>2. ASSUME NEW x, inst' = [inst EXCEPT ![i] = x], UNCHANGED agent, ~Holding(inst[i]), ~Holding(x) PROVE Still
  <2>1. inst \in [Instances -> InstanceRow]
    BY DEF Kept, InstancesOK
  <2>2. inst'[i] = x /\ \A k \in Instances \ {i} : inst'[k] = inst[k]
    BY <1>2, <2>1
  <2> QED BY <1>2, <2>2, RestatusStill
<1>3. inst \in [Instances -> InstanceRow] /\ inst[i] \in InstanceRow
  BY DEF Kept, InstancesOK
<1>4. CASE onCleanInstanceSucceeded(i)
  <2> DEFINE x == [inst[i] EXCEPT !.status = "Stopped", !.agent = 0]
  <2>1. inst' = [inst EXCEPT ![i] = x] /\ UNCHANGED agent /\ ~Holding(inst[i])
    BY <1>3, <1>4 DEF onCleanInstanceSucceeded, Holding, InstanceRow
  <2>2. ~Holding(x)
    BY <1>3 DEF Holding, InstanceRow
  <2> HIDE DEF x
  <2> QED BY <1>2, <2>1, <2>2
<1>5. CASE FailedInstance(i)
  <2> DEFINE x == [inst[i] EXCEPT !.status = "Failed", !.req = Zero]
             y == [inst[i] EXCEPT !.status = "Failed", !.agent = 0]
  <2>1. UNCHANGED agent /\ ~Holding(inst[i])
    BY <1>5 DEF FailedInstance, Holding
  <2>2. inst' = [inst EXCEPT ![i] = x] \/ inst' = [inst EXCEPT ![i] = y]
    BY <1>3, <1>5 DEF FailedInstance, InstanceRow
  <2>3. ~Holding(x) /\ ~Holding(y)
    BY <1>3 DEF Holding, InstanceRow
  <2> HIDE DEF x, y
  <2> QED BY <1>2, <2>1, <2>2, <2>3
<1>6. CASE StopGameInstance(i)
  <2> DEFINE x == [inst[i] EXCEPT !.status = "Stopping"]
  <2>1. inst' = [inst EXCEPT ![i] = x] /\ UNCHANGED agent /\ ~Holding(inst[i])
    BY <1>3, <1>6 DEF StopGameInstance, IsStopFailure, Holding, InstanceRow
  <2>2. ~Holding(x)
    BY <1>3 DEF Holding, InstanceRow
  <2> HIDE DEF x
  <2> QED BY <1>2, <2>1, <2>2
<1> QED BY <1>1, <1>4, <1>5, <1>6

LEMMA WakeStill ==
  ASSUME Kept, wakeOnce
  PROVE  Still
<1> DEFINE x(i) == [inst[i] EXCEPT !.status = "Scheduling"]
<1>1. \A i \in Instances : inst[i] \in InstanceRow
  BY DEF Kept, InstancesOK
<1>2. UNCHANGED agent
  BY DEF wakeOnce
<1>3. \A i \in Instances : inst'[i] = inst[i] \/ (inst'[i] = x(i) /\ inst[i].status = "Queued")
  BY DEF wakeOnce
<1>4. \A i \in Instances : x(i).status = "Scheduling"
  BY <1>1 DEF InstanceRow
<1> HIDE DEF x
<1> QED BY <1>2, <1>3, <1>4 DEF Still, Holding

LEMMA OthersStill ==
  ASSUME Kept,
         \/ UNCHANGED vars \/ Tick \/ SteamChanges \/ UpdateConfig \/ ReplacePortExcerpts
         \/ \E a \in Agents : AgentChanges(a) \/ CacheChanges(a)
  PROVE  Still
<1>1. CASE UNCHANGED vars \/ Tick \/ SteamChanges \/ UpdateConfig \/ ReplacePortExcerpts
  BY <1>1, SameStill DEF vars, Tick, SteamChanges, UpdateConfig, ReplacePortExcerpts
<1>2. ASSUME NEW a \in Agents, AgentChanges(a) PROVE Still
  <2>1. UNCHANGED inst
    BY <1>2 DEF AgentChanges
  <2> QED BY <1>2, <2>1, CountersLeft, SameStill
<1>3. ASSUME NEW a \in Agents, CacheChanges(a) PROVE Still
  BY <1>3, SameStill DEF CacheChanges
<1> QED BY <1>1, <1>2, <1>3

\* A granted request is one that fits, of an instance that held nothing.
LEMMA GrantRefines ==
  ASSUME Kept, NEW i \in Instances, job[i].pc = "reserve",
         NEW a \in Agents, a = job[i].best, ~Full(i, a), Granted(i, a)
  PROVE  Reservation!TryReserve(i, a)
<1> DEFINE q == job[i].req
           mine == [agent |-> a, req |-> q]
           sum == [d \in Dims |-> agent[a].reserved[d] + q[d]]
           x == [status |-> IF job[i].warm THEN "Warming" ELSE "Preparing", agent |-> a, req |-> q, why |-> ""]
<1>1. inst \in [Instances -> InstanceRow] /\ agent \in [Agents -> AgentRow] /\ inst[i].status = "Scheduling"
  BY DEF Kept, InstancesOK, TablesOK, JobsOK
<1>2. inst' = [inst EXCEPT ![i] = x] /\ agent' = [agent EXCEPT ![a].reserved = sum]
  BY <1>1 DEF Granted
<1>3. Holding(x) /\ x.agent = a /\ x.req = q /\ ~Holding(inst[i])
  BY <1>1 DEF Holding
<1> HIDE DEF x
<1>4. inst'[i] = x /\ \A k \in Instances \ {i} : inst'[k] = inst[k]
  BY <1>1, <1>2
<1>6. Held[i] = Reservation!Nothing
  BY <1>3, HeldIs DEF Reservation!Nothing, Reservation!Zero, Zero
<1>7. Held' = [Held EXCEPT ![i] = mine]
  <2>1. Held'[i] = mine
    BY <1>3, <1>4, HeldIs
  <2>3. \A k \in Instances \ {i} : Held'[k] = Held[k]
    BY <1>4, HeldIs
  <2>2. Held = [k \in Instances |-> Held[k]] /\ Held' = [k \in Instances |-> Held'[k]]
    BY DEF Held
  <2> HIDE DEF Held, mine
  <2> QED BY ONLY <2>1, <2>2, <2>3
<1>8. Held'[i].req = q
  BY <1>7 DEF Held
<1>9. Counters' = [Counters EXCEPT ![a] = sum]
  <2> HIDE DEF sum
  <2>1. agent'[a].reserved = sum /\ \A b \in Agents \ {a} : agent'[b] = agent[b]
    BY <1>1, <1>2 DEF AgentRow
  <2> QED BY ONLY <2>1 DEF Counters
<1>10. \A d \in HardDims : Counters[a][d] + q[d] <= [b \in Agents |-> [e \in HardDims |-> capacityLimit(b, e)]][a][d]
  <2> SUFFICES ASSUME NEW d \in HardDims PROVE agent[a].reserved[d] + q[d] <= capacityLimit(a, d)
    BY DEF Counters
  <2>1. d \in Dims /\ ~(agent[a].reserved[d] + q[d] > capacityLimit(a, d))
    BY DEF Full, Dims
  <2>2. agent[a].reserved[d] \in Nat /\ q[d] \in Nat /\ capacityLimit(a, d) \in Nat
    BY <1>1, <2>1, CapNat DEF AgentRow, Kept, JobsOK, SoundJob
  <2> HIDE DEF q
  <2> QED BY ONLY <2>1, <2>2
<1>11. Counters[a] = agent[a].reserved
  BY DEF Counters
<1> HIDE DEF q
<1>12. Reservation!TryReserve(i, a)
  BY <1>6, <1>7, <1>8, <1>9, <1>10, <1>11 DEF Reservation!TryReserve, Held, Counters
<1> QED BY <1>12

\* What is given back is what was taken.
LEMMA ReleaseRefines ==
  ASSUME Kept, NEW i \in Instances, Release(i), Holding(inst[i]), NEW a \in Agents, a = inst[i].agent
  PROVE  Reservation!Release(i, a)
<1>1. ~Holding(inst'[i]) /\ \A k \in Instances \ {i} : inst'[k] = inst[k]
  BY ReleaseIs
<1>2. /\ \A b \in Agents \ {a} : agent'[b] = agent[b]
      /\ agent'[a].reserved = [d \in Dims |-> agent[a].reserved[d] - Share(i, d)]
  BY ReleaseIs
<1>3. Held' = [Held EXCEPT ![i] = Reservation!Nothing]
  <2>1. Held'[i] = Reservation!Nothing /\ \A k \in Instances \ {i} : Held'[k] = Held[k]
    BY <1>1, HeldIs DEF Reservation!Nothing, Reservation!Zero, Zero
  <2>2. Held = [k \in Instances |-> Held[k]] /\ Held' = [k \in Instances |-> Held'[k]]
    BY DEF Held
  <2> HIDE DEF Held
  <2> QED BY ONLY <2>1, <2>2
<1>4. Held[i].agent = a /\ Held[i].req = inst[i].req
  <2>1. Held[i] = [agent |-> inst[i].agent, req |-> inst[i].req]
    BY HeldIs
  <2> QED BY ONLY <2>1, a = inst[i].agent
<1>5. Counters' = [Counters EXCEPT ![a] = [d \in Dims |-> Counters[a][d] - Held[i].req[d]]]
  <2> DEFINE less == [d \in Dims |-> agent[a].reserved[d] - Share(i, d)]
  <2>1. less = [d \in Dims |-> Counters[a][d] - Held[i].req[d]]
    BY <1>4 DEF Share, Counters
  <2> HIDE DEF less
  <2>2. agent'[a].reserved = less /\ \A b \in Agents \ {a} : agent'[b] = agent[b]
    BY <1>2 DEF less
  <2>3. Counters' = [Counters EXCEPT ![a] = less]
    BY ONLY <2>2 DEF Counters
  <2> QED BY <2>1, <2>3
<1> QED BY <1>3, <1>4, <1>5 DEF Reservation!Release, Held, Counters

\* A repeated stop has nothing left to give back.
LEMMA ReleaseStill ==
  ASSUME Kept, NEW i \in Instances, Release(i), ~Holding(inst[i])
  PROVE  Still
<1> DEFINE a == inst[i].agent
<1>1. ~Holding(inst'[i]) /\ a \in Agents /\ \A k \in Instances \ {i} : inst'[k] = inst[k]
  BY ReleaseIs
<1>2. /\ \A b \in Agents \ {a} : agent'[b] = agent[b]
      /\ agent'[a].reserved = [d \in Dims |-> agent[a].reserved[d] - Share(i, d)]
  BY ReleaseIs
<1>3. agent[a].reserved \in [Dims -> Nat]
  BY <1>1 DEF Kept, TablesOK, AgentRow
<1>4. [d \in Dims |-> agent[a].reserved[d] - Share(i, d)] = agent[a].reserved
  <2>1. \A d \in Dims : agent[a].reserved[d] - Share(i, d) = agent[a].reserved[d]
    BY <1>3 DEF Share
  <2> QED BY <1>3, <2>1
<1>5. \A b \in Agents : agent'[b].reserved = agent[b].reserved
  BY <1>2, <1>4
<1> QED BY <1>1, <1>5 DEF Still

LEMMA StepRefines ==
  Kept /\ [Next]_vars => Reservation!Next \/ UNCHANGED Reservation!rvars
<1> SUFFICES ASSUME Kept, [Next]_vars
             PROVE  Reservation!Next \/ UNCHANGED Reservation!rvars
  OBVIOUS
<1>1. ASSUME Still PROVE UNCHANGED Reservation!rvars
  BY <1>1, StillRefines
<1>2. ASSUME NEW i \in Instances, TryReserve(i)
      PROVE  Still \/ Reservation!Next
  <2>1. job[i].pc = "reserve"
    BY <1>2 DEF TryReserve
  <2>2. CASE Retry(i) /\ UNCHANGED agent
    BY <2>1, <2>2, RetryStill
  <2>3. CASE ~Full(i, job[i].best) /\ Granted(i, job[i].best)
    <3>1. PICK a \in Agents : a = job[i].best
      BY <2>1, ReservedAgent DEF Kept, JobsOK
    <3>2. Reservation!TryReserve(i, a)
      BY <2>1, <2>3, <3>1, GrantRefines
    <3> QED BY <3>2 DEF Reservation!Next
  <2> QED BY <1>2, <2>2, <2>3 DEF TryReserve
<1>3. ASSUME NEW i \in Instances, Release(i)
      PROVE  Still \/ Reservation!Next
  <2>1. CASE Holding(inst[i])
    <3>1. PICK a \in Agents : a = inst[i].agent
      BY <1>3, ReleaseIs
    <3>2. Reservation!Release(i, a)
      BY <1>3, <2>1, <3>1, ReleaseRefines
    <3> QED BY <3>2 DEF Reservation!Next
  <2>2. CASE ~Holding(inst[i])
    BY <1>3, <2>2, ReleaseStill
  <2> QED BY <2>1, <2>2
<1>4. ASSUME NEW i \in Instances,
             \/ Begin(i) \/ Schedule(i) \/ Release(i) \/ onCleanInstanceSucceeded(i) \/ ReleasePorts(i)
             \/ FailedInstance(i) \/ StopGameInstance(i)
      PROVE  Still \/ Reservation!Next
  BY <1>2, <1>3, <1>4, DecisionStill, EndingsStill DEF Schedule
<1>5. CASE wakeOnce
  BY <1>1, <1>5, WakeStill
<1>6. CASE \/ UNCHANGED vars \/ Tick \/ SteamChanges \/ UpdateConfig \/ ReplacePortExcerpts
           \/ \E a \in Agents : AgentChanges(a) \/ CacheChanges(a)
  BY <1>1, <1>6, OthersStill
<1> QED BY <1>1, <1>4, <1>5, <1>6 DEF Next

LEMMA InitRefines == Init => Reservation!Init
<1> SUFFICES ASSUME Init PROVE Reservation!Init
  OBVIOUS
<1>1. \A i \in Instances : ~Placed(i)
  BY DEF Init, Placed
<1>2. \A a \in Agents : agent[a].reserved = Zero
  <2>1. PICK beat \in {"fresh", "stale"} :
          agent = [a \in Agents |-> [status |-> "enabled", health |-> "healthy",
                                     beat |-> beat, pressure |-> "Normal", reserved |-> Zero]]
    BY DEF Init
  <2> QED BY <2>1
<1>3. Counters = [a \in Agents |-> Reservation!Zero] /\ Held = [i \in Instances |-> Reservation!Nothing]
  BY <1>1, <1>2 DEF Counters, Held, Reservation!Nothing, Reservation!Zero, Zero
<1> QED BY <1>1, <1>3 DEF Reservation!Init, Counters, Held

\* Although every call decides on rows read before, requests are edited in
\* between and an end may fail and be repeated, a node's counter moves only as
\* Reservations allows: an instance takes what fits once and gives back just
\* that, once (TryReserve, Release, FailedInstance, StopGameInstance).
THEOREM ReservationsAreKept == Spec => ImplementsReservations
<1>1. Kept /\ [Next]_vars => [Reservation!Next]_(Reservation!rvars)
  BY StepRefines
<1> QED BY <1>1, InitRefines, AlwaysKept, PTL DEF Spec, ImplementsReservations, Reservation!Spec

\* What a call decides stands: only the changes of others refuse it, and what
\* it reserved is given back as it was (TryReserve, Release).
THEOREM TransactionsAreKept == Spec => TransactionsKept
BY RefusalsAreEarned, ReservationsAreKept DEF TransactionsKept
=============================================================================
