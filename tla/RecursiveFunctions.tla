--------------------------- MODULE RecursiveFunctions ---------------------------
(***************************************************************************)
(* Induction, and functions defined by recursion, from the least elements  *)
(* of sets of numbers: what the proofs about the walks through a games     *)
(* list need.  A recursive function f[x \in S] == E(f, x) stands for some  *)
(* solution of f = [x \in S |-> E(f, x)]; it has one when E(f, x) depends  *)
(* on values of smaller rank only.                                         *)
(***************************************************************************)
EXTENDS Integers, Sequences, SequencesExt, TLAPS, WellFoundedInduction

LEMMA LeastElement ==
    ASSUME NEW S \in SUBSET Nat, S # {}
    PROVE  \E m \in S : \A k \in S : m <= k
<1>1. PICK m \in S : \A k \in S : ~(<<k, m>> \in OpToRel(<, Nat))
  BY NatLessThanWellFounded, WFMin
<1>2. \A k \in S : ~(k < m)
  BY <1>1 DEF OpToRel
<1>3. QED BY <1>2

(* A set with 0 that is closed under the step holds all numbers up to n.   *)
LEMMA RangeInduction ==
    ASSUME NEW n \in Nat, NEW P, 0 \in P,
           \A k \in 0..n : k < n /\ k \in P => k + 1 \in P
    PROVE  \A k \in 0..n : k \in P
<1> DEFINE Q == {k \in 0..n : k \notin P}
<1>1. SUFFICES ASSUME Q # {} PROVE FALSE
  OBVIOUS
<1>2. PICK m \in Q : \A k \in Q : m <= k
  <2>1. Q \in SUBSET Nat
    OBVIOUS
  <2> HIDE DEF Q
  <2>2. QED BY <1>1, <2>1, LeastElement
<1>3. m \in 0..n /\ m \notin P /\ m # 0
  BY <1>2
<1>4. m - 1 \in 0..n /\ m - 1 < n
  BY <1>3
<1>5. m - 1 \notin Q
  <2> HIDE DEF Q
  <2>1. m - 1 < m
    BY <1>3
  <2>2. QED BY <1>2, <1>3, <1>4, <2>1
<1>6. m - 1 \in P
  BY <1>4, <1>5
<1>7. QED BY <1>3, <1>4, <1>6

(* What follows for an element from those of smaller rank, holds for all.  *)
LEMMA RankInduction ==
    ASSUME NEW S, NEW rank, \A b \in S : rank[b] \in Nat, NEW P,
           \A b \in S : (\A c \in S : rank[c] < rank[b] => c \in P) => b \in P
    PROVE  \A b \in S : b \in P
<1> DEFINE R == {rank[b] : b \in {c \in S : c \notin P}}
<1>1. SUFFICES ASSUME R # {} PROVE FALSE
  OBVIOUS
<1>2. PICK m \in R : \A k \in R : m <= k
  <2>1. R \in SUBSET Nat
    OBVIOUS
  <2> HIDE DEF R
  <2>2. QED BY <1>1, <2>1, LeastElement
<1>3. PICK b \in S : b \notin P /\ m = rank[b]
  BY <1>2
<1>4. ASSUME NEW c \in S, rank[c] < rank[b]
      PROVE  c \in P
  <2>1. SUFFICES ASSUME c \notin P PROVE FALSE
    OBVIOUS
  <2>2. rank[c] \in R
    BY <2>1
  <2> HIDE DEF R
  <2>3. m <= rank[c]
    BY <1>2, <2>2
  <2>4. QED BY <1>3, <1>4, <2>3
<1>5. QED BY <1>3, <1>4

(* D, the value at b made from a function, looks at smaller ranks only.    *)
ByRank(S, V, n, rank, D) ==
    /\ V # {}
    /\ n \in Nat
    /\ rank \in [S -> 0..n]
    /\ D \in [[S -> V] \X S -> V]
    /\ \A f, g \in [S -> V] : \A b \in S :
          (\A c \in S : rank[c] < rank[b] => f[c] = g[c]) => D[<<f, b>>] = D[<<g, b>>]

Solvable(S, V, D) == \E f \in [S -> V] : f = [b \in S |-> D[<<f, b>>]]

(* A recursion on values of smaller rank has a solution.                   *)
LEMMA RecursiveFunction ==
    ASSUME NEW S, NEW V, NEW n, NEW rank, NEW D, ByRank(S, V, n, rank, D)
    PROVE  Solvable(S, V, D)
<1> USE DEF ByRank
<1> DEFINE P == {k \in 0..n + 1 : \E f \in [S -> V] :
                                      \A b \in S : rank[b] < k => f[b] = D[<<f, b>>]}
<1>1. 0 \in P
  <2>1. PICK v \in V : TRUE
    OBVIOUS
  <2>2. [b \in S |-> v] \in [S -> V]
    OBVIOUS
  <2>3. \A b \in S : ~(rank[b] < 0)
    OBVIOUS
  <2>4. \E f \in [S -> V] : \A b \in S : rank[b] < 0 => f[b] = D[<<f, b>>]
    BY <2>2, <2>3
  <2>5. 0 \in 0..n + 1
    OBVIOUS
  <2>6. QED BY <2>4, <2>5, Zenon
<1>2. ASSUME NEW k \in 0..n + 1, k < n + 1, k \in P
      PROVE  k + 1 \in P
  <2>1. PICK f \in [S -> V] : \A b \in S : rank[b] < k => f[b] = D[<<f, b>>]
    BY <1>2
  <2> DEFINE g == [b \in S |-> D[<<f, b>>]]
  <2>2. g \in [S -> V]
    OBVIOUS
  <2>3. ASSUME NEW b \in S, rank[b] < k + 1
        PROVE  g[b] = D[<<g, b>>]
    <3>1. \A c \in S : rank[c] < rank[b] => f[c] = g[c]
      <4> SUFFICES ASSUME NEW c \in S, rank[c] < rank[b] PROVE f[c] = g[c]
        OBVIOUS
      <4>1. rank[c] \in Nat /\ rank[b] \in Nat /\ rank[c] < k
        BY <2>3
      <4>2. QED BY <2>1, <4>1
    <3>2. D[<<f, b>>] = D[<<g, b>>]
      <4> HIDE DEF g
      <4>1. QED BY <2>2, <3>1
    <3>3. QED BY <3>2
  <2> HIDE DEF g
  <2>4. QED BY <1>2, <2>2, <2>3
<1>3. n + 1 \in P
  <2> HIDE DEF P
  <2>1. \A k \in 0..n + 1 : k \in P
    BY <1>1, <1>2, RangeInduction
  <2>2. QED BY <2>1
<1>4. PICK f \in [S -> V] : \A b \in S : rank[b] < n + 1 => f[b] = D[<<f, b>>]
  BY <1>3
<1>5. \A b \in S : f[b] = D[<<f, b>>]
  BY <1>4
<1>6. f = [b \in S |-> D[<<f, b>>]]
  BY <1>4, <1>5
<1>7. QED BY <1>6 DEF Solvable

(* The value D makes at b depends on values in below[b] only.              *)
LooksBelow(S, V, below, D) ==
    \A f, g \in [S -> V] : \A b \in S :
        (\A c \in S : c \in below[b] => f[c] = g[c]) => D[<<f, b>>] = D[<<g, b>>]

(* D looks below only, and what follows for an element from those below it *)
(* holds for all of them.                                                  *)
ByDependency(S, V, below, D) ==
    /\ V # {}
    /\ below \in [S -> SUBSET S]
    /\ D \in [[S -> V] \X S -> V]
    /\ \A P \in SUBSET S : (\A b \in S : below[b] \subseteq P => b \in P) => S \subseteq P
    /\ LooksBelow(S, V, below, D)

(* Functions that agree below b make the same value at b.                  *)
LEMMA SameBelow ==
    ASSUME NEW S, NEW V, NEW below, NEW D, LooksBelow(S, V, below, D),
           NEW g1 \in [S -> V], NEW g2 \in [S -> V], NEW b \in S,
           \A c \in S : c \in below[b] => g1[c] = g2[c]
    PROVE  D[<<g1, b>>] = D[<<g2, b>>]
BY DEF LooksBelow

(* Such a recursion has a solution: the union of its partial solutions.    *)
LEMMA DependentFunction ==
    ASSUME NEW S, NEW V, NEW below, NEW D, ByDependency(S, V, below, D)
    PROVE  Solvable(S, V, D)
<1> USE DEF ByDependency
<1> DEFINE A == {p \in (SUBSET S) \X [S -> V] :
                    \A b \in p[1] : below[b] \subseteq p[1] /\ p[2][b] = D[<<p[2], b>>]}
<1>1. ASSUME NEW p \in A, NEW q \in A
      PROVE  \A b \in p[1] \cap q[1] : p[2][b] = q[2][b]
  <2> DEFINE P == {b \in S : b \in p[1] \cap q[1] => p[2][b] = q[2][b]}
  <2>1. p[1] \subseteq S /\ q[1] \subseteq S /\ p[2] \in [S -> V] /\ q[2] \in [S -> V]
    OBVIOUS
  <2>2. ASSUME NEW b \in S, below[b] \subseteq P, b \in p[1] \cap q[1]
        PROVE  p[2][b] = q[2][b]
    <3>1. below[b] \subseteq p[1] /\ below[b] \subseteq q[1]
      BY <2>2
    <3>2. \A c \in S : c \in below[b] => p[2][c] = q[2][c]
      BY <2>2, <3>1
    <3>3. D[<<p[2], b>>] = D[<<q[2], b>>]
      <4>1. LooksBelow(S, V, below, D)
        OBVIOUS
      <4> HIDE DEF A, P, ByDependency
      <4>2. QED BY SameBelow, <2>1, <3>2, <4>1
    <3>4. p[2][b] = D[<<p[2], b>>] /\ q[2][b] = D[<<q[2], b>>]
      BY <2>2
    <3>5. QED BY <3>3, <3>4
  <2>3. \A b \in S : below[b] \subseteq P => b \in P
    BY <2>2
  <2>4. P \in SUBSET S
    OBVIOUS
  <2>5. S \subseteq P
    <3> HIDE DEF P
    <3>1. QED BY <2>3, <2>4
  <2>6. QED BY <2>1, <2>5
<1>2. PICK v \in V : TRUE
  OBVIOUS
<1> DEFINE U == {x \in S : \E p \in A : x \in p[1]}
           Of(x) == CHOOSE p \in A : x \in p[1]
           f == [x \in S |-> IF x \in U THEN Of(x)[2][x] ELSE v]
<1>3. \A x \in U : Of(x) \in A /\ x \in Of(x)[1]
  <2> HIDE DEF A
  <2>1. QED OBVIOUS
<1>4. f \in [S -> V]
  <2>1. \A x \in U : Of(x)[2] \in [S -> V]
    <3> HIDE DEF Of, U
    <3>1. \A p \in A : p[2] \in [S -> V]
      OBVIOUS
    <3> HIDE DEF A
    <3>2. QED BY <1>3, <3>1
  <2> HIDE DEF Of, U
  <2>2. \A x \in S : (IF x \in U THEN Of(x)[2][x] ELSE v) \in V
    BY <1>2, <2>1
  <2>3. QED BY <2>2
<1>5. ASSUME NEW p \in A
      PROVE  p[1] \subseteq U /\ \A x \in p[1] : f[x] = p[2][x]
  <2>1. p[1] \subseteq S
    OBVIOUS
  <2> HIDE DEF A
  <2>2. p[1] \subseteq U
    BY <2>1
  <2>3. ASSUME NEW x \in p[1] PROVE f[x] = p[2][x]
    <3>1. x \in S /\ x \in U
      BY <2>1, <2>2
    <3>2. f[x] = Of(x)[2][x]
      BY <3>1
    <3> HIDE DEF f, Of, U
    <3>3. Of(x) \in A /\ x \in Of(x)[1]
      BY <1>3, <3>1
    <3>4. QED BY <1>1, <3>2, <3>3
  <2>4. QED BY <2>2, <2>3
<1>6. ASSUME NEW x \in U
      PROVE  below[x] \subseteq U /\ f[x] = D[<<f, x>>]
  <2>1. PICK p \in A : x \in p[1]
    <3> HIDE DEF A
    <3>1. QED OBVIOUS
  <2>2. p[1] \subseteq S /\ p[2] \in [S -> V] /\ below[x] \subseteq p[1]
        /\ p[2][x] = D[<<p[2], x>>]
    BY <2>1
  <2> HIDE DEF A, f, U
  <2>3. p[1] \subseteq U /\ \A y \in p[1] : f[y] = p[2][y]
    BY <1>5
  <2>4. \A c \in below[x] : f[c] = p[2][c]
    BY <2>2, <2>3
  <2>5. x \in S
    BY <2>1, <2>2
  <2>6. D[<<f, x>>] = D[<<p[2], x>>]
    BY SameBelow, <1>4, <2>2, <2>4, <2>5
  <2>7. QED BY <2>1, <2>2, <2>3, <2>6
<1>7. U \in SUBSET S
  OBVIOUS
<1>8. ASSUME NEW b \in S, below[b] \subseteq U
      PROVE  b \in U
  <2> HIDE DEF f, U
  <2>1. SUFFICES ASSUME b \notin U PROVE FALSE
    OBVIOUS
  <2> DEFINE h == [f EXCEPT ![b] = D[<<f, b>>]]
             p == <<U \cup {b}, h>>
  <2>2. <<f, b>> \in [S -> V] \X S
    BY <1>4
  <2>3. h \in [S -> V]
    BY <1>4, <2>2
  <2>4. \A x \in U : h[x] = f[x]
    BY <1>4, <1>7, <2>1
  <2>5. h[b] = D[<<f, b>>]
    BY <1>4
  <2> HIDE DEF h
  <2>6. ASSUME NEW x \in U \cup {b}
        PROVE  below[x] \subseteq U \cup {b} /\ h[x] = D[<<h, x>>]
    <3>1. x \in S /\ below[x] \subseteq U
      BY <1>6, <1>7, <1>8
    <3>2. h[x] = D[<<f, x>>]
      BY <1>6, <2>4, <2>5
    <3>3. \A c \in S : c \in below[x] => f[c] = h[c]
      BY <2>4, <3>1
    <3>4. D[<<f, x>>] = D[<<h, x>>]
      <4>1. LooksBelow(S, V, below, D)
        OBVIOUS
      <4> HIDE DEF A, ByDependency
      <4>2. QED BY SameBelow, <1>4, <2>3, <3>1, <3>3, <4>1
    <3>5. QED BY <3>1, <3>2, <3>4
  <2>7. p \in A
    BY <1>7, <2>3, <2>6
  <2> HIDE DEF A
  <2>8. b \in p[1]
    OBVIOUS
  <2> HIDE DEF p
  <2>9. b \in U
    BY <2>7, <2>8 DEF U
  <2>10. QED BY <2>1, <2>9
<1>9. S \subseteq U
  <2> HIDE DEF U, f
  <2>1. QED BY <1>7, <1>8
<1>10. \A b \in S : f[b] = D[<<f, b>>]
  <2> HIDE DEF U, f
  <2>1. QED BY <1>6, <1>9
<1>11. f = [b \in S |-> D[<<f, b>>]]
  <2> HIDE DEF U, f
  <2>1. f = [b \in S |-> f[b]]
    BY <1>4
  <2>2. QED BY <1>10, <2>1
<1> HIDE DEF f
<1>12. QED BY <1>4, <1>11 DEF Solvable

LEMMA GreatestOf ==
    ASSUME NEW n \in Nat, NEW S \in SUBSET (1..n), S # {}
    PROVE  Max(S) \in S /\ \A k \in S : k <= Max(S)
<1> DEFINE R == {n - k : k \in S}
<1>1. R \in SUBSET Nat /\ R # {}
  <2>1. \A k \in S : k \in 1..n
    OBVIOUS
  <2>2. \A k \in S : n - k \in Nat
    BY <2>1
  <2>3. QED BY <2>2
<1>2. PICK r \in R : \A k \in R : r <= k
  <2> HIDE DEF R
  <2>1. QED BY <1>1, LeastElement
<1>3. PICK m \in S : r = n - m
  BY <1>2
<1>4. \A k \in S : n - m <= n - k
  BY <1>2, <1>3
<1>5. \A k \in S : k \in 1..n
  OBVIOUS
<1>6. \A k \in S : m >= k
  <2> TAKE k \in S
  <2>1. k \in 1..n /\ m \in 1..n /\ n - m <= n - k
    BY <1>4, <1>5
  <2>2. QED BY <2>1
<1>7. \E x \in S : \A y \in S : x >= y
  BY <1>6
<1>8. Max(S) \in S /\ \A k \in S : Max(S) >= k
  BY <1>7 DEF Max
<1>9. ASSUME NEW k \in S PROVE k <= Max(S)
  <2>1. k \in 1..n /\ Max(S) \in 1..n /\ Max(S) >= k
    BY <1>5, <1>8
  <2>2. QED BY <2>1
<1>10. QED BY <1>8, <1>9

-------------------------------------------------------------------------------
(* Folds from the left.  FoldLeft is defined by recursion on the set of    *)
(* the places that are left, the greatest of which is taken last.          *)

(* step[k] is what the k-th entry makes of a value.                        *)
FoldSteps(n, V, base, step) == n \in Nat /\ base \in V /\ step \in [1..n -> [V -> V]]

(* f solves the recursion, as far as its values are in V.                  *)
FoldsBy(f, n, V, base, step) ==
    /\ f[{}] = base
    /\ \A s \in SUBSET (1..n) :
          s # {} /\ f[s \ {Max(s)}] \in V => f[s] = step[Max(s)][f[s \ {Max(s)}]]

(* u[k] is what the first k entries make of base.                          *)
FoldTraces(u, n, V, base, step) ==
    /\ u \in [0..n -> V]
    /\ u[0] = base
    /\ \A k \in 1..n : u[k] = step[k][u[k - 1]]

LEMMA FoldSolution ==
    ASSUME NEW n, NEW V, NEW base, NEW step, FoldSteps(n, V, base, step)
    PROVE  \E f : f \in [SUBSET (1..n) -> V] /\ FoldsBy(f, n, V, base, step)
<1> USE DEF FoldSteps
<1> DEFINE S == SUBSET (1..n)
           E(f, s) == IF s = {} THEN base ELSE step[Max(s)][f[s \ {Max(s)}]]
           D == [p \in [S -> V] \X S |-> E(p[1], p[2])]
           rank == [s \in S |-> IF s = {} THEN 0 ELSE Max(s)]
<1>1. ASSUME NEW s \in S, s # {}
      PROVE  /\ Max(s) \in 1..n /\ Max(s) \in s
             /\ s \ {Max(s)} \in S
             /\ \A k \in s : k <= Max(s)
  <2>1. Max(s) \in s /\ \A k \in s : k <= Max(s)
    BY <1>1, GreatestOf
  <2>2. QED BY <2>1
<1>2. rank \in [S -> 0..n]
  <2>1. ASSUME NEW s \in S PROVE (IF s = {} THEN 0 ELSE Max(s)) \in 0..n
    <3>1. CASE s = {}
      BY <3>1
    <3>2. CASE s # {}
      BY <1>1, <3>2
    <3>3. QED BY <3>1, <3>2
  <2> HIDE DEF S
  <2>2. QED BY <2>1
<1>3. ASSUME NEW s \in S, s # {}
      PROVE  rank[s \ {Max(s)}] < rank[s]
  <2> DEFINE r == s \ {Max(s)}
  <2>1. r \in S /\ rank[s] = Max(s) /\ Max(s) \in 1..n
    BY <1>1, <1>3
  <2>2. CASE r = {}
    BY <2>1, <2>2
  <2>3. CASE r # {}
    <3>1. Max(r) \in r /\ Max(r) \in 1..n
      BY <1>1, <2>1, <2>3
    <3>2. Max(r) \in s /\ Max(r) # Max(s)
      BY <3>1
    <3>3. Max(r) <= Max(s)
      BY <1>1, <1>3, <3>2
    <3>4. rank[r] = Max(r)
      BY <2>1, <2>3
    <3>5. Max(r) < Max(s)
      <4> HIDE DEF r
      <4>1. QED BY <2>1, <3>1, <3>2, <3>3
    <3> HIDE DEF rank, r
    <3>6. QED BY <2>1, <3>4, <3>5 DEF r
  <2>4. QED BY <2>2, <2>3
<1>4. ASSUME NEW f \in [S -> V], NEW s \in S
      PROVE  D[<<f, s>>] = E(f, s) /\ E(f, s) \in V
  <2>1. CASE s = {}
    BY <2>1
  <2>2. CASE s # {}
    <3>1. Max(s) \in 1..n /\ s \ {Max(s)} \in S
      BY <1>1, <2>2
    <3>2. step[Max(s)] \in [V -> V] /\ f[s \ {Max(s)}] \in V
      <4> HIDE DEF S
      <4>1. QED BY <3>1
    <3>3. E(f, s) \in V
      BY <2>2, <3>2
    <3> HIDE DEF E, S
    <3>4. QED BY <3>3
  <2>3. QED BY <2>1, <2>2
<1>5. ASSUME NEW f \in [S -> V], NEW g \in [S -> V], NEW s \in S,
             \A c \in S : rank[c] < rank[s] => f[c] = g[c]
      PROVE  D[<<f, s>>] = D[<<g, s>>]
  <2>1. E(f, s) = E(g, s)
    <3>1. CASE s = {}
      BY <3>1
    <3>2. CASE s # {}
      <4>1. s \ {Max(s)} \in S /\ rank[s \ {Max(s)}] < rank[s]
        BY <1>1, <1>3, <3>2
      <4>2. f[s \ {Max(s)}] = g[s \ {Max(s)}]
        <5> HIDE DEF S, rank
        <5>1. QED BY <1>5, <4>1
      <4>3. QED BY <3>2, <4>2
    <3>3. QED BY <3>1, <3>2
  <2> HIDE DEF D, E, S
  <2>2. QED BY <1>4, <2>1
<1>6. PICK f \in [S -> V] : f = [s \in S |-> D[<<f, s>>]]
  <2>1. V # {}
    OBVIOUS
  <2>2. D \in [[S -> V] \X S -> V]
    <3> HIDE DEF E, S
    <3>1. QED BY <1>4
  <2>3. \A g, h \in [S -> V] : \A b \in S :
            (\A c \in S : rank[c] < rank[b] => g[c] = h[c]) => D[<<g, b>>] = D[<<h, b>>]
    BY <1>5
  <2> HIDE DEF S, D, rank
  <2>4. ByRank(S, V, n, rank, D)
    BY <1>2, <2>1, <2>2, <2>3 DEF ByRank
  <2>5. QED BY <2>4, RecursiveFunction DEF Solvable
<1>7. \A s \in S : f[s] = E(f, s)
  <2> HIDE DEF D, E, S
  <2>1. QED BY <1>4, <1>6
<1>8. {} \in S
  OBVIOUS
<1>9. f[{}] = base
  BY <1>7, <1>8
<1>10. FoldsBy(f, n, V, base, step)
  BY <1>7, <1>9 DEF FoldsBy
<1>11. QED BY <1>6, <1>10

(* Whatever recursion of this kind g solves, its value for all places is   *)
(* the last of the values after each place.                                *)
LEMMA FoldTrace ==
    ASSUME NEW n, NEW V, NEW base, NEW step, FoldSteps(n, V, base, step),
           NEW g, FoldsBy(g, n, V, base, step)
    PROVE  \E u : FoldTraces(u, n, V, base, step) /\ u[n] = g[1..n]
<1> USE DEF FoldSteps, FoldsBy, FoldTraces
<1>1. ASSUME NEW k \in 1..n, g[1..(k - 1)] \in V
      PROVE  g[1..k] = step[k][g[1..(k - 1)]] /\ g[1..k] \in V
  <2>1. 1..k \in SUBSET (1..n) /\ 1..k # {} /\ (1..k) \ {k} = 1..(k - 1)
    OBVIOUS
  <2>2. Max(1..k) = k
    <3>1. Max(1..k) \in 1..k /\ \A j \in 1..k : j <= Max(1..k)
      BY <2>1, GreatestOf
    <3>2. QED BY <3>1
  <2>3. g[1..k] = step[k][g[1..(k - 1)]]
    BY <1>1, <2>1, <2>2
  <2>4. QED BY <1>1, <2>3
<1> DEFINE P == {k \in 0..n : g[1..k] \in V}
<1>2. \A k \in 0..n : k \in P
  <2>1. 0 \in P
    <3>1. 1..0 = {}
      OBVIOUS
    <3>2. QED BY <3>1
  <2>2. ASSUME NEW k \in 0..n, k < n, k \in P PROVE k + 1 \in P
    <3>1. k + 1 \in 1..n /\ k + 1 - 1 = k
      BY <2>2
    <3>2. QED BY <1>1, <2>2, <3>1
  <2> HIDE DEF P
  <2>3. QED BY <2>1, <2>2, RangeInduction
<1> DEFINE u == [k \in 0..n |-> g[1..k]]
<1>3. u \in [0..n -> V]
  BY <1>2
<1>4. u[0] = base /\ u[n] = g[1..n]
  <2>1. 1..0 = {} /\ 0 \in 0..n /\ n \in 0..n
    OBVIOUS
  <2>2. QED BY <2>1
<1>5. ASSUME NEW k \in 1..n PROVE u[k] = step[k][u[k - 1]]
  <2>1. k \in 0..n /\ k - 1 \in 0..n
    OBVIOUS
  <2>2. g[1..(k - 1)] \in V
    BY <1>2, <2>1
  <2>3. u[k] = g[1..k] /\ u[k - 1] = g[1..(k - 1)]
    BY <2>1
  <2> HIDE DEF u
  <2>4. QED BY <1>1, <2>2, <2>3
<1> HIDE DEF u
<1>6. QED BY <1>3, <1>4, <1>5

-------------------------------------------------------------------------------
(* Sums and concatenations.                                                *)

LEMMA RunningSum ==
    ASSUME NEW n \in Nat, NEW inc \in [1..n -> Nat]
    PROVE  \E u \in [0..n -> Nat] :
               u = [i \in 0..n |-> IF i = 0 THEN 0 ELSE u[i - 1] + inc[i]]
<1> DEFINE S == 0..n
           E(f, i) == IF i = 0 THEN 0 ELSE f[i - 1] + inc[i]
           D == [p \in [S -> Nat] \X S |-> E(p[1], p[2])]
           rank == [i \in S |-> i]
<1>1. rank \in [S -> 0..n]
  OBVIOUS
<1>2. ASSUME NEW f \in [S -> Nat], NEW i \in S
      PROVE  D[<<f, i>>] = E(f, i) /\ E(f, i) \in Nat
  <2>1. i # 0 => i - 1 \in S /\ i \in 1..n
    OBVIOUS
  <2>2. QED BY <2>1, SMTT(40)
<1>3. D \in [[S -> Nat] \X S -> Nat]
  BY <1>2
<1>4. ASSUME NEW f \in [S -> Nat], NEW g \in [S -> Nat], NEW i \in S,
             \A c \in S : rank[c] < rank[i] => f[c] = g[c]
      PROVE  D[<<f, i>>] = D[<<g, i>>]
  <2>1. i # 0 => i - 1 \in S /\ rank[i - 1] < rank[i]
    OBVIOUS
  <2>2. E(f, i) = E(g, i)
    BY <1>4, <2>1
  <2> HIDE DEF D, E
  <2>3. QED BY <1>2, <2>2
<1>5. \E u \in [S -> Nat] : u = [i \in S |-> D[<<u, i>>]]
  <2>1. Nat # {}
    OBVIOUS
  <2>2. \A f, g \in [S -> Nat] : \A b \in S :
            (\A c \in S : rank[c] < rank[b] => f[c] = g[c]) => D[<<f, b>>] = D[<<g, b>>]
    BY <1>4
  <2> HIDE DEF S, D, rank
  <2>3. ByRank(S, Nat, n, rank, D)
    BY <1>1, <1>3, <2>1, <2>2 DEF ByRank
  <2>4. QED BY <2>3, RecursiveFunction DEF Solvable
<1>6. PICK u \in [S -> Nat] : u = [i \in S |-> D[<<u, i>>]]
  BY <1>5
<1>7. \A i \in S : D[<<u, i>>] = E(u, i)
  BY <1>2
<1>8. u = [i \in S |-> E(u, i)]
  <2> HIDE DEF D, E
  <2>1. QED BY <1>6, <1>7
<1>9. QED BY <1>8

LEMMA ConcatFacts ==
    ASSUME NEW V, NEW s \in Seq(V), NEW t \in Seq(V)
    PROVE  /\ s \o t \in Seq(V)
           /\ Len(s) \in Nat /\ Len(t) \in Nat
           /\ Len(s \o t) = Len(s) + Len(t)
           /\ \A i \in 1..Len(s) : (s \o t)[i] = s[i]
           /\ \A i \in 1..Len(t) : (s \o t)[Len(s) + i] = t[i]
OBVIOUS

(* u[k] is what the first k parts of s make, one behind the other.         *)
Concatenates(u, V, n, s) ==
    /\ u \in [0..n -> Seq(V)]
    /\ u[0] = <<>>
    /\ \A k \in 1..n : u[k] = u[k - 1] \o s[k]

LEMMA Flattened ==
    ASSUME NEW V, NEW n \in Nat, NEW s, s \in [1..n -> Seq(V)]
    PROVE  \E u : Concatenates(u, V, n, s) /\ FlattenSeq(s) = u[n]
<1> USE DEF Concatenates
<1>1. Len(s) = n
  OBVIOUS
<1>2. CASE n = 0
  <2>1. FlattenSeq(s) = s /\ s = <<>>
    BY <1>1, <1>2 DEF FlattenSeq
  <2> DEFINE u == [k \in 0..n |-> <<>>]
  <2>2. u \in [0..n -> Seq(V)] /\ u[0] = <<>> /\ u[n] = <<>>
    OBVIOUS
  <2>3. \A k \in 1..n : FALSE
    BY <1>2
  <2> HIDE DEF u
  <2>4. QED BY <2>1, <2>2, <2>3
<1>3. CASE n > 0
  <2> DEFINE S == 1..n
             E(f, i) == IF i = 1 THEN s[i] ELSE f[i - 1] \o s[i]
             D == [p \in [S -> Seq(V)] \X S |-> E(p[1], p[2])]
             rank == [i \in S |-> i]
             flatten == CHOOSE f : f = [i \in S |-> E(f, i)]
  <2>1. ASSUME NEW f \in [S -> Seq(V)], NEW i \in S
        PROVE  D[<<f, i>>] = E(f, i) /\ E(f, i) \in Seq(V)
    <3>1. i # 1 => i - 1 \in S
      OBVIOUS
    <3>2. QED BY <3>1, SMTT(40)
  <2>2. \E f \in [S -> Seq(V)] : f = [i \in S |-> D[<<f, i>>]]
    <3>1. rank \in [S -> 0..n]
      OBVIOUS
    <3>2. D \in [[S -> Seq(V)] \X S -> Seq(V)]
      BY <2>1
    <3>3. ASSUME NEW f \in [S -> Seq(V)], NEW g \in [S -> Seq(V)], NEW i \in S,
                 \A c \in S : rank[c] < rank[i] => f[c] = g[c]
          PROVE  D[<<f, i>>] = D[<<g, i>>]
      <4>1. i # 1 => i - 1 \in S /\ rank[i - 1] < rank[i]
        OBVIOUS
      <4>2. E(f, i) = E(g, i)
        BY <3>3, <4>1
      <4> HIDE DEF D, E
      <4>3. QED BY <2>1, <4>2
    <3>4. \A f, g \in [S -> Seq(V)] : \A b \in S :
              (\A c \in S : rank[c] < rank[b] => f[c] = g[c]) => D[<<f, b>>] = D[<<g, b>>]
      BY <3>3
    <3>5. Seq(V) # {}
      <4>1. <<>> \in Seq(V)
        OBVIOUS
      <4>2. QED BY <4>1
    <3> HIDE DEF S, D, rank
    <3>6. ByRank(S, Seq(V), n, rank, D)
      BY <3>1, <3>2, <3>4, <3>5 DEF ByRank
    <3>7. QED BY <3>6, RecursiveFunction DEF Solvable
  <2>3. flatten = [i \in S |-> E(flatten, i)]
    <3>1. PICK f \in [S -> Seq(V)] : f = [i \in S |-> D[<<f, i>>]]
      BY <2>2
    <3>2. f = [i \in S |-> E(f, i)]
      <4> HIDE DEF D, E
      <4>1. QED BY <2>1, <3>1
    <3> HIDE DEF E
    <3>3. QED BY <3>2
  <2>4. FlattenSeq(s) = flatten[n]
    BY <1>1, <1>3 DEF FlattenSeq
  <2>5. \A i \in S : flatten[i] = IF i = 1 THEN s[i] ELSE flatten[i - 1] \o s[i]
    <3> HIDE DEF flatten
    <3>1. QED BY <2>3
  <2> DEFINE P == {0} \cup {i \in S : flatten[i] \in Seq(V)}
  <2>6. \A i \in S : flatten[i] \in Seq(V)
    <3> HIDE DEF flatten
    <3>1. 0 \in P
      OBVIOUS
    <3>2. ASSUME NEW k \in 0..n, k < n, k \in P
          PROVE  k + 1 \in P
      <4>1. k + 1 \in S /\ (k # 0 => k \in S)
        BY <3>2
      <4>2. CASE k = 0
        BY <2>5, <4>1, <4>2
      <4>3. CASE k # 0
        <5>1. k + 1 - 1 = k /\ k + 1 # 1
          BY <3>2, <4>3
        <5>2. flatten[k + 1] = flatten[k] \o s[k + 1]
          <6>1. flatten[k + 1] = IF k + 1 = 1 THEN s[k + 1]
                                 ELSE flatten[k + 1 - 1] \o s[k + 1]
            BY <2>5, <4>1
          <6> HIDE DEF S
          <6>2. QED BY <5>1, <6>1
        <5>3. flatten[k] \in Seq(V) /\ s[k + 1] \in Seq(V)
          BY <3>2, <4>1, <4>3
        <5>4. flatten[k + 1] \in Seq(V)
          BY <5>2, <5>3, ConcatFacts
        <5>5. QED BY <4>1, <5>4
      <4>4. QED BY <4>2, <4>3
    <3> HIDE DEF P
    <3>3. \A k \in 0..n : k \in P
      BY <3>1, <3>2, RangeInduction
    <3>4. QED BY <3>3 DEF P
  <2> DEFINE u == [k \in 0..n |-> IF k = 0 THEN <<>> ELSE flatten[k]]
  <2>7. u \in [0..n -> Seq(V)] /\ u[0] = <<>> /\ u[n] = flatten[n]
    <3> HIDE DEF flatten
    <3>1. QED BY <1>3, <2>6
  <2>8. ASSUME NEW k \in 1..n
        PROVE  u[k] = u[k - 1] \o s[k]
    <3> HIDE DEF flatten
    <3>1. CASE k = 1
      <4>1. s[k] \in Seq(V)
        OBVIOUS
      <4>2. u[k] = s[k] /\ u[k - 1] = <<>>
        BY <2>5, <3>1
      <4>3. <<>> \o s[k] = s[k]
        BY <4>1
      <4>4. QED BY <4>2, <4>3
    <3>2. CASE k # 1
      <4>1. k - 1 \in 0..n /\ k - 1 # 0 /\ k \in 0..n /\ k # 0
        BY <3>2
      <4>2. u[k] = flatten[k] /\ u[k - 1] = flatten[k - 1]
        BY <4>1
      <4>3. flatten[k] = flatten[k - 1] \o s[k]
        BY <2>5, <3>2
      <4>4. QED BY <4>2, <4>3
    <3>3. QED BY <3>1, <3>2
  <2> HIDE DEF u, flatten
  <2>9. QED BY <2>4, <2>7, <2>8
<1>4. n = 0 \/ n > 0
  OBVIOUS
<1>5. QED BY <1>2, <1>3, <1>4, Zenon
(* Where each part of the whole stands: part k after place o[k - 1].       *)
Places(o, n, s) ==
    /\ o \in [0..n -> Nat]
    /\ o[0] = 0 /\ o[n] = Len(FlattenSeq(s))
    /\ \A k \in 1..n :
          /\ o[k] = o[k - 1] + Len(s[k])
          /\ o[k] <= o[n]
          /\ \A x \in 1..Len(s[k]) : FlattenSeq(s)[o[k - 1] + x] = s[k][x]

LEMMA FlattenedPlaces ==
    ASSUME NEW V, NEW n \in Nat, NEW s, s \in [1..n -> Seq(V)]
    PROVE  FlattenSeq(s) \in Seq(V) /\ \E o : Places(o, n, s)
<1>1. PICK u \in [0..n -> Seq(V)] :
          /\ u[0] = <<>>
          /\ \A k \in 1..n : u[k] = u[k - 1] \o s[k]
          /\ FlattenSeq(s) = u[n]
  <2>1. \E u : Concatenates(u, V, n, s) /\ FlattenSeq(s) = u[n]
    BY Flattened
  <2>2. QED BY <2>1 DEF Concatenates
<1>2. ASSUME NEW k \in 1..n
      PROVE  /\ Len(u[k]) = Len(u[k - 1]) + Len(s[k])
             /\ \A x \in 1..Len(u[k - 1]) : u[k][x] = u[k - 1][x]
             /\ \A x \in 1..Len(s[k]) : u[k][Len(u[k - 1]) + x] = s[k][x]
  <2>1. k - 1 \in 0..n /\ u[k - 1] \in Seq(V) /\ s[k] \in Seq(V)
    OBVIOUS
  <2> DEFINE a == u[k - 1]
             c == s[k]
  <2>2. u[k] = a \o c
    BY <1>1
  <2>3. a \in Seq(V) /\ c \in Seq(V)
    BY <2>1
  <2> HIDE DEF a, c
  <2>4. /\ Len(a \o c) = Len(a) + Len(c)
        /\ \A i \in 1..Len(a) : (a \o c)[i] = a[i]
        /\ \A i \in 1..Len(c) : (a \o c)[Len(a) + i] = c[i]
    BY <2>3, ConcatFacts
  <2>5. QED BY <2>2, <2>4 DEF a, c
<1>3. \A k \in 0..n : u[k] \in Seq(V) /\ Len(u[k]) \in Nat
  <2> TAKE k \in 0..n
  <2>1. u[k] \in Seq(V)
    OBVIOUS
  <2>2. QED BY <2>1
<1>4. \A k \in 1..n : s[k] \in Seq(V) /\ Len(s[k]) \in Nat
  <2> TAKE k \in 1..n
  <2>1. s[k] \in Seq(V)
    OBVIOUS
  <2>2. QED BY <2>1
<1> DEFINE Begins(k, m) == /\ Len(u[k]) <= Len(u[m])
                           /\ \A x \in 1..Len(u[k]) : u[m][x] = u[k][x]
           P == {m \in 0..n : \A k \in 0..m : Begins(k, m)}
<1>5. \A k \in 0..n : Begins(k, n)
  <2>1. 0 \in P
    <3>1. \A k \in 0..0 : k = 0
      OBVIOUS
    <3>2. Begins(0, 0)
      BY <1>3
    <3> HIDE DEF Begins
    <3>3. QED BY <3>1, <3>2
  <2>2. ASSUME NEW m \in 0..n, m < n, m \in P
        PROVE  m + 1 \in P
    <3>1. m + 1 \in 1..n /\ m + 1 - 1 = m
      BY <2>2
    <3>2. Len(u[m + 1]) = Len(u[m]) + Len(s[m + 1])
          /\ \A x \in 1..Len(u[m]) : u[m + 1][x] = u[m][x]
      BY <1>2, <3>1
    <3>3. ASSUME NEW k \in 0..m + 1
          PROVE  Begins(k, m + 1)
      <4>1. CASE k = m + 1
        BY <1>3, <3>1, <4>1
      <4>2. CASE k \in 0..m
        <5>1. Begins(k, m)
          BY <2>2, <4>2
        <5>2. k \in 0..n /\ Len(u[k]) \in Nat /\ Len(u[m]) \in Nat /\ Len(s[m + 1]) \in Nat
          BY <1>3, <1>4, <3>1, <4>2
        <5>3. QED BY <3>2, <5>1, <5>2, SMTT(40)
      <4>3. k = m + 1 \/ k \in 0..m
        OBVIOUS
      <4>4. QED BY <4>1, <4>2, <4>3
    <3> HIDE DEF Begins
    <3>4. QED BY <3>1, <3>3
  <2> HIDE DEF P
  <2>3. \A m \in 0..n : m \in P
    BY <2>1, <2>2, RangeInduction
  <2>4. n \in P
    BY <2>3
  <2> HIDE DEF Begins
  <2>5. QED BY <2>4 DEF P
<1> DEFINE o == [k \in 0..n |-> Len(u[k])]
<1>6. o \in [0..n -> Nat] /\ o[0] = 0 /\ o[n] = Len(FlattenSeq(s))
  <2>1. Len(<<>>) = 0 /\ 0 \in 0..n /\ n \in 0..n
    OBVIOUS
  <2>2. o[0] = 0
    BY <1>1, <2>1
  <2>3. QED BY <1>1, <1>3, <2>1, <2>2
<1>7. ASSUME NEW k \in 1..n
      PROVE  /\ o[k] = o[k - 1] + Len(s[k])
             /\ o[k] <= o[n]
             /\ \A x \in 1..Len(s[k]) : FlattenSeq(s)[o[k - 1] + x] = s[k][x]
  <2>1. k \in 0..n /\ k - 1 \in 0..n /\ n \in 0..n
    OBVIOUS
  <2>2. o[k] = Len(u[k]) /\ o[k - 1] = Len(u[k - 1]) /\ o[n] = Len(u[n])
    BY <2>1
  <2>3. Begins(k, n)
    BY <1>5, <2>1
  <2>4. ASSUME NEW x \in 1..Len(s[k])
        PROVE  u[n][Len(u[k - 1]) + x] = s[k][x]
    <3>1. Len(u[k]) = Len(u[k - 1]) + Len(s[k])
          /\ Len(u[k - 1]) \in Nat /\ Len(s[k]) \in Nat
      BY <1>2, <1>3, <1>4, <2>1
    <3>2. Len(u[k - 1]) + x \in 1..Len(u[k])
      BY <3>1
    <3>3. u[n][Len(u[k - 1]) + x] = u[k][Len(u[k - 1]) + x]
      BY <2>3, <3>2
    <3>4. QED BY <1>2, <3>3
  <2>5. Len(u[k]) = Len(u[k - 1]) + Len(s[k])
    BY <1>2
  <2> HIDE DEF o
  <2>6. \A x \in 1..Len(s[k]) : FlattenSeq(s)[o[k - 1] + x] = s[k][x]
    BY <1>1, <2>2, <2>4
  <2>7. QED BY <2>2, <2>3, <2>5, <2>6
<1>8. FlattenSeq(s) \in Seq(V)
  BY <1>1
<1> HIDE DEF o
<1>9. Places(o, n, s)
  BY <1>6, <1>7 DEF Places
<1>10. QED BY <1>8, <1>9
=============================================================================
