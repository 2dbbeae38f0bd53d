----------------------------- MODULE ChainProofs -----------------------------
(***************************************************************************)
(* A proof that succeeds links the games of its unrolled games list, for   *)
(* every games list the grammar allows and every range of its inductions.  *)
(*                                                                         *)
(* First the games: a set that holds both ends of an edge or none holds,   *)
(* when every hop of the text is taken, all games of a block at given      *)
(* values of the variables around it or none; so what is found from the    *)
(* first game is everything.  Then the engine: at success every hop of the *)
(* text has been reported valid, and a hop reported valid may be taken.    *)
(***************************************************************************)
EXTENDS ProofEngineProofs

-------------------------------------------------------------------------------
(* Graphs.                                                                 *)

(* The nodes next to those of S, along edges taken either way; and the     *)
(* nodes that are found from x in n rounds.                                *)
Beside(E, S) ==
    {e[2] : e \in {f \in E : f[1] \in S}} \cup {e[1] : e \in {f \in E : f[2] \in S}}
Found(n, E, x) ==
    LET reach[k \in 0..n] ==
            IF k = 0 THEN {x} ELSE LET S == reach[k - 1] IN S \cup Beside(E, S)
    IN reach

(* What is found round by round.                                           *)
LEMMA FoundMeaning ==
    ASSUME NEW n \in Nat, NEW E, NEW x
    PROVE  /\ Found(n, E, x)[0] = {x}
           /\ \A k \in 1..n : Found(n, E, x)[k] =
                  Found(n, E, x)[k - 1] \cup Beside(E, Found(n, E, x)[k - 1])
<1> DEFINE S == 0..n
           V == SUBSET ({x} \cup {e[1] : e \in E} \cup {e[2] : e \in E})
           G(f, k) == IF k = 0 THEN {x} ELSE f[k - 1] \cup Beside(E, f[k - 1])
           D == [p \in [S -> V] \X S |-> G(p[1], p[2])]
           rank == [k \in S |-> k]
<1>1. ASSUME NEW f \in [S -> V], NEW k \in S
      PROVE  D[<<f, k>>] = G(f, k) /\ G(f, k) \in V
  <2>1. k # 0 => k - 1 \in S
    OBVIOUS
  <2>2. D[<<f, k>>] = G(f, k)
    OBVIOUS
  <2>3. \A T : Beside(E, T) \in V
    BY DEF Beside
  <2>4. {x} \in V
    OBVIOUS
  <2>5. k # 0 => f[k - 1] \in V
    <3> HIDE DEF V
    <3>1. QED BY <2>1
  <2>6. k # 0 => f[k - 1] \cup Beside(E, f[k - 1]) \in V
    BY <2>3, <2>5
  <2>7. QED BY <2>2, <2>4, <2>6
<1>2. \E f \in [S -> V] : f = [k \in S |-> D[<<f, k>>]]
  <2>1. V # {}
    OBVIOUS
  <2>2. rank \in [S -> 0..n]
    OBVIOUS
  <2>3. D \in [[S -> V] \X S -> V]
    <3> HIDE DEF V
    <3>1. \A f \in [S -> V], k \in S : G(f, k) \in V
      BY <1>1
    <3> HIDE DEF G, S
    <3>2. QED BY <3>1
  <2>4. ASSUME NEW f \in [S -> V], NEW g \in [S -> V], NEW k \in S,
               \A c \in S : rank[c] < rank[k] => f[c] = g[c]
        PROVE  D[<<f, k>>] = D[<<g, k>>]
    <3>1. k # 0 => k - 1 \in S /\ rank[k - 1] < rank[k]
      OBVIOUS
    <3>2. k # 0 => f[k - 1] = g[k - 1]
      <4> HIDE DEF S, rank, V
      <4>1. QED BY <2>4, <3>1
    <3>3. G(f, k) = G(g, k)
      BY <3>2
    <3> HIDE DEF D, G
    <3>4. QED BY <1>1, <3>3
  <2>5. \A f, g \in [S -> V] : \A k \in S :
            (\A c \in S : rank[c] < rank[k] => f[c] = g[c]) => D[<<f, k>>] = D[<<g, k>>]
    BY <2>4
  <2> HIDE DEF S, V, D, rank
  <2>6. ByRank(S, V, n, rank, D)
    BY <2>1, <2>2, <2>3, <2>5 DEF ByRank
  <2>7. QED BY <2>6, RecursiveFunction DEF Solvable
<1>3. PICK f \in [S -> V] : f = [k \in S |-> D[<<f, k>>]]
  BY <1>2
<1>4. f = [k \in S |-> G(f, k)]
  <2>1. \A k \in S : D[<<f, k>>] = G(f, k)
    BY <1>1
  <2> HIDE DEF D, G, S, V
  <2>2. QED BY <1>3, <2>1
<1>5. Found(n, E, x) = CHOOSE g : g = [k \in S |-> G(g, k)]
  BY DEF Found
<1>6. Found(n, E, x) = [k \in S |-> G(Found(n, E, x), k)]
  <2> HIDE DEF G, S, V, D
  <2>1. QED BY <1>4, <1>5
<1> DEFINE r == Found(n, E, x)
<1>7. \A k \in S : r[k] = G(r, k)
  <2> HIDE DEF G, S
  <2>1. QED BY <1>6
<1> HIDE DEF r
<1>8. 0 \in S /\ \A k \in 1..n : k \in S /\ k # 0
  OBVIOUS
<1>9. r[0] = {x} /\ \A k \in 1..n : r[k] = r[k - 1] \cup Beside(E, r[k - 1])
  <2> HIDE DEF S
  <2>1. QED BY <1>7, <1>8
<1>10. QED BY <1>9 DEF r

(* As many rounds as there are edges find everything: a round that finds   *)
(* something meets an edge that no earlier one met.                        *)
LEMMA FoundAll ==
    ASSUME NEW E, IsFiniteSet(E), NEW x
    PROVE  LET S == Found(Cardinality(E), E, x)[Cardinality(E)] IN
           /\ x \in S
           /\ \A e \in E : e[1] \in S <=> e[2] \in S
<1> DEFINE n == Cardinality(E)
           r == Found(n, E, x)
           U(k) == {e \in E : e[1] \in r[k] \/ e[2] \in r[k]}
           Full(k) == Beside(E, r[k]) \subseteq r[k]
<1>1. n \in Nat
  BY FS_CardinalityType
<1>2. r[0] = {x} /\ \A k \in 1..n : r[k] = r[k - 1] \cup Beside(E, r[k - 1])
  BY <1>1, FoundMeaning
<1> HIDE DEF n, r
<1>3. \A k \in 0..n : k < n => r[k + 1] = r[k] \cup Beside(E, r[k])
  <2> TAKE k \in 0..n
  <2>1. SUFFICES ASSUME k < n PROVE r[k + 1] = r[k] \cup Beside(E, r[k])
    OBVIOUS
  <2>2. k + 1 \in 1..n /\ (k + 1) - 1 = k
    BY <1>1, <2>1
  <2>3. QED BY <1>2, <2>2
<1>4. \A k \in 0..n : IsFiniteSet(U(k)) /\ Cardinality(U(k)) \in Nat /\ Cardinality(U(k)) <= n
  <2> TAKE k \in 0..n
  <2>1. U(k) \in SUBSET E
    OBVIOUS
  <2> HIDE DEF U
  <2>2. QED BY <2>1, FS_Subset, FS_CardinalityType DEF n
<1> DEFINE P == {k \in 0..n : Full(k) \/ Cardinality(U(k)) >= k + 1}
<1>5. 0 \in P
  <2>1. CASE Full(0)
    BY <1>1, <2>1
  <2>2. CASE ~Full(0)
    <3>1. U(0) # {}
      BY <2>2 DEF Beside
    <3> HIDE DEF U, Full
    <3>2. 0 \in 0..n
      BY <1>1
    <3>3. IsFiniteSet(U(0)) /\ Cardinality(U(0)) \in Nat
      BY <1>4, <3>2
    <3>4. Cardinality(U(0)) # 0
      BY <3>1, <3>3, FS_EmptySet
    <3>5. QED BY <3>2, <3>3, <3>4
  <2>3. QED BY <2>1, <2>2
<1>6. ASSUME NEW k \in 0..n, k < n, k \in P
      PROVE  k + 1 \in P
  <2>1. r[k + 1] = r[k] \cup Beside(E, r[k]) /\ k + 1 \in 0..n
    BY <1>1, <1>3, <1>6
  <2>2. CASE Full(k)
    <3>1. r[k + 1] = r[k]
      BY <2>1, <2>2
    <3>2. Full(k + 1)
      BY <2>2, <3>1
    <3>3. QED BY <2>1, <3>2
  <2>3. CASE U(k + 1) = U(k)
    <3>1. ASSUME NEW e \in E
          PROVE  e[1] \in r[k + 1] <=> e[2] \in r[k + 1]
      <4>1. SUFFICES ASSUME e[1] \in r[k + 1] \/ e[2] \in r[k + 1]
                     PROVE  e[1] \in r[k + 1] /\ e[2] \in r[k + 1]
        OBVIOUS
      <4>2. e \in U(k)
        BY <2>3, <4>1
      <4>3. QED BY <2>1, <4>2 DEF Beside
    <3>2. Full(k + 1)
      BY <3>1 DEF Beside
    <3>3. QED BY <2>1, <3>2
  <2>4. CASE ~Full(k) /\ U(k + 1) # U(k)
    <3>1. U(k) \in SUBSET U(k + 1)
      BY <2>1
    <3>2. Cardinality(U(k)) >= k + 1
      BY <1>6, <2>4
    <3> HIDE DEF U, Full
    <3>3. /\ Cardinality(U(k)) <= Cardinality(U(k + 1))
          /\ Cardinality(U(k)) # Cardinality(U(k + 1))
      BY <1>4, <2>1, <2>4, <3>1, FS_Subset
    <3>4. Cardinality(U(k)) \in Nat /\ Cardinality(U(k + 1)) \in Nat
      BY <1>4, <2>1
    <3>5. Cardinality(U(k + 1)) >= (k + 1) + 1
      BY <3>2, <3>3, <3>4
    <3>6. QED BY <2>1, <3>5
  <2>5. QED BY <2>2, <2>3, <2>4
<1>7. n \in 0..n /\ \A k \in 0..n : k \in P
  <2> HIDE DEF P
  <2>1. QED BY <1>1, <1>5, <1>6, RangeInduction
<1>8. Full(n)
  <2>1. Full(n) \/ Cardinality(U(n)) >= n + 1
    BY <1>7
  <2>2. Cardinality(U(n)) \in Nat /\ Cardinality(U(n)) <= n
    <3> HIDE DEF U
    <3>1. QED BY <1>4, <1>7
  <2> HIDE DEF U, Full
  <2>3. QED BY <1>1, <2>1, <2>2
<1> DEFINE Q == {k \in 0..n : x \in r[k]}
<1>9. x \in r[n]
  <2>1. 0 \in Q
    BY <1>1, <1>2
  <2>2. \A k \in 0..n : k < n /\ k \in Q => k + 1 \in Q
    BY <1>1, <1>3
  <2> HIDE DEF Q
  <2>3. \A k \in 0..n : k \in Q
    BY <1>1, <2>1, <2>2, RangeInduction
  <2>4. n \in Q
    BY <1>7, <2>3
  <2>5. QED BY <2>4 DEF Q
<1>10. \A e \in E : e[1] \in r[n] <=> e[2] \in r[n]
  BY <1>8 DEF Beside
<1>11. QED BY <1>9, <1>10 DEF r, n

(* Finite sets.                                                            *)
LEMMA ImageFinite ==
    ASSUME NEW S, IsFiniteSet(S), NEW f
    PROVE  IsFiniteSet({f[a] : a \in S})
<1> DEFINE T == {f[a] : a \in S}
           g == [a \in S |-> f[a]]
<1>1. g \in Surjection(S, T)
  BY DEF Surjection
<1> HIDE DEF g, T
<1>2. IsFiniteSet(T)
  BY <1>1, FS_Surjection
<1>3. QED BY <1>2 DEF T

(* The functions between two finite sets are finitely many.                *)
LEMMA FunctionsFinite ==
    ASSUME NEW S, IsFiniteSet(S), NEW T, IsFiniteSet(T)
    PROVE  IsFiniteSet([S -> T])
<1> DEFINE F == [S -> T]
           P == SUBSET (S \X T)
           Pairs(f) == {<<a, f[a]>> : a \in S}
           g == [f \in F |-> Pairs(f)]
<1>1. \A f \in F : Pairs(f) \in P
  OBVIOUS
<1>2. ASSUME NEW f \in F, NEW h \in F, Pairs(f) = Pairs(h)
      PROVE  f = h
  <2>1. ASSUME NEW a \in S
        PROVE  f[a] = h[a]
    <3>1. <<a, f[a]>> \in Pairs(h)
      BY <1>2
    <3>2. PICK c \in S : <<a, f[a]>> = <<c, h[c]>>
      BY <3>1
    <3>3. QED BY <3>2
  <2>2. QED BY <2>1
<1> HIDE DEF Pairs, F, P
<1>3. g \in Injection(F, P)
  BY <1>1, <1>2 DEF Injection, IsInjective
<1>4. IsFiniteSet(P)
  BY FS_Product, FS_SUBSET DEF P
<1>5. IsFiniteSet(F)
  BY <1>3, <1>4, FS_Injection
<1>6. QED BY <1>5 DEF F

-------------------------------------------------------------------------------
(* The unrolled games list.                                                *)

(* The values of the variables around block b.                             *)
EnvsOf(b) == {e \in [Around[b] -> Bounds] : \A c \in Around[b] : e[c] \in Values(c)}
RunningEnvs(b) == {e \in [Around[b] -> Bounds] : \A c \in Around[b] : e[c] \in Iterations(c)}

RangesKnown ==
    \A b \in Blocks \ {1} : job.blocks[b].start \in Int /\ job.blocks[b].end \in Int

(* The definitions of ProofChain, without the operators they take.         *)
LEMMA EnvsMeaning ==
    \A b : Envs(b, Values) = EnvsOf(b) /\ Envs(b, Iterations) = RunningEnvs(b)
BY DEF Envs, EnvsOf, RunningEnvs

LEMMA EdgesMeaning ==
    Edges = UNION {{<<Denotes(r.cur, e), Denotes(r.next, e)>> : e \in EnvsOf(Scope(r))} :
                   r \in {s \in ToSet(hop_results) : Justified(s)}}
BY DEF Edges, Envs, EnvsOf

LEMMA NeighboursMeaning ==
    Neighbours =
        UNION {UNION {Along(b, e) \cup UNION {Around1(b, i, e) : i \in Inductions(b)} :
                      e \in RunningEnvs(b)} : b \in Blocks}
BY DEF Neighbours, Envs, RunningEnvs

LEMMA ConnectedMeaning ==
    Connected = Found(Cardinality(Edges), Edges, FirstGame(1, <<>>))[Cardinality(Edges)]
BY DEF Connected, Found, Beside

-------------------------------------------------------------------------------
(* The inductions around a block are blocks other than the games list.     *)
LEMMA AroundFacts ==
    ASSUME GamesList(job.blocks)
    PROVE  \A b \in Blocks : Around[b] \subseteq Blocks \ {1}
<1> DEFINE P == {b \in Blocks : Around[b] \subseteq Blocks \ {1}}
           rank == [b \in Blocks |-> b]
<1>1. \A b \in Blocks : rank[b] \in Nat
  BY DEF GamesList, Blocks
<1>2. ASSUME NEW b \in Blocks, \A c \in Blocks : rank[c] < rank[b] => c \in P
      PROVE  b \in P
  <2>1. CASE b = 1
    BY <2>1, AroundMeaning
  <2>2. CASE b # 1
    <3>1. Parent(b) \in Blocks /\ Parent(b) < b
      BY <2>2, ParentFacts
    <3>2. Around[Parent(b)] \subseteq Blocks \ {1}
      BY <1>2, <3>1
    <3>3. QED BY <2>2, <3>2, AroundMeaning
  <2>3. QED BY <2>1, <2>2
<1> HIDE DEF P, rank
<1>3. \A b \in Blocks : b \in P
  BY <1>1, <1>2, RankInduction
<1>4. QED BY <1>3 DEF P

(* The body of an induction is a later block, with one more induction      *)
(* around it.                                                              *)
LEMMA BodyFacts ==
    ASSUME GamesList(job.blocks), NEW b \in Blocks, NEW i \in Inductions(b)
    PROVE  LET c == Body(b, i) IN
           /\ i \in Anchors(b) /\ ~IsStep(b, i)
           /\ c \in Blocks \ {1} /\ b < c /\ Parent(c) = b /\ Position(c) = i
           /\ Around[c] = {c} \cup Around[b]
<1> DEFINE c == Body(b, i)
<1>1. Parent(c) = b /\ Position(c) = i
  BY BodyPlace
<1>2. c \in Blocks /\ b < c
  BY DEF GamesList, Blocks, Inductions, IsInduction, Body, Elements
<1>3. c # 1
  <2>1. b \in Nat /\ b # 0 /\ c \in Nat
    BY <1>2, ElementFacts
  <2> HIDE DEF c
  <2>2. QED BY <1>2, <2>1
<1>4. i \in Anchors(b) /\ ~IsStep(b, i)
  BY DEF Inductions, IsInduction, Anchors, IsStep
<1> HIDE DEF c
<1>5. Around[c] = {c} \cup Around[b]
  BY <1>1, <1>2, <1>3, AroundMeaning
<1>6. QED BY <1>1, <1>2, <1>3, <1>4, <1>5 DEF c

(* The values of a variable are an interval, which holds the induction's   *)
(* range, the number before it and its end.                                *)
LEMMA ValuesFacts ==
    ASSUME RangesKnown, NEW c \in Blocks \ {1}
    PROVE  LET s == job.blocks[c].start
               t == job.blocks[c].end IN
           /\ s \in Int /\ t \in Int
           /\ IsFiniteSet(Values(c))
           /\ Values(c) \subseteq Int /\ Values(c) \subseteq Bounds
           /\ s - 1 \in Values(c) /\ t \in Values(c)
           /\ Iterations(c) \subseteq Values(c)
           /\ \E low \in Int, n \in Nat :
                 Values(c) = low .. low + n /\ s - low \in 0..n + 1
<1> DEFINE s == job.blocks[c].start
           t == job.blocks[c].end
<1>1. s \in Int /\ t \in Int /\ s - 1 \in Int
  BY DEF RangesKnown
<1>2. Values(c) = (s - 1 .. t) \cup (t .. s - 1)
  BY DEF Values
<1>3. Iterations(c) = s .. t
  BY DEF Iterations
<1>4. Values(c) \subseteq Bounds
  BY DEF Bounds
<1> HIDE DEF s, t
<1>5. IsFiniteSet(s - 1 .. t) /\ IsFiniteSet(t .. s - 1)
  BY <1>1, FS_Interval
<1>6. IsFiniteSet(Values(c))
  <2> DEFINE A == s - 1 .. t
             B == t .. s - 1
  <2>1. IsFiniteSet(A) /\ IsFiniteSet(B) /\ Values(c) = A \cup B
    BY <1>2, <1>5
  <2> HIDE DEF A, B
  <2>2. QED BY <2>1, FS_Union
<1>7. Values(c) \subseteq Int /\ s - 1 \in Values(c) /\ t \in Values(c)
      /\ Iterations(c) \subseteq Values(c)
  BY <1>1, <1>2, <1>3
<1>8. \E low \in Int, n \in Nat : Values(c) = low .. low + n /\ s - low \in 0..n + 1
  <2>1. CASE s - 1 <= t
    <3>1. Values(c) = s - 1 .. (s - 1) + (t - (s - 1))
      BY <1>1, <1>2, <2>1
    <3>2. t - (s - 1) \in Nat /\ s - (s - 1) \in 0..(t - (s - 1)) + 1
      BY <1>1, <2>1
    <3>3. QED BY <1>1, <3>1, <3>2
  <2>2. CASE t < s - 1
    <3>1. Values(c) = t .. t + ((s - 1) - t)
      BY <1>1, <1>2, <2>2
    <3>2. (s - 1) - t \in Nat /\ s - t \in 0..((s - 1) - t) + 1
      BY <1>1, <2>2
    <3>3. QED BY <1>1, <3>1, <3>2
  <2>3. QED BY <1>1, <2>1, <2>2
<1>9. QED BY <1>1, <1>4, <1>6, <1>7, <1>8 DEF s, t

(* A value for the variable of an induction added.                         *)
LEMMA EnvInto ==
    ASSUME GamesList(job.blocks), RangesKnown, NEW b \in Blocks, NEW i \in Inductions(b),
           NEW env \in EnvsOf(b), NEW v \in Values(Body(b, i))
    PROVE  With(env, Body(b, i), v) \in EnvsOf(Body(b, i))
<1> DEFINE c == Body(b, i)
           e == With(env, c, v)
<1>1. c \in Blocks \ {1} /\ Around[c] = {c} \cup Around[b]
  BY BodyFacts
<1>2. DOMAIN env = Around[b] /\ \A d \in Around[b] : env[d] \in Bounds /\ env[d] \in Values(d)
  BY DEF EnvsOf
<1>3. v \in Bounds
  BY <1>1, ValuesFacts
<1> HIDE DEF c
<1>4. e = [d \in Around[c] |-> IF d = c THEN v ELSE env[d]]
  BY <1>1, <1>2 DEF With
<1>5. v \in Values(c)
  BY DEF c
<1>6. \A d \in Around[c] : e[d] \in Bounds /\ e[d] \in Values(d)
  BY <1>1, <1>2, <1>3, <1>4, <1>5
<1>7. e \in [Around[c] -> Bounds]
  BY <1>4, <1>6
<1>8. QED BY <1>6, <1>7 DEF EnvsOf, c

(* A value for the variable of an induction taken away.                    *)
LEMMA EnvOutOf ==
    ASSUME GamesList(job.blocks), NEW b \in Blocks, NEW i \in Inductions(b),
           NEW env \in EnvsOf(Body(b, i))
    PROVE  /\ env[Body(b, i)] \in Values(Body(b, i))
           /\ \E outer \in EnvsOf(b) : env = With(outer, Body(b, i), env[Body(b, i)])
<1> DEFINE c == Body(b, i)
           outer == [d \in Around[b] |-> env[d]]
<1>1. c \in Blocks \ {1} /\ Around[c] = {c} \cup Around[b]
  BY BodyFacts
<1> HIDE DEF c
<1>2. env = [d \in Around[c] |-> env[d]]
      /\ \A d \in Around[c] : env[d] \in Bounds /\ env[d] \in Values(d)
  BY DEF EnvsOf, c
<1>3. outer \in EnvsOf(b)
  <2>1. \A d \in Around[b] : env[d] \in Bounds /\ env[d] \in Values(d)
    BY <1>1, <1>2
  <2>2. QED BY <2>1 DEF EnvsOf
<1>4. env = With(outer, c, env[c])
  <2>1. With(outer, c, env[c]) =
           [d \in Around[b] \cup {c} |-> IF d = c THEN env[c] ELSE outer[d]]
    BY DEF With
  <2>2. \A d \in Around[b] : outer[d] = env[d]
    OBVIOUS
  <2> HIDE DEF outer
  <2>3. QED BY <1>1, <1>2, <2>1, <2>2
<1>5. env[c] \in Values(c)
  BY <1>1, <1>2
<1>6. QED BY <1>3, <1>4, <1>5 DEF c

(* A variable gets one value after another.                                *)
LEMMA WithTwice ==
    ASSUME NEW env, NEW c, NEW v, NEW w
    PROVE  With(With(env, c, v), c, w) = With(env, c, w) /\ With(env, c, v)[c] = v
<1>1. With(env, c, v) = [d \in DOMAIN env \cup {c} |-> IF d = c THEN v ELSE env[d]]
  BY DEF With
<1>2. DOMAIN With(env, c, v) \cup {c} = DOMAIN env \cup {c}
  BY <1>1
<1>3. With(With(env, c, v), c, w) =
         [d \in DOMAIN env \cup {c} |-> IF d = c THEN w ELSE With(env, c, v)[d]]
  BY <1>2 DEF With
<1>4. \A d \in DOMAIN env \cup {c} : d # c => With(env, c, v)[d] = env[d]
  BY <1>1
<1>5. With(env, c, w) = [d \in DOMAIN env \cup {c} |-> IF d = c THEN w ELSE env[d]]
  BY DEF With
<1>6. With(env, c, v)[c] = v
  BY <1>1
<1>7. QED BY <1>3, <1>4, <1>5, <1>6

-------------------------------------------------------------------------------
(* The first element of a block is a step, and a last element and a last   *)
(* step exist.                                                             *)
LEMMA LastAnchorFacts ==
    ASSUME GamesList(job.blocks), NEW b \in Blocks
    PROVE  /\ LastIndex(Anchors(b)) \in Anchors(b)
           /\ 1 \in Anchors(b) /\ IsStep(b, 1)
           /\ LastStep(b) \in Anchors(b) /\ IsStep(b, LastStep(b))
<1> DEFINE S == {i \in Anchors(b) : IsStep(b, i)}
<1>1. Anchors(b) \in SUBSET (1..Len(Elements(b))) /\ Len(Elements(b)) \in Nat
  BY ElementFacts
<1>2. 1 \in Anchors(b) /\ IsStep(b, 1)
  BY ElementFacts DEF Anchors, IsStep
<1>3. S \in SUBSET (1..Len(Elements(b))) /\ S # {}
  BY <1>1, <1>2
<1> HIDE DEF S
<1>4. LastIndex(S) \in S /\ LastIndex(Anchors(b)) \in Anchors(b)
  BY <1>1, <1>2, <1>3, GreatestElement
<1>5. QED BY <1>2, <1>4 DEF S, LastStep

(* The last game of a block, by its last element.                          *)
LEMMA FinaleMeaning ==
    ASSUME GamesList(job.blocks), NEW b \in Blocks
    PROVE  LET i == LastIndex(Anchors(b)) IN
           /\ IsStep(b, i) => Finale[b] = [block |-> b, index |-> i, ends |-> {}]
           /\ ~IsStep(b, i) =>
                 /\ Finale[b].block = Finale[Body(b, i)].block
                 /\ Finale[b].index = Finale[Body(b, i)].index
                 /\ Finale[b].ends = Finale[Body(b, i)].ends \cup {Body(b, i)}
<1>1. PICK N \in Nat \ {0} : Blocks = 1..N
  BY DEF GamesList, Blocks
<1> DEFINE V == [block : Blocks, index : Nat, ends : SUBSET Blocks]
           last(c) == LastIndex(Anchors(c))
           E(f, c) == IF IsStep(c, last(c)) THEN [block |-> c, index |-> last(c), ends |-> {}]
                      ELSE [f[Body(c, last(c))] EXCEPT !.ends = @ \cup {Body(c, last(c))}]
           D == [p \in [Blocks -> V] \X Blocks |-> E(p[1], p[2])]
           rank == [c \in Blocks |-> N - c]
<1>2. \A c \in Blocks :
          /\ last(c) \in Nat
          /\ ~IsStep(c, last(c)) => Body(c, last(c)) \in Blocks /\ c < Body(c, last(c))
  <2> TAKE c \in Blocks
  <2>1. last(c) \in Anchors(c)
    BY LastAnchorFacts
  <2> HIDE DEF last
  <2>2. last(c) \in Nat
    BY <2>1, ElementFacts
  <2>3. ~IsStep(c, last(c)) => last(c) \in Inductions(c)
    BY <2>1, ElementFacts
  <2>4. QED BY <2>2, <2>3, BodyFacts
<1> HIDE DEF last
<1>3. ASSUME NEW f \in [Blocks -> V], NEW c \in Blocks
      PROVE  D[<<f, c>>] = E(f, c) /\ E(f, c) \in V
  <2>1. CASE IsStep(c, last(c))
    BY <1>2, <2>1
  <2>2. CASE ~IsStep(c, last(c))
    <3>1. f[Body(c, last(c))] \in V /\ Body(c, last(c)) \in Blocks
      BY <1>2, <2>2
    <3>2. QED BY <2>2, <3>1
  <2>3. QED BY <2>1, <2>2
<1>4. \E f \in [Blocks -> V] : f = [c \in Blocks |-> D[<<f, c>>]]
  <2>1. V # {}
    <3>1. [block |-> 1, index |-> 1, ends |-> {}] \in V
      BY <1>1
    <3>2. QED BY <3>1
  <2>2. rank \in [Blocks -> 0..N]
    BY <1>1
  <2>3. D \in [[Blocks -> V] \X Blocks -> V]
    <3>1. \A f \in [Blocks -> V], c \in Blocks : E(f, c) \in V
      BY <1>3
    <3> HIDE DEF E, V
    <3>2. QED BY <3>1
  <2>4. ASSUME NEW f \in [Blocks -> V], NEW g \in [Blocks -> V], NEW c \in Blocks,
               \A d \in Blocks : rank[d] < rank[c] => f[d] = g[d]
        PROVE  D[<<f, c>>] = D[<<g, c>>]
    <3>1. ~IsStep(c, last(c)) => f[Body(c, last(c))] = g[Body(c, last(c))]
      <4>1. SUFFICES ASSUME ~IsStep(c, last(c))
                     PROVE  f[Body(c, last(c))] = g[Body(c, last(c))]
        OBVIOUS
      <4>2. Body(c, last(c)) \in 1..N /\ c \in 1..N /\ c < Body(c, last(c))
        BY <1>1, <1>2, <4>1
      <4>3. rank[Body(c, last(c))] < rank[c]
        BY <1>1, <4>2
      <4>4. QED BY <1>1, <2>4, <4>2, <4>3
    <3>2. E(f, c) = E(g, c)
      <4>1. CASE IsStep(c, last(c))
        BY <4>1
      <4>2. CASE ~IsStep(c, last(c))
        BY <3>1, <4>2
      <4>3. QED BY <4>1, <4>2
    <3> HIDE DEF D, E
    <3>3. QED BY <1>3, <3>2
  <2>5. \A f, g \in [Blocks -> V] : \A c \in Blocks :
            (\A d \in Blocks : rank[d] < rank[c] => f[d] = g[d]) => D[<<f, c>>] = D[<<g, c>>]
    BY <2>4
  <2> HIDE DEF V, D, rank
  <2>6. ByRank(Blocks, V, N, rank, D)
    BY <1>1, <2>1, <2>2, <2>3, <2>5 DEF ByRank
  <2>7. QED BY <2>6, RecursiveFunction DEF Solvable
<1>5. PICK f \in [Blocks -> V] : f = [c \in Blocks |-> D[<<f, c>>]]
  BY <1>4
<1>6. f = [c \in Blocks |-> E(f, c)]
  <2>1. \A c \in Blocks : D[<<f, c>>] = E(f, c)
    BY <1>3
  <2> HIDE DEF E, V, D
  <2>2. QED BY <1>5, <2>1
<1>7. Finale = CHOOSE g : g = [c \in Blocks |-> E(g, c)]
  BY DEF Finale, last
<1>8. Finale = [c \in Blocks |-> E(Finale, c)]
  <2> HIDE DEF E, V, D
  <2>1. QED BY <1>6, <1>7
<1>9. \A c \in Blocks : Finale[c] = E(Finale, c)
  <2> HIDE DEF E
  <2>1. QED BY <1>8
<1> DEFINE P == {c \in Blocks : Finale[c] \in V}
<1>10. \A c \in Blocks : c \in P
  <2>1. \A c \in Blocks : rank[c] \in Nat
    BY <1>1
  <2>2. ASSUME NEW c \in Blocks, \A d \in Blocks : rank[d] < rank[c] => d \in P
        PROVE  c \in P
    <3>1. CASE IsStep(c, last(c))
      <4>1. Finale[c] = [block |-> c, index |-> last(c), ends |-> {}]
        BY <1>9, <3>1
      <4>2. QED BY <1>2, <4>1
    <3>2. CASE ~IsStep(c, last(c))
      <4>1. Body(c, last(c)) \in 1..N /\ c \in 1..N /\ c < Body(c, last(c))
        BY <1>1, <1>2, <3>2
      <4>2. rank[Body(c, last(c))] < rank[c]
        BY <1>1, <4>1
      <4>3. Finale[Body(c, last(c))] \in V /\ Body(c, last(c)) \in Blocks
        BY <1>1, <2>2, <4>1, <4>2
      <4>4. Finale[c] = [Finale[Body(c, last(c))] EXCEPT !.ends = @ \cup {Body(c, last(c))}]
        BY <1>9, <3>2
      <4>5. QED BY <4>3, <4>4
    <3>3. QED BY <3>1, <3>2
  <2> HIDE DEF P, rank
  <2>3. QED BY <2>1, <2>2, RankInduction
<1>11. CASE IsStep(b, last(b))
  BY <1>9, <1>11 DEF last
<1>12. CASE ~IsStep(b, last(b))
  <2> DEFINE d == Body(b, last(b))
  <2>1. d \in Blocks
    BY <1>2, <1>12
  <2> HIDE DEF d
  <2>2. Finale[d] \in V
    BY <1>10, <2>1
  <2>3. Finale[b] = [Finale[d] EXCEPT !.ends = @ \cup {d}]
    BY <1>9, <1>12 DEF d
  <2>4. /\ Finale[b].block = Finale[d].block
        /\ Finale[b].index = Finale[d].index
        /\ Finale[b].ends = Finale[d].ends \cup {d}
    BY <2>2, <2>3
  <2>5. QED BY <1>12, <2>4 DEF d, last
<1>13. QED BY <1>11, <1>12

(* The last game of a block is where its last element ends.                *)
LEMMA LastGameMeaning ==
    ASSUME GamesList(job.blocks), NEW b \in Blocks, NEW S, NEW T, NEW env \in [S -> T]
    PROVE  LastGame(b, env) = OutOf(b, LastIndex(Anchors(b)), env)
<1> DEFINE i == LastIndex(Anchors(b))
           d == Body(b, i)
           end(c) == job.blocks[c].end
<1>1. LastGame(b, env) =
         Node(Finale[b].block, Finale[b].index,
              [c \in S \cup Finale[b].ends |-> IF c \in Finale[b].ends THEN end(c) ELSE env[c]])
  BY DEF LastGame
<1>2. CASE IsStep(b, i)
  <2>1. Finale[b] = [block |-> b, index |-> i, ends |-> {}]
    BY <1>2, FinaleMeaning
  <2> HIDE DEF i
  <2>2. Finale[b].block = b /\ Finale[b].index = i /\ Finale[b].ends = {}
    BY <2>1
  <2>3. [c \in S \cup {} |-> IF c \in {} THEN end(c) ELSE env[c]] = env
    OBVIOUS
  <2> HIDE DEF end
  <2>4. LastGame(b, env) = Node(b, i, env)
    BY <1>1, <2>2, <2>3
  <2>5. OutOf(b, i, env) = Node(b, i, env)
    BY <1>2 DEF OutOf
  <2>6. QED BY <2>4, <2>5 DEF i
<1>3. CASE ~IsStep(b, i)
  <2>1. /\ Finale[b].block = Finale[d].block /\ Finale[b].index = Finale[d].index
        /\ Finale[b].ends = Finale[d].ends \cup {d}
    BY <1>3, FinaleMeaning
  <2> DEFINE e == With(env, d, end(d))
             F == Finale[d].ends
  <2>2. OutOf(b, i, env) = LastGame(d, e)
    BY <1>3 DEF OutOf
  <2> HIDE DEF d, end, i
  <2>3. DOMAIN e = S \cup {d} /\ \A c \in S \cup {d} : e[c] = IF c = d THEN end(d) ELSE env[c]
    BY DEF With
  <2> HIDE DEF e
  <2>4. LastGame(d, e) =
           Node(Finale[d].block, Finale[d].index,
                [c \in S \cup {d} \cup F |-> IF c \in F THEN end(c) ELSE e[c]])
    BY <2>3 DEF LastGame, end
  <2>5. [c \in S \cup {d} \cup F |-> IF c \in F THEN end(c) ELSE e[c]]
        = [c \in S \cup (F \cup {d}) |-> IF c \in F \cup {d} THEN end(c) ELSE env[c]]
    BY <2>3
  <2>6. LastGame(b, env) = LastGame(d, e)
    BY <1>1, <2>1, <2>4, <2>5
  <2>7. QED BY <2>2, <2>6 DEF i
<1>4. QED BY <1>2, <1>3

-------------------------------------------------------------------------------
(* What the hops of the text link.                                         *)

Both(S, x, y) == x \in S <=> y \in S
ClosedUnder(S) == \A e \in Edges : e[1] \in S <=> e[2] \in S

Taken(l) == \E r \in ToSet(hop_results) : LinkOf(r) = l /\ Justified(r)
Covered ==
    /\ \A b \in Blocks : \A i \in HopStarts(b) : Taken(Link(b, i))
    /\ \A c \in Blocks \ {1} : Taken(RolloverLink(c))

(* Both ends of a hop that is taken are found, or neither is.              *)
LEMMA TakenSame ==
    ASSUME NEW S, ClosedUnder(S), NEW l, Taken(l), NEW e \in EnvsOf(Scope(l))
    PROVE  Both(S, Denotes(l.cur, e), Denotes(l.next, e))
<1>1. PICK r \in ToSet(hop_results) : LinkOf(r) = l /\ Justified(r)
  BY DEF Taken
<1>2. l.cur = r.cur /\ l.next = r.next
  BY <1>1 DEF LinkOf
<1>3. Scope(l) = Scope(r)
  BY <1>2 DEF Scope
<1> DEFINE x == Denotes(l.cur, e)
           y == Denotes(l.next, e)
<1>4. <<x, y>> \in Edges
  <2>1. <<Denotes(r.cur, e), Denotes(r.next, e)>> \in Edges
    BY <1>1, <1>3, EdgesMeaning
  <2>2. QED BY <1>2, <2>1
<1> HIDE DEF x, y
<1>5. x \in S <=> y \in S
  BY <1>4 DEF ClosedUnder
<1>6. QED BY <1>5 DEF x, y, Both

(* A hop of the text links where its element ends, seen from the last step *)
(* of a body, to where the next one begins.                                *)
LEMMA HopSame ==
    ASSUME GamesList(job.blocks), RangesKnown, Covered, NEW S, ClosedUnder(S),
           NEW b \in Blocks, NEW i \in HopStarts(b), NEW env \in EnvsOf(b)
    PROVE  LET c == Body(b, i) IN
           Both(S, IF IsStep(b, i) THEN Node(b, i, env)
                   ELSE Node(c, LastStep(c), With(env, c, job.blocks[c].end)),
                   Into(b, NextAnchor(b, i), env))
<1> DEFINE l == Link(b, i)
           j == NextAnchor(b, i)
           c == Body(b, i)
           d == Body(b, j)
<1>1. i \in Anchors(b) /\ j \in Anchors(b)
  BY NextAnchorFacts
<1>2. Taken(l)
  BY DEF Covered
<1> HIDE DEF j
<1>3. /\ Scope(l) = b
      /\ Denotes(l.cur, env) = IF IsStep(b, i) THEN Node(b, i, env)
                               ELSE Node(c, LastStep(c), With(env, c, job.blocks[c].end))
  <2>1. CASE IsStep(b, i)
    <3>1. l.cur = Game(b, i, "free")
      BY <2>1 DEF Link
    <3> HIDE DEF l
    <3>2. l.cur.at = "free" /\ l.cur.block = b /\ l.cur.index = i
      BY <3>1 DEF Game
    <3>3. QED BY <2>1, <3>2 DEF Scope, Denotes
  <2>2. CASE ~IsStep(b, i)
    <3>1. l.cur = Game(c, LastStep(c), "end")
      BY <2>2 DEF Link
    <3>2. i \in Inductions(b)
      BY <1>1, <2>2, ElementFacts
    <3>3. Parent(c) = b
      BY <3>2, BodyFacts
    <3> HIDE DEF l, c
    <3>4. l.cur.at = "end" /\ l.cur.block = c /\ l.cur.index = LastStep(c)
      BY <3>1 DEF Game
    <3>5. Scope(l) = b
      BY <3>3, <3>4 DEF Scope
    <3>6. Denotes(l.cur, env) = Node(c, LastStep(c), With(env, c, job.blocks[c].end))
      BY <3>4 DEF Denotes
    <3>7. QED BY <2>2, <3>5, <3>6
  <2>3. QED BY <2>1, <2>2
<1>4. Denotes(l.next, env) = Into(b, j, env)
  <2>1. CASE IsStep(b, j)
    <3>1. l.next = Game(b, j, "free")
      BY <2>1 DEF Link, j
    <3> HIDE DEF l
    <3>2. l.next.at = "free" /\ l.next.block = b /\ l.next.index = j
      BY <3>1 DEF Game
    <3>3. QED BY <2>1, <3>2 DEF Denotes, Into
  <2>2. CASE ~IsStep(b, j)
    <3>1. l.next = Game(d, 1, "start")
      BY <2>2 DEF Link, j
    <3> HIDE DEF l
    <3>2. l.next.at = "start" /\ l.next.block = d /\ l.next.index = 1
      BY <3>1 DEF Game
    <3>3. QED BY <2>2, <3>2 DEF Denotes, Into, FirstGame
  <2>3. QED BY <2>1, <2>2
<1>5. Both(S, Denotes(l.cur, env), Denotes(l.next, env))
  BY <1>2, <1>3, TakenSame
<1> HIDE DEF l
<1>6. QED BY <1>3, <1>4, <1>5 DEF c, j

(* The rollover links the last step at one value to the first at the next. *)
LEMMA RolloverSame ==
    ASSUME Covered, NEW S, ClosedUnder(S), NEW c \in Blocks \ {1}, NEW e \in EnvsOf(c)
    PROVE  Both(S, Node(c, LastStep(c), e), FirstGame(c, With(e, c, e[c] + 1)))
<1> DEFINE l == RolloverLink(c)
<1>1. Taken(l)
  BY DEF Covered
<1>2. l.cur = Game(c, LastStep(c), "free") /\ l.next = Game(c, 1, "succ")
  BY DEF RolloverLink
<1> HIDE DEF l
<1>3. /\ l.cur.at = "free" /\ l.cur.block = c /\ l.cur.index = LastStep(c)
      /\ l.next.at = "succ" /\ l.next.block = c /\ l.next.index = 1
  BY <1>2 DEF Game
<1>4. Scope(l) = c
  BY <1>3 DEF Scope
<1>5. Both(S, Denotes(l.cur, e), Denotes(l.next, e))
  BY <1>1, <1>4, TakenSame
<1>6. Denotes(l.cur, e) = Node(c, LastStep(c), e)
  BY <1>3 DEF Denotes
<1>7. Denotes(l.next, e) = FirstGame(c, With(e, c, e[c] + 1))
  BY <1>3 DEF Denotes, FirstGame
<1>8. QED BY <1>5, <1>6, <1>7

-------------------------------------------------------------------------------
(* All games of a block are found, for given values of the variables, or   *)
(* none is.                                                                *)
BlockSame(S, b) ==
    \A env \in EnvsOf(b) : \A i \in Anchors(b) :
        /\ Both(S, Into(b, i, env), FirstGame(b, env))
        /\ Both(S, OutOf(b, i, env), FirstGame(b, env))

(* The first games of a body at all values of its variable.                *)
LEMMA TurnsSame ==
    ASSUME GamesList(job.blocks), RangesKnown, Covered, NEW S, ClosedUnder(S),
           NEW b \in Blocks, NEW i \in Inductions(b), BlockSame(S, Body(b, i)),
           NEW env \in EnvsOf(b), NEW v \in Values(Body(b, i))
    PROVE  LET c == Body(b, i)
               at(w) == With(env, c, w) IN
           /\ Both(S, FirstGame(c, at(v)), FirstGame(c, at(job.blocks[c].start)))
           /\ Both(S, Node(c, LastStep(c), at(v)), FirstGame(c, at(v)))
           /\ Both(S, LastGame(c, at(v)), FirstGame(c, at(v)))
<1> DEFINE c == Body(b, i)
           at(w) == With(env, c, w)
           s == job.blocks[c].start
<1>1. c \in Blocks \ {1}
  BY BodyFacts
<1>2. \A w \in Values(c) : at(w) \in EnvsOf(c)
  BY EnvInto
<1>3. /\ LastIndex(Anchors(c)) \in Anchors(c)
      /\ LastStep(c) \in Anchors(c) /\ IsStep(c, LastStep(c))
  BY <1>1, LastAnchorFacts
<1>4. \A w \in Values(c) : /\ Both(S, Node(c, LastStep(c), at(w)), FirstGame(c, at(w)))
                           /\ Both(S, LastGame(c, at(w)), FirstGame(c, at(w)))
  <2> TAKE w \in Values(c)
  <2>1. at(w) \in EnvsOf(c)
    BY <1>2
  <2>2. LastGame(c, at(w)) = OutOf(c, LastIndex(Anchors(c)), at(w))
    <3> PICK e : e = at(w)
      OBVIOUS
    <3>1. e \in [Around[c] -> Bounds]
      BY <2>1 DEF EnvsOf
    <3> HIDE DEF c, at
    <3>2. LastGame(c, e) = OutOf(c, LastIndex(Anchors(c)), e)
      BY <1>1, <3>1, LastGameMeaning
    <3>3. QED BY <3>2
  <2>3. Into(c, LastStep(c), at(w)) = Node(c, LastStep(c), at(w))
    BY <1>3 DEF Into
  <2> HIDE DEF at
  <2>4. QED BY <1>3, <2>1, <2>2, <2>3 DEF BlockSame
<1>5. \A w \in Values(c) : Both(S, FirstGame(c, at(w)), FirstGame(c, at(w + 1)))
  <2> TAKE w \in Values(c)
  <2>1. at(w) \in EnvsOf(c) /\ at(w)[c] = w /\ With(at(w), c, w + 1) = at(w + 1)
    BY <1>2, WithTwice
  <2> HIDE DEF at
  <2>2. Both(S, Node(c, LastStep(c), at(w)), FirstGame(c, With(at(w), c, at(w)[c] + 1)))
    BY <1>1, <2>1, RolloverSame
  <2>3. Both(S, Node(c, LastStep(c), at(w)), FirstGame(c, at(w + 1)))
    BY <2>1, <2>2
  <2>4. QED BY <1>4, <2>3 DEF Both
<1>6. PICK low \in Int, n \in Nat :
          Values(c) = low .. low + n /\ s - low \in 0..n + 1 /\ s \in Int
  BY <1>1, ValuesFacts
<1> DEFINE P == {k \in 0..n + 1 : Both(S, FirstGame(c, at(low + k)), FirstGame(c, at(low)))}
<1>7. \A k \in 0..n + 1 : k \in P
  <2>1. 0 \in P
    <3>1. low + 0 = low
      BY <1>6
    <3>2. QED BY <3>1 DEF Both
  <2>2. ASSUME NEW k \in 0..n + 1, k < n + 1, k \in P
        PROVE  k + 1 \in P
    <3>1. low + k \in Values(c) /\ (low + k) + 1 = low + (k + 1) /\ k + 1 \in 0..n + 1
      BY <1>6, <2>2
    <3>2. Both(S, FirstGame(c, at(low + k)), FirstGame(c, at((low + k) + 1)))
      BY <1>5, <3>1
    <3> HIDE DEF c, at
    <3>3. Both(S, FirstGame(c, at(low + k)), FirstGame(c, at(low + (k + 1))))
      BY <3>1, <3>2
    <3>4. Both(S, FirstGame(c, at(low + k)), FirstGame(c, at(low)))
      BY <2>2
    <3>5. QED BY <3>1, <3>3, <3>4 DEF Both
  <2> HIDE DEF P
  <2>3. n + 1 \in Nat
    BY <1>6
  <2>4. QED BY <2>1, <2>2, <2>3, RangeInduction
<1>8. Both(S, FirstGame(c, at(v)), FirstGame(c, at(s)))
  <2>1. v - low \in 0..n + 1 /\ low + (v - low) = v /\ low + (s - low) = s
    <3>1. v \in low .. low + n
      BY <1>6
    <3>2. QED BY <1>6, <3>1
  <2>2. /\ Both(S, FirstGame(c, at(low + (v - low))), FirstGame(c, at(low)))
        /\ Both(S, FirstGame(c, at(low + (s - low))), FirstGame(c, at(low)))
    BY <1>6, <1>7, <2>1
  <2> HIDE DEF at, c, s
  <2>3. QED BY <2>1, <2>2 DEF Both
<1>9. v \in Values(c)
  OBVIOUS
<1> HIDE DEF at, c, s
<1>10. /\ Both(S, FirstGame(c, at(v)), FirstGame(c, at(s)))
       /\ Both(S, Node(c, LastStep(c), at(v)), FirstGame(c, at(v)))
       /\ Both(S, LastGame(c, at(v)), FirstGame(c, at(v)))
  BY <1>4, <1>8, <1>9
<1>11. QED BY <1>10 DEF at, c, s

(* Every element but the first is where a hop leads to.                    *)
LEMMA PreviousAnchor ==
    ASSUME GamesList(job.blocks), NEW b \in Blocks, NEW i \in Anchors(b), i # 1
    PROVE  \E p \in HopStarts(b) : p < i /\ NextAnchor(b, p) = i
<1> DEFINE B == {k \in Anchors(b) : k < i}
           p == LastIndex(B)
<1>1. Anchors(b) \in SUBSET (1..Len(Elements(b))) /\ Len(Elements(b)) \in Nat
  BY ElementFacts
<1>2. \A k \in Anchors(b) : k \in Nat
  BY <1>1
<1>3. 1 \in B
  BY <1>1, <1>2, LastAnchorFacts
<1>4. B \in SUBSET (1..Len(Elements(b)))
  BY <1>1
<1>5. p \in B /\ \A k \in B : k <= p
  <2> HIDE DEF B
  <2>1. QED BY <1>1, <1>3, <1>4, GreatestElement
<1>6. p \in Anchors(b) /\ p < i /\ \A k \in Anchors(b) : k > p => i <= k
  <2> HIDE DEF p
  <2>1. p \in Nat /\ i \in Nat
    BY <1>2, <1>5
  <2>2. QED BY <1>2, <1>5, <2>1
<1> HIDE DEF p, B
<1>7. i \in Followers(b, p) /\ \A k \in Followers(b, p) : i <= k
  BY <1>2, <1>6 DEF Followers
<1>8. NextAnchor(b, p) = i
  <2>1. \A j \in Followers(b, p) : (\A k \in Followers(b, p) : j <= k) => j = i
    BY <1>2, <1>7 DEF Followers
  <2>2. QED BY <1>7, <2>1 DEF NextAnchor
<1>9. p \in HopStarts(b)
  BY <1>6, <1>7 DEF HopStarts
<1>10. QED BY <1>6, <1>8, <1>9

(* By induction, from the innermost bodies outwards, and along each block. *)
LEMMA BlocksSame ==
    ASSUME GamesList(job.blocks), RangesKnown, Covered, NEW S, ClosedUnder(S)
    PROVE  \A b \in Blocks : BlockSame(S, b)
<1>1. PICK N \in Nat \ {0} : Blocks = 1..N
  BY DEF GamesList, Blocks
<1> DEFINE P == {b \in Blocks : BlockSame(S, b)}
           rank == [b \in Blocks |-> N - b]
<1>2. \A b \in Blocks : rank[b] \in Nat
  BY <1>1
<1>3. ASSUME NEW b \in Blocks, \A c \in Blocks : rank[c] < rank[b] => c \in P
      PROVE  b \in P
  <2>1. ASSUME NEW i \in Inductions(b)
        PROVE  BlockSame(S, Body(b, i))
    <3>1. Body(b, i) \in Blocks /\ b < Body(b, i)
      BY BodyFacts
    <3>2. rank[Body(b, i)] < rank[b]
      BY <1>1, <3>1
    <3>3. QED BY <1>3, <3>1, <3>2
  <2>2. ASSUME NEW env \in EnvsOf(b)
        PROVE  \A i \in Anchors(b) : /\ Both(S, Into(b, i, env), FirstGame(b, env))
                                     /\ Both(S, OutOf(b, i, env), FirstGame(b, env))
    <3>1. \A i \in Anchors(b) : IsStep(b, i) => Into(b, i, env) = OutOf(b, i, env)
      BY DEF Into, OutOf
    <3>2. ASSUME NEW i \in Anchors(b), ~IsStep(b, i)
          PROVE  LET c == Body(b, i)
                     e == With(env, c, job.blocks[c].end) IN
                 /\ Both(S, Into(b, i, env), OutOf(b, i, env))
                 /\ Both(S, Node(c, LastStep(c), e), OutOf(b, i, env))
      <4> DEFINE c == Body(b, i)
                 t == job.blocks[c].end
                 first == With(env, c, job.blocks[c].start)
                 e == With(env, c, t)
      <4>1. i \in Inductions(b)
        BY <3>2, ElementFacts
      <4>2. t \in Values(c)
        <5>1. c \in Blocks \ {1}
          BY <4>1, BodyFacts
        <5>2. QED BY <5>1, ValuesFacts
      <4>3. /\ Both(S, FirstGame(c, e), FirstGame(c, first))
            /\ Both(S, Node(c, LastStep(c), e), FirstGame(c, e))
            /\ Both(S, LastGame(c, e), FirstGame(c, e))
        BY <2>1, <4>1, <4>2, TurnsSame
      <4>4. Into(b, i, env) = FirstGame(c, first) /\ OutOf(b, i, env) = LastGame(c, e)
        BY <3>2 DEF Into, OutOf
      <4> HIDE DEF c, e, first, t
      <4>5. Both(S, Into(b, i, env), OutOf(b, i, env))
            /\ Both(S, Node(c, LastStep(c), e), OutOf(b, i, env))
        BY <4>3, <4>4 DEF Both
      <4>6. QED BY <4>5 DEF c, e, t
    <3>3. \A i \in Anchors(b) : Both(S, Into(b, i, env), OutOf(b, i, env))
      BY <3>1, <3>2 DEF Both
    <3>4. ASSUME NEW i \in HopStarts(b)
          PROVE  Both(S, OutOf(b, i, env), Into(b, NextAnchor(b, i), env))
      <4> DEFINE c == Body(b, i)
                 x == Node(c, LastStep(c), With(env, c, job.blocks[c].end))
                 y == Into(b, NextAnchor(b, i), env)
      <4>1. Both(S, IF IsStep(b, i) THEN Node(b, i, env) ELSE x, y)
        BY HopSame
      <4>2. i \in Anchors(b)
        BY DEF HopStarts
      <4>3. CASE IsStep(b, i)
        <5>1. OutOf(b, i, env) = Node(b, i, env)
          BY <4>3 DEF OutOf
        <5>2. QED BY <4>1, <4>3, <5>1
      <4>4. CASE ~IsStep(b, i)
        <5>1. Both(S, x, OutOf(b, i, env))
          BY <3>2, <4>2, <4>4
        <5> HIDE DEF x, y
        <5>2. Both(S, x, y)
          BY <4>1, <4>4
        <5>3. QED BY <5>1, <5>2 DEF Both, y
      <4>5. QED BY <4>3, <4>4
    <3> DEFINE Q == {i \in Anchors(b) : Both(S, Into(b, i, env), FirstGame(b, env))}
               place == [i \in Anchors(b) |-> i]
    <3>5. Anchors(b) \in SUBSET (1..Len(Elements(b))) /\ Len(Elements(b)) \in Nat
      BY ElementFacts
    <3>6. \A i \in Anchors(b) : i \in Nat
      BY <3>5
    <3>7. ASSUME NEW i \in Anchors(b), \A k \in Anchors(b) : place[k] < place[i] => k \in Q
          PROVE  i \in Q
      <4>1. CASE i = 1
        <5>1. Into(b, i, env) = FirstGame(b, env)
          BY <4>1, LastAnchorFacts DEF Into, FirstGame
        <5>2. QED BY <5>1 DEF Both
      <4>2. CASE i # 1
        <5>1. PICK p \in HopStarts(b) : p < i /\ NextAnchor(b, p) = i
          BY <4>2, PreviousAnchor
        <5>2. p \in Anchors(b)
          BY DEF HopStarts
        <5>3. Both(S, OutOf(b, p, env), Into(b, i, env))
          BY <3>4, <5>1
        <5>4. /\ Both(S, Into(b, p, env), FirstGame(b, env))
              /\ Both(S, Into(b, p, env), OutOf(b, p, env))
          BY <3>3, <3>7, <5>1, <5>2
        <5>5. QED BY <5>3, <5>4 DEF Both
      <4>3. QED BY <4>1, <4>2
    <3> HIDE DEF Q
    <3>8. \A i \in Anchors(b) : i \in Q
      <4>1. \A i \in Anchors(b) : place[i] \in Nat
        BY <3>6
      <4> HIDE DEF place
      <4>2. QED BY <3>7, <4>1, RankInduction
    <3>9. QED BY <3>3, <3>8 DEF Q, Both
  <2>3. BlockSame(S, b)
    BY <2>2 DEF BlockSame
  <2>4. QED BY <2>3
<1> HIDE DEF P, rank
<1>4. \A b \in Blocks : b \in P
  BY <1>2, <1>3, RankInduction
<1>5. QED BY <1>4 DEF P

(* A body stands where its place says.                                     *)
LEMMA PositionFacts ==
    ASSUME GamesList(job.blocks), NEW b \in Blocks \ {1}
    PROVE  Position(b) \in Inductions(Parent(b)) /\ Body(Parent(b), Position(b)) = b
<1>1. PICK a \in Blocks : \E i \in Inductions(a) : Body(a, i) = b
  BY DEF GamesList, Blocks, Inductions, IsInduction, Body, Elements
<1>2. PICK i \in Inductions(a) : Body(a, i) = b
  BY <1>1
<1>3. Parent(b) = a /\ Position(b) = i
  BY <1>2, BodyPlace
<1>4. QED BY <1>2, <1>3

(* A proof has finitely many edges.                                        *)
LEMMA EdgesFinite ==
    ASSUME GamesList(job.blocks), RangesKnown, NEW T, hop_results \in Seq(T),
           \A i \in DOMAIN hop_results : Scope(hop_results[i]) \in Blocks
    PROVE  IsFiniteSet(Edges)
<1>1. IsFiniteSet(Blocks)
  <2>1. PICK N \in Nat \ {0} : Blocks = 1..N
    BY DEF GamesList, Blocks
  <2>2. IsFiniteSet(1..N)
    BY FS_Interval
  <2>3. QED BY <2>1, <2>2
<1>2. IsFiniteSet(Bounds)
  <2> DEFINE D == Blocks \ {1}
             f == [b \in D |-> Values(b)]
             V == {f[b] : b \in D}
  <2>1. IsFiniteSet(D)
    <3>1. D \in SUBSET Blocks
      OBVIOUS
    <3> HIDE DEF D
    <3>2. QED BY <1>1, <3>1, FS_Subset
  <2>2. \A b \in D : IsFiniteSet(f[b])
    BY ValuesFacts
  <2>3. Bounds = UNION V
    BY DEF Bounds
  <2> HIDE DEF D, f
  <2>4. IsFiniteSet(V)
    BY <2>1, ImageFinite
  <2>5. \A v \in V : IsFiniteSet(v)
    BY <2>2
  <2> HIDE DEF V
  <2>6. QED BY <2>3, <2>4, <2>5, FS_UNION
<1>3. \A b \in Blocks : IsFiniteSet(EnvsOf(b))
  <2> TAKE b \in Blocks
  <2>1. Around[b] \in SUBSET Blocks
    BY AroundFacts
  <2>2. IsFiniteSet(Around[b])
    BY <1>1, <2>1, FS_Subset
  <2>3. IsFiniteSet([Around[b] -> Bounds])
    BY <1>2, <2>2, FunctionsFinite
  <2>4. EnvsOf(b) \in SUBSET [Around[b] -> Bounds]
    BY DEF EnvsOf
  <2>5. QED BY <2>3, <2>4, FS_Subset
<1> DEFINE R == {r \in ToSet(hop_results) : Justified(r)}
           pairs(r) == {<<Denotes(r.cur, e), Denotes(r.next, e)>> : e \in EnvsOf(Scope(r))}
           g == [r \in R |-> pairs(r)]
           G == {g[r] : r \in R}
<1>4. IsFiniteSet(R)
  <2>1. /\ ToSet(hop_results) = {hop_results[i] : i \in 1..Len(hop_results)}
        /\ Len(hop_results) \in Nat
    BY DEF ToSet
  <2>2. IsFiniteSet(1..Len(hop_results))
    BY <2>1, FS_Interval
  <2>3. IsFiniteSet(ToSet(hop_results))
    BY <2>1, <2>2, ImageFinite
  <2>4. R \in SUBSET ToSet(hop_results)
    OBVIOUS
  <2> HIDE DEF R
  <2>5. QED BY <2>3, <2>4, FS_Subset
<1>5. \A r \in R : IsFiniteSet(pairs(r))
  <2> TAKE r \in R
  <2> DEFINE A == EnvsOf(Scope(r))
             h == [e \in A |-> <<Denotes(r.cur, e), Denotes(r.next, e)>>]
  <2>1. Scope(r) \in Blocks
    BY DEF ToSet
  <2>2. IsFiniteSet(A)
    BY <1>3, <2>1
  <2>3. IsFiniteSet({h[e] : e \in A})
    <3> HIDE DEF A, h
    <3>1. QED BY <2>2, ImageFinite
  <2>4. pairs(r) = {h[e] : e \in A}
    OBVIOUS
  <2>5. QED BY <2>3, <2>4
<1>6. Edges = UNION G
  <2>1. Edges = UNION {pairs(r) : r \in R}
    BY EdgesMeaning
  <2> HIDE DEF pairs, R
  <2>2. QED BY <2>1
<1>7. \A r \in R : IsFiniteSet(g[r])
  <2> HIDE DEF pairs, R
  <2>1. QED BY <1>5
<1> HIDE DEF R, g
<1>8. IsFiniteSet(G)
  BY <1>4, ImageFinite
<1>9. \A s \in G : IsFiniteSet(s)
  BY <1>7
<1> HIDE DEF G
<1>10. QED BY <1>6, <1>8, <1>9, FS_UNION

(* The first game of every block is found, whatever the values of the      *)
(* variables around it.                                                    *)
LEMMA AllFound ==
    ASSUME GamesList(job.blocks), RangesKnown, Covered, NEW S, ClosedUnder(S),
           FirstGame(1, <<>>) \in S
    PROVE  \A b \in Blocks : \A env \in EnvsOf(b) : FirstGame(b, env) \in S
<1> DEFINE P == {b \in Blocks : \A env \in EnvsOf(b) : FirstGame(b, env) \in S}
           rank == [b \in Blocks |-> b]
<1>1. \A b \in Blocks : rank[b] \in Nat
  BY DEF GamesList, Blocks
<1>2. ASSUME NEW b \in Blocks, \A a \in Blocks : rank[a] < rank[b] => a \in P
      PROVE  b \in P
  <2>1. CASE b = 1
    <3>1. \A env \in EnvsOf(1) : env = <<>>
      <4>1. Around[1] = {}
        BY AroundMeaning
      <4>2. EnvsOf(1) \subseteq [{} -> Bounds]
        BY <4>1 DEF EnvsOf
      <4>3. \A env \in [{} -> Bounds] : env = <<>>
        OBVIOUS
      <4>4. QED BY <4>2, <4>3
    <3>2. QED BY <2>1, <3>1
  <2>2. CASE b # 1
    <3> DEFINE a == Parent(b)
               i == Position(b)
    <3>1. a \in Blocks /\ a < b
      BY <2>2, ParentFacts
    <3>2. i \in Inductions(a) /\ Body(a, i) = b
      BY <2>2, <3>1, PositionFacts
    <3>3. \A outer \in EnvsOf(a) : FirstGame(a, outer) \in S
      BY <1>2, <3>1
    <3>4. i \in Anchors(a) /\ ~IsStep(a, i)
      BY <3>1, <3>2, BodyFacts
    <3>5. BlockSame(S, a) /\ BlockSame(S, b)
      BY <3>1, BlocksSame
    <3> HIDE DEF a, i
    <3>6. ASSUME NEW env \in EnvsOf(b)
          PROVE  FirstGame(b, env) \in S
      <4> DEFINE v == env[b]
      <4>1. v \in Values(b) /\ \E outer \in EnvsOf(a) : env = With(outer, b, v)
        BY <3>1, <3>2, EnvOutOf
      <4>2. PICK outer \in EnvsOf(a) : env = With(outer, b, v)
        BY <4>1
      <4> DEFINE first == With(outer, b, job.blocks[b].start)
      <4>3. Both(S, Into(a, i, outer), FirstGame(a, outer))
        BY <3>4, <3>5 DEF BlockSame
      <4>4. Into(a, i, outer) = FirstGame(b, first)
        BY <3>2, <3>4 DEF Into
      <4>5. Both(S, FirstGame(b, With(outer, b, v)), FirstGame(b, first))
        <5> HIDE DEF v
        <5>1. QED BY <3>1, <3>2, <3>5, <4>1, TurnsSame
      <4>6. FirstGame(a, outer) \in S
        BY <3>3
      <4> HIDE DEF first, v
      <4>7. Both(S, FirstGame(b, env), FirstGame(b, first))
        BY <4>2, <4>5
      <4>8. QED BY <4>3, <4>4, <4>6, <4>7 DEF Both
    <3>7. QED BY <3>6
  <2>3. QED BY <2>1, <2>2
<1> HIDE DEF P, rank
<1>3. \A b \in Blocks : b \in P
  BY <1>1, <1>2, RankInduction
<1>4. QED BY <1>3 DEF P

(* The games of every pair of neighbours are found.                        *)
LEMMA NeighboursFound ==
    ASSUME GamesList(job.blocks), RangesKnown, Covered, NEW S, ClosedUnder(S),
           FirstGame(1, <<>>) \in S
    PROVE  Ends(Neighbours) \subseteq S
<1>1. \A b \in Blocks : BlockSame(S, b)
  BY BlocksSame
<1>2. \A b \in Blocks : \A env \in EnvsOf(b) : FirstGame(b, env) \in S
  BY AllFound
<1>3. ASSUME NEW b \in Blocks, NEW env \in EnvsOf(b), NEW i \in Anchors(b)
      PROVE  Into(b, i, env) \in S /\ OutOf(b, i, env) \in S
  BY <1>1, <1>2 DEF BlockSame, Both
<1>4. \A b \in Blocks : RunningEnvs(b) \subseteq EnvsOf(b)
  <2> TAKE b \in Blocks
  <2>1. \A c \in Around[b] : Iterations(c) \subseteq Values(c)
    BY AroundFacts, ValuesFacts
  <2>2. QED BY <2>1 DEF RunningEnvs, EnvsOf
<1>5. ASSUME NEW b \in Blocks, NEW env \in EnvsOf(b), NEW p \in Along(b, env)
      PROVE  p[1] \in S /\ p[2] \in S
  <2>1. PICK i \in HopStarts(b) : p = <<OutOf(b, i, env), Into(b, NextAnchor(b, i), env)>>
    BY <1>5 DEF Along
  <2>2. i \in Anchors(b) /\ NextAnchor(b, i) \in Anchors(b)
    BY NextAnchorFacts
  <2>3. p[1] = OutOf(b, i, env) /\ p[2] = Into(b, NextAnchor(b, i), env)
    BY <2>1
  <2>4. QED BY <1>3, <2>2, <2>3
<1>6. ASSUME NEW b \in Blocks, NEW env \in EnvsOf(b), NEW i \in Inductions(b),
             NEW p \in Around1(b, i, env)
      PROVE  p[1] \in S /\ p[2] \in S
  <2> DEFINE c == Body(b, i)
  <2>1. i \in Anchors(b) /\ c \in Blocks \ {1}
    BY BodyFacts
  <2>2. CASE Iterations(c) = {}
    <3>1. p = <<Into(b, i, env), OutOf(b, i, env)>>
      BY <1>6, <2>2 DEF Around1
    <3>2. p[1] = Into(b, i, env) /\ p[2] = OutOf(b, i, env)
      BY <3>1
    <3>3. QED BY <1>3, <2>1, <3>2
  <2>3. CASE Iterations(c) # {}
    <3>1. PICK v \in Iterations(c) \ {job.blocks[c].end} :
              p = <<LastGame(c, With(env, c, v)), FirstGame(c, With(env, c, v + 1))>>
      BY <1>6, <2>3 DEF Around1
    <3>2. v \in Values(c) /\ v + 1 \in Values(c)
      <4>1. /\ job.blocks[c].start \in Int /\ job.blocks[c].end \in Int
            /\ Iterations(c) \subseteq Values(c)
        BY <2>1, ValuesFacts
      <4>2. Iterations(c) = job.blocks[c].start .. job.blocks[c].end
        BY DEF Iterations
      <4> HIDE DEF c
      <4>3. v + 1 \in Iterations(c)
        BY <3>1, <4>1, <4>2
      <4>4. QED BY <3>1, <4>1, <4>3
    <3>3. With(env, c, v) \in EnvsOf(c) /\ With(env, c, v + 1) \in EnvsOf(c)
      BY <3>2, EnvInto
    <3> HIDE DEF c
    <3>4. p[1] = LastGame(c, With(env, c, v)) /\ p[2] = FirstGame(c, With(env, c, v + 1))
      BY <3>1
    <3>5. FirstGame(c, With(env, c, v + 1)) \in S
      BY <1>2, <2>1, <3>3
    <3>6. LastGame(c, With(env, c, v)) \in S
      <4> PICK e : e = With(env, c, v)
        OBVIOUS
      <4>1. e \in EnvsOf(c) /\ e \in [Around[c] -> Bounds]
        BY <3>3 DEF EnvsOf
      <4>2. LastGame(c, e) = OutOf(c, LastIndex(Anchors(c)), e)
        BY <2>1, <4>1, LastGameMeaning
      <4>3. LastIndex(Anchors(c)) \in Anchors(c)
        BY <2>1, LastAnchorFacts
      <4>4. OutOf(c, LastIndex(Anchors(c)), e) \in S
        BY <1>3, <2>1, <4>1, <4>3
      <4>5. QED BY <4>2, <4>4
    <3>7. QED BY <3>4, <3>5, <3>6
  <2>4. QED BY <2>2, <2>3
<1>7. ASSUME NEW p \in Neighbours
      PROVE  p[1] \in S /\ p[2] \in S
  <2>1. PICK b \in Blocks : \E env \in RunningEnvs(b) :
            p \in Along(b, env) \/ \E i \in Inductions(b) : p \in Around1(b, i, env)
    BY <1>7, NeighboursMeaning
  <2> PICK env \in RunningEnvs(b) :
            p \in Along(b, env) \/ \E i \in Inductions(b) : p \in Around1(b, i, env)
    BY <2>1
  <2>2. env \in EnvsOf(b)
    BY <1>4, <2>1
  <2>3. QED BY <1>5, <1>6, <2>2
<1>8. QED BY <1>7 DEF Ends

(* When every hop of the text is taken, the games list is linked.          *)
LEMMA LinkedHolds ==
    ASSUME GamesList(job.blocks), RangesKnown, Covered, NEW T, hop_results \in Seq(T),
           \A i \in DOMAIN hop_results : Scope(hop_results[i]) \in Blocks
    PROVE  Linked
<1>1. IsFiniteSet(Edges)
  BY EdgesFinite
<1>2. /\ FirstGame(1, <<>>) \in Connected
      /\ \A e \in Edges : e[1] \in Connected <=> e[2] \in Connected
  BY <1>1, FoundAll, ConnectedMeaning
<1>3. ClosedUnder(Connected)
  BY <1>2 DEF ClosedUnder
<1>4. Ends(Neighbours) \subseteq Connected
  BY <1>2, <1>3, NeighboursFound
<1>5. QED BY <1>4 DEF Linked

-------------------------------------------------------------------------------
(* Every hop of every block is a hop of the script.                        *)

(* Every element that starts a hop has its turn in the order of the text.  *)
LEMMA TextOrderReaches ==
    ASSUME GamesList(job.blocks), NEW b \in Blocks, NEW i \in HopStarts(b)
    PROVE  \E k \in 1..Cardinality(HopStarts(b)) : InTextOrder(b)[k] = i
<1> DEFINE S == HopStarts(b)
           n == Len(Elements(b))
           k == Cardinality({j \in S : j <= i})
<1>1. S \in SUBSET (1..n) /\ n \in Nat
  BY ElementFacts DEF HopStarts
<1>2. k \in 1..Cardinality(S)
  <2> DEFINE U == {j \in S : j <= i}
  <2>1. U \in SUBSET S /\ i \in U
    BY <1>1
  <2> HIDE DEF S, U
  <2>2. IsFiniteSet(S)
    BY <1>1, CountStep
  <2>3. IsFiniteSet(U) /\ Cardinality(U) <= Cardinality(S)
    BY <2>1, <2>2, FS_Subset
  <2>4. Cardinality(U) \in Nat /\ Cardinality(S) \in Nat /\ Cardinality(U) # 0
    BY <2>1, <2>2, <2>3, FS_CardinalityType, FS_EmptySet
  <2>5. QED BY <2>3, <2>4 DEF U
<1> HIDE DEF k
<1>3. InTextOrder(b)[k] \in S /\ Cardinality(NoLater(S, InTextOrder(b)[k])) = k
  BY <1>2, InTextOrderCount DEF NoLater
<1>4. Cardinality(NoLater(S, i)) = k
  BY DEF NoLater, k
<1>5. InTextOrder(b)[k] = i
  <2> DEFINE a == InTextOrder(b)[k]
  <2>1. i \in S /\ a \in S /\ Cardinality(NoLater(S, a)) = Cardinality(NoLater(S, i))
    BY <1>3, <1>4
  <2> HIDE DEF S, n, a
  <2>2. a = i
    BY <1>1, <2>1, CountDistinct
  <2>3. QED BY <2>2 DEF a
<1>6. QED BY <1>2, <1>5

(* The script of every block stands in the whole script.                   *)
LEMMA EveryBlockWithin ==
    ASSUME GamesList(job.blocks)
    PROVE  \A b \in Blocks : \E m \in Nat : Within(m, b)
<1> DEFINE P == {b \in Blocks : \E m \in Nat : Within(m, b)}
           rank == [b \in Blocks |-> b]
<1>1. \A b \in Blocks : rank[b] \in Nat
  BY DEF GamesList, Blocks
<1>2. ASSUME NEW b \in Blocks, \A a \in Blocks : rank[a] < rank[b] => a \in P
      PROVE  b \in P
  <2>1. CASE b = 1
    <3>1. Len(Script) \in Nat
      <4>1. Script \in Seq(Links)
        BY <2>1, ScriptsMeaning DEF Script
      <4>2. QED BY <4>1
    <3>2. Within(0, b)
      BY <2>1, <3>1 DEF Within, Script
    <3>3. QED BY <3>2
  <2>2. CASE b # 1
    <3> DEFINE a == Parent(b)
               i == Position(b)
    <3>1. a \in Blocks /\ a < b
      BY <2>2, ParentFacts
    <3>2. i \in Inductions(a) /\ Body(a, i) = b
      BY <2>2, PositionFacts
    <3>3. PICK m \in Nat : Within(m, a)
      BY <1>2, <3>1
    <3>4. i \in Anchors(a) /\ i # 1
      <4>1. i \in Anchors(a) /\ ~IsStep(a, i) /\ IsStep(a, 1)
        BY <3>1, <3>2, BodyFacts, LastAnchorFacts
      <4>2. QED BY <4>1
    <3>5. PICK p \in HopStarts(a) : NextAnchor(a, p) = i
      BY <3>1, <3>4, PreviousAnchor
    <3>6. PICK k \in 1..Cardinality(HopStarts(a)) : InTextOrder(a)[k] = p
      BY <3>1, TextOrderReaches
    <3>7. IsInduction(a, i)
      BY <3>2 DEF Inductions
    <3>8. Offsets(a)[k - 1] \in Nat /\ Within(m + Offsets(a)[k - 1] + 1, b)
      BY <3>1, <3>2, <3>3, <3>5, <3>6, <3>7, WithinFacts
    <3>9. m + Offsets(a)[k - 1] + 1 \in Nat
      BY <3>8
    <3>10. QED BY <3>8, <3>9
  <2>3. QED BY <2>1, <2>2
<1> HIDE DEF P, rank
<1>3. \A b \in Blocks : b \in P
  BY <1>1, <1>2, RankInduction
<1>4. QED BY <1>3 DEF P

(* So do its hops, and the hop around it.                                  *)
LEMMA LinksInScript ==
    ASSUME GamesList(job.blocks)
    PROVE  /\ \A b \in Blocks : \A i \in HopStarts(b) :
                  \E x \in 1..Len(Script) : Script[x] = Link(b, i)
           /\ \A c \in Blocks \ {1} : \E x \in 1..Len(Script) : Script[x] = RolloverLink(c)
<1>1. Len(Script) \in Nat
  <2>1. 1 \in Blocks
    BY DEF GamesList, Blocks
  <2>2. Script \in Seq(Links)
    BY <2>1, ScriptsMeaning DEF Script
  <2>3. QED BY <2>2
<1>2. ASSUME NEW b \in Blocks, NEW i \in HopStarts(b)
      PROVE  \E x \in 1..Len(Script) : Script[x] = Link(b, i)
  <2>1. PICK m \in Nat : Within(m, b)
    BY EveryBlockWithin
  <2>2. PICK k \in 1..Cardinality(HopStarts(b)) : InTextOrder(b)[k] = i
    BY TextOrderReaches
  <2> DEFINE x == m + Offsets(b)[k - 1] + 1
  <2>3. Offsets(b)[k - 1] \in Nat /\ x <= Len(Script) /\ Script[x] = Link(b, i)
    BY <2>1, <2>2, WithinFacts
  <2>4. x \in 1..Len(Script)
    BY <1>1, <2>3
  <2>5. QED BY <2>3, <2>4
<1>3. ASSUME NEW c \in Blocks \ {1}
      PROVE  \E x \in 1..Len(Script) : Script[x] = RolloverLink(c)
  <2> DEFINE a == Parent(c)
             i == Position(c)
  <2>1. a \in Blocks /\ i \in Inductions(a) /\ Body(a, i) = c
    BY ParentFacts, PositionFacts
  <2>2. i \in Anchors(a) /\ i # 1
    <3>1. i \in Anchors(a) /\ ~IsStep(a, i) /\ IsStep(a, 1)
      BY <2>1, BodyFacts, LastAnchorFacts
    <3>2. QED BY <3>1
  <2>3. PICK p \in HopStarts(a) : NextAnchor(a, p) = i
    BY <2>1, <2>2, PreviousAnchor
  <2>4. PICK k \in 1..Cardinality(HopStarts(a)) : InTextOrder(a)[k] = p
    BY <2>1, TextOrderReaches
  <2>5. PICK m \in Nat : Within(m, a)
    BY <2>1, EveryBlockWithin
  <2>6. IsInduction(a, i)
    BY <2>1 DEF Inductions
  <2> DEFINE o == Offsets(a)
             x == m + o[k]
  <2>7. /\ o[k - 1] \in Nat /\ o[k] = o[k - 1] + Len(Scripts[c]) + 2 /\ Len(Scripts[c]) \in Nat
        /\ x <= Len(Script) /\ Script[x] = RolloverLink(c)
    BY <2>1, <2>3, <2>4, <2>5, <2>6, WithinFacts
  <2>8. o[k] \in Nat /\ o[k] >= 1
    <3>1. PICK u, l : u = o[k - 1] /\ l = Len(Scripts[c])
      OBVIOUS
    <3>2. u \in Nat /\ l \in Nat /\ o[k] = u + l + 2
      BY <2>7, <3>1
    <3> HIDE DEF o
    <3>3. QED BY <3>2
  <2>9. x \in 1..Len(Script)
    <3> HIDE DEF o
    <3>1. QED BY <1>1, <2>7, <2>8
  <2>10. QED BY <2>7, <2>9
<1>4. QED BY <1>2, <1>3

(* When all hops of the text are reported, and may be taken, every hop of  *)
(* every block is.                                                         *)
LEMMA TextTaken ==
    ASSUME GamesList(job.blocks), NEW T, hop_results \in Seq(T), FollowText(hop_results),
           Len(hop_results) = Len(Script),
           \A i \in DOMAIN hop_results : Justified(hop_results[i])
    PROVE  Covered
<1>1. DOMAIN hop_results = 1..Len(Script)
  OBVIOUS
<1>2. \A x \in 1..Len(Script) : Taken(Script[x])
  <2> TAKE x \in 1..Len(Script)
  <2>1. LinkOf(hop_results[x]) = Script[x] /\ Justified(hop_results[x])
    BY <1>1 DEF FollowText
  <2>2. hop_results[x] \in ToSet(hop_results)
    BY <1>1 DEF ToSet
  <2>3. QED BY <2>1, <2>2 DEF Taken
<1>3. \A b \in Blocks : \A i \in HopStarts(b) : Taken(Link(b, i))
  BY <1>2, LinksInScript
<1>4. \A c \in Blocks \ {1} : Taken(RolloverLink(c))
  BY <1>2, LinksInScript
<1>5. QED BY <1>3, <1>4 DEF Covered

-------------------------------------------------------------------------------
(* The inductive invariant: what is reported valid may be taken.           *)

(* No two neighbouring steps play the same assumed pair with the same      *)
(* adversary where the second alone is composed with a reduction:          *)
(* _is_by_indistinguishability takes such a hop.                           *)
NoStrayReduction ==
    \A b \in Blocks : \A i \in HopStarts(b) :
        LET c == Elements(b)[i]
            n == Elements(b)[NextAnchor(b, i)] IN
        /\ IsStep(b, i) /\ IsStep(b, NextAnchor(b, i))
        /\ NoSide \notin {c.side, n.side}
        /\ c.game = n.game /\ c.game \in job.file.assume \cup job.file.lemmas
        /\ c.adv = n.adv /\ c.red = NoReduction
        => SameReduction(c, n)

Sound(r) == r.valid /\ ~job.skip_lemmas => Justified(r)

(* A hop that needs no check may be taken as it was prepared.              *)
HopsSound(hops) == \A k \in DOMAIN hops : hops[k].kind # "equivalent" => Sound(hops[k])

LemmasProven ==
    /\ assumed = job.file.assume \cup lemma_games
    /\ ~job.skip_lemmas => proven = lemma_games
PreparedSound == \A d \in DOMAIN frames : HopsSound(frames[d].hops)
PoolSound ==
    pc \in {"pool", "report"} =>
        /\ DOMAIN pool = EquivalenceHops(Frame.hops)
        /\ \A k \in DOMAIN pool :
              pool[k] = "valid" => <<Frame.hops[k].cur, Frame.hops[k].next>> \in alike
ReportsSound ==
    /\ \A i \in DOMAIN hop_results : Scope(hop_results[i]) \in Blocks /\ Sound(hop_results[i])
    /\ pc = "succeeded" => AllValid

ChainInv ==
    NoStrayReduction /\ RangesKnown /\ LemmasProven /\ PreparedSound /\ PoolSound /\ ReportsSound

More == job' = job /\ alike \subseteq alike' /\ proven \subseteq proven'

(* What may be taken may be taken from then on.                            *)
LEMMA SoundKept ==
    ASSUME More
    PROVE  /\ \A r : Sound(r) => Sound(r)'
           /\ \A hops : HopsSound(hops) => HopsSound(hops)'
<1>1. \A r : Justified(r) => Justified(r)'
  BY DEF More, Justified, ReductionHop, UptoHop, Proven, StepOf, Elements, SideFlip,
         SameReduction
<1>2. \A r : Sound(r) => Sound(r)'
  BY <1>1 DEF Sound, More
<1>3. QED BY <1>2 DEF HopsSound

(* What is said of the text only stays.                                    *)
LEMMA TextSame ==
    ASSUME job' = job
    PROVE  /\ NoStrayReduction' <=> NoStrayReduction
           /\ RangesKnown' <=> RangesKnown
           /\ Blocks' = Blocks
           /\ \A r : Scope(r)' = Scope(r)
<1>1. NoStrayReduction' <=> NoStrayReduction
  BY DEF NoStrayReduction, Blocks, HopStarts, Anchors, Followers, NextAnchor, Elements, IsStep,
         SameReduction
<1>2. RangesKnown' <=> RangesKnown
  BY DEF RangesKnown, Blocks
<1>3. \A r : Scope(r)' = Scope(r)
  BY DEF Scope, Parent, Blocks, Inductions, IsInduction, Elements, Body
<1>4. QED BY <1>1, <1>2, <1>3 DEF Blocks

(* The calls after a step, by their hops.                                  *)
LEMMA PreparedNextSound ==
    ASSUME More, \A d \in DOMAIN frames' : HopsSound(frames'[d].hops)
    PROVE  PreparedSound'
<1>1. PICK calls : calls = frames'
  OBVIOUS
<1>2. \A d \in DOMAIN calls : HopsSound(calls[d].hops)'
  BY <1>1, SoundKept
<1>3. QED BY <1>1, <1>2 DEF PreparedSound

(* One more hop is reported.                                               *)
LEMMA ReportSound ==
    ASSUME RInv, ReportsSound, More, pc' # "succeeded", NEW r,
           hop_results' = Append(hop_results, r), Scope(r) \in Blocks, Sound(r)'
    PROVE  ReportsSound'
<1>1. PICK S : hop_results \in Seq(S)
  BY DEF RInv, IInv, Reported
<1>2. /\ DOMAIN hop_results = 1..Len(hop_results) /\ Len(hop_results) \in Nat
      /\ DOMAIN hop_results' = 1..Len(hop_results) + 1
      /\ \A i \in 1..Len(hop_results) : hop_results'[i] = hop_results[i]
      /\ hop_results'[Len(hop_results) + 1] = r
  BY <1>1, AppendFacts
<1>3. PICK s, t : s = hop_results /\ t = hop_results'
  OBVIOUS
<1>4. ASSUME NEW i \in DOMAIN t
      PROVE  Scope(t[i])' \in Blocks' /\ Sound(t[i])'
  <2>1. i = Len(hop_results) + 1 \/ i \in 1..Len(hop_results)
    BY <1>2, <1>3
  <2>2. CASE i \in 1..Len(hop_results)
    <3>1. t[i] = s[i] /\ Scope(s[i]) \in Blocks /\ Sound(s[i])
      BY <1>2, <1>3, <2>2 DEF ReportsSound
    <3>2. QED BY <3>1, SoundKept, TextSame DEF More
  <2>3. CASE i = Len(hop_results) + 1
    <3>1. t[i] = r
      BY <1>2, <1>3, <2>3
    <3>2. QED BY <3>1, TextSame DEF More
  <2>4. QED BY <2>1, <2>2, <2>3
<1>5. QED BY <1>3, <1>4 DEF ReportsSound

(* No hop is reported.                                                     *)
LEMMA QuietSound ==
    ASSUME ReportsSound, More, hop_results' = hop_results, pc' = "succeeded" => AllValid
    PROVE  ReportsSound'
<1>1. PICK t : t = hop_results
  OBVIOUS
<1>2. \A i \in DOMAIN t : Scope(t[i]) \in Blocks /\ Sound(t[i])
  BY <1>1 DEF ReportsSound
<1>3. \A i \in DOMAIN t : Scope(t[i])' \in Blocks' /\ Sound(t[i])'
  BY <1>2, SoundKept, TextSame DEF More
<1>4. AllValid' <=> AllValid
  BY DEF AllValid
<1>5. QED BY <1>1, <1>3, <1>4 DEF ReportsSound

(* A hop that is not checked is prepared as the assumptions, the lemmas    *)
(* or the identical-until-bad check allow.                                 *)
LEMMA PrepareHopSound ==
    ASSUME IInv, NoStrayReduction, LemmasProven, NEW b \in Blocks, NEW i \in HopStarts(b),
           NEW h, h = PrepareHop(b, i), h.kind # "equivalent"
    PROVE  Sound(h)
<1> DEFINE j == NextAnchor(b, i)
           c == Elements(b)[i]
           n == Elements(b)[j]
<1>1. IsStep(b, i) /\ IsStep(b, j)
  BY DEF PrepareHop
<1>2. h.cur = Game(b, i, "free") /\ h.next = Game(b, j, "free")
  BY <1>1 DEF PrepareHop, HopSource, HopTarget
<1>3. StepOf(h.cur) = c /\ StepOf(h.next) = n
  BY <1>2 DEF StepOf, Game
<1>4. h.kind = HopKind(c, n)
  <2>1. StepOf(HopSource(b, i)) = c /\ StepOf(HopTarget(b, j)) = n
    BY <1>1 DEF StepOf, Game, HopSource, HopTarget
  <2>2. QED BY <1>1, <2>1 DEF PrepareHop
<1>5. CASE ByIndistinguishability(c, n)
  <2>1. /\ NoSide \notin {c.side, n.side} /\ c.game = n.game /\ c.adv = n.adv
        /\ c.game \in assumed
        /\ c.red = NoReduction \/ SameReduction(c, n)
    BY <1>5 DEF ByIndistinguishability
  <2>2. c.game \in job.file.assume \cup job.file.lemmas
    BY <2>1 DEF IInv, Typed
  <2> HIDE DEF c, n
  <2>3. SameReduction(c, n)
    BY <1>1, <2>1, <2>2 DEF NoStrayReduction, c, n
  <2>4. ~job.skip_lemmas => c.game \in Proven
    BY <2>1 DEF LemmasProven, Proven
  <2>5. ~job.skip_lemmas => ReductionHop(c, n)
    BY <2>1, <2>3, <2>4 DEF ReductionHop
  <2>6. QED BY <1>3, <2>5 DEF Sound, Justified
<1>6. CASE ~ByIndistinguishability(c, n)
  <2>1. ByUpto(c, n) /\ h.kind = "by_upto"
    BY <1>4, <1>6 DEF HopKind
  <2>2. h.valid <=> c.game \in IdenticalUntilBad
    <3>1. h.valid <=> (h.kind # "by_upto" \/ StepOf(HopSource(b, i)).game \in IdenticalUntilBad)
      BY DEF PrepareHop
    <3>2. StepOf(HopSource(b, i)) = c
      BY <1>1 DEF StepOf, Game, HopSource
    <3>3. QED BY <2>1, <3>1, <3>2
  <2>3. h.valid => UptoHop(c, n)
    BY <2>1, <2>2 DEF ByUpto, UptoHop
  <2>4. QED BY <1>3, <2>3 DEF Sound, Justified
<1>7. QED BY <1>5, <1>6

(* So are all hops of a block.                                             *)
LEMMA PrepareHopsSound ==
    ASSUME IInv, NoStrayReduction, LemmasProven, NEW b \in Blocks
    PROVE  HopsSound(PrepareHops(b))
<1> DEFINE starts == InTextOrder(b)
<1>1. PrepareHops(b) = [k \in DOMAIN starts |-> PrepareHop(b, starts[k])]
  BY DEF PrepareHops
<1>2. \A k \in DOMAIN starts : starts[k] \in HopStarts(b)
  BY InTextOrderFacts DEF IInv
<1> HIDE DEF starts
<1>3. QED BY <1>1, <1>2, PrepareHopSound DEF HopsSound

(* The hop at hand, and a report of it.                                    *)
LEMMA AtHandSound ==
    ASSUME RInv, PreparedSound, HasHop
    PROVE  /\ Scope(CurrentHop) \in Blocks
           /\ CurrentHop.kind # "equivalent" => Sound(CurrentHop)
           /\ Frame.pos \in DOMAIN Frame.hops
<1>1. Frame.block \in Blocks /\ Scope(CurrentHop) = Frame.block
  BY HopAtHand
<1>2. Depth \in DOMAIN frames
  BY FramesFacts DEF RInv, IInv, HasHop
<1>3. HopsSound(Frame.hops) /\ Frame.pos \in DOMAIN Frame.hops
  BY <1>2 DEF PreparedSound, Frame, HasHop
<1>4. QED BY <1>1, <1>3 DEF HopsSound, CurrentHop

(* A report of a hop says what the hop says.                               *)
LEMMA SameHopSound ==
    ASSUME NEW r, NEW h, r.cur = h.cur, r.next = h.next, r.valid = h.valid
    PROVE  (Sound(r) <=> Sound(h)) /\ Scope(r) = Scope(h)
BY DEF Sound, Justified, Scope

-------------------------------------------------------------------------------
(* The steps.                                                              *)

(* No step changes the text.                                               *)
LEMMA TextOfChainInv ==
    ASSUME ChainInv, job' = job
    PROVE  NoStrayReduction' /\ RangesKnown'
BY TextSame DEF ChainInv

(* Only the lemma steps change what is proven.                             *)
LEMMA LemmasKept ==
    ASSUME LemmasProven, job' = job, UNCHANGED lemmaVars
    PROVE  LemmasProven' /\ proven' = proven
BY DEF LemmasProven, lemmaVars

(* The innermost call moves on.                                            *)
LEMMA NextHopSound ==
    ASSUME RInv, PreparedSound, More, HasHop, frames' = NextHop
    PROVE  PreparedSound' /\ Frame'.hops = Frame.hops
<1>1. Called
  BY DEF RInv, IInv
<1>2. /\ Depth \in Nat \ {0} /\ DOMAIN frames = 1..Depth
      /\ DOMAIN frames' = 1..Depth /\ Depth' = Depth
      /\ frames'[Depth].hops = frames[Depth].hops
      /\ \A d \in 1..Depth : d # Depth => frames'[d] = frames[d]
  BY <1>1, NextHopFrames
<1>3. \A d \in DOMAIN frames' : frames'[d].hops = frames[d].hops /\ d \in DOMAIN frames
  BY <1>2
<1>4. \A d \in DOMAIN frames' : HopsSound(frames'[d].hops)
  BY <1>3 DEF PreparedSound
<1>5. PreparedSound'
  BY <1>4, PreparedNextSound
<1>6. QED BY <1>2, <1>5 DEF Frame

(* The calls stay.                                                         *)
LEMMA SameFramesSound ==
    ASSUME PreparedSound, More, frames' = frames
    PROVE  PreparedSound'
<1>1. \A d \in DOMAIN frames' : HopsSound(frames'[d].hops)
  BY DEF PreparedSound
<1>2. QED BY <1>1, PreparedNextSound

(* The pool stays.                                                         *)
LEMMA PoolKept ==
    ASSUME PoolSound, pc' \in {"pool", "report"} => pc \in {"pool", "report"},
           pool' = pool, alike' = alike, Frame'.hops = Frame.hops
    PROVE  PoolSound'
<1>1. EquivalenceHops(Frame.hops)' = EquivalenceHops(Frame.hops)
  BY DEF EquivalenceHops, IsEquivalence
<1>2. QED BY <1>1 DEF PoolSound

(* A call starts.                                                          *)
LEMMA EnterBlockSound ==
    ASSUME RInv, ChainInv, NEW b \in Blocks, EnterBlock(b), job' = job, alike' = alike,
           UNCHANGED lemmaVars, hop_results' = hop_results
    PROVE  ChainInv'
<1> DEFINE hs == PrepareHops(b)
           f == [block |-> b, hops |-> hs, pos |-> 1]
<1>1. Called
  BY DEF RInv, IInv
<1>2. /\ pc' \in {"crashed", "hops", "pool"}
      /\ pc' # "crashed" => frames' = Append(frames, f)
      /\ pc' = "crashed" => frames' = frames
      /\ pc' = "pool" => frames = <<>> /\ pool' = [k \in EquivalenceHops(hs) |-> "pending"]
  BY DEF EnterBlock
<1>3. LemmasProven' /\ proven' = proven
  BY LemmasKept DEF ChainInv
<1>4. More
  BY <1>3 DEF More
<1>5. HopsSound(hs)
  BY PrepareHopsSound DEF RInv, ChainInv
<1> HIDE DEF hs
<1>6. ASSUME pc' # "crashed"
      PROVE  /\ DOMAIN frames = 1..Depth /\ DOMAIN frames' = 1..Depth + 1
             /\ Depth \in Nat /\ Depth' = Depth + 1
             /\ \A d \in 1..Depth : frames'[d] = frames[d]
             /\ frames'[Depth + 1].hops = hs
  BY <1>1, <1>2, <1>6, EnterFrames
<1>7. PreparedSound'
  <2>1. CASE pc' = "crashed"
    BY <1>2, <1>4, <2>1, SameFramesSound DEF ChainInv
  <2>2. CASE pc' # "crashed"
    <3>1. \A d \in DOMAIN frames' : HopsSound(frames'[d].hops)
      <4> TAKE d \in DOMAIN frames'
      <4>1. d = Depth + 1 \/ d \in 1..Depth
        BY <1>6, <2>2
      <4>2. QED BY <1>5, <1>6, <2>2, <4>1 DEF ChainInv, PreparedSound
    <3>2. QED BY <1>4, <3>1, PreparedNextSound
  <2>3. QED BY <2>1, <2>2
<1>8. PoolSound'
  <2> SUFFICES ASSUME pc' = "pool"
               PROVE  /\ DOMAIN pool' = EquivalenceHops(Frame.hops)'
                      /\ \A k \in DOMAIN pool' : pool'[k] # "valid"
    BY <1>2 DEF PoolSound
  <2>1. Frame'.hops = hs
    BY <1>6 DEF Frame
  <2>2. pool' = [k \in EquivalenceHops(hs) |-> "pending"]
    BY <1>2
  <2>3. EquivalenceHops(Frame.hops)' = EquivalenceHops(hs)
    BY <2>1 DEF EquivalenceHops, IsEquivalence
  <2>4. QED BY <2>2, <2>3
<1>9. ReportsSound'
  BY <1>2, <1>4, QuietSound DEF ChainInv
<1>10. QED BY <1>3, <1>7, <1>8, <1>9, TextOfChainInv DEF ChainInv

(* The games list is entered.                                              *)
LEMMA StartSound ==
    ASSUME RInv, ChainInv, Start
    PROVE  ChainInv'
<1>1. 1 \in Blocks
  BY DEF RInv, IInv, GamesList, Blocks
<1>2. QED BY <1>1, EnterBlockSound DEF Start

(* The body of an induction is entered.                                    *)
LEMMA EnterSound ==
    ASSUME RInv, ChainInv, EnterInduction
    PROVE  ChainInv'
<1>1. CurrentHop.body \in Blocks
  <2>1. Called /\ HasHop /\ CurrentHop.body # 0
    BY DEF EnterInduction, RInv, IInv, Called
  <2>2. QED BY <2>1, CurrentHopFits DEF Fits
<1>2. QED BY <1>1, EnterBlockSound DEF EnterInduction

(* A prepared hop is reported as it was prepared.                          *)
LEMMA ReportAssumptionHopSound ==
    ASSUME RInv, ChainInv, ReportAssumptionHop
    PROVE  ChainInv'
<1>1. /\ job' = job /\ alike' = alike /\ UNCHANGED lemmaVars /\ pc = "hops" /\ pc' = pc
      /\ HasHop /\ ~IsEquivalence(CurrentHop) /\ frames' = NextHop
      /\ hop_results' =
            Append(hop_results, Result(CurrentHop, CurrentHop.kind, CurrentHop.valid))
  BY DEF ReportAssumptionHop, Report
<1>2. LemmasProven' /\ proven' = proven
  BY <1>1, LemmasKept DEF ChainInv
<1>3. More
  BY <1>1, <1>2 DEF More
<1>4. PICK r : r = Result(CurrentHop, CurrentHop.kind, CurrentHop.valid)
  OBVIOUS
<1>5. r.cur = CurrentHop.cur /\ r.next = CurrentHop.next /\ r.valid = CurrentHop.valid
  BY <1>4 DEF Result
<1>6. Sound(CurrentHop) /\ Scope(CurrentHop) \in Blocks
  BY <1>1, AtHandSound DEF ChainInv, IsEquivalence
<1>7. Sound(r) /\ Scope(r) \in Blocks
  BY <1>5, <1>6, SameHopSound
<1>8. ReportsSound'
  <2>1. Sound(r)'
    BY <1>3, <1>7, SoundKept
  <2>2. hop_results' = Append(hop_results, r) /\ pc' # "succeeded"
    BY <1>1, <1>4
  <2>3. QED BY <1>3, <1>7, <2>1, <2>2, ReportSound DEF ChainInv
<1>9. PreparedSound'
  BY <1>1, <1>3, NextHopSound DEF ChainInv
<1>10. PoolSound'
  BY <1>1 DEF PoolSound
<1>11. QED BY <1>1, <1>2, <1>8, <1>9, <1>10, TextOfChainInv DEF ChainInv

(* What a check finds valid is alike.                                      *)
LEMMA CheckedSound ==
    ASSUME NEW h, NEW valid \in BOOLEAN, Check(h, valid),
           NEW r, r.cur = h.cur, r.next = h.next, r.valid = valid
    PROVE  alike \subseteq alike' /\ Sound(r)'
<1>1. alike \subseteq alike' /\ (valid => <<r.cur, r.next>> \in alike')
  BY DEF Check
<1>2. r.valid => Justified(r)'
  BY <1>1 DEF Justified
<1>3. QED BY <1>1, <1>2 DEF Sound

(* A hop is checked and reported.                                          *)
LEMMA CheckHopSound ==
    ASSUME RInv, ChainInv, CheckHop
    PROVE  ChainInv'
<1>1. /\ job' = job /\ UNCHANGED lemmaVars /\ pc = "hops" /\ pc' \in {"hops", "enter"}
      /\ HasHop
      /\ frames' = NextHop \/ frames' = frames
  BY DEF CheckHop
<1>2. PICK valid \in BOOLEAN :
          /\ Check(CurrentHop, valid)
          /\ hop_results' = Append(hop_results, Result(CurrentHop, "equivalent", valid))
  BY DEF CheckHop, Report
<1>3. PICK r : r = Result(CurrentHop, "equivalent", valid)
  OBVIOUS
<1>4. r.cur = CurrentHop.cur /\ r.next = CurrentHop.next /\ r.valid = valid
  BY <1>3 DEF Result
<1>5. PICK h : h = CurrentHop
  OBVIOUS
<1>6. alike \subseteq alike' /\ Sound(r)'
  BY <1>2, <1>4, <1>5, CheckedSound
<1>7. LemmasProven' /\ proven' = proven
  BY <1>1, LemmasKept DEF ChainInv
<1>8. More
  BY <1>1, <1>6, <1>7 DEF More
<1>9. ReportsSound'
  <2>1. Scope(r) \in Blocks
    <3>1. Scope(CurrentHop) \in Blocks
      BY <1>1, AtHandSound DEF ChainInv
    <3>2. Scope(r) = Scope(CurrentHop)
      BY <1>4 DEF Scope
    <3>3. QED BY <3>1, <3>2
  <2>2. hop_results' = Append(hop_results, r) /\ pc' # "succeeded"
    BY <1>1, <1>2, <1>3
  <2>3. QED BY <1>6, <1>8, <2>1, <2>2, ReportSound DEF ChainInv
<1>10. PreparedSound'
  BY <1>1, <1>8, NextHopSound, SameFramesSound DEF ChainInv
<1>11. PoolSound'
  BY <1>1 DEF PoolSound
<1>12. QED BY <1>1, <1>7, <1>9, <1>10, <1>11, TextOfChainInv DEF ChainInv

(* The rollover of an induction is checked and reported.                   *)
LEMMA LeaveSound ==
    ASSUME RInv, ChainInv, LeaveInduction
    PROVE  ChainInv'
<1> DEFINE c == Frame.block
           h == Rollover(c, OuterHop.step_num)
           result(valid) == [Result(h, "induction_rollover", valid) EXCEPT !.depth = @ - 1]
<1>1. /\ job' = job /\ UNCHANGED lemmaVars /\ pc = "hops" /\ pc' = pc /\ Depth > 1
      /\ frames' = [Front(frames) EXCEPT ![Depth - 1].pos = @ + 1]
  BY DEF LeaveInduction
<1>2. PICK valid \in BOOLEAN :
          Check(h, valid) /\ hop_results' = Append(hop_results, result(valid))
  BY DEF LeaveInduction, Report
<1>3. PICK r, g : r = result(valid) /\ g = h
  OBVIOUS
<1>4. r.cur = g.cur /\ r.next = g.next /\ r.valid = valid /\ r.cur = Game(c, LastStep(c), "free")
  BY <1>3 DEF Result, Rollover
<1> HIDE DEF result, h
<1>5. alike \subseteq alike' /\ Sound(r)'
  BY <1>2, <1>3, <1>4, CheckedSound
<1>6. LemmasProven' /\ proven' = proven
  BY <1>1, LemmasKept DEF ChainInv
<1>7. More
  BY <1>1, <1>5, <1>6 DEF More
<1>8. Called
  BY DEF RInv, IInv
<1>9. /\ Depth \in Nat /\ DOMAIN frames = 1..Depth /\ DOMAIN frames' = 1..Depth - 1
      /\ frames'[Depth - 1].hops = frames[Depth - 1].hops
      /\ \A d \in 1..Depth - 1 : d # Depth - 1 => frames'[d] = frames[d]
  BY <1>1, <1>8, LeaveFrames
<1>10. ReportsSound'
  <2>1. Scope(r) = c
    BY <1>4 DEF Scope, Game
  <2>2. c \in Blocks
    BY <1>1, <1>8, <1>9, FramesFacts DEF Frame
  <2>3. hop_results' = Append(hop_results, r) /\ pc' # "succeeded"
    BY <1>1, <1>2, <1>3
  <2>4. QED BY <1>5, <1>7, <2>1, <2>2, <2>3, ReportSound DEF ChainInv
<1>11. PreparedSound'
  <2>1. \A d \in DOMAIN frames' : d \in DOMAIN frames /\ frames'[d].hops = frames[d].hops
    BY <1>9
  <2>2. \A d \in DOMAIN frames' : HopsSound(frames'[d].hops)
    BY <2>1 DEF ChainInv, PreparedSound
  <2>3. QED BY <1>7, <2>2, PreparedNextSound
<1>12. PoolSound'
  BY <1>1 DEF PoolSound
<1>13. QED BY <1>1, <1>6, <1>10, <1>11, <1>12, TextOfChainInv DEF ChainInv

(* A pooled check is reported as its task found it.                        *)
LEMMA ReportPooledSound ==
    ASSUME RInv, ChainInv, ReportPooled
    PROVE  ChainInv'
<1> DEFINE h == CurrentHop
           p == [Result(h, "equivalent", pool[Frame.pos] = "valid") EXCEPT !.assuming = h.assuming]
           q == Result(h, h.kind, h.valid)
<1>1. /\ job' = job /\ alike' = alike /\ UNCHANGED lemmaVars /\ pc = "report" /\ pc' = pc
      /\ HasHop /\ frames' = NextHop /\ pool' = pool
  BY DEF ReportPooled
<1>2. LemmasProven' /\ proven' = proven
  BY <1>1, LemmasKept DEF ChainInv
<1>3. More
  BY <1>1, <1>2 DEF More
<1>4. /\ Scope(h) \in Blocks /\ (h.kind # "equivalent" => Sound(h))
      /\ Frame.pos \in DOMAIN Frame.hops
  BY <1>1, AtHandSound DEF ChainInv
<1>5. IsEquivalence(h) => Frame.pos \in DOMAIN pool
  <2>1. DOMAIN pool = EquivalenceHops(Frame.hops)
    BY <1>1 DEF ChainInv, PoolSound
  <2>2. QED BY <1>4, <2>1 DEF EquivalenceHops, CurrentHop
<1>6. \E r : /\ hop_results' = Append(hop_results, r)
             /\ r.cur = h.cur /\ r.next = h.next /\ Sound(r)
  <2>1. CASE IsEquivalence(h)
    <3>1. hop_results' = Append(hop_results, p)
      BY <2>1 DEF ReportPooled, Report
    <3>2. p.cur = h.cur /\ p.next = h.next /\ p.valid = (pool[Frame.pos] = "valid")
      BY DEF Result
    <3> HIDE DEF p
    <3>3. p.valid => <<h.cur, h.next>> \in alike
      BY <1>1, <1>5, <2>1, <3>2 DEF ChainInv, PoolSound, CurrentHop
    <3>4. Sound(p)
      BY <3>2, <3>3 DEF Sound, Justified
    <3>5. QED BY <3>1, <3>2, <3>4
  <2>2. CASE ~IsEquivalence(h)
    <3>1. hop_results' = Append(hop_results, q)
      BY <2>2 DEF ReportPooled, Report
    <3>2. q.cur = h.cur /\ q.next = h.next /\ q.valid = h.valid
      BY DEF Result
    <3> HIDE DEF q
    <3>3. Sound(q)
      <4>1. Sound(h)
        BY <1>4, <2>2 DEF IsEquivalence
      <4> HIDE DEF h
      <4>2. QED BY <3>2, <4>1, SameHopSound
    <3>4. QED BY <3>1, <3>2, <3>3
  <2>3. QED BY <2>1, <2>2
<1>7. PICK r : /\ hop_results' = Append(hop_results, r)
               /\ r.cur = h.cur /\ r.next = h.next /\ Sound(r)
  BY <1>6
<1>8. ReportsSound'
  <2>1. Scope(r) \in Blocks
    <3>1. Scope(r) = Scope(h)
      BY <1>7 DEF Scope
    <3>2. QED BY <1>4, <3>1
  <2>2. Sound(r)'
    BY <1>3, <1>7, SoundKept
  <2>3. pc' # "succeeded"
    BY <1>1
  <2> HIDE DEF h
  <2>4. QED BY <1>3, <1>7, <2>1, <2>2, <2>3, ReportSound DEF ChainInv
<1>9. PreparedSound' /\ Frame'.hops = Frame.hops
  BY <1>1, <1>3, NextHopSound DEF ChainInv
<1>10. PoolSound'
  BY <1>1, <1>9, PoolKept DEF ChainInv
<1>11. QED BY <1>1, <1>2, <1>8, <1>9, <1>10, TextOfChainInv DEF ChainInv

(* A lemma is used once its proof file is verified, or when it is skipped. *)
LEMMA LemmaSound ==
    ASSUME RInv, ChainInv, NEW l, SkipLemma(l) \/ VerifyLemma(l)
    PROVE  ChainInv'
<1>1. /\ job' = job /\ alike' = alike /\ pc = "lemmas" /\ pc' = pc
      /\ frames' = frames /\ hop_results' = hop_results
      /\ assumed' = assumed \cup {l} /\ lemma_games' = lemma_games \cup {l}
      /\ proven \subseteq proven'
      /\ ~job.skip_lemmas => proven' = proven \cup {l}
  BY DEF SkipLemma, VerifyLemma, UseLemma
<1>2. More
  BY <1>1 DEF More
<1>3. LemmasProven'
  BY <1>1 DEF ChainInv, LemmasProven
<1>4. PreparedSound'
  BY <1>1, <1>2, SameFramesSound DEF ChainInv
<1>5. ReportsSound'
  BY <1>1, <1>2, QuietSound DEF ChainInv
<1>6. PoolSound'
  BY <1>1 DEF PoolSound
<1>7. QED BY <1>1, <1>3, <1>4, <1>5, <1>6, TextOfChainInv DEF ChainInv

(* A task of the pool ends.                                                *)
LEMMA TaskSound ==
    ASSUME RInv, ChainInv, NEW k \in DOMAIN pool, TaskDone(k)
    PROVE  ChainInv'
<1>1. /\ job' = job /\ UNCHANGED lemmaVars /\ pc = "pool" /\ pc' = pc
      /\ frames' = frames /\ hop_results' = hop_results
  BY DEF TaskDone
<1>2. PICK valid \in BOOLEAN :
          /\ Check(Frame.hops[k], valid)
          /\ pool' = [pool EXCEPT ![k] = IF valid THEN "valid" ELSE "invalid"]
  BY DEF TaskDone
<1>3. LemmasProven' /\ proven' = proven
  BY <1>1, LemmasKept DEF ChainInv
<1>4. /\ alike \subseteq alike'
      /\ valid => <<Frame.hops[k].cur, Frame.hops[k].next>> \in alike'
  BY <1>2 DEF Check
<1>5. More
  BY <1>1, <1>3, <1>4 DEF More
<1>6. PreparedSound'
  BY <1>1, <1>5, SameFramesSound DEF ChainInv
<1>7. ReportsSound'
  BY <1>1, <1>5, QuietSound DEF ChainInv
<1>8. PoolSound'
  <2>1. /\ DOMAIN pool = EquivalenceHops(Frame.hops)
        /\ \A m \in DOMAIN pool :
              pool[m] = "valid" => <<Frame.hops[m].cur, Frame.hops[m].next>> \in alike
    BY <1>1 DEF ChainInv, PoolSound
  <2>2. Frame' = Frame
    BY <1>1 DEF Frame, Depth
  <2>3. EquivalenceHops(Frame.hops)' = EquivalenceHops(Frame.hops)
    BY <2>2 DEF EquivalenceHops, IsEquivalence
  <2>4. DOMAIN pool' = DOMAIN pool
    BY <1>2
  <2>5. ASSUME NEW m \in DOMAIN pool, pool'[m] = "valid"
        PROVE  <<Frame.hops[m].cur, Frame.hops[m].next>> \in alike'
    <3>1. CASE m = k
      <4>1. valid
        BY <1>2, <2>5, <3>1
      <4>2. QED BY <1>4, <3>1, <4>1
    <3>2. CASE m # k
      <4>1. pool[m] = "valid"
        BY <1>2, <2>5, <3>2
      <4>2. QED BY <1>4, <2>1, <4>1
    <3>3. QED BY <3>1, <3>2
  <2>6. QED BY <2>1, <2>2, <2>3, <2>4, <2>5 DEF PoolSound
<1>9. QED BY <1>1, <1>3, <1>6, <1>7, <1>8, TextOfChainInv DEF ChainInv

(* The other steps that report nothing.                                    *)
LEMMA OtherSilentSound ==
    ASSUME RInv, ChainInv,
           \/ ReadFile \/ (\E l \in todo : LemmaFails(l)) \/ HopsDone
           \/ PoolBroken \/ PoolDone \/ ReportsDone \/ Succeed \/ Fail \/ UNCHANGED vars
    PROVE  ChainInv'
<1>1. /\ job' = job /\ alike' = alike /\ UNCHANGED lemmaVars /\ frames' = frames
      /\ hop_results' = hop_results /\ pool' = pool
  BY DEF ReadFile, LemmaFails, HopsDone, PoolBroken, PoolDone, ReportsDone, Succeed, Fail,
         vars, lemmaVars
<1>2. /\ pc' \in {"pool", "report"} => pc \in {"pool", "report"}
      /\ pc' = "succeeded" => AllValid \/ pc = "succeeded"
  BY DEF ReadFile, LemmaFails, HopsDone, PoolBroken, PoolDone, ReportsDone, Succeed, Fail, vars
<1>3. LemmasProven' /\ proven' = proven
  BY <1>1, LemmasKept DEF ChainInv
<1>4. More
  BY <1>1, <1>3 DEF More
<1>5. PreparedSound'
  BY <1>1, <1>4, SameFramesSound DEF ChainInv
<1>6. ReportsSound'
  <2>1. pc' = "succeeded" => AllValid
    BY <1>2 DEF ChainInv, ReportsSound
  <2>2. QED BY <1>1, <1>4, <2>1, QuietSound DEF ChainInv
<1>7. PoolSound'
  <2>1. Frame'.hops = Frame.hops
    BY <1>1 DEF Frame, Depth
  <2>2. QED BY <1>1, <1>2, <2>1, PoolKept DEF ChainInv
<1>8. QED BY <1>1, <1>3, <1>5, <1>6, <1>7, TextOfChainInv DEF ChainInv

(* The invariant is inductive,                                             *)
LEMMA NextChainInv == RInv /\ ChainInv /\ [Next]_vars => ChainInv'
<1> SUFFICES ASSUME RInv, ChainInv, [Next]_vars PROVE ChainInv'
  OBVIOUS
<1>1. CASE Start
  BY <1>1, StartSound
<1>2. CASE ReportAssumptionHop
  BY <1>2, ReportAssumptionHopSound
<1>3. CASE CheckHop
  BY <1>3, CheckHopSound
<1>4. CASE EnterInduction
  BY <1>4, EnterSound
<1>5. CASE LeaveInduction
  BY <1>5, LeaveSound
<1>6. CASE ReportPooled
  BY <1>6, ReportPooledSound
<1>7. CASE \E k \in DOMAIN pool : TaskDone(k)
  BY <1>7, TaskSound
<1>8. CASE \E l \in todo : SkipLemma(l) \/ VerifyLemma(l)
  BY <1>8, LemmaSound
<1>9. CASE \/ ReadFile \/ (\E l \in todo : LemmaFails(l)) \/ HopsDone
           \/ PoolBroken \/ PoolDone \/ ReportsDone \/ Succeed \/ Fail \/ UNCHANGED vars
  BY <1>9, OtherSilentSound
<1>10. QED BY <1>1, <1>2, <1>3, <1>4, <1>5, <1>6, <1>7, <1>8, <1>9 DEF Next

(* The chain of an event proof keeps the ranges of its inductions.         *)
LEMMA InitRanges == Init => RangesKnown
<1> SUFFICES ASSUME Init PROVE RangesKnown
  OBVIOUS
<1>1. PICK f \in Files : job.file = f /\ job.blocks = ProofBlocks(f)
  BY DEF Init
<1>2. DOMAIN EventChain(f) = DOMAIN f.blocks
      /\ \A b \in DOMAIN f.blocks \ {1} : EventChain(f)[b] = f.blocks[b]
  BY DEF EventChain
<1>3. DOMAIN job.blocks = DOMAIN f.blocks
      /\ \A b \in DOMAIN f.blocks \ {1} : job.blocks[b] = f.blocks[b]
  BY <1>1, <1>2 DEF ProofBlocks
<1>4. QED BY <1>3, RangesAssumption DEF RangesKnown, Blocks

(* holds at the start,                                                     *)
LEMMA InitChainInv == Init /\ NoStrayReduction => ChainInv
<1> SUFFICES ASSUME Init, NoStrayReduction PROVE ChainInv
  OBVIOUS
<1>1. RangesKnown
  BY InitRanges
<1>2. /\ pc = "start" /\ frames = <<>> /\ hop_results = <<>>
      /\ assumed = job.file.assume /\ lemma_games = {} /\ proven = {}
  BY DEF Init
<1>3. LemmasProven /\ PoolSound
  BY <1>2 DEF LemmasProven, PoolSound
<1>4. PreparedSound /\ ReportsSound
  BY <1>2 DEF PreparedSound, ReportsSound
<1>5. QED BY <1>1, <1>3, <1>4 DEF ChainInv

(* and says that a proof which succeeded is linked.                        *)
LEMMA ChainInvLinked == RInv /\ ChainInv => ChainLinked
<1> SUFFICES ASSUME RInv, ChainInv, pc = "succeeded", ~job.skip_lemmas PROVE Linked
  BY DEF ChainLinked
<1>1. GamesList(job.blocks) /\ FollowText(hop_results) /\ Len(hop_results) = Len(Script)
  BY DEF RInv, IInv, Accounts
<1>2. PICK T : hop_results \in Seq(T)
  BY DEF RInv, IInv, Reported
<1>3. \A i \in DOMAIN hop_results :
          Scope(hop_results[i]) \in Blocks /\ Justified(hop_results[i])
  BY DEF ChainInv, ReportsSound, AllValid, Sound
<1>4. Covered
  BY <1>1, <1>2, <1>3, TextTaken
<1>5. QED BY <1>1, <1>2, <1>3, <1>4, LinkedHolds DEF ChainInv

(* A proof that succeeds, with no lemma skipped, links every game of the   *)
(* unrolled games list to the next one, whatever the values and ranges of  *)
(* the induction variables and however the inductions are nested: by       *)
(* pairs found alike, reductions to an assumption or to a lemma that was   *)
(* verified, and identical-until-bad hops.  It takes that no step without  *)
(* a reduction has a neighbour of the same assumed pair with one; the run  *)
(* stray shows what the engine does then.                                  *)
THEOREM ChainCorrect == Spec /\ NoStrayReduction => []ChainLinked
<1>1. Init => RInv
  BY InitRInv
<1>2. RInv /\ [Next]_vars => RInv'
  BY NextRInv
<1>3. Init /\ NoStrayReduction => ChainInv
  BY InitChainInv
<1>4. RInv /\ ChainInv /\ [Next]_vars => ChainInv'
  BY NextChainInv
<1>5. RInv /\ ChainInv => ChainLinked
  BY ChainInvLinked
<1>6. QED BY <1>1, <1>2, <1>3, <1>4, <1>5, PTL DEF Spec
===============================================================================
