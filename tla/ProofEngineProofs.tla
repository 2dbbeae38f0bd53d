--------------------------- MODULE ProofEngineProofs ---------------------------
(***************************************************************************)
(* The proof engine, for every set of proof files the grammar allows: its  *)
(* variables are typed, and every check runs under the step assumptions    *)
(* written before its hop.  Then what it reports: the hops of the text,    *)
(* all of them, in its order, as many as the status line announces; and a  *)
(* check knows the variables of the inductions around its hop.             *)
(***************************************************************************)
EXTENDS ProofChain, RecursiveFunctions, FiniteSetTheorems

ElementKinds == {"step", "assume", "induction"}
HopKinds == {"equivalent", "by_assumption", "by_lemma", "by_upto"}

(* A games list and the bodies of its inductions (FilesAssumption).        *)
GamesList(blocks) ==
    /\ \E n \in Nat \ {0} : DOMAIN blocks = 1..n
    /\ \A b \in DOMAIN blocks :
          LET s == blocks[b].steps IN
          /\ s \in Seq(ToSet(s)) \ {<<>>}
          /\ s[1].kind = "step"
          /\ \A i \in DOMAIN s :
                /\ s[i].kind \in ElementKinds
                /\ s[i].kind = "induction" => s[i].body \in DOMAIN blocks /\ s[i].body > b
    /\ \A c \in DOMAIN blocks \ {1} :
          \E b \in DOMAIN blocks : \E i \in DOMAIN blocks[b].steps :
              blocks[b].steps[i].kind = "induction" /\ blocks[b].steps[i].body = c
    /\ \A a, b \in DOMAIN blocks :
          \A i \in DOMAIN blocks[a].steps, j \in DOMAIN blocks[b].steps :
              /\ blocks[a].steps[i].kind = "induction"
              /\ blocks[b].steps[j].kind = "induction"
              /\ blocks[a].steps[i].body = blocks[b].steps[j].body
              => a = b /\ i = j

-------------------------------------------------------------------------------
(* The greatest number and the k-th element of a set.                      *)

LEMMA GreatestElement ==
    ASSUME NEW n \in Nat, NEW S \in SUBSET (1..n), S # {}
    PROVE  LastIndex(S) \in S /\ \A k \in S : k <= LastIndex(S)
<1> DEFINE D == {n - k : k \in S}
<1>1. D \subseteq Nat
  OBVIOUS
<1>2. D # {}
  OBVIOUS
<1>3. PICK d \in D : \A e \in D : d <= e
  BY <1>1, <1>2, LeastElement
<1>4. PICK m \in S : d = n - m
  OBVIOUS
<1>5. \A k \in S : k <= m
  <2> TAKE k \in S
  <2>1. d <= n - k
    BY <1>3
  <2>2. QED BY <1>4, <2>1
<1>6. QED BY <1>5 DEF LastIndex

(* Counting the elements of a set from below.                              *)
LEMMA CountNext ==
    ASSUME NEW S \in SUBSET Nat, IsFiniteSet(S), NEW m \in Nat \ {0}
    PROVE  Cardinality({j \in S : j <= m}) =
              IF m \in S THEN Cardinality({j \in S : j <= m - 1}) + 1
              ELSE Cardinality({j \in S : j <= m - 1})
<1> DEFINE Below(x) == {j \in S : j <= x}
<1>1. \A j \in S : j \in Nat
  OBVIOUS
<1>2. IsFiniteSet(Below(m - 1)) /\ Cardinality(Below(m - 1)) \in Nat
  <2>1. Below(m - 1) \in SUBSET S
    OBVIOUS
  <2>2. QED BY <2>1, FS_Subset, FS_CardinalityType
<1>3. CASE m \in S
  <2>1. Below(m) = Below(m - 1) \cup {m}
    <3>1. \A j \in S : j <= m <=> j <= m - 1 \/ j = m
      BY <1>1
    <3>2. QED BY <1>3, <3>1
  <2>2. m \notin Below(m - 1)
    OBVIOUS
  <2> HIDE DEF Below
  <2>3. Cardinality(Below(m)) = Cardinality(Below(m - 1)) + 1
    BY <1>2, <2>1, <2>2, FS_AddElement
  <2>4. QED BY <1>3, <2>3 DEF Below
<1>4. CASE m \notin S
  <2>1. Below(m) = Below(m - 1)
    <3>1. \A j \in S : j <= m <=> j <= m - 1
      BY <1>1, <1>4
    <3>2. QED BY <3>1
  <2>2. QED BY <1>4, <2>1
<1>5. QED BY <1>3, <1>4

LEMMA CountStep ==
    ASSUME NEW n \in Nat, NEW S \in SUBSET (1..n)
    PROVE  /\ IsFiniteSet(S)
           /\ Cardinality({j \in S : j <= 0}) = 0
           /\ {j \in S : j <= n} = S
           /\ \A m \in Nat : Cardinality({j \in S : j <= m}) \in Nat
           /\ \A m \in Nat \ {0} :
                 Cardinality({j \in S : j <= m}) =
                    IF m \in S THEN Cardinality({j \in S : j <= m - 1}) + 1
                    ELSE Cardinality({j \in S : j <= m - 1})
<1> DEFINE Below(m) == {j \in S : j <= m}
<1>1. IsFiniteSet(S) /\ \A j \in S : j \in Nat /\ 1 <= j /\ j <= n
  <2>1. IsFiniteSet(1..n)
    BY FS_Interval
  <2>2. IsFiniteSet(S)
    BY <2>1, FS_Subset
  <2>3. QED BY <2>2
<1>2. \A m \in Nat : IsFiniteSet(Below(m)) /\ Cardinality(Below(m)) \in Nat
  <2> TAKE m \in Nat
  <2>1. Below(m) \in SUBSET S
    OBVIOUS
  <2>2. QED BY <1>1, <2>1, FS_Subset, FS_CardinalityType
<1>3. Cardinality(Below(0)) = 0
  <2>1. \A j : j \notin Below(0)
    <3> SUFFICES ASSUME NEW j \in S, j <= 0 PROVE FALSE
      OBVIOUS
    <3>1. QED BY <1>1
  <2>2. QED BY <2>1, FS_EmptySet
<1>4. Below(n) = S
  <2>1. \A j \in S : j <= n
    BY <1>1
  <2>2. QED BY <2>1
<1>5. ASSUME NEW m \in Nat \ {0}
      PROVE  Cardinality({j \in S : j <= m}) =
                IF m \in S THEN Cardinality({j \in S : j <= m - 1}) + 1
                ELSE Cardinality({j \in S : j <= m - 1})
  <2>1. S \in SUBSET Nat
    OBVIOUS
  <2>2. QED BY <1>1, <2>1, CountNext
<1>6. QED BY <1>1, <1>2, <1>3, <1>4, <1>5

(* Counting from below reaches every number up to the size of a set.       *)
LEMMA CountReaches ==
    ASSUME NEW n \in Nat, NEW S \in SUBSET (1..n), NEW k \in 1..Cardinality(S)
    PROVE  \E i \in S : Cardinality({j \in S : j <= i}) = k
<1> DEFINE Below(m) == {j \in S : j <= m}
<1>1. /\ Cardinality(Below(0)) = 0 /\ Below(n) = S
      /\ \A m \in Nat : Cardinality(Below(m)) \in Nat
      /\ \A m \in Nat \ {0} : Cardinality(Below(m)) =
             IF m \in S THEN Cardinality(Below(m - 1)) + 1 ELSE Cardinality(Below(m - 1))
  BY CountStep
<1> DEFINE M == {m \in Nat : k <= Cardinality(Below(m))}
<1>2. n \in M
  <2> HIDE DEF Below
  <2>1. Cardinality(S) \in Nat
    BY <1>1
  <2>2. QED BY <1>1, <2>1
<1>3. PICK m \in M : \A l \in M : m <= l
  <2>1. M \in SUBSET Nat /\ M # {}
    BY <1>2
  <2> HIDE DEF M
  <2>2. QED BY <2>1, LeastElement
<1>4. m \in Nat /\ k <= Cardinality(Below(m))
  BY <1>3
<1>5. m # 0
  <2> HIDE DEF Below
  <2>1. QED BY <1>1, <1>4
<1>6. m - 1 \in Nat /\ m - 1 \notin M
  <2> HIDE DEF M
  <2>1. QED BY <1>3, <1>4, <1>5
<1>7. ~(k <= Cardinality(Below(m - 1)))
  BY <1>6
<1>8. m \in S /\ Cardinality(Below(m)) = k
  <2>1. m \in Nat \ {0} /\ Cardinality(Below(m)) \in Nat /\ Cardinality(Below(m - 1)) \in Nat
    <3> HIDE DEF Below
    <3>1. QED BY <1>1, <1>4, <1>5, <1>6
  <2> HIDE DEF Below
  <2>2. QED BY <1>1, <1>4, <1>7, <2>1
<1>9. Below(m) = {j \in S : j <= m}
  OBVIOUS
<1> HIDE DEF Below
<1>10. QED BY <1>8, <1>9

-------------------------------------------------------------------------------
(* The text of a proof file.                                               *)

LEMMA InRange ==
    ASSUME NEW S, NEW s \in Seq(S)
    PROVE  s \in Seq(ToSet(s))
<1>1. Len(s) \in Nat /\ \A i \in 1..Len(s) : s[i] \in ToSet(s)
  BY DEF ToSet
<1>2. s \in [1..Len(s) -> ToSet(s)]
  BY <1>1
<1>3. QED BY <1>1, <1>2

(* The chain of an event proof is a games list: its ends are steps again.  *)
LEMMA EventChainGamesList ==
    ASSUME NEW f \in Files
    PROVE  GamesList(EventChain(f))
<1> DEFINE s == f.blocks[1].steps
           chain == [s EXCEPT ![1].game = f.theorem, ![1].side = "Real",
                              ![1].red = NoReduction]
           l == LastIndex({i \in DOMAIN s : s[i].kind = "step"})
           t == Append(chain, Terminal(f, chain[l]))
           blocks == [f.blocks EXCEPT ![1].steps = t]
<1>1. s \in Seq(ToSet(s)) /\ s # <<>> /\ s[1].kind = "step" /\ "steps" \in DOMAIN f.blocks[1]
      /\ \A i \in DOMAIN s :
            /\ "kind" \in DOMAIN s[i] /\ s[i].kind \in ElementKinds
            /\ s[i].kind = "induction" => s[i].body \in DOMAIN f.blocks /\ s[i].body > 1
  <2>1. 1 \in DOMAIN f.blocks
    BY FilesAssumption
  <2>2. QED BY <2>1, FilesAssumption DEF ElementKinds
<1>2. Len(s) \in Nat /\ DOMAIN s = 1..Len(s) /\ 1 \in DOMAIN s
  BY <1>1
<1>3. DOMAIN chain = DOMAIN s /\ \A i \in DOMAIN s : i # 1 => chain[i] = s[i]
  OBVIOUS
<1>4. "kind" \in DOMAIN chain[1] /\ chain[1].kind = "step"
  BY <1>1, <1>2
<1>5. l \in DOMAIN s /\ s[l].kind = "step"
  <2> DEFINE S == {i \in DOMAIN s : s[i].kind = "step"}
  <2>1. S \in SUBSET (1..Len(s)) /\ 1 \in S
    BY <1>1, <1>2
  <2> HIDE DEF S
  <2>2. LastIndex(S) \in S
    BY <1>2, <2>1, GreatestElement
  <2>3. QED BY <2>2 DEF S
<1>6. "kind" \in DOMAIN chain[l] /\ chain[l].kind = "step"
  BY <1>1, <1>3, <1>4, <1>5
<1>7. Terminal(f, chain[l]).kind = "step"
  <2> HIDE DEF chain, l
  <2>1. QED BY <1>6 DEF Terminal
<1>8. chain \in Seq({chain[i] : i \in 1..Len(s)}) /\ Len(chain) = Len(s)
  <2>1. chain = [i \in 1..Len(s) |-> chain[i]]
    BY <1>2, <1>3
  <2> HIDE DEF chain
  <2>2. chain \in [1..Len(s) -> {chain[i] : i \in 1..Len(s)}]
    BY <2>1
  <2>3. QED BY <1>2, <2>2
<1>9. /\ t \in Seq({chain[i] : i \in 1..Len(s)} \cup {Terminal(f, chain[l])})
      /\ DOMAIN t = 1..Len(s) + 1
      /\ \A i \in 1..Len(s) : t[i] = chain[i]
      /\ t[Len(s) + 1] = Terminal(f, chain[l])
  <2> HIDE DEF chain, l
  <2>1. QED BY <1>2, <1>8
<1>10. /\ t \in Seq(ToSet(t)) /\ t # <<>> /\ t[1].kind = "step"
       /\ \A i \in DOMAIN t :
             /\ t[i].kind \in ElementKinds
             /\ t[i].kind = "induction" => i \in DOMAIN s /\ t[i] = s[i]
       /\ \A i \in DOMAIN s : s[i].kind = "induction" => i \in DOMAIN t /\ t[i] = s[i]
  <2> HIDE DEF t, chain, l, s
  <2>1. t \in Seq(ToSet(t))
    BY <1>9, InRange
  <2>2. t # <<>> /\ t[1].kind = "step"
    BY <1>2, <1>4, <1>9
  <2>3. ASSUME NEW i \in DOMAIN t
        PROVE  /\ t[i].kind \in ElementKinds
               /\ t[i].kind = "induction" => i \in DOMAIN s /\ t[i] = s[i]
    <3>1. CASE i = Len(s) + 1
      BY <1>7, <1>9, <3>1 DEF ElementKinds
    <3>2. CASE i = 1
      BY <1>2, <1>4, <1>9, <3>2 DEF ElementKinds
    <3>3. CASE i \in DOMAIN s /\ i # 1
      BY <1>1, <1>2, <1>3, <1>9, <3>3
    <3>4. i = Len(s) + 1 \/ i \in DOMAIN s
      BY <1>2, <1>9
    <3>5. QED BY <3>1, <3>2, <3>3, <3>4
  <2>4. ASSUME NEW i \in DOMAIN s, s[i].kind = "induction"
        PROVE  i \in DOMAIN t /\ t[i] = s[i]
    <3>1. i # 1
      BY <1>1, <2>4
    <3>2. QED BY <1>2, <1>3, <1>9, <3>1
  <2>5. QED BY <2>1, <2>2, <2>3, <2>4
<1>11. DOMAIN blocks = DOMAIN f.blocks /\ blocks[1].steps = t
       /\ \A b \in DOMAIN blocks : b # 1 => blocks[b] = f.blocks[b]
  <2>1. 1 \in DOMAIN f.blocks
    BY FilesAssumption
  <2> HIDE DEF t
  <2>2. QED BY <1>1, <2>1
<1>12. \A b \in DOMAIN blocks : \A i \in DOMAIN blocks[b].steps :
           blocks[b].steps[i].kind = "induction" =>
               /\ i \in DOMAIN f.blocks[b].steps
               /\ blocks[b].steps[i] = f.blocks[b].steps[i]
  <2> HIDE DEF t, blocks
  <2>1. QED BY <1>10, <1>11
<1>13. \A b \in DOMAIN f.blocks : \A i \in DOMAIN f.blocks[b].steps :
           f.blocks[b].steps[i].kind = "induction" =>
               /\ i \in DOMAIN blocks[b].steps
               /\ blocks[b].steps[i] = f.blocks[b].steps[i]
  <2> HIDE DEF t, blocks
  <2>1. QED BY <1>10, <1>11 DEF s
<1>14. GamesList(blocks)
  <2> HIDE DEF t, blocks, s
  <2>1. \A b \in DOMAIN blocks :
            /\ blocks[b].steps \in Seq(ToSet(blocks[b].steps)) \ {<<>>}
            /\ blocks[b].steps[1].kind = "step"
            /\ \A i \in DOMAIN blocks[b].steps :
                  /\ blocks[b].steps[i].kind \in ElementKinds
                  /\ blocks[b].steps[i].kind = "induction" =>
                        blocks[b].steps[i].body \in DOMAIN blocks /\ blocks[b].steps[i].body > b
    <3> TAKE b \in DOMAIN blocks
    <3>1. CASE b = 1
      BY <1>1, <1>10, <1>11, <1>12, <3>1 DEF s
    <3>2. CASE b # 1
      BY <1>11, <3>2, FilesAssumption DEF ElementKinds
    <3>3. QED BY <3>1, <3>2
  <2>2. \E n \in Nat \ {0} : DOMAIN blocks = 1..n
    <3>1. Len(f.blocks) \in Nat \ {0} /\ DOMAIN f.blocks = 1..Len(f.blocks)
      BY FilesAssumption
    <3>2. QED BY <1>11, <3>1
  <2>3. ASSUME NEW a \in DOMAIN blocks, NEW b \in DOMAIN blocks,
               NEW i \in DOMAIN blocks[a].steps, NEW j \in DOMAIN blocks[b].steps,
               blocks[a].steps[i].kind = "induction", blocks[b].steps[j].kind = "induction",
               blocks[a].steps[i].body = blocks[b].steps[j].body
        PROVE  a = b /\ i = j
    <3>1. /\ blocks[a].steps[i] = f.blocks[a].steps[i] /\ i \in DOMAIN f.blocks[a].steps
          /\ blocks[b].steps[j] = f.blocks[b].steps[j] /\ j \in DOMAIN f.blocks[b].steps
          /\ a \in DOMAIN f.blocks /\ b \in DOMAIN f.blocks
      BY <1>11, <1>12, <2>3
    <3>2. /\ f.blocks[a].steps[i].kind = "induction" /\ f.blocks[b].steps[j].kind = "induction"
          /\ f.blocks[a].steps[i].body = f.blocks[b].steps[j].body
      BY <2>3, <3>1
    <3>3. \A x, y \in DOMAIN f.blocks :
             \A k \in DOMAIN f.blocks[x].steps, m \in DOMAIN f.blocks[y].steps :
                /\ f.blocks[x].steps[k].kind = "induction"
                /\ f.blocks[y].steps[m].kind = "induction"
                /\ f.blocks[x].steps[k].body = f.blocks[y].steps[m].body
                => x = y /\ k = m
      BY FilesAssumption
    <3>4. QED BY <3>1, <3>2, <3>3, Zenon
  <2>4. ASSUME NEW c \in DOMAIN blocks \ {1}
        PROVE  \E b \in DOMAIN blocks : \E i \in DOMAIN blocks[b].steps :
                   blocks[b].steps[i].kind = "induction" /\ blocks[b].steps[i].body = c
    <3>1. c \in DOMAIN f.blocks \ {1}
      BY <1>11
    <3>2. PICK b \in DOMAIN f.blocks : \E i \in DOMAIN f.blocks[b].steps :
                   f.blocks[b].steps[i].kind = "induction" /\ f.blocks[b].steps[i].body = c
      BY <3>1, FilesAssumption
    <3>3. QED BY <1>11, <1>13, <3>2
  <2>5. QED BY <2>1, <2>2, <2>3, <2>4 DEF GamesList
<1>15. EventChain(f) = blocks
  BY DEF EventChain
<1>16. QED BY <1>14, <1>15

LEMMA ProofBlocksGamesList ==
    ASSUME NEW f \in Files
    PROVE  GamesList(ProofBlocks(f))
<1>1. CASE f.is_event
  BY <1>1, EventChainGamesList DEF ProofBlocks
<1>2. CASE ~f.is_event
  <2>1. Len(f.blocks) \in Nat \ {0} /\ DOMAIN f.blocks = 1..Len(f.blocks)
    BY FilesAssumption
  <2>2. \E n \in Nat \ {0} : DOMAIN f.blocks = 1..n
    BY <2>1
  <2>3. \A b \in DOMAIN f.blocks :
            /\ f.blocks[b].steps \in Seq(ToSet(f.blocks[b].steps)) \ {<<>>}
            /\ f.blocks[b].steps[1].kind = "step"
            /\ \A i \in DOMAIN f.blocks[b].steps :
                  /\ f.blocks[b].steps[i].kind \in ElementKinds
                  /\ f.blocks[b].steps[i].kind = "induction" =>
                        f.blocks[b].steps[i].body \in DOMAIN f.blocks
                        /\ f.blocks[b].steps[i].body > b
    BY FilesAssumption DEF ElementKinds
  <2>4. \A c \in DOMAIN f.blocks \ {1} :
            \E b \in DOMAIN f.blocks : \E i \in DOMAIN f.blocks[b].steps :
                f.blocks[b].steps[i].kind = "induction" /\ f.blocks[b].steps[i].body = c
    BY FilesAssumption
  <2>5. \A a, b \in DOMAIN f.blocks :
            \A i \in DOMAIN f.blocks[a].steps, j \in DOMAIN f.blocks[b].steps :
                /\ f.blocks[a].steps[i].kind = "induction"
                /\ f.blocks[b].steps[j].kind = "induction"
                /\ f.blocks[a].steps[i].body = f.blocks[b].steps[j].body
                => a = b /\ i = j
    BY FilesAssumption
  <2>6. GamesList(f.blocks)
    BY <2>2, <2>3, <2>4, <2>5, Zenon DEF GamesList
  <2>7. QED BY <1>2, <2>6 DEF ProofBlocks
<1>3. QED BY <1>1, <1>2

LEMMA ElementFacts ==
    ASSUME GamesList(job.blocks), NEW b \in Blocks
    PROVE  /\ b \in Nat /\ b # 0 /\ 1 \in Blocks
           /\ Len(Elements(b)) \in Nat /\ DOMAIN Elements(b) = 1..Len(Elements(b))
           /\ Anchors(b) \in SUBSET (1..Len(Elements(b)))
           /\ 1 \in DOMAIN Elements(b) /\ IsStep(b, 1)
           /\ \A i \in Anchors(b) :
                 ~IsStep(b, i) => i \in Inductions(b) /\ Body(b, i) \in Blocks
<1>1. Elements(b) \in Seq(ToSet(Elements(b))) /\ Elements(b) # <<>>
  BY DEF GamesList, Elements, Blocks
<1>2. DOMAIN Elements(b) = 1..Len(Elements(b)) /\ Len(Elements(b)) \in Nat
  BY <1>1
<1>3. 1 \in DOMAIN Elements(b)
  BY <1>1, <1>2
<1>4. b \in Nat /\ b # 0 /\ 1 \in Blocks
  BY DEF GamesList, Blocks
<1>5. QED
  BY <1>2, <1>3, <1>4 DEF GamesList, ElementKinds, Blocks, Anchors, IsStep, Inductions, IsInduction,
                    Body, Elements

(* A body is found where it stands.                                        *)
LEMMA BodyPlace ==
    ASSUME GamesList(job.blocks), NEW b \in Blocks, NEW i \in Inductions(b)
    PROVE  /\ Parent(Body(b, i)) = b
           /\ Position(Body(b, i)) = i
<1>1. \A a \in Blocks : \A j \in Inductions(a) :
          Body(a, j) = Body(b, i) => a = b /\ j = i
  <2> SUFFICES ASSUME NEW a \in Blocks, NEW j \in Inductions(a), Body(a, j) = Body(b, i)
               PROVE  a = b /\ j = i
    OBVIOUS
  <2>1. /\ j \in DOMAIN job.blocks[a].steps /\ job.blocks[a].steps[j].kind = "induction"
        /\ i \in DOMAIN job.blocks[b].steps /\ job.blocks[b].steps[i].kind = "induction"
        /\ job.blocks[a].steps[j].body = job.blocks[b].steps[i].body
        /\ a \in DOMAIN job.blocks /\ b \in DOMAIN job.blocks
    BY DEF Inductions, IsInduction, Body, Elements, Blocks
  <2>2. QED BY <2>1 DEF GamesList
<1>2. Parent(Body(b, i)) = b
  BY <1>1 DEF Parent
<1>3. QED BY <1>1, <1>2 DEF Position

LEMMA LastStepFacts ==
    ASSUME GamesList(job.blocks), NEW b \in Blocks
    PROVE  LastStep(b) \in Nat
<1> DEFINE S == {i \in Anchors(b) : IsStep(b, i)}
<1>1. S \in SUBSET (1..Len(Elements(b))) /\ Len(Elements(b)) \in Nat
  BY ElementFacts
<1>2. 1 \in S
  BY ElementFacts DEF Anchors, IsStep
<1> HIDE DEF S
<1>3. LastIndex(S) \in S
  BY <1>1, <1>2, GreatestElement
<1>4. LastIndex(S) = LastStep(b)
  BY DEF S, LastStep
<1>5. \A i \in S : i \in Nat
  BY <1>1
<1>6. QED BY <1>3, <1>4, <1>5

LEMMA NextAnchorFacts ==
    ASSUME GamesList(job.blocks), NEW b \in Blocks, NEW i \in HopStarts(b)
    PROVE  i \in Anchors(b) /\ NextAnchor(b, i) \in Anchors(b)
<1>1. i \in Anchors(b) /\ Followers(b, i) # {} /\ Followers(b, i) \subseteq Anchors(b)
  BY DEF HopStarts, Followers
<1>2. Followers(b, i) \in SUBSET Nat
  BY <1>1, ElementFacts
<1>3. \E j \in Followers(b, i) : \A k \in Followers(b, i) : j <= k
  BY <1>1, <1>2, LeastElement
<1>4. NextAnchor(b, i) \in Followers(b, i)
  BY <1>3 DEF NextAnchor
<1>5. QED BY <1>1, <1>4

LEMMA InTextOrderFacts ==
    ASSUME GamesList(job.blocks), NEW b \in Blocks
    PROVE  /\ Cardinality(HopStarts(b)) \in Nat
           /\ DOMAIN InTextOrder(b) = 1..Cardinality(HopStarts(b))
           /\ \A k \in DOMAIN InTextOrder(b) : InTextOrder(b)[k] \in HopStarts(b)
<1>1. HopStarts(b) \in SUBSET (1..Len(Elements(b))) /\ Len(Elements(b)) \in Nat
  BY ElementFacts DEF HopStarts
<1>2. Cardinality(HopStarts(b)) \in Nat
  <2>1. IsFiniteSet(1..Len(Elements(b)))
    BY <1>1, FS_Interval
  <2>2. IsFiniteSet(HopStarts(b))
    BY <1>1, <2>1, FS_Subset
  <2>3. QED BY <2>2, FS_CardinalityType
<1>3. ASSUME NEW k \in 1..Cardinality(HopStarts(b))
      PROVE  InTextOrder(b)[k] \in HopStarts(b)
  <2>1. \E i \in HopStarts(b) : Cardinality({j \in HopStarts(b) : j <= i}) = k
    BY <1>1, CountReaches
  <2>2. QED BY <2>1 DEF InTextOrder
<1>4. QED BY <1>2, <1>3 DEF InTextOrder

-------------------------------------------------------------------------------
(* The inductive invariant.                                                *)

(* What a hop carries fits the text: an equivalence hop the assumptions    *)
(* written before it, a hop into an induction the induction's body.        *)
Fits(h) ==
    /\ h.kind \in HopKinds
    /\ h.valid \in BOOLEAN
    /\ h.cur \in GameSet /\ h.next \in GameSet
    /\ h.kind = "equivalent" => h.assuming = WrittenConditions(h)
    /\ h.body # 0 => h.body \in Blocks

Typed ==
    /\ pc \in {"start", "lemmas", "hops", "enter", "pool", "report", "conclude"}
              \cup Outcomes
    /\ todo \subseteq job.file.lemmas
    /\ assumed \subseteq job.file.assume \cup job.file.lemmas
    /\ lemma_games \cup proven \subseteq job.file.lemmas
    /\ current_step \in Nat

(* Every active call prepared its hops, and stands at the hop that started *)
(* the next call.                                                          *)
Call(d) ==
    /\ Len(frames[d].hops) \in Nat
    /\ DOMAIN frames[d].hops = 1..Len(frames[d].hops)
    /\ frames[d].pos \in 1..Len(frames[d].hops) + 1
    /\ \A k \in DOMAIN frames[d].hops : Fits(frames[d].hops[k])
    /\ d > 1 => /\ frames[d - 1].pos \in DOMAIN frames[d - 1].hops
                /\ frames[d - 1].hops[frames[d - 1].pos].body = frames[d].block

Called ==
    /\ \E hops : frames \in Seq([block : Blocks, hops : hops, pos : Nat])
    /\ \A d \in DOMAIN frames : Call(d)
    /\ pc \in {"start", "lemmas"} => frames = <<>>
    /\ pc = "enter" => HasHop /\ CurrentHop.body # 0

Entry(r) ==
    /\ r.kind \in Kinds
    /\ r.valid \in BOOLEAN
    /\ r.cur \in GameSet /\ r.next \in GameSet
    /\ r.kind \in {"equivalent", "induction_rollover"} => r.assuming = WrittenConditions(r)

Reported ==
    /\ \E results : hop_results \in Seq(results)
    /\ \A i \in DOMAIN hop_results : Entry(hop_results[i])

IInv == GamesList(job.blocks) /\ Typed /\ Called /\ Reported

(* The text stays what it is.                                              *)
LEMMA TextKept ==
    ASSUME job' = job, NEW r
    PROVE  /\ WrittenConditions(r)' = WrittenConditions(r)
           /\ Blocks' = Blocks
           /\ GamesList(job.blocks)' <=> GamesList(job.blocks)
<1>1. WrittenConditions(r)' = WrittenConditions(r)
  BY DEF Parent, Blocks, Inductions, IsInduction, Elements, Body, WrittenConditions,
         Conditions, Anchors, Scope, Position
<1>2. QED BY <1>1 DEF Blocks

LEMMA FitsKept ==
    ASSUME job' = job, NEW r
    PROVE  (Fits(r)' <=> Fits(r)) /\ (Entry(r)' <=> Entry(r))
BY TextKept DEF Fits, Entry, HopKinds, Kinds, GameSet

-------------------------------------------------------------------------------
(* Preparing hops.                                                         *)

LEMMA HopKindFacts ==
    ASSUME NEW c, NEW n
    PROVE  HopKind(c, n) \in HopKinds
<1>1. CASE ByIndistinguishability(c, n)
  BY <1>1 DEF HopKind, HopKinds
<1>2. CASE ~ByIndistinguishability(c, n) /\ ByUpto(c, n)
  BY <1>2 DEF HopKind, HopKinds
<1>3. CASE ~ByIndistinguishability(c, n) /\ ~ByUpto(c, n)
  BY <1>3 DEF HopKind, HopKinds
<1>4. QED BY <1>1, <1>2, <1>3

LEMMA GameFacts ==
    ASSUME NEW b \in Nat, NEW i \in Nat, NEW at \in {"free", "start", "end", "succ"}
    PROVE  Game(b, i, at) \in GameSet
BY DEF Game, GameSet

(* A prepared hop leads from where its element ends to where the next one  *)
(* begins, with the variables of the block it stands in.                   *)
LEMMA PrepareHopPlace ==
    ASSUME GamesList(job.blocks), NEW b \in Blocks, NEW i \in HopStarts(b),
           NEW h, h = PrepareHop(b, i)
    PROVE  /\ h.cur \in GameSet /\ h.next \in GameSet
           /\ Scope(h) = b
           /\ (IF h.next.at = "start" THEN Position(h.next.block) ELSE h.next.index)
              = NextAnchor(b, i)
           /\ LinkOf(h) = Link(b, i)
<1> DEFINE j == NextAnchor(b, i)
<1>1. i \in Anchors(b) /\ j \in Anchors(b)
  BY NextAnchorFacts
<1>2. b \in Nat /\ i \in Nat /\ j \in Nat
  BY <1>1, ElementFacts
<1>3. h.cur = HopSource(b, i) /\ h.next = HopTarget(b, j)
  BY DEF PrepareHop
<1>4. /\ h.cur \in GameSet
      /\ Scope(h) = b
      /\ h.cur = Link(b, i).cur
  <2>1. CASE IsStep(b, i)
    <3>1. h.cur = Game(b, i, "free")
      BY <1>3, <2>1 DEF HopSource
    <3>2. h.cur \in GameSet
      BY <1>2, <3>1, GameFacts
    <3>3. Scope(h) = b
      BY <3>1 DEF Scope, Game
    <3>4. QED BY <2>1, <3>1, <3>2, <3>3 DEF Link
  <2>2. CASE ~IsStep(b, i)
    <3>1. i \in Inductions(b) /\ Body(b, i) \in Blocks
      BY <1>1, <2>2, ElementFacts
    <3>2. h.cur = Game(Body(b, i), LastStep(Body(b, i)), "end")
      BY <1>3, <2>2 DEF HopSource, Body
    <3>3. Body(b, i) \in Nat /\ LastStep(Body(b, i)) \in Nat
      BY <3>1, ElementFacts, LastStepFacts
    <3>4. h.cur.at = "end" /\ h.cur.block = Body(b, i)
      BY <3>2 DEF Game
    <3>5. Scope(h) = b
      <4>1. Parent(Body(b, i)) = b
        BY <3>1, BodyPlace
      <4>2. QED BY <3>4, <4>1 DEF Scope
    <3>6. QED BY <2>2, <3>2, <3>3, <3>5, GameFacts DEF Link
  <2>3. QED BY <2>1, <2>2
<1>5. /\ h.next \in GameSet
      /\ (IF h.next.at = "start" THEN Position(h.next.block) ELSE h.next.index) = j
      /\ h.next = Link(b, i).next
  <2>1. CASE IsStep(b, j)
    <3>1. h.next = Game(b, j, "free")
      BY <1>3, <2>1 DEF HopTarget
    <3>2. h.next \in GameSet
      BY <1>2, <3>1, GameFacts
    <3>3. h.next = Link(b, i).next
      BY <2>1, <3>1 DEF Link
    <3> HIDE DEF j
    <3>4. h.next.at = "free" /\ h.next.index = j
      BY <3>1 DEF Game
    <3>5. QED BY <3>2, <3>3, <3>4
  <2>2. CASE ~IsStep(b, j)
    <3>1. j \in Inductions(b) /\ Body(b, j) \in Blocks
      BY <1>1, <2>2, ElementFacts
    <3>2. h.next = Game(Body(b, j), 1, "start")
      BY <1>3, <2>2 DEF HopTarget, Body
    <3>3. Body(b, j) \in Nat
      BY <3>1, ElementFacts
    <3>4. h.next.at = "start" /\ h.next.block = Body(b, j)
      BY <3>2 DEF Game
    <3>5. h.next = Link(b, i).next
      BY <2>2, <3>2 DEF Link
    <3>6. Position(h.next.block) = j
      <4>1. Position(Body(b, j)) = j
        BY <3>1, BodyPlace
      <4> HIDE DEF j
      <4>2. QED BY <3>4, <4>1
    <3>7. QED BY <3>2, <3>3, <3>4, <3>5, <3>6, GameFacts
  <2>3. QED BY <2>1, <2>2
<1>6. LinkOf(h) = Link(b, i)
  <2>1. Link(b, i) = [cur |-> Link(b, i).cur, next |-> Link(b, i).next]
    BY DEF Link
  <2>2. QED BY <1>4, <1>5, <2>1 DEF LinkOf
<1>7. QED BY <1>4, <1>5, <1>6

(* The check that leaves an element and enters the next runs under the     *)
(* assumptions written between the two.                                    *)
LEMMA PrepareHopFits ==
    ASSUME GamesList(job.blocks), NEW b \in Blocks, NEW i \in HopStarts(b)
    PROVE  Fits(PrepareHop(b, i))
<1> DEFINE j == NextAnchor(b, i)
           h == PrepareHop(b, i)
<1>1. j \in Anchors(b)
  BY NextAnchorFacts
<1>2. h.kind \in HopKinds
  BY HopKindFacts DEF PrepareHop, HopKinds
<1>3. h.valid \in BOOLEAN
  BY DEF PrepareHop
<1>4. h.body # 0 => h.body \in Blocks
  BY <1>1, ElementFacts DEF PrepareHop, Body
<1>5. h.kind = "equivalent" => h.assuming = Conditions(b, j)
  BY DEF PrepareHop
<1> HIDE DEF h
<1>6. /\ h.cur \in GameSet /\ h.next \in GameSet
      /\ Scope(h) = b
      /\ (IF h.next.at = "start" THEN Position(h.next.block) ELSE h.next.index) = j
  BY PrepareHopPlace DEF h
<1>7. h.kind = "equivalent" => h.assuming = WrittenConditions(h)
  <2> HIDE DEF j
  <2>1. QED BY <1>2, <1>5, <1>6 DEF WrittenConditions, HopKinds
<1>8. Fits(h)
  BY <1>2, <1>3, <1>4, <1>6, <1>7 DEF Fits
<1>9. QED BY <1>8 DEF h

LEMMA PrepareHopsFit ==
    ASSUME GamesList(job.blocks), NEW b \in Blocks
    PROVE  /\ Len(PrepareHops(b)) \in Nat
           /\ DOMAIN PrepareHops(b) = 1..Len(PrepareHops(b))
           /\ \A k \in DOMAIN PrepareHops(b) : Fits(PrepareHops(b)[k])
<1> DEFINE starts == InTextOrder(b)
           n == Cardinality(HopStarts(b))
<1>1. PrepareHops(b) = [k \in DOMAIN starts |-> PrepareHop(b, starts[k])]
  BY DEF PrepareHops
<1>2. n \in Nat /\ DOMAIN starts = 1..n /\ \A k \in DOMAIN starts : starts[k] \in HopStarts(b)
  BY InTextOrderFacts
<1> HIDE DEF starts, n
<1>3. DOMAIN PrepareHops(b) = 1..n /\ \A k \in 1..n : PrepareHops(b)[k] = PrepareHop(b, starts[k])
  BY <1>1, <1>2
<1>4. PrepareHops(b) \in [1..n -> {PrepareHop(b, starts[k]) : k \in 1..n}]
  BY <1>1, <1>2
<1>5. Len(PrepareHops(b)) = n
  BY <1>2, <1>4
<1>6. QED BY <1>2, <1>3, <1>5, PrepareHopFits

-------------------------------------------------------------------------------
(* The steps on hop_results and on the active calls.                       *)

LEMMA AppendFacts ==
    ASSUME NEW S, NEW s \in Seq(S), NEW x
    PROVE  /\ Append(s, x) \in Seq(S \cup {x})
           /\ Len(s) \in Nat /\ DOMAIN s = 1..Len(s)
           /\ Len(Append(s, x)) = Len(s) + 1
           /\ DOMAIN Append(s, x) = 1..Len(s) + 1
           /\ \A i \in 1..Len(s) : Append(s, x)[i] = s[i]
           /\ Append(s, x)[Len(s) + 1] = x
OBVIOUS

LEMMA InitIInv == Init => IInv
<1> SUFFICES ASSUME Init PROVE IInv
  OBVIOUS
<1>1. PICK f \in Files : job.file = f /\ job.blocks = ProofBlocks(f)
  BY DEF Init
<1>2. GamesList(job.blocks)
  BY <1>1, ProofBlocksGamesList
<1>3. Typed
  BY DEF Init, Typed
<1>4. Called
  <2>1. frames \in Seq([block : Blocks, hops : {}, pos : Nat])
    BY DEF Init
  <2>2. QED BY <2>1 DEF Init, Called
<1>5. Reported
  <2>1. hop_results \in Seq({})
    BY DEF Init
  <2>2. QED BY <2>1 DEF Init, Reported
<1>6. QED BY <1>2, <1>3, <1>4, <1>5 DEF IInv

LEMMA ReportStep ==
    ASSUME Reported, job' = job, NEW r, Entry(r), hop_results' = Append(hop_results, r)
    PROVE  Reported'
<1>1. PICK S : hop_results \in Seq(S)
  BY DEF Reported
<1>2. hop_results' \in Seq(S \cup {r})
  BY <1>1, AppendFacts
<1>3. ASSUME NEW i \in DOMAIN hop_results'
      PROVE  Entry(hop_results[i])'
  <2>1. CASE i \in DOMAIN hop_results
    <3>1. hop_results'[i] = hop_results[i]
      BY <1>1, <2>1, AppendFacts
    <3>2. Entry(hop_results[i])
      BY <2>1 DEF Reported
    <3>3. QED BY <3>1, <3>2, FitsKept
  <2>2. CASE i = Len(hop_results) + 1
    <3>1. hop_results'[i] = r
      BY <1>1, <2>2, AppendFacts
    <3>2. QED BY <3>1, FitsKept
  <2>3. i \in DOMAIN hop_results \/ i = Len(hop_results) + 1
    BY <1>1, AppendFacts
  <2>4. QED BY <2>1, <2>2, <2>3
<1>4. QED BY <1>2, <1>3 DEF Reported

LEMMA ReportedKept ==
    ASSUME Reported, UNCHANGED <<job, hop_results>>
    PROVE  Reported'
<1>1. ASSUME NEW i \in DOMAIN hop_results'
      PROVE  Entry(hop_results[i])'
  BY FitsKept DEF Reported
<1>2. QED BY <1>1 DEF Reported

LEMMA CalledKept ==
    ASSUME Called, UNCHANGED <<job, frames>>,
           pc' \in {"start", "lemmas"} => frames = <<>>,
           pc' = "enter" => HasHop /\ CurrentHop.body # 0
    PROVE  Called'
<1>1. \A d \in DOMAIN frames : Call(d)'
  <2> TAKE d \in DOMAIN frames
  <2>1. Call(d)
    BY DEF Called
  <2>2. QED BY <2>1, FitsKept DEF Call
<1>2. pc' = "enter" => (HasHop /\ CurrentHop.body # 0)'
  BY DEF HasHop, CurrentHop, Frame, Depth
<1>3. QED BY <1>1, <1>2, TextKept DEF Called

(* A call like an active one, perhaps further on: what Call says of it     *)
(* speaks of the text only.                                                *)
LEMMA CallKept ==
    ASSUME Called, job' = job, NEW d \in DOMAIN frames, d \in DOMAIN frames',
           frames'[d].hops = frames[d].hops, frames'[d].block = frames[d].block,
           frames'[d].pos \in 1..Len(frames[d].hops) + 1,
           d > 1 => frames'[d - 1] = frames[d - 1]
    PROVE  Call(d)'
<1>1. Call(d)
  BY DEF Called
<1>2. \A k \in DOMAIN frames'[d].hops : Fits(frames[d].hops[k])'
  BY <1>1, FitsKept DEF Call
<1>3. QED BY <1>1, <1>2 DEF Call

(* The active calls, by their depth.                                       *)
LEMMA FramesFacts ==
    ASSUME Called
    PROVE  /\ Depth \in Nat /\ DOMAIN frames = 1..Depth
           /\ \A d \in 1..Depth : frames[d].block \in Blocks /\ frames[d].pos \in Nat
<1>1. PICK H : frames \in Seq([block : Blocks, hops : H, pos : Nat])
  BY DEF Called
<1> DEFINE F == [block : Blocks, hops : H, pos : Nat]
<1>2. Depth \in Nat /\ DOMAIN frames = 1..Depth /\ \A d \in 1..Depth : frames[d] \in F
  <2> HIDE DEF F
  <2>1. frames \in Seq(F)
    BY <1>1 DEF F
  <2>2. QED BY <2>1 DEF Depth
<1>3. \A d \in 1..Depth : frames[d].block \in Blocks /\ frames[d].pos \in Nat
  BY <1>2
<1>4. QED BY <1>2, <1>3

(* The innermost call moves on to its next hop.                            *)
LEMMA NextHopFrames ==
    ASSUME Called, HasHop, frames' = NextHop
    PROVE  /\ Depth \in Nat \ {0} /\ DOMAIN frames = 1..Depth
           /\ DOMAIN frames' = 1..Depth /\ Depth' = Depth
           /\ frames'[Depth].block = frames[Depth].block
           /\ frames'[Depth].hops = frames[Depth].hops
           /\ frames'[Depth].pos = frames[Depth].pos + 1
           /\ \A d \in 1..Depth : d # Depth => frames'[d] = frames[d]
           /\ \E hops : frames' \in Seq([block : Blocks, hops : hops, pos : Nat])
<1>1. PICK H : frames \in Seq([block : Blocks, hops : H, pos : Nat])
  BY DEF Called
<1> DEFINE F == [block : Blocks, hops : H, pos : Nat]
<1>2. Depth \in Nat \ {0} /\ DOMAIN frames = 1..Depth
  BY <1>1 DEF HasHop, Depth
<1>3. frames[Depth] \in F
  <2> HIDE DEF F
  <2>1. frames \in Seq(F)
    BY <1>1 DEF F
  <2>2. QED BY <1>2, <2>1 DEF Depth
<1> DEFINE g == [frames[Depth] EXCEPT !.pos = @ + 1]
<1>4. g \in F /\ g.block = frames[Depth].block /\ g.hops = frames[Depth].hops
      /\ g.pos = frames[Depth].pos + 1
  BY <1>3
<1>5. frames' = [frames EXCEPT ![Depth] = g]
  BY DEF NextHop
<1> HIDE DEF g, F
<1>6. frames' \in Seq(F) /\ DOMAIN frames' = DOMAIN frames /\ frames'[Depth] = g
      /\ (\A d \in DOMAIN frames : d # Depth => frames'[d] = frames[d])
      /\ Len(frames') = Len(frames)
  BY <1>1, <1>2, <1>4, <1>5 DEF Depth, F
<1>7. \E hops : frames' \in Seq([block : Blocks, hops : hops, pos : Nat])
  BY <1>6 DEF F
<1>8. Depth' = Depth
  BY <1>6 DEF Depth
<1>9. QED BY <1>2, <1>4, <1>6, <1>7, <1>8

LEMMA NextHopStep ==
    ASSUME Called, HasHop, job' = job, frames' = NextHop,
           pc' \notin {"start", "lemmas", "enter"}
    PROVE  Called'
<1>1. /\ Depth \in Nat \ {0} /\ DOMAIN frames = 1..Depth /\ DOMAIN frames' = 1..Depth
      /\ frames'[Depth].block = frames[Depth].block
      /\ frames'[Depth].hops = frames[Depth].hops
      /\ frames'[Depth].pos = frames[Depth].pos + 1
      /\ \A d \in 1..Depth : d # Depth => frames'[d] = frames[d]
  BY NextHopFrames
<1>2. /\ frames[Depth].pos \in DOMAIN frames[Depth].hops
      /\ DOMAIN frames[Depth].hops = 1..Len(frames[Depth].hops)
      /\ Len(frames[Depth].hops) \in Nat
  BY <1>1 DEF Called, Call, HasHop, Frame
<1>3. ASSUME NEW d \in DOMAIN frames'
      PROVE  Call(d)'
  <2>1. d \in DOMAIN frames /\ (d > 1 => frames'[d - 1] = frames[d - 1])
    BY <1>1
  <2>2. /\ frames'[d].hops = frames[d].hops
        /\ frames'[d].block = frames[d].block
        /\ frames'[d].pos \in 1..Len(frames[d].hops) + 1
    <3>1. CASE d = Depth
      BY <1>1, <1>2, <3>1
    <3>2. CASE d # Depth
      BY <1>1, <2>1, <3>2 DEF Called, Call
    <3>3. QED BY <3>1, <3>2
  <2>3. QED BY <2>1, <2>2, CallKept
<1>4. \E hops : frames' \in Seq([block : Blocks', hops : hops, pos : Nat])
  BY NextHopFrames, TextKept
<1>5. QED BY <1>3, <1>4 DEF Called

(* A call is added.                                                        *)
LEMMA EnterFrames ==
    ASSUME Called, NEW b \in Blocks, NEW hs,
           frames' = Append(frames, [block |-> b, hops |-> hs, pos |-> 1])
    PROVE  /\ Depth \in Nat /\ DOMAIN frames = 1..Depth
           /\ DOMAIN frames' = 1..Depth + 1 /\ Depth' = Depth + 1
           /\ \A d \in 1..Depth : frames'[d] = frames[d]
           /\ frames'[Depth + 1] = [block |-> b, hops |-> hs, pos |-> 1]
           /\ \E hops : frames' \in Seq([block : Blocks, hops : hops, pos : Nat])
<1> DEFINE g == [block |-> b, hops |-> hs, pos |-> 1]
<1>1. PICK H : frames \in Seq([block : Blocks, hops : H, pos : Nat])
  BY DEF Called
<1> DEFINE F == [block : Blocks, hops : H \cup {hs}, pos : Nat]
<1>2. frames \in Seq(F) /\ g \in F
  <2>1. Len(frames) \in Nat /\ frames \in [1..Len(frames) -> F]
    <3> DEFINE E == [block : Blocks, hops : H, pos : Nat]
    <3>1. E \subseteq F
      OBVIOUS
    <3> HIDE DEF E, F
    <3>2. \A d \in 1..Len(frames) : frames[d] \in E
      <4>1. frames \in Seq(E)
        BY <1>1 DEF E
      <4>2. QED BY <4>1
    <3>3. frames = [d \in 1..Len(frames) |-> frames[d]] /\ Len(frames) \in Nat
      BY <1>1
    <3>4. QED BY <3>1, <3>2, <3>3
  <2>2. g \in F
    OBVIOUS
  <2> HIDE DEF F, g
  <2>3. QED BY <2>1, <2>2
<1>3. frames' = Append(frames, g)
  OBVIOUS
<1> HIDE DEF g, F
<1>4. F \cup {g} = F
  BY <1>2
<1>5. /\ frames' \in Seq(F)
      /\ Len(frames) \in Nat /\ DOMAIN frames = 1..Len(frames)
      /\ Len(frames') = Len(frames) + 1
      /\ DOMAIN frames' = 1..Len(frames) + 1
      /\ \A d \in 1..Len(frames) : frames'[d] = frames[d]
      /\ frames'[Len(frames) + 1] = g
  BY <1>2, <1>3, <1>4, AppendFacts
<1>6. \E hops : frames' \in Seq([block : Blocks, hops : hops, pos : Nat])
  BY <1>5 DEF F
<1>7. QED BY <1>5, <1>6 DEF Depth, g

(* prove_steps: the call prepares its hops and starts at the first.        *)
LEMMA EnterStep ==
    ASSUME GamesList(job.blocks), Called, job' = job, NEW b \in Blocks,
           frames = <<>> \/ (HasHop /\ CurrentHop.body = b), EnterBlock(b)
    PROVE  Called' /\ pc' \in {"crashed", "pool", "hops"}
<1>1. CASE AssertionFails(b)
  <2>1. pc' = "crashed" /\ UNCHANGED frames
    BY <1>1 DEF EnterBlock
  <2>2. QED BY <2>1, CalledKept
<1>2. CASE ~AssertionFails(b)
  <2> DEFINE g == [block |-> b, hops |-> PrepareHops(b), pos |-> 1]
  <2>1. frames' = Append(frames, g) /\ pc' \in {"pool", "hops"}
    BY <1>2 DEF EnterBlock
  <2>2. g.block = b /\ g.hops = PrepareHops(b) /\ g.pos = 1
    OBVIOUS
  <2>3. /\ Depth \in Nat /\ DOMAIN frames = 1..Depth
        /\ DOMAIN frames' = 1..Depth + 1
        /\ \A d \in 1..Depth : frames'[d] = frames[d]
        /\ frames'[Depth + 1] = g
    BY <2>1, EnterFrames
  <2> HIDE DEF g
  <2>4. ASSUME NEW d \in DOMAIN frames'
        PROVE  Call(d)'
    <3>1. CASE d \in DOMAIN frames
      <4>1. Call(d) /\ d \in DOMAIN frames' /\ frames'[d] = frames[d]
            /\ (d > 1 => frames'[d - 1] = frames[d - 1])
        BY <2>3, <3>1 DEF Called
      <4>2. frames'[d].pos \in 1..Len(frames[d].hops) + 1
        BY <4>1 DEF Call
      <4>3. QED BY <3>1, <4>1, <4>2, CallKept
    <3>2. CASE d = Depth + 1
      <4>1. frames'[d] = g
        BY <2>3, <3>2
      <4>2. /\ Len(frames'[d].hops) \in Nat
            /\ DOMAIN frames'[d].hops = 1..Len(frames'[d].hops)
            /\ frames'[d].pos \in 1..Len(frames'[d].hops) + 1
            /\ \A k \in DOMAIN frames'[d].hops : Fits(frames'[d].hops[k])
        BY <2>2, <4>1, PrepareHopsFit
      <4>3. \A k \in DOMAIN frames'[d].hops : Fits(frames[d].hops[k])'
        BY <4>2, FitsKept
      <4>4. d > 1 => /\ frames'[d - 1].pos \in DOMAIN frames'[d - 1].hops
                     /\ frames'[d - 1].hops[frames'[d - 1].pos].body = frames'[d].block
        <5>1. SUFFICES ASSUME d > 1
                       PROVE  /\ frames[d - 1].pos \in DOMAIN frames[d - 1].hops
                              /\ frames[d - 1].hops[frames[d - 1].pos].body = b
          BY <2>2, <2>3, <3>2, <4>1
        <5>2. frames # <<>> /\ Depth = d - 1
          BY <2>3, <3>2, <5>1 DEF Depth
        <5>3. QED BY <5>2 DEF HasHop, CurrentHop, Frame
      <4>5. QED BY <4>2, <4>3, <4>4 DEF Call
    <3>3. QED BY <2>3, <3>1, <3>2
  <2>5. \E hops : frames' \in Seq([block : Blocks', hops : hops, pos : Nat])
    BY <2>1, EnterFrames, TextKept DEF g
  <2>6. QED BY <2>1, <2>4, <2>5 DEF Called
<1>3. QED BY <1>1, <1>2

(* The innermost call returns, and its caller moves on to its next hop.    *)
LEMMA LeaveFrames ==
    ASSUME Called, Depth > 1,
           frames' = [Front(frames) EXCEPT ![Depth - 1].pos = @ + 1]
    PROVE  /\ Depth \in Nat /\ DOMAIN frames = 1..Depth
           /\ DOMAIN frames' = 1..Depth - 1 /\ Depth' = Depth - 1
           /\ frames'[Depth - 1].block = frames[Depth - 1].block
           /\ frames'[Depth - 1].hops = frames[Depth - 1].hops
           /\ frames'[Depth - 1].pos = frames[Depth - 1].pos + 1
           /\ \A d \in 1..Depth - 1 : d # Depth - 1 => frames'[d] = frames[d]
           /\ \E hops : frames' \in Seq([block : Blocks, hops : hops, pos : Nat])
<1>1. PICK H : frames \in Seq([block : Blocks, hops : H, pos : Nat])
  BY DEF Called
<1> DEFINE F == [block : Blocks, hops : H, pos : Nat]
           n == Depth - 1
<1>2. Depth \in Nat /\ DOMAIN frames = 1..Depth /\ n \in Nat \ {0} /\ n \in 1..Depth
  <2> HIDE DEF F
  <2>1. frames \in Seq(F)
    BY <1>1 DEF F
  <2>2. Depth \in Nat /\ DOMAIN frames = 1..Depth
    BY <2>1 DEF Depth
  <2>3. QED BY <2>2
<1>3. \A d \in DOMAIN frames : frames[d] \in F
  <2> HIDE DEF F
  <2>1. frames \in Seq(F)
    BY <1>1 DEF F
  <2>2. QED BY <2>1
<1> DEFINE g == [frames[n] EXCEPT !.pos = @ + 1]
<1>4. g \in F /\ g.block = frames[n].block /\ g.hops = frames[n].hops
      /\ g.pos = frames[n].pos + 1
  BY <1>2, <1>3
<1>5. /\ DOMAIN Front(frames) = 1..n
      /\ \A d \in 1..n : Front(frames)[d] = frames[d]
  <2> HIDE DEF F
  <2>1. frames \in Seq(F)
    BY <1>1 DEF F
  <2>2. QED BY <1>2, <2>1 DEF Front, Depth
<1>6. frames' = [Front(frames) EXCEPT ![n] = g]
  BY <1>2, <1>5
<1> HIDE DEF g, F, n
<1>7. /\ DOMAIN frames' = 1..n /\ frames'[n] = g
      /\ \A d \in 1..n : d # n => frames'[d] = frames[d]
  BY <1>2, <1>5, <1>6
<1>8. frames' \in Seq(F)
  <2>1. frames' \in [1..n -> F]
    <3>1. frames' = [d \in 1..n |-> frames'[d]]
      BY <1>5, <1>6
    <3>2. \A d \in 1..n : frames'[d] \in F
      BY <1>2, <1>3, <1>4, <1>7 DEF n
    <3>3. QED BY <3>1, <3>2
  <2>2. \A m \in Nat : [1..m -> F] \subseteq Seq(F)
    OBVIOUS
  <2>3. n \in Nat
    BY <1>2
  <2>4. QED BY <2>1, <2>2, <2>3
<1>9. \E hops : frames' \in Seq([block : Blocks, hops : hops, pos : Nat])
  BY <1>8 DEF F
<1>10. Depth' = n
  <2>1. Len(frames') \in Nat /\ DOMAIN frames' = 1..Len(frames')
    BY <1>8
  <2>2. QED BY <1>2, <1>7, <2>1 DEF Depth
<1>11. QED BY <1>2, <1>4, <1>7, <1>9, <1>10 DEF n

LEMMA LeaveStep ==
    ASSUME Called, Depth > 1, job' = job,
           frames' = [Front(frames) EXCEPT ![Depth - 1].pos = @ + 1],
           pc' \notin {"start", "lemmas", "enter"}
    PROVE  Called'
<1> DEFINE n == Depth - 1
<1>1. /\ Depth \in Nat /\ DOMAIN frames = 1..Depth /\ DOMAIN frames' = 1..n
      /\ frames'[n].block = frames[n].block
      /\ frames'[n].hops = frames[n].hops
      /\ frames'[n].pos = frames[n].pos + 1
      /\ \A d \in 1..n : d # n => frames'[d] = frames[d]
  BY LeaveFrames
<1>2. /\ frames[n].pos \in DOMAIN frames[n].hops
      /\ DOMAIN frames[n].hops = 1..Len(frames[n].hops) /\ Len(frames[n].hops) \in Nat
  <2>1. Call(Depth) /\ Call(n)
    BY <1>1 DEF Called
  <2>2. QED BY <2>1 DEF Call
<1>3. ASSUME NEW d \in DOMAIN frames'
      PROVE  Call(d)'
  <2>1. d \in DOMAIN frames /\ (d > 1 => frames'[d - 1] = frames[d - 1])
    BY <1>1
  <2>2. /\ frames'[d].hops = frames[d].hops
        /\ frames'[d].block = frames[d].block
        /\ frames'[d].pos \in 1..Len(frames[d].hops) + 1
    <3>1. CASE d = n
      <4>1. frames[n].pos + 1 \in 1..Len(frames[n].hops) + 1
        BY <1>2
      <4>2. QED BY <1>1, <3>1, <4>1
    <3>2. CASE d # n
      BY <1>1, <2>1, <3>2 DEF Called, Call
    <3>3. QED BY <3>1, <3>2
  <2>3. QED BY <2>1, <2>2, CallKept
<1>4. \E hops : frames' \in Seq([block : Blocks', hops : hops, pos : Nat])
  BY LeaveFrames, TextKept
<1>5. QED BY <1>3, <1>4 DEF Called

-------------------------------------------------------------------------------
(* The actions.                                                            *)

(* The steps that take no hop.                                             *)
LEMMA OtherSteps ==
    ASSUME IInv,
           \/ ReadFile
           \/ \E l \in todo : SkipLemma(l) \/ VerifyLemma(l) \/ LemmaFails(l)
           \/ HopsDone \/ (\E k \in DOMAIN pool : TaskDone(k))
           \/ PoolBroken \/ PoolDone \/ ReportsDone \/ Succeed \/ Fail
           \/ UNCHANGED vars
    PROVE  IInv'
<1>1. UNCHANGED <<job, frames, hop_results, current_step>> /\ Typed'
  <2>1. CASE ReadFile
    BY <2>1 DEF IInv, Typed, ReadFile, Outcomes, lemmaVars
  <2>2. CASE \E l \in todo : SkipLemma(l) \/ VerifyLemma(l) \/ LemmaFails(l)
    <3>1. PICK l \in todo : SkipLemma(l) \/ VerifyLemma(l) \/ LemmaFails(l)
      BY <2>2
    <3>2. UNCHANGED <<job, frames, hop_results, current_step>> /\ pc' \in {pc, "failed"}
      BY <3>1 DEF SkipLemma, VerifyLemma, LemmaFails, UseLemma
    <3>3. /\ todo' \subseteq job.file.lemmas
          /\ assumed' \subseteq job.file.assume \cup job.file.lemmas
          /\ lemma_games' \cup proven' \subseteq job.file.lemmas
      BY <3>1 DEF IInv, Typed, SkipLemma, VerifyLemma, LemmaFails, UseLemma, lemmaVars
    <3>4. QED BY <3>2, <3>3 DEF IInv, Typed, Outcomes
  <2>3. CASE HopsDone \/ (\E k \in DOMAIN pool : TaskDone(k)) \/ PoolBroken \/ PoolDone
             \/ ReportsDone
    BY <2>3 DEF IInv, Typed, HopsDone, TaskDone, PoolBroken, PoolDone, ReportsDone,
                Outcomes, lemmaVars
  <2>4. CASE Succeed \/ Fail
    BY <2>4 DEF IInv, Typed, Succeed, Fail, Outcomes, lemmaVars
  <2>5. CASE UNCHANGED vars
    BY <2>5 DEF IInv, Typed, Outcomes, vars, lemmaVars
  <2>6. QED BY <2>1, <2>2, <2>3, <2>4, <2>5
<1>2. /\ pc' \in {"start", "lemmas"} => frames = <<>>
      /\ pc' = "enter" => HasHop /\ CurrentHop.body # 0
  <2>1. \/ pc' = pc
        \/ pc = "start"
        \/ pc' \in {"conclude", "report", "crashed", "succeeded", "failed"}
    BY DEF ReadFile, SkipLemma, VerifyLemma, LemmaFails, HopsDone, TaskDone, PoolBroken,
           PoolDone, ReportsDone, Succeed, Fail, vars
  <2>2. pc = "start" => pc' # "enter"
    BY DEF ReadFile, SkipLemma, VerifyLemma, LemmaFails, HopsDone, TaskDone, PoolBroken,
           PoolDone, ReportsDone, Succeed, Fail, vars
  <2>3. QED BY <2>1, <2>2 DEF IInv, Called
<1>3. Called'
  BY <1>1, <1>2, CalledKept DEF IInv
<1>4. Reported'
  BY <1>1, ReportedKept DEF IInv
<1>5. GamesList(job.blocks)'
  BY <1>1, TextKept DEF IInv
<1>6. QED BY <1>1, <1>3, <1>4, <1>5 DEF IInv

LEMMA StartStep ==
    ASSUME IInv, Start
    PROVE  IInv'
<1>1. GamesList(job.blocks) /\ Called /\ frames = <<>> /\ 1 \in Blocks /\ EnterBlock(1)
      /\ UNCHANGED <<job, hop_results>>
  BY DEF IInv, Called, Start, GamesList, Blocks
<1>2. Called' /\ pc' \in {"crashed", "pool", "hops"}
  BY <1>1, EnterStep
<1>3. Typed'
  BY <1>2 DEF IInv, Typed, Start, lemmaVars, Outcomes
<1>4. QED BY <1>1, <1>2, <1>3, ReportedKept, TextKept DEF IInv

(* The hop at hand is one its call prepared.                               *)
LEMMA CurrentHopFits ==
    ASSUME Called, HasHop
    PROVE  Fits(CurrentHop)
<1>1. PICK H : frames \in Seq([block : Blocks, hops : H, pos : Nat])
  BY DEF Called
<1>2. Depth \in DOMAIN frames
  BY <1>1 DEF HasHop, Depth
<1>3. Call(Depth) /\ frames[Depth].pos \in DOMAIN frames[Depth].hops
  BY <1>2 DEF Called, HasHop, Frame
<1>4. QED BY <1>3 DEF Call, CurrentHop, Frame

LEMMA EnterInductionStep ==
    ASSUME IInv, EnterInduction
    PROVE  IInv'
<1>1. GamesList(job.blocks) /\ Called /\ HasHop /\ CurrentHop.body # 0
      /\ UNCHANGED <<job, hop_results>> /\ EnterBlock(CurrentHop.body)
  BY DEF IInv, Called, EnterInduction
<1>2. CurrentHop.body \in Blocks
  BY <1>1, CurrentHopFits DEF Fits
<1>3. Called' /\ pc' \in {"crashed", "pool", "hops"}
  BY <1>1, <1>2, EnterStep
<1>4. Typed'
  BY <1>3 DEF IInv, Typed, EnterInduction, lemmaVars, Outcomes
<1>5. QED BY <1>1, <1>3, <1>4, ReportedKept, TextKept DEF IInv

(* An entry for a hop fits the text when the check ran under the           *)
(* assumptions the hop carries.                                            *)
LEMMA EntryOfHop ==
    ASSUME NEW h, Fits(h), NEW r, r.kind = h.kind, r.cur = h.cur, r.next = h.next,
           r.valid \in BOOLEAN, h.kind = "equivalent" => r.assuming = h.assuming
    PROVE  Entry(r)
<1>1. WrittenConditions(r) = WrittenConditions(h)
  BY DEF WrittenConditions, Scope
<1>2. QED BY <1>1 DEF Entry, Fits, HopKinds, Kinds

LEMMA ReportAssumptionHopStep ==
    ASSUME IInv, ReportAssumptionHop
    PROVE  IInv'
<1>1. /\ HasHop /\ ~IsEquivalence(CurrentHop) /\ frames' = NextHop
      /\ UNCHANGED <<job, pc, lemmaVars>> /\ pc = "hops"
      /\ hop_results' = Append(hop_results, Result(CurrentHop, CurrentHop.kind, CurrentHop.valid))
      /\ current_step' = current_step + 1
  BY DEF ReportAssumptionHop, Report
<1>2. Entry(Result(CurrentHop, CurrentHop.kind, CurrentHop.valid))
  <2>1. Fits(CurrentHop)
    BY <1>1, CurrentHopFits DEF IInv
  <2>2. QED BY <1>1, <2>1, EntryOfHop DEF Result, IsEquivalence, Fits
<1>3. Reported'
  BY <1>1, <1>2, ReportStep DEF IInv
<1>4. Called'
  BY <1>1, NextHopStep DEF IInv
<1>5. Typed'
  BY <1>1 DEF IInv, Typed, lemmaVars, Outcomes
<1>6. QED BY <1>1, <1>3, <1>4, <1>5, TextKept DEF IInv

LEMMA CheckHopStep ==
    ASSUME IInv, CheckHop
    PROVE  IInv'
<1>1. /\ HasHop /\ IsEquivalence(CurrentHop) /\ pc = "hops"
      /\ UNCHANGED <<job, lemmaVars>>
      /\ step_assumptions' = CurrentHop.assuming
      /\ current_step' = current_step + 1
  BY DEF CheckHop, Report
<1>2. PICK valid \in BOOLEAN :
          hop_results' = Append(hop_results, Result(CurrentHop, "equivalent", valid))
  BY DEF CheckHop, Report
<1>3. Entry(Result(CurrentHop, "equivalent", valid))
  <2>1. Fits(CurrentHop)
    BY <1>1, CurrentHopFits DEF IInv
  <2>2. QED BY <1>1, <2>1, EntryOfHop DEF Result, IsEquivalence
<1>4. Reported'
  BY <1>1, <1>2, <1>3, ReportStep DEF IInv
<1>5. Called' /\ pc' \in {"hops", "enter"}
  <2>1. CASE CurrentHop.body = 0
    <3>1. frames' = NextHop /\ pc' = "hops"
      BY <1>1, <2>1 DEF CheckHop
    <3>2. QED BY <1>1, <3>1, NextHopStep DEF IInv
  <2>2. CASE CurrentHop.body # 0
    <3>1. frames' = frames /\ pc' = "enter"
      BY <2>2 DEF CheckHop
    <3>2. QED BY <1>1, <2>2, <3>1, CalledKept DEF IInv
  <2>3. QED BY <2>1, <2>2
<1>6. Typed'
  BY <1>1, <1>5 DEF IInv, Typed, lemmaVars, Outcomes
<1>7. QED BY <1>1, <1>4, <1>5, <1>6, TextKept DEF IInv

(* A worker checked with the assumptions its task carried.                 *)
LEMMA ReportPooledStep ==
    ASSUME IInv, ReportPooled
    PROVE  IInv'
<1>1. /\ HasHop /\ pc = "report" /\ frames' = NextHop /\ UNCHANGED <<job, pc, lemmaVars>>
      /\ current_step' = current_step + 1
  BY DEF ReportPooled, Report
<1>2. Fits(CurrentHop)
  BY <1>1, CurrentHopFits DEF IInv
<1>3. Reported'
  <2>1. CASE IsEquivalence(CurrentHop)
    <3> DEFINE r == [Result(CurrentHop, "equivalent", pool[Frame.pos] = "valid")
                        EXCEPT !.assuming = CurrentHop.assuming]
    <3>1. hop_results' = Append(hop_results, r)
      BY <2>1 DEF ReportPooled, Report
    <3>2. /\ r.kind = "equivalent" /\ r.cur = CurrentHop.cur /\ r.next = CurrentHop.next
          /\ r.valid \in BOOLEAN /\ r.assuming = CurrentHop.assuming
      BY DEF Result
    <3> HIDE DEF r
    <3>3. Entry(r)
      BY <1>2, <2>1, <3>2, EntryOfHop DEF IsEquivalence
    <3>4. QED BY <1>1, <3>1, <3>3, ReportStep DEF IInv
  <2>2. CASE ~IsEquivalence(CurrentHop)
    <3> DEFINE r == Result(CurrentHop, CurrentHop.kind, CurrentHop.valid)
    <3>1. hop_results' = Append(hop_results, r)
      BY <2>2 DEF ReportPooled, Report
    <3>2. /\ r.kind = CurrentHop.kind /\ r.cur = CurrentHop.cur /\ r.next = CurrentHop.next
          /\ r.valid = CurrentHop.valid
      BY DEF Result
    <3> HIDE DEF r
    <3>3. Entry(r)
      BY <1>2, <2>2, <3>2, EntryOfHop DEF IsEquivalence, Fits
    <3>4. QED BY <1>1, <3>1, <3>3, ReportStep DEF IInv
  <2>3. QED BY <2>1, <2>2
<1>4. Called'
  BY <1>1, NextHopStep DEF IInv
<1>5. Typed'
  BY <1>1 DEF IInv, Typed, lemmaVars, Outcomes
<1>6. QED BY <1>1, <1>3, <1>4, <1>5, TextKept DEF IInv

(* The rollover runs under the assumptions after the body's last step.     *)
LEMMA LeaveInductionStep ==
    ASSUME IInv, LeaveInduction
    PROVE  IInv'
<1> DEFINE b == Frame.block
           h == Rollover(b, OuterHop.step_num)
           r(valid) == [Result(h, "induction_rollover", valid) EXCEPT !.depth = @ - 1]
<1>1. /\ Depth > 1 /\ pc = "hops" /\ UNCHANGED <<job, pc, lemmaVars>>
      /\ step_assumptions' = Trailing(b)
      /\ current_step' = current_step + 1
      /\ frames' = [Front(frames) EXCEPT ![Depth - 1].pos = @ + 1]
  BY DEF LeaveInduction, Report, Rollover
<1>2. PICK valid \in BOOLEAN : hop_results' = Append(hop_results, r(valid))
  BY DEF LeaveInduction, Report
<1>3. b \in Blocks
  <2>1. PICK H : frames \in Seq([block : Blocks, hops : H, pos : Nat])
    BY DEF IInv, Called
  <2>2. Depth \in DOMAIN frames
    BY <1>1, <2>1 DEF Depth
  <2> DEFINE F == [block : Blocks, hops : H, pos : Nat]
  <2>3. frames[Depth] \in F
    <3> HIDE DEF F
    <3>1. frames \in Seq(F)
      BY <2>1 DEF F
    <3>2. QED BY <2>2, <3>1
  <2>4. QED BY <2>3 DEF Frame
<1>4. /\ r(valid).kind = "induction_rollover" /\ r(valid).valid = valid
      /\ r(valid).cur = Game(b, LastStep(b), "free") /\ r(valid).next = Game(b, 1, "succ")
      /\ r(valid).assuming = Trailing(b)
  BY <1>1 DEF Result, Rollover, IsEquivalence
<1> HIDE DEF b, r
<1>5. r(valid).cur \in GameSet /\ r(valid).next \in GameSet
  <2>1. b \in Nat /\ LastStep(b) \in Nat
    BY <1>3, ElementFacts, LastStepFacts DEF IInv
  <2>2. QED BY <1>4, <2>1, GameFacts
<1>6. WrittenConditions(r(valid)) = Trailing(b)
  BY <1>4 DEF WrittenConditions, Trailing, Game
<1>7. Entry(r(valid))
  BY <1>4, <1>5, <1>6 DEF Entry, Kinds
<1>8. Reported'
  BY <1>1, <1>2, <1>7, ReportStep DEF IInv
<1>9. Called'
  BY <1>1, LeaveStep DEF IInv
<1>10. Typed'
  BY <1>1 DEF IInv, Typed, lemmaVars, Outcomes
<1>11. QED BY <1>1, <1>8, <1>9, <1>10, TextKept DEF IInv

LEMMA NextIInv == IInv /\ [Next]_vars => IInv'
<1> SUFFICES ASSUME IInv, [Next]_vars PROVE IInv'
  OBVIOUS
<1>1. CASE Start
  BY <1>1, StartStep
<1>2. CASE ReportAssumptionHop
  BY <1>2, ReportAssumptionHopStep
<1>3. CASE CheckHop
  BY <1>3, CheckHopStep
<1>4. CASE EnterInduction
  BY <1>4, EnterInductionStep
<1>5. CASE LeaveInduction
  BY <1>5, LeaveInductionStep
<1>6. CASE ReportPooled
  BY <1>6, ReportPooledStep
<1>7. CASE \/ ReadFile
           \/ \E l \in todo : SkipLemma(l) \/ VerifyLemma(l) \/ LemmaFails(l)
           \/ HopsDone \/ (\E k \in DOMAIN pool : TaskDone(k))
           \/ PoolBroken \/ PoolDone \/ ReportsDone \/ Succeed \/ Fail
           \/ UNCHANGED vars
  BY <1>7, OtherSteps
<1>8. QED BY <1>1, <1>2, <1>3, <1>4, <1>5, <1>6, <1>7 DEF Next

-------------------------------------------------------------------------------
(* Theorems.                                                               *)

LEMMA IInvTypeOK == IInv => TypeOK
<1> SUFFICES ASSUME IInv PROVE TypeOK
  OBVIOUS
<1>1. ASSUME NEW d \in DOMAIN frames
      PROVE  /\ frames[d].block \in Blocks
             /\ frames[d].pos \in 1..Len(frames[d].hops) + 1
             /\ d > 1 => frames[d - 1].hops[frames[d - 1].pos].body = frames[d].block
  <2>1. PICK H : frames \in Seq([block : Blocks, hops : H, pos : Nat])
    BY DEF IInv, Called
  <2> DEFINE F == [block : Blocks, hops : H, pos : Nat]
  <2>2. frames[d] \in F
    <3> HIDE DEF F
    <3>1. frames \in Seq(F)
      BY <2>1 DEF F
    <3>2. QED BY <3>1
  <2>3. Call(d)
    BY DEF IInv, Called
  <2>4. QED BY <2>2, <2>3 DEF Call
<1>2. \A i \in DOMAIN hop_results :
          /\ hop_results[i].kind \in Kinds
          /\ hop_results[i].valid \in BOOLEAN
          /\ {hop_results[i].cur, hop_results[i].next} \subseteq GameSet
  BY DEF IInv, Reported, Entry
<1>3. QED BY <1>1, <1>2 DEF IInv, Typed, TypeOK

LEMMA IInvOwnAssumptions == IInv => OwnAssumptions
<1> SUFFICES ASSUME IInv, NEW r \in Checked PROVE r.assuming = WrittenConditions(r)
  BY DEF OwnAssumptions
<1>1. PICK i \in DOMAIN hop_results : r = hop_results[i]
  BY DEF Checked, ToSet
<1>2. QED BY <1>1 DEF IInv, Reported, Entry, Checked

(* The engine's variables are typed, and an inner prove_steps call is one  *)
(* that its caller's current hop has started.                              *)
THEOREM TypeCorrect == Spec => []TypeOK
<1>1. Init => IInv
  BY InitIInv
<1>2. IInv /\ [Next]_vars => IInv'
  BY NextIInv
<1>3. IInv => TypeOK
  BY IInvTypeOK
<1>4. QED BY <1>1, <1>2, <1>3, PTL DEF Spec

(* Every check runs under the step assumptions written before its hop and  *)
(* no others, in sequence or in the pool, however deep the inductions.     *)
THEOREM AssumptionsCorrect == Spec => []OwnAssumptions
<1>1. Init => IInv
  BY InitIInv
<1>2. IInv /\ [Next]_vars => IInv'
  BY NextIInv
<1>3. IInv => OwnAssumptions
  BY IInvOwnAssumptions
<1>4. QED BY <1>1, <1>2, <1>3, PTL DEF Spec

-------------------------------------------------------------------------------
(* The hops of a block.                                                    *)

LEMMA HopPlace ==
    ASSUME GamesList(job.blocks), NEW b \in Blocks, NEW i \in HopStarts(b)
    PROVE  LET j == NextAnchor(b, i) IN
           /\ i \in Nat /\ j \in Nat
           /\ IsStep(b, j) <=> ~IsInduction(b, j)
           /\ IsInduction(b, j) => Body(b, j) \in Blocks /\ b < Body(b, j)
<1> DEFINE j == NextAnchor(b, i)
<1>1. i \in Anchors(b) /\ j \in Anchors(b)
  BY NextAnchorFacts
<1>2. j \in DOMAIN Elements(b) /\ b \in DOMAIN job.blocks /\ b \in Nat
      /\ i \in Nat /\ j \in Nat
  BY <1>1, ElementFacts DEF Anchors, Blocks
<1>3. Elements(b)[j].kind \in ElementKinds /\ Elements(b)[j].kind # "assume"
  BY <1>1, <1>2 DEF GamesList, Elements, Anchors
<1>4. Elements(b)[j].kind = "induction" =>
          Elements(b)[j].body \in DOMAIN job.blocks /\ Elements(b)[j].body > b
  BY <1>2 DEF GamesList, Elements
<1>5. Elements(b)[j].body \in DOMAIN job.blocks => Elements(b)[j].body \in Nat
  BY DEF GamesList
<1> HIDE DEF j
<1>6. /\ i \in Nat /\ j \in Nat
      /\ IsStep(b, j) <=> ~IsInduction(b, j)
      /\ IsInduction(b, j) => Body(b, j) \in Blocks /\ b < Body(b, j)
  BY <1>2, <1>3, <1>4, <1>5 DEF IsStep, IsInduction, Body, Blocks, ElementKinds
<1>7. QED BY <1>6 DEF j

(* The k-th hop of a block starts at the k-th of the elements that do.     *)
LEMMA InTextOrderCount ==
    ASSUME GamesList(job.blocks), NEW b \in Blocks, NEW k \in 1..Cardinality(HopStarts(b))
    PROVE  /\ InTextOrder(b)[k] \in HopStarts(b)
           /\ Cardinality({j \in HopStarts(b) : j <= InTextOrder(b)[k]}) = k
<1>1. HopStarts(b) \in SUBSET (1..Len(Elements(b))) /\ Len(Elements(b)) \in Nat
  BY ElementFacts DEF HopStarts
<1>2. \E i \in HopStarts(b) : Cardinality({j \in HopStarts(b) : j <= i}) = k
  BY <1>1, CountReaches
<1>3. InTextOrder(b)[k] = CHOOSE i \in HopStarts(b) : Cardinality({j \in HopStarts(b) : j <= i}) = k
  BY DEF InTextOrder
<1>4. QED BY <1>2, <1>3

NoLater(S, m) == {j \in S : j <= m}

(* No two elements have as many elements up to them.                       *)
LEMMA CountDistinct ==
    ASSUME NEW n \in Nat, NEW S \in SUBSET (1..n), NEW i \in S, NEW k \in S,
           Cardinality(NoLater(S, i)) = Cardinality(NoLater(S, k))
    PROVE  i = k
<1> USE DEF NoLater
<1>1. IsFiniteSet(S) /\ \A j \in S : j \in Nat
  <2>1. IsFiniteSet(S)
    BY CountStep
  <2>2. \A j \in S : j \in Nat
    OBVIOUS
  <2>3. QED BY <2>1, <2>2
<1>2. ASSUME NEW a \in S, NEW b \in S, a < b
      PROVE  Cardinality({j \in S : j <= a}) # Cardinality({j \in S : j <= b})
  <2> DEFINE A == {j \in S : j <= a}
             B == {j \in S : j <= b}
  <2>1. A \subseteq B /\ b \in B /\ b \notin A
    <3>1. a \in Nat /\ b \in Nat
      BY <1>1
    <3>2. \A j \in S : j <= a => j <= b
      BY <1>1, <1>2, <3>1
    <3>3. b <= b /\ ~(b <= a)
      BY <1>2, <3>1
    <3>4. QED BY <3>2, <3>3
  <2>2. IsFiniteSet(B)
    <3>1. B \in SUBSET S
      OBVIOUS
    <3> HIDE DEF B
    <3>2. QED BY <1>1, <3>1, FS_Subset
  <2> HIDE DEF A, B
  <2>3. Cardinality(A) # Cardinality(B)
    BY <2>1, <2>2, FS_Subset
  <2>4. QED BY <2>3 DEF A, B
<1>3. ~(i < k) /\ ~(k < i)
  BY <1>2
<1>4. QED BY <1>1, <1>3

Links == {Link(b, i) : b \in Blocks, i \in Nat} \cup {RolloverLink(b) : b \in Blocks}

(* The hops up to the target of the one from element i, with the scripts   *)
(* of the bodies as f has them.                                            *)
HopsFrom(f, b, i) ==
    LET j == NextAnchor(b, i) IN
    IF IsInduction(b, j)
    THEN <<Link(b, i)>> \o f[Body(b, j)] \o <<RolloverLink(Body(b, j))>>
    ELSE <<Link(b, i)>>
Parts(f, b) == [k \in DOMAIN InTextOrder(b) |-> HopsFrom(f, b, InTextOrder(b)[k])]

(* A part is one hop, or one into the induction, its body's, and one       *)
(* around it.                                                              *)
LEMMA HopsFromFacts ==
    ASSUME GamesList(job.blocks), NEW b \in Blocks, NEW i \in HopStarts(b), NEW f,
           \A c \in Blocks : b < c => f[c] \in Seq(Links)
    PROVE  LET j == NextAnchor(b, i)
               c == Body(b, j)
               p == HopsFrom(f, b, i) IN
           /\ p \in Seq(Links)
           /\ p[1] = Link(b, i)
           /\ ~IsInduction(b, j) => Len(p) = 1
           /\ IsInduction(b, j) =>
                 /\ Len(p) = Len(f[c]) + 2 /\ Len(f[c]) \in Nat
                 /\ \A x \in 1..Len(f[c]) : p[1 + x] = f[c][x]
                 /\ p[Len(p)] = RolloverLink(c)
<1> DEFINE j == NextAnchor(b, i)
           c == Body(b, j)
           p == HopsFrom(f, b, i)
           l == Link(b, i)
           r == RolloverLink(c)
           body == f[c]
<1>1. i \in Nat
  BY HopPlace
<1>2. l \in Links
  BY <1>1 DEF Links
<1>3. CASE ~IsInduction(b, j)
  <2>1. p = <<l>>
    BY <1>3 DEF HopsFrom
  <2> HIDE DEF p, l, j, c
  <2>2. QED BY <1>2, <1>3, <2>1 DEF l, j, c, p
<1>4. CASE IsInduction(b, j)
  <2>1. c \in Blocks /\ b < c
    BY <1>4, HopPlace
  <2>2. r \in Links /\ body \in Seq(Links)
    BY <2>1 DEF Links
  <2>3. p = <<l>> \o body \o <<r>>
    BY <1>4 DEF HopsFrom
  <2> HIDE DEF p, l, j, c, r, body
  <2>4. /\ <<l>> \o body \in Seq(Links) /\ Len(<<l>> \o body) = Len(body) + 1
        /\ (<<l>> \o body)[1] = l
        /\ \A x \in 1..Len(body) : (<<l>> \o body)[1 + x] = body[x]
        /\ Len(body) \in Nat
    <3>1. <<l>> \in Seq(Links) /\ Len(<<l>>) = 1 /\ <<l>>[1] = l
      BY <1>2
    <3>2. QED BY <2>2, <3>1, ConcatFacts
  <2> DEFINE q == <<l>> \o body
  <2>5. /\ q \o <<r>> \in Seq(Links) /\ Len(q \o <<r>>) = Len(q) + 1
        /\ \A x \in 1..Len(q) : (q \o <<r>>)[x] = q[x]
        /\ (q \o <<r>>)[Len(q) + 1] = r
    <3> HIDE DEF q
    <3>1. <<r>> \in Seq(Links) /\ Len(<<r>>) = 1 /\ <<r>>[1] = r
      BY <2>2
    <3>2. q \in Seq(Links)
      BY <2>4 DEF q
    <3>3. QED BY <3>1, <3>2, ConcatFacts
  <2>6. p = q \o <<r>> /\ Len(q) = Len(body) + 1 /\ q[1] = l
        /\ \A x \in 1..Len(body) : q[1 + x] = body[x]
    BY <2>3, <2>4
  <2> HIDE DEF q
  <2>7. /\ p \in Seq(Links) /\ Len(p) = Len(body) + 2 /\ p[1] = l /\ p[Len(p)] = r
        /\ \A x \in 1..Len(body) : p[1 + x] = body[x]
    <3>1. Len(p) = Len(body) + 2
      BY <2>4, <2>5, <2>6
    <3>2. p[Len(p)] = r
      BY <2>4, <2>5, <2>6, <3>1
    <3>3. p[1] = l
      BY <2>4, <2>5, <2>6
    <3>4. \A x \in 1..Len(body) : p[1 + x] = body[x]
      <4> TAKE x \in 1..Len(body)
      <4>1. 1 + x \in 1..Len(q)
        BY <2>4, <2>6
      <4>2. QED BY <2>5, <2>6, <4>1
    <3>5. QED BY <2>5, <2>6, <3>1, <3>2, <3>3, <3>4
  <2>8. QED BY <1>4, <2>4, <2>7 DEF p, l, j, c, r, body
<1>5. QED BY <1>3, <1>4

LEMMA PartsTyped ==
    ASSUME GamesList(job.blocks), NEW b \in Blocks, NEW f,
           \A c \in Blocks : b < c => f[c] \in Seq(Links)
    PROVE  /\ Cardinality(HopStarts(b)) \in Nat
           /\ Parts(f, b) \in [1..Cardinality(HopStarts(b)) -> Seq(Links)]
           /\ FlattenSeq(Parts(f, b)) \in Seq(Links)
<1> DEFINE n == Cardinality(HopStarts(b))
           starts == InTextOrder(b)
<1>1. n \in Nat /\ DOMAIN starts = 1..n /\ \A k \in 1..n : starts[k] \in HopStarts(b)
  BY InTextOrderFacts
<1>2. \A k \in 1..n : HopsFrom(f, b, starts[k]) \in Seq(Links)
  BY <1>1, HopsFromFacts
<1>3. Parts(f, b) \in [1..n -> Seq(Links)]
  <2> HIDE DEF n, starts
  <2>1. QED BY <1>1, <1>2 DEF Parts, starts
<1>4. FlattenSeq(Parts(f, b)) \in Seq(Links)
  <2> HIDE DEF n
  <2>1. QED BY <1>1, <1>3, FlattenedPlaces
<1>5. QED BY <1>1, <1>3, <1>4

(* The scripts are what their definition says, and sequences of hops.      *)
LEMMA ScriptsMeaning ==
    ASSUME GamesList(job.blocks)
    PROVE  /\ Scripts = [b \in Blocks |-> FlattenSeq(Parts(Scripts, b))]
           /\ \A b \in Blocks : Scripts[b] \in Seq(Links)
<1>1. PICK N \in Nat \ {0} : Blocks = 1..N
  BY DEF GamesList, Blocks
<1> DEFINE V == Seq(Links)
           D == [p \in [Blocks -> V] \X Blocks |-> FlattenSeq(Parts(p[1], p[2]))]
           rank == [b \in Blocks |-> N - b]
<1>2. \A f \in [Blocks -> V], b \in Blocks : FlattenSeq(Parts(f, b)) \in V
  BY PartsTyped
<1>3. \E f \in [Blocks -> V] : f = [b \in Blocks |-> D[<<f, b>>]]
  <2>1. V # {}
    <3>1. <<>> \in V
      OBVIOUS
    <3>2. QED BY <3>1
  <2>2. rank \in [Blocks -> 0..N]
    BY <1>1
  <2>3. D \in [[Blocks -> V] \X Blocks -> V]
    BY <1>2
  <2>4. ASSUME NEW f \in [Blocks -> V], NEW g \in [Blocks -> V], NEW b \in Blocks,
               \A c \in Blocks : rank[c] < rank[b] => f[c] = g[c]
        PROVE  D[<<f, b>>] = D[<<g, b>>]
    <3>1. \A c \in Blocks : b < c => f[c] = g[c]
      BY <1>1, <2>4
    <3>2. \A k \in DOMAIN InTextOrder(b) :
              HopsFrom(f, b, InTextOrder(b)[k]) = HopsFrom(g, b, InTextOrder(b)[k])
      <4> TAKE k \in DOMAIN InTextOrder(b)
      <4> DEFINE i == InTextOrder(b)[k]
      <4>1. i \in HopStarts(b)
        BY InTextOrderFacts
      <4>2. IsInduction(b, NextAnchor(b, i)) => f[Body(b, NextAnchor(b, i))] = g[Body(b, NextAnchor(b, i))]
        BY <3>1, <4>1, HopPlace
      <4> HIDE DEF i
      <4>3. HopsFrom(f, b, i) = HopsFrom(g, b, i)
        BY <4>2 DEF HopsFrom
      <4>4. QED BY <4>3 DEF i
    <3>3. Parts(f, b) = Parts(g, b)
      BY <3>2 DEF Parts
    <3>4. D[<<f, b>>] = FlattenSeq(Parts(f, b)) /\ D[<<g, b>>] = FlattenSeq(Parts(g, b))
      OBVIOUS
    <3>5. QED BY <3>3, <3>4
  <2>5. \A f, g \in [Blocks -> V] : \A b \in Blocks :
            (\A c \in Blocks : rank[c] < rank[b] => f[c] = g[c]) => D[<<f, b>>] = D[<<g, b>>]
    BY <2>4
  <2> HIDE DEF V, D, rank
  <2>6. ByRank(Blocks, V, N, rank, D)
    BY <1>1, <2>1, <2>2, <2>3, <2>5 DEF ByRank
  <2>7. QED BY <2>6, RecursiveFunction DEF Solvable
<1>4. PICK f \in [Blocks -> V] : f = [b \in Blocks |-> D[<<f, b>>]]
  BY <1>3
<1>5. f = [b \in Blocks |-> FlattenSeq(Parts(f, b))]
  <2>1. \A b \in Blocks : D[<<f, b>>] = FlattenSeq(Parts(f, b))
    OBVIOUS
  <2> HIDE DEF D, V
  <2>2. QED BY <1>4, <2>1
<1>6. Scripts = CHOOSE g : g = [b \in Blocks |-> FlattenSeq(Parts(g, b))]
  BY DEF Scripts, Parts, HopsFrom
<1>7. Scripts = [b \in Blocks |-> FlattenSeq(Parts(Scripts, b))]
  BY <1>5, <1>6
<1> DEFINE P == {b \in Blocks : Scripts[b] \in V}
<1>8. \A b \in Blocks : b \in P
  <2>1. \A b \in Blocks : rank[b] \in Nat
    BY <1>1
  <2>2. ASSUME NEW b \in Blocks, \A c \in Blocks : rank[c] < rank[b] => c \in P
        PROVE  b \in P
    <3>1. \A c \in Blocks : b < c => Scripts[c] \in Seq(Links)
      BY <1>1, <2>2
    <3>2. FlattenSeq(Parts(Scripts, b)) \in Seq(Links)
      BY <3>1, PartsTyped
    <3>3. QED BY <1>7, <3>2
  <2> HIDE DEF P, rank
  <2>3. QED BY <2>1, <2>2, RankInduction
<1>9. QED BY <1>7, <1>8
(* Where the hops of a block stand in its script: the k-th, with the body  *)
(* it leads into, fills the places after o[k - 1] up to o[k].              *)
Lays(b, o) ==
    /\ o \in [0..Cardinality(HopStarts(b)) -> Nat]
    /\ o[0] = 0
    /\ o[Cardinality(HopStarts(b))] = Len(Scripts[b])
    /\ \A k \in 1..Cardinality(HopStarts(b)) :
          LET i == InTextOrder(b)[k]
              j == NextAnchor(b, i)
              c == Body(b, j) IN
          /\ o[k - 1] < o[k] /\ o[k] <= Len(Scripts[b])
          /\ Scripts[b][o[k - 1] + 1] = Link(b, i)
          /\ ~IsInduction(b, j) => o[k] = o[k - 1] + 1
          /\ IsInduction(b, j) =>
                /\ o[k] = o[k - 1] + Len(Scripts[c]) + 2
                /\ \A x \in 1..Len(Scripts[c]) : Scripts[b][o[k - 1] + 1 + x] = Scripts[c][x]
                /\ Scripts[b][o[k]] = RolloverLink(c)

Offsets(b) == CHOOSE o : Lays(b, o)

LEMMA OffsetsLay ==
    ASSUME GamesList(job.blocks), NEW b \in Blocks
    PROVE  Lays(b, Offsets(b))
<1> DEFINE n == Cardinality(HopStarts(b))
           s == Parts(Scripts, b)
           all == Scripts[b]
<1>1. /\ all = FlattenSeq(s)
      /\ \A c \in Blocks : Scripts[c] \in Seq(Links)
  BY ScriptsMeaning
<1>2. n \in Nat /\ s \in [1..n -> Seq(Links)]
  BY <1>1, PartsTyped
<1>3. PICK o \in [0..n -> Nat] :
          /\ o[0] = 0 /\ o[n] = Len(all)
          /\ \A k \in 1..n :
                /\ o[k] = o[k - 1] + Len(s[k])
                /\ o[k] <= o[n]
                /\ \A x \in 1..Len(s[k]) : all[o[k - 1] + x] = s[k][x]
  <2> HIDE DEF n, s, all
  <2>1. \E o : Places(o, n, s)
    BY <1>2, FlattenedPlaces
  <2>2. QED BY <1>1, <2>1 DEF Places
<1>4. ASSUME NEW k \in 1..n
      PROVE  LET i == InTextOrder(b)[k]
                 j == NextAnchor(b, i)
                 c == Body(b, j) IN
             /\ o[k - 1] < o[k] /\ o[k] <= Len(all)
             /\ all[o[k - 1] + 1] = Link(b, i)
             /\ ~IsInduction(b, j) => o[k] = o[k - 1] + 1
             /\ IsInduction(b, j) =>
                   /\ o[k] = o[k - 1] + Len(Scripts[c]) + 2
                   /\ \A x \in 1..Len(Scripts[c]) : all[o[k - 1] + 1 + x] = Scripts[c][x]
                   /\ all[o[k]] = RolloverLink(c)
  <2> DEFINE i == InTextOrder(b)[k]
             j == NextAnchor(b, i)
             c == Body(b, j)
             p == HopsFrom(Scripts, b, i)
             body == Scripts[c]
  <2>1. i \in HopStarts(b) /\ s[k] = p
    BY InTextOrderFacts DEF Parts
  <2>2. \A d \in Blocks : b < d => Scripts[d] \in Seq(Links)
    BY <1>1
  <2>3. /\ p \in Seq(Links)
        /\ p[1] = Link(b, i)
        /\ ~IsInduction(b, j) => Len(p) = 1
        /\ IsInduction(b, j) =>
              /\ Len(p) = Len(body) + 2 /\ Len(body) \in Nat
              /\ \A x \in 1..Len(body) : p[1 + x] = body[x]
              /\ p[Len(p)] = RolloverLink(c)
    BY <2>1, <2>2, HopsFromFacts
  <2>4. o[k] = o[k - 1] + Len(p) /\ o[k] <= Len(all)
        /\ \A x \in 1..Len(p) : all[o[k - 1] + x] = p[x]
    BY <1>3, <2>1
  <2>5. o[k] \in Nat /\ o[k - 1] \in Nat
    <3>1. k \in 0..n /\ k - 1 \in 0..n
      BY <1>2
    <3> HIDE DEF n
    <3>2. QED BY <3>1
  <2> HIDE DEF i, j, c, p, body, all, n, s
  <2>6. Len(p) \in Nat /\ Len(p) >= 1
    BY <2>3
  <2>7. /\ o[k - 1] < o[k] /\ o[k] <= Len(all)
        /\ all[o[k - 1] + 1] = Link(b, i)
        /\ ~IsInduction(b, j) => o[k] = o[k - 1] + 1
    <3>1. PICK u, v, l : u = o[k - 1] /\ v = o[k] /\ l = Len(p)
      OBVIOUS
    <3>2. u \in Nat /\ v \in Nat /\ l \in Nat /\ l >= 1 /\ v = u + l
      BY <2>4, <2>5, <2>6, <3>1
    <3>3. u < v
      BY <3>2
    <3>4. all[o[k - 1] + 1] = Link(b, i)
      <4>1. 1 \in 1..Len(p)
        BY <2>6
      <4>2. QED BY <2>3, <2>4, <4>1
    <3>5. ~IsInduction(b, j) => o[k] = o[k - 1] + 1
      BY <2>3, <2>4
    <3>6. QED BY <2>4, <3>1, <3>3, <3>4, <3>5
  <2>8. ASSUME IsInduction(b, j)
        PROVE  /\ o[k] = o[k - 1] + Len(body) + 2
               /\ \A x \in 1..Len(body) : all[o[k - 1] + 1 + x] = body[x]
               /\ all[o[k]] = RolloverLink(c)
    <3>1. o[k] = o[k - 1] + Len(body) + 2
      BY <2>3, <2>4, <2>5, <2>8
    <3>2. ASSUME NEW x \in 1..Len(body)
          PROVE  all[o[k - 1] + 1 + x] = body[x]
      <4>1. 1 + x \in 1..Len(p) /\ p[1 + x] = body[x]
        BY <2>3, <2>8
      <4>2. all[o[k - 1] + (1 + x)] = p[1 + x]
        BY <2>4, <4>1
      <4>3. o[k - 1] + (1 + x) = o[k - 1] + 1 + x
        BY <2>5
      <4>4. QED BY <4>1, <4>2, <4>3
    <3>3. all[o[k]] = RolloverLink(c)
      <4>1. Len(p) \in 1..Len(p)
        BY <2>6
      <4>2. QED BY <2>3, <2>4, <2>8, <4>1
    <3>4. QED BY <3>1, <3>2, <3>3
  <2>9. QED BY <2>7, <2>8 DEF i, j, c, body, all
<1>5. Lays(b, o)
  <2> HIDE DEF n, all
  <2>1. QED BY <1>3, <1>4 DEF Lays, n, all
<1>6. QED BY <1>5 DEF Offsets

-------------------------------------------------------------------------------
(* The hops counted ahead (_count_hops).                                   *)

HopsTo(count, b, j) == IF IsStep(b, j) THEN 1 ELSE count[Elements(b)[j].body] + 2
Increment(count, b, i) == IF i \in HopStarts(b) THEN HopsTo(count, b, NextAnchor(b, i)) ELSE 0
CountedUpto(count, b) ==
    LET upto[i \in 0..Len(Elements(b))] ==
            IF i = 0 THEN 0 ELSE upto[i - 1] + Increment(count, b, i)
    IN upto
Counts ==
    LET count[b \in Blocks] == CountedUpto(count, b)[Len(Elements(b))]
    IN count

LEMMA CountHopsIsCount == CountHops = Counts[1]
BY DEF CountHops, Counts, CountedUpto, Increment, HopsTo, Blocks

LEMMA CountedUptoFacts ==
    ASSUME GamesList(job.blocks), NEW b \in Blocks, NEW f,
           \A c \in Blocks : b < c => f[c] \in Nat
    PROVE  /\ CountedUpto(f, b)[0] = 0
           /\ \A i \in 0..Len(Elements(b)) : CountedUpto(f, b)[i] \in Nat
           /\ \A i \in 1..Len(Elements(b)) :
                 CountedUpto(f, b)[i] = CountedUpto(f, b)[i - 1] + Increment(f, b, i)
<1> DEFINE n == Len(Elements(b))
           inc == [i \in 1..n |-> Increment(f, b, i)]
           upto == CountedUpto(f, b)
<1>1. n \in Nat
  BY ElementFacts
<1>2. \A i \in 1..n : Increment(f, b, i) \in Nat
  <2> TAKE i \in 1..n
  <2>1. CASE i \in HopStarts(b)
    <3> DEFINE j == NextAnchor(b, i)
    <3>1. /\ IsStep(b, j) <=> ~IsInduction(b, j)
          /\ IsInduction(b, j) => Body(b, j) \in Blocks /\ b < Body(b, j)
      BY <2>1, HopPlace
    <3> HIDE DEF j
    <3>2. HopsTo(f, b, j) \in Nat
      BY <3>1 DEF HopsTo, Body
    <3>3. QED BY <2>1, <3>2 DEF Increment, j
  <2>2. CASE i \notin HopStarts(b)
    BY <2>2 DEF Increment
  <2>3. QED BY <2>1, <2>2
<1>3. PICK u \in [0..n -> Nat] : u = [i \in 0..n |-> IF i = 0 THEN 0 ELSE u[i - 1] + inc[i]]
  <2>1. inc \in [1..n -> Nat]
    BY <1>2
  <2> HIDE DEF n, inc
  <2>2. QED BY <1>1, <2>1, RunningSum
<1>4. u = [i \in 0..n |-> IF i = 0 THEN 0 ELSE u[i - 1] + Increment(f, b, i)]
  <2>1. \A i \in 0..n : i # 0 => i \in 1..n
    BY <1>1
  <2> HIDE DEF n
  <2>2. QED BY <1>3, <2>1
<1>5. upto = [i \in 0..n |-> IF i = 0 THEN 0 ELSE upto[i - 1] + Increment(f, b, i)]
  <2>1. upto = CHOOSE v : v = [i \in 0..n |-> IF i = 0 THEN 0 ELSE v[i - 1] + Increment(f, b, i)]
    BY DEF CountedUpto
  <2> HIDE DEF upto, n
  <2>2. QED BY <1>4, <2>1
<1> HIDE DEF upto, n
<1>6. upto[0] = 0 /\ \A i \in 1..n : upto[i] = upto[i - 1] + Increment(f, b, i)
  <2>1. 0 \in 0..n /\ \A i \in 1..n : i \in 0..n /\ i # 0
    BY <1>1
  <2>2. QED BY <1>5, <2>1
<1> DEFINE P == {i \in 0..n : upto[i] \in Nat}
<1>7. \A i \in 0..n : i \in P
  <2>1. 0 \in P
    BY <1>1, <1>6
  <2>2. ASSUME NEW i \in 0..n, i < n, i \in P
        PROVE  i + 1 \in P
    <3>1. i + 1 \in 1..n /\ i + 1 - 1 = i /\ i + 1 \in 0..n
      BY <1>1, <2>2
    <3>2. upto[i + 1] = upto[i] + Increment(f, b, i + 1)
      BY <1>6, <3>1
    <3>3. QED BY <1>2, <2>2, <3>1, <3>2 DEF n
  <2> HIDE DEF P
  <2>3. QED BY <1>1, <2>1, <2>2, RangeInduction
<1>8. QED BY <1>6, <1>7 DEF n, upto

(* The count of a block is what its definition says, and a number.         *)
LEMMA CountsMeaning ==
    ASSUME GamesList(job.blocks)
    PROVE  \A b \in Blocks :
               /\ Counts[b] = CountedUpto(Counts, b)[Len(Elements(b))]
               /\ Counts[b] \in Nat
<1>1. PICK N \in Nat \ {0} : Blocks = 1..N
  BY DEF GamesList, Blocks
<1> DEFINE E(f, b) == CountedUpto(f, b)[Len(Elements(b))]
           D == [p \in [Blocks -> Nat] \X Blocks |-> E(p[1], p[2])]
           rank == [b \in Blocks |-> N - b]
<1>2. ASSUME NEW f, NEW b \in Blocks, \A c \in Blocks : b < c => f[c] \in Nat
      PROVE  E(f, b) \in Nat
  <2>1. Len(Elements(b)) \in 0..Len(Elements(b))
    BY ElementFacts
  <2>2. QED BY <1>2, <2>1, CountedUptoFacts
<1>3. \E f \in [Blocks -> Nat] : f = [b \in Blocks |-> D[<<f, b>>]]
  <2>1. Nat # {}
    OBVIOUS
  <2>2. rank \in [Blocks -> 0..N]
    BY <1>1
  <2>3. D \in [[Blocks -> Nat] \X Blocks -> Nat]
    <3>1. \A f \in [Blocks -> Nat], b \in Blocks : E(f, b) \in Nat
      BY <1>2
    <3> HIDE DEF E
    <3>2. QED BY <3>1
  <2>4. ASSUME NEW f \in [Blocks -> Nat], NEW g \in [Blocks -> Nat], NEW b \in Blocks,
               \A c \in Blocks : rank[c] < rank[b] => f[c] = g[c]
        PROVE  D[<<f, b>>] = D[<<g, b>>]
    <3>1. \A c \in Blocks : b < c => f[c] = g[c]
      BY <1>1, <2>4
    <3> DEFINE n == Len(Elements(b))
               P == {i \in 0..n : CountedUpto(f, b)[i] = CountedUpto(g, b)[i]}
    <3>2. n \in Nat
      BY ElementFacts
    <3>3. \A i \in 1..n : Increment(f, b, i) = Increment(g, b, i)
      <4> TAKE i \in 1..n
      <4>1. CASE i \in HopStarts(b)
        <5> DEFINE j == NextAnchor(b, i)
        <5>1. /\ IsStep(b, j) <=> ~IsInduction(b, j)
              /\ IsInduction(b, j) => Body(b, j) \in Blocks /\ b < Body(b, j)
          BY <4>1, HopPlace
        <5> HIDE DEF j
        <5>2. HopsTo(f, b, j) = HopsTo(g, b, j)
          BY <3>1, <5>1 DEF HopsTo, Body
        <5>3. QED BY <4>1, <5>2 DEF Increment, j
      <4>2. CASE i \notin HopStarts(b)
        BY <4>2 DEF Increment
      <4>3. QED BY <4>1, <4>2
    <3>4. /\ CountedUpto(f, b)[0] = CountedUpto(g, b)[0]
          /\ \A i \in 1..n : CountedUpto(f, b)[i] = CountedUpto(f, b)[i - 1] + Increment(f, b, i)
          /\ \A i \in 1..n : CountedUpto(g, b)[i] = CountedUpto(g, b)[i - 1] + Increment(g, b, i)
      BY CountedUptoFacts
    <3>5. 0 \in P
      BY <3>2, <3>4
    <3>6. ASSUME NEW i \in 0..n, i < n, i \in P
          PROVE  i + 1 \in P
      <4>1. i + 1 \in 1..n /\ i + 1 - 1 = i /\ i + 1 \in 0..n
        BY <3>2, <3>6
      <4>2. CountedUpto(f, b)[i + 1] = CountedUpto(f, b)[i] + Increment(f, b, i + 1)
        BY <3>4, <4>1
      <4>3. CountedUpto(g, b)[i + 1] = CountedUpto(g, b)[i] + Increment(g, b, i + 1)
        BY <3>4, <4>1
      <4>4. CountedUpto(f, b)[i] = CountedUpto(g, b)[i]
        BY <3>6
      <4>5. QED BY <3>3, <4>1, <4>2, <4>3, <4>4
    <3>7. n \in P
      <4> HIDE DEF P, n
      <4>1. \A i \in 0..n : i \in P
        BY <3>2, <3>5, <3>6, RangeInduction
      <4>2. QED BY <3>2, <4>1
    <3>8. E(f, b) = E(g, b)
      BY <3>7
    <3> HIDE DEF E
    <3>9. QED BY <3>8
  <2>5. \A f, g \in [Blocks -> Nat] : \A b \in Blocks :
            (\A c \in Blocks : rank[c] < rank[b] => f[c] = g[c]) => D[<<f, b>>] = D[<<g, b>>]
    BY <2>4
  <2> HIDE DEF D, rank
  <2>6. ByRank(Blocks, Nat, N, rank, D)
    BY <1>1, <2>1, <2>2, <2>3, <2>5 DEF ByRank
  <2>7. QED BY <2>6, RecursiveFunction DEF Solvable
<1>4. PICK f \in [Blocks -> Nat] : f = [b \in Blocks |-> D[<<f, b>>]]
  BY <1>3
<1>5. f = [b \in Blocks |-> E(f, b)]
  <2> HIDE DEF E
  <2>1. \A b \in Blocks : D[<<f, b>>] = E(f, b)
    OBVIOUS
  <2> HIDE DEF D
  <2>2. QED BY <1>4, <2>1
<1>6. Counts = CHOOSE g : g = [b \in Blocks |-> E(g, b)]
  BY DEF Counts
<1>7. Counts = [b \in Blocks |-> E(Counts, b)]
  <2> HIDE DEF E
  <2>1. QED BY <1>5, <1>6
<1> DEFINE P == {b \in Blocks : Counts[b] \in Nat}
<1>8. \A b \in Blocks : b \in P
  <2>1. \A b \in Blocks : rank[b] \in Nat
    BY <1>1
  <2>2. ASSUME NEW b \in Blocks, \A c \in Blocks : rank[c] < rank[b] => c \in P
        PROVE  b \in P
    <3>1. \A c \in Blocks : b < c => Counts[c] \in Nat
      BY <1>1, <2>2
    <3>2. E(Counts, b) \in Nat
      BY <1>2, <3>1
    <3> HIDE DEF E
    <3>3. QED BY <1>7, <3>2
  <2> HIDE DEF P, rank
  <2>3. QED BY <2>1, <2>2, RankInduction
<1>9. \A b \in Blocks : Counts[b] = E(Counts, b)
  <2> HIDE DEF E
  <2>1. QED BY <1>7
<1>10. QED BY <1>8, <1>9

(* The walk of _count_hops counts what _prepare_hops and the inductions    *)
(* make.                                                                   *)
LEMMA CountsAreLengths ==
    ASSUME GamesList(job.blocks), NEW a \in Blocks
    PROVE  Counts[a] = Len(Scripts[a])
<1>1. PICK N \in Nat \ {0} : Blocks = 1..N
  BY DEF GamesList, Blocks
<1> DEFINE P == {b \in Blocks : Counts[b] = Len(Scripts[b])}
           rank == [b \in Blocks |-> N - b]
<1>2. ASSUME NEW b \in Blocks, \A c \in Blocks : b < c => Counts[c] = Len(Scripts[c])
      PROVE  Counts[b] = Len(Scripts[b])
  <2> DEFINE S == HopStarts(b)
             n == Len(Elements(b))
             o == Offsets(b)
             u == CountedUpto(Counts, b)
             Below(m) == Cardinality({j \in S : j <= m})
             Q == {m \in 0..n : u[m] = o[Below(m)]}
  <2>1. n \in Nat /\ S \in SUBSET (1..n)
    BY ElementFacts DEF HopStarts
  <2>2. /\ Below(0) = 0 /\ Below(n) = Cardinality(S)
        /\ \A m \in Nat : Below(m) \in Nat
        /\ \A m \in Nat \ {0} : Below(m) = IF m \in S THEN Below(m - 1) + 1 ELSE Below(m - 1)
    <3> HIDE DEF S, n
    <3>1. Below(0) = 0
      BY <2>1, CountStep
    <3>2. Below(n) = Cardinality(S)
      BY <2>1, CountStep
    <3>3. \A m \in Nat : Below(m) \in Nat
      BY <2>1, CountStep
    <3>4. ASSUME NEW m \in Nat \ {0}
          PROVE  Below(m) = IF m \in S THEN Below(m - 1) + 1 ELSE Below(m - 1)
      <4>1. Cardinality({l \in S : l <= m}) =
              IF m \in S THEN Cardinality({l \in S : l <= m - 1}) + 1
              ELSE Cardinality({l \in S : l <= m - 1})
        <5>1. S \in SUBSET Nat /\ IsFiniteSet(S)
          <6>1. IsFiniteSet(S)
            <7>1. IsFiniteSet(1..n)
              BY <2>1, FS_Interval
            <7>2. QED BY <2>1, <7>1, FS_Subset
          <6>2. S \in SUBSET Nat
            BY <2>1
          <6>3. QED BY <6>1, <6>2
        <5>2. QED BY <5>1, CountNext
      <4>2. QED BY <4>1
    <3>5. QED BY <3>1, <3>2, <3>3, <3>4
  <2>3. Lays(b, o)
    BY OffsetsLay
  <2>4. /\ u[0] = 0
        /\ \A m \in 0..n : u[m] \in Nat
        /\ \A m \in 1..n : u[m] = u[m - 1] + Increment(Counts, b, m)
    BY CountsMeaning, CountedUptoFacts
  <2>5. 0 \in Q
    <3>1. o[0] = 0
      BY <2>3 DEF Lays
    <3> HIDE DEF Below, o, u
    <3>2. QED BY <2>1, <2>2, <2>4, <3>1
  <2>6. ASSUME NEW m \in 0..n, m < n, m \in Q
        PROVE  m + 1 \in Q
    <3>1. m + 1 \in 1..n /\ m + 1 \in 0..n /\ m + 1 - 1 = m /\ m + 1 \in Nat \ {0} /\ m \in Nat
      BY <2>1, <2>6
    <3>2. u[m + 1] = u[m] + Increment(Counts, b, m + 1) /\ u[m] = o[Below(m)]
      BY <2>4, <2>6, <3>1
    <3>3. CASE m + 1 \notin S
      <4>1. Increment(Counts, b, m + 1) = 0
        BY <3>3 DEF Increment
      <4>2. Below(m + 1) = Below(m)
        <5> HIDE DEF Below
        <5>1. QED BY <2>2, <3>1, <3>3
      <4> HIDE DEF Below, u, o
      <4>3. QED BY <2>4, <3>1, <3>2, <4>1, <4>2
    <3>4. CASE m + 1 \in S
      <4> DEFINE k == Below(m + 1)
                 j == NextAnchor(b, m + 1)
                 c == Body(b, j)
      <4>1. Below(m) = k - 1 /\ k \in Nat /\ k >= 1
        <5>1. Below(m) \in Nat /\ Below(m + 1) = Below(m) + 1
          <6> HIDE DEF Below
          <6>1. QED BY <2>2, <3>1, <3>4
        <5> HIDE DEF Below
        <5>2. QED BY <5>1
      <4>2. k \in 1..Cardinality(S) /\ InTextOrder(b)[k] = m + 1
        <5>1. {i \in S : i <= m + 1} \in SUBSET S
          OBVIOUS
        <5>2. Below(m + 1) <= Cardinality(S)
          <6> HIDE DEF S
          <6>1. IsFiniteSet(S)
            BY <2>1, CountStep
          <6>2. QED BY <6>1, <5>1, FS_Subset
        <5>3. Cardinality(S) \in Nat
          <6> HIDE DEF Below
          <6>1. QED BY <2>1, <2>2
        <5>4. k \in 1..Cardinality(S)
          <6> HIDE DEF k
          <6>1. QED BY <4>1, <5>2, <5>3 DEF k
        <5> DEFINE i == InTextOrder(b)[k]
        <5>5. i \in S /\ Below(i) = Below(m + 1)
          BY <5>4, InTextOrderCount
        <5>6. i = m + 1
          <6>1. Cardinality(NoLater(S, i)) = Cardinality(NoLater(S, m + 1))
            BY <5>5 DEF NoLater
          <6> HIDE DEF S, i, n
          <6>2. QED BY <2>1, <3>4, <5>5, <6>1, CountDistinct
        <5>7. QED BY <5>4, <5>6
      <4>3. /\ IsStep(b, j) <=> ~IsInduction(b, j)
            /\ IsInduction(b, j) => c \in Blocks /\ b < c
        BY <3>4, HopPlace
      <4>4. /\ ~IsInduction(b, j) => o[k] = o[k - 1] + 1
            /\ IsInduction(b, j) => o[k] = o[k - 1] + Len(Scripts[c]) + 2
        <5> HIDE DEF k, o
        <5>1. QED BY <2>3, <4>2 DEF Lays
      <4>5. Increment(Counts, b, m + 1) = IF IsStep(b, j) THEN 1 ELSE Counts[c] + 2
        BY <3>4 DEF Increment, HopsTo, Body
      <4>6. IsInduction(b, j) => Counts[c] = Len(Scripts[c]) /\ Counts[c] \in Nat
        BY <1>2, <4>3, CountsMeaning
      <4>7. o[k - 1] = u[m] /\ u[m] \in Nat
        <5> HIDE DEF Below, o, u
        <5>1. QED BY <2>4, <3>2, <4>1
      <4> HIDE DEF j, c, o, u, k
      <4>8. u[m + 1] = o[k]
        BY <3>2, <4>3, <4>4, <4>5, <4>6, <4>7
      <4>9. QED BY <3>1, <4>8 DEF k
    <3>5. QED BY <3>3, <3>4
  <2>7. n \in Q
    <3> HIDE DEF Q, n
    <3>1. \A m \in 0..n : m \in Q
      BY <2>1, <2>5, <2>6, RangeInduction
    <3>2. QED BY <2>1, <3>1
  <2>8. u[n] = o[Cardinality(S)]
    <3> HIDE DEF Below, u, o, n, S
    <3>1. QED BY <2>2, <2>7
  <2>9. o[Cardinality(S)] = Len(Scripts[b])
    BY <2>3 DEF Lays
  <2>10. QED BY <2>8, <2>9, CountsMeaning
<1>3. \A b \in Blocks : rank[b] \in Nat
  BY <1>1
<1>4. ASSUME NEW b \in Blocks, \A c \in Blocks : rank[c] < rank[b] => c \in P
      PROVE  b \in P
  <2>1. \A c \in Blocks : b < c => Counts[c] = Len(Scripts[c])
    BY <1>1, <1>4
  <2>2. QED BY <1>2, <2>1
<1> HIDE DEF P, rank
<1>5. \A b \in Blocks : b \in P
  BY <1>3, <1>4, RankInduction
<1>6. QED BY <1>5 DEF P
-------------------------------------------------------------------------------
(* The inductive invariant: the text and the place each call has reached.  *)

(* The hops of a call are those of its block.                              *)
PreparedCall(f) ==
    /\ Len(f.hops) = Cardinality(HopStarts(f.block))
    /\ \A k \in 1..Cardinality(HopStarts(f.block)) :
          LET i == InTextOrder(f.block)[k]
              j == NextAnchor(f.block, i) IN
          /\ LinkOf(f.hops[k]) = Link(f.block, i)
          /\ Scope(f.hops[k]) = f.block
          /\ f.hops[k].body = IF IsStep(f.block, j) THEN 0 ELSE Body(f.block, j)
          /\ f.hops[k].kind # "equivalent" => f.hops[k].body = 0

(* The script of block b stands in the whole script after place m.         *)
Within(m, b) ==
    /\ m + Len(Scripts[b]) <= Len(Script)
    /\ \A x \in 1..Len(Scripts[b]) : Script[m + x] = Scripts[b][x]

(* at[d] is where the script of the d-th call begins, after the hop that   *)
(* leads into it.                                                          *)
Standing(at, calls) ==
    /\ at \in [1..Len(calls) -> Nat]
    /\ \A d \in 1..Len(calls) : Within(at[d], calls[d].block)
    /\ 1 <= Len(calls) => calls[1].block = 1 /\ at[1] = 0
    /\ \A d \in 2..Len(calls) :
          at[d] = at[d - 1] + Offsets(calls[d - 1].block)[calls[d - 1].pos - 1] + 1

Place(at, calls) ==
    at[Len(calls)] + Offsets(calls[Len(calls)].block)[calls[Len(calls)].pos - 1]

Running == {"hops", "enter", "pool", "report", "conclude"}

FollowText(results) ==
    \A i \in DOMAIN results : i <= Len(Script) /\ LinkOf(results[i]) = Script[i]

Accounts ==
    /\ current_step = Len(hop_results)
    /\ FollowText(hop_results)
    /\ frames = <<>> => hop_results = <<>>
    /\ frames # <<>> => total_steps = CountHops
    /\ pc \in Running => frames # <<>>
    /\ pc \in {"pool", "report", "conclude"} => Depth = 1
    /\ pc \in {"pool", "report"} => \A k \in DOMAIN Frame.hops : Frame.hops[k].body = 0
    /\ pc = "conclude" => ~HasHop
    /\ pc = "succeeded" => total_steps = CountHops /\ Len(hop_results) = Len(Script)

Prepared == \A d \in DOMAIN frames : PreparedCall(frames[d])

(* The calls stand in the text where the reports have come to.             *)
Positioned ==
    pc \in Running =>
        \E at : /\ Standing(at, frames)
                /\ Len(hop_results) = IF pc = "enter" THEN Place(at, frames) + 1
                                     ELSE Place(at, frames)

RInv == IInv /\ Accounts /\ Prepared /\ Positioned

(* What is said of the text only does not change.                          *)
LEMMA ScriptKept ==
    ASSUME job' = job
    PROVE  /\ Scripts' = Scripts /\ Script' = Script /\ CountHops' = CountHops
           /\ \A f : PreparedCall(f)' <=> PreparedCall(f)
           /\ \A at, calls : Standing(at, calls)' <=> Standing(at, calls)
           /\ \A at, calls : Place(at, calls)' = Place(at, calls)
           /\ \A results : FollowText(results)' <=> FollowText(results)
<1>1. Scripts' = Scripts
  BY DEF Scripts, Blocks, InTextOrder, HopStarts, Anchors, Followers, NextAnchor, Elements,
         IsInduction, IsStep, Link, Body, RolloverLink, LastStep
<1>2. Script' = Script
  BY <1>1 DEF Script
<1>3. CountHops' = CountHops
  BY DEF CountHops, HopStarts, Anchors, Followers, NextAnchor, Elements, IsStep
<1>4. \A f : PreparedCall(f)' <=> PreparedCall(f)
  BY DEF PreparedCall, Blocks, InTextOrder, HopStarts, Anchors, Followers, NextAnchor, Elements,
         IsInduction, IsStep, Link, Body, LastStep, Scope, Parent, Inductions, LinkOf
<1>5. \A b : Offsets(b)' = Offsets(b)
  BY <1>1 DEF Offsets, Lays, Blocks, InTextOrder, HopStarts, Anchors, Followers, NextAnchor,
         Elements, IsInduction, IsStep, Link, Body, RolloverLink, LastStep
<1>6. \A at, calls : Standing(at, calls)' <=> Standing(at, calls)
  <2>1. \A m, b : Within(m, b)' <=> Within(m, b)
    BY <1>1, <1>2 DEF Within
  <2>2. QED BY <1>5, <2>1, Zenon DEF Standing
<1>7. \A at, calls : Place(at, calls)' = Place(at, calls)
  BY <1>5 DEF Place
<1>8. \A results : FollowText(results)' <=> FollowText(results)
  BY <1>2 DEF FollowText
<1>9. QED BY <1>1, <1>2, <1>3, <1>4, <1>6, <1>7, <1>8
-------------------------------------------------------------------------------
(* What the invariant says of the hop at hand.                             *)

(* A call that starts has prepared the hops of its block.                  *)
LEMMA PrepareHopsPrepared ==
    ASSUME GamesList(job.blocks), NEW b \in Blocks,
           NEW f, f = [block |-> b, hops |-> PrepareHops(b), pos |-> 1]
    PROVE  PreparedCall(f)
<1> DEFINE n == Cardinality(HopStarts(b))
           starts == InTextOrder(b)
<1>1. n \in Nat /\ DOMAIN starts = 1..n /\ \A k \in 1..n : starts[k] \in HopStarts(b)
  BY InTextOrderFacts
<1>2. f.block = b /\ f.hops = PrepareHops(b)
  OBVIOUS
<1>3. Len(PrepareHops(b)) = n /\ \A k \in 1..n : PrepareHops(b)[k] = PrepareHop(b, starts[k])
  <2>1. PrepareHops(b) = [k \in DOMAIN starts |-> PrepareHop(b, starts[k])]
    BY DEF PrepareHops
  <2> HIDE DEF n, starts
  <2>2. QED BY <1>1, <2>1
<1>4. ASSUME NEW k \in 1..n
      PROVE  LET i == starts[k]
                 j == NextAnchor(b, i)
                 h == PrepareHops(b)[k] IN
             /\ LinkOf(h) = Link(b, i)
             /\ Scope(h) = b
             /\ h.body = IF IsStep(b, j) THEN 0 ELSE Body(b, j)
             /\ h.kind # "equivalent" => h.body = 0
  <2> DEFINE i == starts[k]
             j == NextAnchor(b, i)
             h == PrepareHops(b)[k]
  <2>1. i \in HopStarts(b) /\ h = PrepareHop(b, i)
    BY <1>1, <1>3
  <2> HIDE DEF i, h
  <2>2. LinkOf(h) = Link(b, i) /\ Scope(h) = b
    BY <2>1, PrepareHopPlace
  <2>3. h.body = IF IsStep(b, j) THEN 0 ELSE Body(b, j)
    BY <2>1 DEF PrepareHop, Body
  <2>4. h.kind # "equivalent" => h.body = 0
    BY <2>1 DEF PrepareHop
  <2>5. QED BY <2>2, <2>3, <2>4 DEF i, h
<1> HIDE DEF n, starts
<1>5. QED BY <1>2, <1>3, <1>4 DEF PreparedCall, n, starts

(* The hop at hand leads to a step, or into an induction's body.           *)
LEMMA HopAtHand ==
    ASSUME RInv, HasHop
    PROVE  LET b == Frame.block
               k == Frame.pos
               i == InTextOrder(b)[k]
               j == NextAnchor(b, i) IN
           /\ Depth \in Nat \ {0} /\ b \in Blocks
           /\ k \in 1..Cardinality(HopStarts(b)) /\ i \in HopStarts(b)
           /\ LinkOf(CurrentHop) = Link(b, i)
           /\ Scope(CurrentHop) = b
           /\ CurrentHop.body = 0 => ~IsInduction(b, j)
           /\ CurrentHop.body # 0 =>
                 /\ IsInduction(b, j) /\ CurrentHop.body = Body(b, j) /\ Body(b, j) \in Blocks
                 /\ CurrentHop.kind = "equivalent"
<1> DEFINE b == Frame.block
           k == Frame.pos
           i == InTextOrder(b)[k]
           j == NextAnchor(b, i)
           n == Cardinality(HopStarts(b))
           h == CurrentHop
<1>1. Called /\ Prepared /\ GamesList(job.blocks)
  BY DEF RInv, IInv
<1>2. Depth \in Nat \ {0} /\ DOMAIN frames = 1..Depth /\ Depth \in DOMAIN frames /\ b \in Blocks
  BY <1>1, FramesFacts DEF HasHop, Frame
<1>3. k \in DOMAIN Frame.hops /\ DOMAIN Frame.hops = 1..Len(Frame.hops)
  BY <1>1, <1>2 DEF HasHop, Called, Call, Frame
<1>4. PreparedCall(Frame)
  BY <1>1, <1>2 DEF Prepared, Frame
<1>5. /\ Len(Frame.hops) = n
      /\ k \in 1..n => /\ LinkOf(h) = Link(b, i)
                       /\ Scope(h) = b
                       /\ h.body = IF IsStep(b, j) THEN 0 ELSE Body(b, j)
                       /\ h.kind # "equivalent" => h.body = 0
  BY <1>4 DEF PreparedCall, CurrentHop
<1>6. k \in 1..n
  BY <1>3, <1>5
<1>7. i \in HopStarts(b)
  BY <1>1, <1>2, <1>6, InTextOrderCount
<1>8. /\ IsStep(b, j) <=> ~IsInduction(b, j)
      /\ IsInduction(b, j) => Body(b, j) \in Blocks /\ b < Body(b, j)
  BY <1>1, <1>2, <1>7, HopPlace
<1>9. \A c \in Blocks : c # 0
  BY <1>1 DEF GamesList, Blocks
<1> HIDE DEF b, k, i, j, n, h
<1>10. QED BY <1>2, <1>5, <1>6, <1>7, <1>8, <1>9 DEF b, k, i, j, n, h

(* The hops of a block in the whole script.                                *)
LEMMA WithinFacts ==
    ASSUME GamesList(job.blocks), NEW b \in Blocks, NEW m \in Nat, Within(m, b),
           NEW k \in 1..Cardinality(HopStarts(b)), NEW o, o = Offsets(b)
    PROVE  LET i == InTextOrder(b)[k]
               j == NextAnchor(b, i)
               c == Body(b, j) IN
           /\ o[k - 1] \in Nat /\ o[k] \in Nat
           /\ m + o[k - 1] + 1 <= Len(Script)
           /\ Script[m + o[k - 1] + 1] = Link(b, i)
           /\ ~IsInduction(b, j) => o[k] = o[k - 1] + 1
           /\ IsInduction(b, j) =>
                 /\ o[k] = o[k - 1] + Len(Scripts[c]) + 2 /\ Len(Scripts[c]) \in Nat
                 /\ Within(m + o[k - 1] + 1, c)
                 /\ m + o[k] <= Len(Script)
                 /\ Script[m + o[k]] = RolloverLink(c)
<1> DEFINE i == InTextOrder(b)[k]
           j == NextAnchor(b, i)
           c == Body(b, j)
           n == Cardinality(HopStarts(b))
           all == Scripts[b]
           body == Scripts[c]
           link == Link(b, i)
           roll == RolloverLink(c)
<1>1. Lays(b, o)
  BY OffsetsLay
<1>2. /\ o \in [0..n -> Nat]
      /\ o[k - 1] < o[k] /\ o[k] <= Len(all)
      /\ all[o[k - 1] + 1] = link
      /\ ~IsInduction(b, j) => o[k] = o[k - 1] + 1
      /\ IsInduction(b, j) =>
            /\ o[k] = o[k - 1] + Len(body) + 2
            /\ \A x \in 1..Len(body) : all[o[k - 1] + 1 + x] = body[x]
            /\ all[o[k]] = roll
  BY <1>1 DEF Lays
<1>3. n \in Nat /\ Len(all) \in Nat /\ Len(Script) \in Nat
  <2>1. all \in Seq(Links) /\ Script \in Seq(Links) /\ n \in Nat
    BY ScriptsMeaning, ElementFacts, InTextOrderFacts DEF Script
  <2> HIDE DEF all
  <2>2. QED BY <2>1
<1>4. k \in 0..n /\ k - 1 \in 0..n
  BY <1>3
<1>5. o[k - 1] \in Nat /\ o[k] \in Nat
  BY <1>2, <1>4
<1>6. m + Len(all) <= Len(Script) /\ \A x \in 1..Len(all) : Script[m + x] = all[x]
  BY DEF Within
<1>7. IsInduction(b, j) => Len(body) \in Nat
  <2>1. i \in HopStarts(b)
    BY InTextOrderFacts
  <2>2. IsInduction(b, j) => c \in Blocks
    BY <2>1, HopPlace
  <2>3. IsInduction(b, j) => body \in Seq(Links)
    BY <2>2, ScriptsMeaning
  <2> HIDE DEF body
  <2>4. QED BY <2>3
<1> HIDE DEF i, j, c, n, all, body, link, roll
<1>8. /\ m + o[k - 1] + 1 <= Len(Script)
      /\ Script[m + o[k - 1] + 1] = link
  <2>1. o[k - 1] + 1 \in 1..Len(all)
    <3>1. o[k - 1] < o[k] /\ o[k] <= Len(all)
      BY <1>2
    <3>2. Len(all) \in Nat
      BY <1>3
    <3>3. QED BY <1>5, <3>1, <3>2
  <2>2. Script[m + (o[k - 1] + 1)] = all[o[k - 1] + 1]
    BY <1>6, <2>1
  <2>3. m + (o[k - 1] + 1) = m + o[k - 1] + 1
    BY <1>5
  <2>4. m + o[k - 1] + 1 <= Len(Script)
    BY <1>3, <1>5, <1>6, <2>1
  <2>5. QED BY <1>2, <2>2, <2>3, <2>4
<1>9. ASSUME IsInduction(b, j)
      PROVE  /\ m + o[k - 1] + 1 + Len(body) <= Len(Script)
             /\ \A x \in 1..Len(body) : Script[m + o[k - 1] + 1 + x] = body[x]
             /\ m + o[k] <= Len(Script)
             /\ Script[m + o[k]] = roll
  <2>1. /\ o[k] = o[k - 1] + Len(body) + 2 /\ Len(body) \in Nat
        /\ o[k] <= Len(all) /\ m + Len(all) <= Len(Script)
    BY <1>2, <1>6, <1>7, <1>9
  <2>2. m + o[k - 1] + 1 + Len(body) <= Len(Script) /\ m + o[k] <= Len(Script)
    <3>1. PICK u, v, w, l, t :
            u = o[k - 1] /\ v = o[k] /\ w = Len(body) /\ l = Len(all) /\ t = Len(Script)
      OBVIOUS
    <3>2. /\ u \in Nat /\ v \in Nat /\ w \in Nat /\ l \in Nat /\ t \in Nat
          /\ v = u + w + 2 /\ v <= l /\ m + l <= t
      BY <1>3, <1>5, <2>1, <3>1
    <3>3. m + u + 1 + w <= t /\ m + v <= t
      BY <3>2
    <3>4. QED BY <3>1, <3>3
  <2>3. ASSUME NEW x \in 1..Len(body)
        PROVE  Script[m + o[k - 1] + 1 + x] = body[x]
    <3>1. o[k - 1] + 1 + x \in 1..Len(all)
      <4>1. x \in Nat /\ 1 <= x /\ x <= Len(body)
        BY <2>1
      <4>2. o[k - 1] + 1 + x <= Len(all)
        <5>1. o[k - 1] + Len(body) + 2 <= Len(all)
          BY <2>1
        <5> DEFINE p == o[k - 1]
        <5>2. p \in Nat /\ p + Len(body) + 2 <= Len(all)
          BY <1>5, <5>1
        <5> HIDE DEF p
        <5>3. p + 1 + x <= Len(all)
          BY <1>3, <2>1, <4>1, <5>2
        <5>4. QED BY <5>3 DEF p
      <4>3. QED BY <1>3, <1>5, <4>1, <4>2
    <3>2. Script[m + (o[k - 1] + 1 + x)] = all[o[k - 1] + 1 + x]
      BY <1>6, <3>1
    <3>3. m + (o[k - 1] + 1 + x) = m + o[k - 1] + 1 + x
      BY <1>5
    <3>4. QED BY <1>2, <1>9, <3>2, <3>3
  <2>4. Script[m + o[k]] = roll
    <3>1. o[k] \in 1..Len(all)
      <4>1. o[k] <= Len(all)
        BY <2>1
      <4>2. 0 < o[k] /\ Len(all) \in Nat
        <5>1. o[k - 1] < o[k] /\ Len(all) \in Nat
          BY <1>2, <1>3
        <5>2. QED BY <1>5, <5>1
      <4>3. QED BY <1>5, <4>1, <4>2
    <3>2. QED BY <1>2, <1>6, <1>9, <3>1
  <2>5. QED BY <2>2, <2>3, <2>4
<1>10. IsInduction(b, j) => Within(m + o[k - 1] + 1, c)
  BY <1>9 DEF Within, body
<1>11. /\ o[k - 1] \in Nat /\ o[k] \in Nat
       /\ m + o[k - 1] + 1 <= Len(Script)
       /\ Script[m + o[k - 1] + 1] = link
       /\ ~IsInduction(b, j) => o[k] = o[k - 1] + 1
       /\ IsInduction(b, j) =>
             /\ o[k] = o[k - 1] + Len(body) + 2 /\ Len(body) \in Nat
             /\ Within(m + o[k - 1] + 1, c)
             /\ m + o[k] <= Len(Script)
             /\ Script[m + o[k]] = roll
  BY <1>2, <1>5, <1>7, <1>8, <1>9, <1>10
<1>12. QED BY <1>11 DEF i, j, c, body, link, roll

(* At the end of a block all of it has been passed.                        *)
LEMMA BlockPassed ==
    ASSUME GamesList(job.blocks), NEW b \in Blocks
    PROVE  /\ Offsets(b)[0] = 0
           /\ Offsets(b)[Cardinality(HopStarts(b))] = Len(Scripts[b])
           /\ Len(Scripts[b]) \in Nat
<1>1. Lays(b, Offsets(b))
  BY OffsetsLay
<1>2. Scripts[b] \in Seq(Links)
  BY ScriptsMeaning
<1>3. Len(Scripts[b]) \in Nat
  BY <1>2
<1>4. QED BY <1>1, <1>3 DEF Lays

LEMMA FollowTextStep ==
    ASSUME NEW S, NEW results \in Seq(S), FollowText(results), NEW r,
           Len(results) + 1 <= Len(Script), LinkOf(r) = Script[Len(results) + 1]
    PROVE  FollowText(Append(results, r)) /\ Len(Append(results, r)) = Len(results) + 1
<1>1. /\ Len(results) \in Nat /\ DOMAIN results = 1..Len(results)
      /\ Len(Append(results, r)) = Len(results) + 1
      /\ DOMAIN Append(results, r) = 1..Len(results) + 1
      /\ \A i \in 1..Len(results) : Append(results, r)[i] = results[i]
      /\ Append(results, r)[Len(results) + 1] = r
  BY AppendFacts
<1> DEFINE t == Append(results, r)
<1> HIDE DEF t
<1>2. ASSUME NEW i \in DOMAIN t
      PROVE  i <= Len(Script) /\ LinkOf(t[i]) = Script[i]
  <2>1. CASE i = Len(results) + 1
    BY <1>1, <2>1 DEF t
  <2>2. CASE i \in 1..Len(results)
    BY <1>1, <2>2 DEF t, FollowText
  <2>3. i = Len(results) + 1 \/ i \in 1..Len(results)
    BY <1>1 DEF t
  <2>4. QED BY <2>1, <2>2, <2>3
<1>3. QED BY <1>1, <1>2 DEF FollowText, t
-------------------------------------------------------------------------------
(* The steps that report a hop.                                            *)

LEMMA PreparedCallSame ==
    ASSUME NEW f, NEW g, PreparedCall(f), g.hops = f.hops, g.block = f.block
    PROVE  PreparedCall(g)
BY DEF PreparedCall

(* Calls that only move on, or return, stand where they did.               *)
LEMMA StandingMoved ==
    ASSUME NEW at, NEW fs, NEW gs, Standing(at, fs), Len(fs) \in Nat,
           NEW n \in Nat, Len(gs) = n, n <= Len(fs),
           \A d \in 1..n : gs[d].block = fs[d].block,
           \A d \in 1..n : d # n => gs[d].pos = fs[d].pos
    PROVE  Standing([d \in 1..n |-> at[d]], gs)
<1> DEFINE here == [d \in 1..n |-> at[d]]
<1>1. /\ at \in [1..Len(fs) -> Nat]
      /\ \A d \in 1..Len(fs) : Within(at[d], fs[d].block)
      /\ 1 <= Len(fs) => fs[1].block = 1 /\ at[1] = 0
      /\ \A d \in 2..Len(fs) :
            at[d] = at[d - 1] + Offsets(fs[d - 1].block)[fs[d - 1].pos - 1] + 1
  BY DEF Standing
<1>2. here \in [1..n -> Nat] /\ \A d \in 1..n : here[d] = at[d]
  BY <1>1
<1> HIDE DEF here
<1>3. \A d \in 1..n : Within(here[d], gs[d].block)
  <2> TAKE d \in 1..n
  <2>1. d \in 1..Len(fs)
    OBVIOUS
  <2>2. QED BY <1>1, <1>2, <2>1
<1>4. 1 <= n => gs[1].block = 1 /\ here[1] = 0
  <2>1. 1 <= n => 1 \in 1..n /\ 1 <= Len(fs)
    OBVIOUS
  <2>2. QED BY <1>1, <1>2, <2>1
<1>5. ASSUME NEW d \in 2..n
      PROVE  here[d] = here[d - 1] + Offsets(gs[d - 1].block)[gs[d - 1].pos - 1] + 1
  <2>1. d \in 1..n /\ d - 1 \in 1..n /\ d - 1 # n /\ d \in 2..Len(fs)
    OBVIOUS
  <2>2. gs[d - 1].block = fs[d - 1].block /\ gs[d - 1].pos = fs[d - 1].pos
    BY <2>1
  <2>3. here[d] = at[d] /\ here[d - 1] = at[d - 1]
    BY <1>2, <2>1
  <2>4. at[d] = at[d - 1] + Offsets(fs[d - 1].block)[fs[d - 1].pos - 1] + 1
    BY <1>1, <2>1
  <2>5. QED BY <2>2, <2>3, <2>4
<1>6. Standing(here, gs)
  BY <1>2, <1>3, <1>4, <1>5 DEF Standing
<1>7. QED BY <1>6 DEF here

(* The next hop of the text is the one at hand.                            *)
LEMMA NextInText ==
    ASSUME RInv, HasHop, pc \in {"hops", "report"}, NEW at, Standing(at, frames),
           Len(hop_results) = Place(at, frames),
           NEW r, LinkOf(r) = LinkOf(CurrentHop), hop_results' = Append(hop_results, r),
           job' = job
    PROVE  /\ FollowText(hop_results)' /\ Len(hop_results') = Len(hop_results) + 1
           /\ Depth \in Nat \ {0} /\ Len(frames) = Depth
           /\ at[Depth] \in Nat /\ Within(at[Depth], Frame.block)
           /\ Len(hop_results) = at[Depth] + Offsets(Frame.block)[Frame.pos - 1]
<1> DEFINE b == Frame.block
           k == Frame.pos
           i == InTextOrder(b)[k]
           m == at[Depth]
           o == Offsets(b)
<1>1. /\ Depth \in Nat \ {0} /\ b \in Blocks
      /\ k \in 1..Cardinality(HopStarts(b))
      /\ LinkOf(CurrentHop) = Link(b, i)
  BY HopAtHand
<1>2. Len(frames) = Depth /\ Depth \in 1..Depth
  BY <1>1 DEF Depth
<1>3. m \in Nat /\ Within(m, b)
  BY <1>2 DEF Standing, Frame
<1>4. Len(hop_results) = m + o[k - 1]
  BY <1>2 DEF Place, Frame
<1>5. GamesList(job.blocks) /\ FollowText(hop_results)
  BY DEF RInv, IInv, Accounts
<1> HIDE DEF b, k, i, m, o
<1>6. m + o[k - 1] + 1 <= Len(Script) /\ Script[m + o[k - 1] + 1] = Link(b, i)
  BY <1>1, <1>3, <1>5, WithinFacts DEF i, o
<1>7. Len(hop_results) + 1 <= Len(Script) /\ LinkOf(r) = Script[Len(hop_results) + 1]
  BY <1>1, <1>4, <1>6
<1>8. PICK S : hop_results \in Seq(S)
  BY DEF RInv, IInv, Reported
<1>9. FollowText(Append(hop_results, r)) /\ Len(Append(hop_results, r)) = Len(hop_results) + 1
  BY <1>5, <1>7, <1>8, FollowTextStep
<1>10. FollowText(hop_results)'
  BY <1>9, ScriptKept
<1>11. QED BY <1>1, <1>2, <1>3, <1>4, <1>9, <1>10 DEF b, k, m, o

(* A hop that leads to a step is reported, and the call moves on.          *)
LEMMA AdvanceStep ==
    ASSUME RInv, IInv', HasHop, CurrentHop.body = 0, pc \in {"hops", "report"}, pc' = pc,
           job' = job, total_steps' = total_steps, frames' = NextHop,
           NEW r, LinkOf(r) = LinkOf(CurrentHop), hop_results' = Append(hop_results, r),
           current_step' = current_step + 1
    PROVE  RInv'
<1> DEFINE b == Frame.block
           k == Frame.pos
           i == InTextOrder(b)[k]
           j == NextAnchor(b, i)
           o == Offsets(b)
<1>1. PICK at : Standing(at, frames) /\ Len(hop_results) = Place(at, frames)
  BY DEF RInv, Positioned, Running
<1>2. /\ FollowText(hop_results)' /\ Len(hop_results') = Len(hop_results) + 1
      /\ Depth \in Nat \ {0} /\ Len(frames) = Depth
      /\ at[Depth] \in Nat /\ Within(at[Depth], b)
      /\ Len(hop_results) = at[Depth] + o[k - 1]
  BY <1>1, NextInText
<1>3. /\ b \in Blocks /\ k \in 1..Cardinality(HopStarts(b)) /\ ~IsInduction(b, j)
  BY HopAtHand
<1>4. Called /\ GamesList(job.blocks) /\ Accounts /\ Prepared
  BY DEF RInv, IInv
<1>5. /\ DOMAIN frames = 1..Depth
      /\ DOMAIN frames' = 1..Depth /\ Depth' = Depth
      /\ frames'[Depth].block = frames[Depth].block
      /\ frames'[Depth].hops = frames[Depth].hops
      /\ frames'[Depth].pos = frames[Depth].pos + 1
      /\ \A d \in 1..Depth : d # Depth => frames'[d] = frames[d]
  BY <1>4, NextHopFrames
<1>6. o[k] = o[k - 1] + 1 /\ o[k - 1] \in Nat
  BY <1>2, <1>3, <1>4, WithinFacts
<1>7. Prepared'
  <2>1. ASSUME NEW d \in DOMAIN frames'
        PROVE  PreparedCall(frames[d])'
    <3>1. PreparedCall(frames[d]) /\ frames'[d].hops = frames[d].hops
          /\ frames'[d].block = frames[d].block
      BY <1>4, <1>5 DEF Prepared
    <3>2. PreparedCall(frames'[d])
      BY <3>1, PreparedCallSame
    <3>3. QED BY <3>2, ScriptKept
  <2>2. QED BY <2>1 DEF Prepared
<1>8. Positioned'
  <2>1. PICK calls, here : calls = frames' /\ here = [d \in 1..Depth |-> at[d]]
    OBVIOUS
  <2>2. Len(calls) = Depth
    BY <1>5, <2>1 DEF Depth
  <2>3. \A d \in 1..Depth : /\ calls[d].block = frames[d].block
                            /\ d # Depth => calls[d].pos = frames[d].pos
    BY <1>5, <2>1
  <2>4. Standing([d \in 1..Depth |-> at[d]], calls)
    <3>1. Depth \in Nat /\ Len(frames) \in Nat /\ Depth <= Len(frames)
      BY <1>2
    <3> HIDE DEF b, k, i, j, o
    <3>2. \A d \in 1..Depth : calls[d].block = frames[d].block
      BY <2>3
    <3>3. \A d \in 1..Depth : d # Depth => calls[d].pos = frames[d].pos
      BY <2>3
    <3>4. QED BY <1>1, <2>2, <3>1, <3>2, <3>3, StandingMoved
  <2>5. Standing(here, calls) /\ here[Depth] = at[Depth]
    BY <1>2, <2>1, <2>4
  <2>6. Place(here, calls) = at[Depth] + o[k]
    <3>1. calls[Depth].block = b /\ calls[Depth].pos - 1 = k
      <4>1. frames'[Depth].pos = k + 1 /\ k \in Nat
        BY <1>3, <1>4, <1>5, <1>2, FramesFacts DEF Frame
      <4>2. QED BY <1>5, <2>1, <4>1 DEF Frame
    <3>2. QED BY <2>2, <2>5, <3>1 DEF Place
  <2>7. Len(hop_results') = Place(here, calls)
    BY <1>2, <1>6, <2>6
  <2>8. Standing(here, frames') /\ Len(hop_results') = Place(here, frames')
    BY <2>1, <2>5, <2>7
  <2> HIDE DEF b, k, i, j, o
  <2>9. Standing(here, frames)' /\ Place(here, frames)' = Place(here, frames')
    <3>1. Standing(here, frames)'
      BY <2>8, ScriptKept
    <3>2. Place(here, frames)' = Place(here, frames')
      BY ScriptKept
    <3>3. QED BY <3>1, <3>2
  <2>10. pc' # "enter"
    OBVIOUS
  <2>11. QED BY <2>8, <2>9, <2>10 DEF Positioned
<1>9. Accounts'
  <2>1. current_step' = Len(hop_results')
    BY <1>2, <1>4 DEF Accounts
  <2>2. frames # <<>> /\ frames' # <<>>
    BY <1>2, <1>5
  <2>3. total_steps' = CountHops'
    BY <1>4, <2>2, ScriptKept DEF Accounts
  <2>4. pc = "report" => /\ Depth' = 1
                         /\ \A d \in DOMAIN (Frame.hops)' : (Frame.hops[d].body)' = 0
    <3>1. pc = "report" => Depth = 1 /\ \A d \in DOMAIN Frame.hops : Frame.hops[d].body = 0
      BY <1>4 DEF Accounts
    <3>2. frames'[Depth'].hops = Frame.hops
      BY <1>5 DEF Frame
    <3>3. QED BY <1>5, <3>1, <3>2 DEF Frame
  <2>5. QED BY <1>2, <2>1, <2>2, <2>3, <2>4 DEF Accounts
<1>10. QED BY <1>7, <1>8, <1>9 DEF RInv
(* What a step of the reports has to show.                                 *)
LEMMA PositionedNext ==
    ASSUME job' = job, NEW at, NEW calls, calls = frames', Standing(at, calls),
           Len(hop_results') = IF pc' = "enter" THEN Place(at, calls) + 1 ELSE Place(at, calls)
    PROVE  Positioned'
<1>1. Standing(at, frames)'
  BY ScriptKept
<1>2. Place(at, frames)' = Place(at, calls)
  BY ScriptKept
<1>3. QED BY <1>1, <1>2 DEF Positioned

LEMMA PreparedNext ==
    ASSUME job' = job, \A d \in DOMAIN frames' : PreparedCall(frames'[d])
    PROVE  Prepared'
<1>1. ASSUME NEW d \in DOMAIN frames'
      PROVE  PreparedCall(frames[d])'
  BY ScriptKept
<1>2. QED BY <1>1 DEF Prepared

(* A hop that leads into an induction is reported before its body is       *)
(* entered.                                                                *)
LEMMA IntoBodyStep ==
    ASSUME RInv, IInv', HasHop, pc = "hops", pc' = "enter", job' = job,
           total_steps' = total_steps, frames' = frames,
           NEW r, LinkOf(r) = LinkOf(CurrentHop), hop_results' = Append(hop_results, r),
           current_step' = current_step + 1
    PROVE  RInv'
<1>1. PICK at : Standing(at, frames) /\ Len(hop_results) = Place(at, frames)
  BY DEF RInv, Positioned, Running
<1>2. FollowText(hop_results)' /\ Len(hop_results') = Len(hop_results) + 1
  BY <1>1, NextInText
<1>3. Accounts /\ Prepared
  BY DEF RInv
<1>4. Positioned'
  <2>1. PICK calls : calls = frames'
    OBVIOUS
  <2>2. Standing(at, calls) /\ Len(hop_results') = Place(at, calls) + 1
    BY <1>1, <1>2, <2>1
  <2>3. QED BY <2>1, <2>2, PositionedNext
<1>5. Prepared'
  BY <1>3, PreparedNext DEF Prepared
<1>6. Accounts'
  <2>1. frames # <<>>
    BY <1>3 DEF Accounts, Running
  <2>2. CountHops' = CountHops
    BY ScriptKept
  <2>3. QED BY <1>2, <1>3, <2>1, <2>2 DEF Accounts
<1>7. QED BY <1>4, <1>5, <1>6 DEF RInv

(* A call that starts stands after the hop that leads into it.             *)
LEMMA StandingEntered ==
    ASSUME NEW at, NEW fs, NEW gs, NEW n \in Nat \ {0}, NEW m \in Nat, Standing(at, fs),
           Len(fs) = n, Len(gs) = n + 1, \A d \in 1..n : gs[d] = fs[d],
           m = at[n] + Offsets(fs[n].block)[fs[n].pos - 1] + 1,
           Within(m, gs[n + 1].block)
    PROVE  Standing([d \in 1..n + 1 |-> IF d = n + 1 THEN m ELSE at[d]], gs)
<1> DEFINE here == [d \in 1..n + 1 |-> IF d = n + 1 THEN m ELSE at[d]]
<1>1. /\ at \in [1..n -> Nat]
      /\ \A d \in 1..n : Within(at[d], fs[d].block)
      /\ fs[1].block = 1 /\ at[1] = 0
      /\ \A d \in 2..n :
            at[d] = at[d - 1] + Offsets(fs[d - 1].block)[fs[d - 1].pos - 1] + 1
  BY DEF Standing
<1>2. /\ here \in [1..n + 1 -> Nat] /\ here[n + 1] = m
      /\ \A d \in 1..n : here[d] = at[d]
  BY <1>1
<1> HIDE DEF here
<1>3. \A d \in 1..n + 1 : d = n + 1 \/ d \in 1..n
  OBVIOUS
<1>4. \A d \in 1..n + 1 : Within(here[d], gs[d].block)
  BY <1>1, <1>2, <1>3
<1>5. gs[1].block = 1 /\ here[1] = 0
  BY <1>1, <1>2
<1>6. ASSUME NEW d \in 2..n + 1
      PROVE  here[d] = here[d - 1] + Offsets(gs[d - 1].block)[gs[d - 1].pos - 1] + 1
  <2>1. d - 1 \in 1..n /\ (d = n + 1 \/ d \in 2..n)
    OBVIOUS
  <2>2. here[d - 1] = at[d - 1] /\ gs[d - 1] = fs[d - 1]
    BY <1>2, <2>1
  <2>3. CASE d = n + 1
    BY <1>2, <2>2, <2>3
  <2>4. CASE d \in 2..n
    <3>1. here[d] = at[d]
      BY <1>2, <2>4
    <3>2. QED BY <1>1, <2>2, <2>4, <3>1
  <2>5. QED BY <2>1, <2>3, <2>4
<1>7. Standing(here, gs)
  BY <1>2, <1>4, <1>5, <1>6 DEF Standing
<1>8. QED BY <1>7 DEF here
(* The body of the induction is entered where the reports have come to.    *)
LEMMA EnterBodyStep ==
    ASSUME RInv, IInv', pc = "enter", EnterBlock(CurrentHop.body), job' = job,
           hop_results' = hop_results, current_step' = current_step,
           total_steps' = total_steps
    PROVE  RInv'
<1> DEFINE b == Frame.block
           k == Frame.pos
           i == InTextOrder(b)[k]
           j == NextAnchor(b, i)
           o == Offsets(b)
           c == CurrentHop.body
           call == [block |-> c, hops |-> PrepareHops(c), pos |-> 1]
<1>1. Called /\ GamesList(job.blocks) /\ Accounts /\ Prepared
  BY DEF RInv, IInv
<1>2. HasHop /\ c # 0
  BY <1>1 DEF Called
<1>3. PICK at : Standing(at, frames) /\ Len(hop_results) = Place(at, frames) + 1
  BY DEF RInv, Positioned, Running
<1>4. /\ Depth \in Nat \ {0} /\ b \in Blocks /\ k \in 1..Cardinality(HopStarts(b))
      /\ IsInduction(b, j) /\ c = Body(b, j) /\ c \in Blocks
  BY <1>2, HopAtHand
<1>5. FollowText(hop_results)' /\ CountHops' = CountHops
  BY <1>1, ScriptKept DEF Accounts
<1>6. frames # <<>> /\ total_steps = CountHops /\ current_step = Len(hop_results)
  BY <1>1 DEF Accounts, Running
<1>7. CASE AssertionFails(c)
  <2>1. pc' = "crashed" /\ frames' = frames
    BY <1>7 DEF EnterBlock
  <2>2. Prepared'
    BY <1>1, <2>1, PreparedNext DEF Prepared
  <2>3. Positioned'
    BY <2>1 DEF Positioned, Running
  <2>4. Accounts'
    BY <1>5, <1>6, <2>1 DEF Accounts, Running
  <2>5. QED BY <2>2, <2>3, <2>4 DEF RInv
<1>8. CASE ~AssertionFails(c)
  <2>1. frames' = Append(frames, call) /\ pc' = "hops"
    BY <1>6, <1>8 DEF EnterBlock
  <2>2. /\ DOMAIN frames = 1..Depth
        /\ DOMAIN frames' = 1..Depth + 1 /\ Depth' = Depth + 1
        /\ \A d \in 1..Depth : frames'[d] = frames[d]
        /\ frames'[Depth + 1] = call
    BY <1>1, <1>4, <2>1, EnterFrames
  <2>3. PICK calls, n, m : /\ calls = frames' /\ n = Depth
                           /\ m = at[Depth] + o[k - 1] + 1
    OBVIOUS
  <2>4. /\ n \in Nat \ {0} /\ Len(frames) = n /\ Len(calls) = n + 1
        /\ \A d \in 1..n : calls[d] = frames[d]
        /\ calls[n + 1].block = c /\ calls[n + 1].pos = 1
    BY <1>4, <2>2, <2>3 DEF Depth
  <2>5. at[Depth] \in Nat /\ Within(at[Depth], b)
    <3>1. Len(frames) = Depth /\ Depth \in 1..Depth
      BY <1>4 DEF Depth
    <3>2. QED BY <1>3, <3>1 DEF Standing, Frame
  <2>6. o[k - 1] \in Nat /\ Within(m, c)
    BY <1>1, <1>4, <2>3, <2>5, WithinFacts
  <2>7. m \in Nat /\ m = at[n] + Offsets(frames[n].block)[frames[n].pos - 1] + 1
    BY <2>3, <2>5, <2>6 DEF Frame
  <2>8. Within(m, calls[n + 1].block)
    BY <2>4, <2>6
  <2>9. PICK here : here = [d \in 1..n + 1 |-> IF d = n + 1 THEN m ELSE at[d]]
    OBVIOUS
  <2>10. Standing(here, calls)
    <3> HIDE DEF b, k, i, j, o, c, call
    <3>1. PICK f : f = frames
      OBVIOUS
    <3>2. /\ Standing(at, f) /\ m \in Nat /\ n \in Nat \ {0}
          /\ Len(f) = n /\ Len(calls) = n + 1
          /\ \A d \in 1..n : calls[d] = f[d]
          /\ m = at[n] + Offsets(f[n].block)[f[n].pos - 1] + 1
          /\ Within(m, calls[n + 1].block)
      BY <1>3, <2>4, <2>7, <2>8, <3>1
    <3>3. Standing([d \in 1..n + 1 |-> IF d = n + 1 THEN m ELSE at[d]], calls)
      BY <3>2, StandingEntered
    <3>4. QED BY <2>9, <3>3
  <2>11. Place(here, calls) = m
    <3>1. here[n + 1] = m
      BY <2>4, <2>9
    <3>2. Offsets(c)[0] = 0
      <4> HIDE DEF c
      <4>1. QED BY <1>1, <1>4, BlockPassed
    <3>3. Place(here, calls) = m + 0
      <4>1. calls[n + 1].pos - 1 = 0 /\ calls[Len(calls)] = calls[n + 1]
        BY <2>4
      <4> HIDE DEF c
      <4>2. QED BY <2>4, <3>1, <3>2, <4>1 DEF Place
    <3>4. QED BY <2>7, <3>3
  <2>12. Len(hop_results') = Place(here, calls)
    <3>1. Place(at, frames) + 1 = m
      BY <2>4, <2>7 DEF Place
    <3>2. QED BY <1>3, <2>11, <3>1
  <2>13. Positioned'
    BY <2>1, <2>3, <2>10, <2>12, PositionedNext
  <2>14. Prepared'
    <3>1. PreparedCall(call)
      BY <1>1, <1>4, PrepareHopsPrepared
    <3>2. ASSUME NEW d \in DOMAIN frames'
          PROVE  PreparedCall(frames'[d])
      <4>1. d \in 1..Depth \/ d = Depth + 1
        BY <1>4, <2>2
      <4>2. QED BY <1>1, <2>2, <3>1, <4>1 DEF Prepared
    <3>3. QED BY <3>2, PreparedNext
  <2>15. frames' # <<>>
    <3>1. Depth + 1 \in DOMAIN frames'
      BY <1>4, <2>2
    <3> HIDE DEF call
    <3>2. QED BY <3>1
  <2>16. Accounts'
    BY <1>5, <1>6, <2>1, <2>15 DEF Accounts, Running
  <2>17. QED BY <2>13, <2>14, <2>16 DEF RInv
<1>9. QED BY <1>7, <1>8
(* A call without a next hop stands at the end of its block.               *)
LEMMA AtBlockEnd ==
    ASSUME RInv, ~HasHop, Depth \in Nat \ {0}, NEW at, Standing(at, frames)
    PROVE  /\ Frame.block \in Blocks /\ Len(frames) = Depth
           /\ at[Depth] \in Nat /\ Within(at[Depth], Frame.block)
           /\ Place(at, frames) = at[Depth] + Len(Scripts[Frame.block])
           /\ Len(Scripts[Frame.block]) \in Nat
<1> DEFINE c == Frame.block
           n == Cardinality(HopStarts(c))
<1>1. Called /\ Prepared /\ GamesList(job.blocks)
  BY DEF RInv, IInv
<1>2. Depth \in DOMAIN frames /\ DOMAIN frames = 1..Depth /\ c \in Blocks
  BY <1>1, FramesFacts DEF Frame
<1>3. /\ Len(Frame.hops) \in Nat /\ DOMAIN Frame.hops = 1..Len(Frame.hops)
      /\ Frame.pos \in 1..Len(Frame.hops) + 1
  BY <1>1, <1>2 DEF Called, Call, Frame
<1>4. Len(Frame.hops) = n
  BY <1>1, <1>2 DEF Prepared, PreparedCall, Frame
<1>5. Frame.pos - 1 = n
  <2>1. Frame.pos \notin 1..n
    BY <1>3, <1>4 DEF HasHop
  <2> HIDE DEF n
  <2>2. QED BY <1>3, <1>4, <2>1
<1>6. Offsets(c)[n] = Len(Scripts[c]) /\ Len(Scripts[c]) \in Nat
  BY <1>1, <1>2, BlockPassed
<1>7. Len(frames) = Depth /\ Depth \in 1..Depth
  BY DEF Depth
<1>8. at[Depth] \in Nat /\ Within(at[Depth], c)
  BY <1>7 DEF Standing, Frame
<1> HIDE DEF n
<1>9. Place(at, frames) = at[Depth] + Offsets(c)[n]
  BY <1>5, <1>7 DEF Place, Frame
<1>10. QED BY <1>2, <1>6, <1>7, <1>8, <1>9

(* An inner call runs the body of the induction its caller has come to.    *)
LEMMA LedInto ==
    ASSUME RInv, NEW n \in Nat \ {0}, n + 1 = Depth
    PROVE  LET b == frames[n].block
               k == frames[n].pos
               i == InTextOrder(b)[k]
               j == NextAnchor(b, i) IN
           /\ b \in Blocks /\ Frame.block \in Blocks
           /\ k \in 1..Cardinality(HopStarts(b)) /\ i \in HopStarts(b)
           /\ IsInduction(b, j) /\ Frame.block = Body(b, j)
<1> DEFINE c == Frame.block
           b == frames[n].block
           k == frames[n].pos
           i == InTextOrder(b)[k]
           j == NextAnchor(b, i)
           h == frames[n].hops[k]
<1>1. Called /\ GamesList(job.blocks) /\ Prepared
  BY DEF RInv, IInv
<1>2. /\ DOMAIN frames = 1..Depth /\ n \in DOMAIN frames /\ n + 1 \in DOMAIN frames
      /\ n + 1 > 1 /\ n + 1 - 1 = n
  BY <1>1, FramesFacts
<1>3. k \in DOMAIN frames[n].hops /\ h.body = c
  <2>1. Call(n + 1)
    BY <1>1, <1>2 DEF Called
  <2>2. QED BY <1>2, <2>1 DEF Call, Frame
<1>4. b \in Blocks /\ c \in Blocks
  BY <1>1, <1>2, FramesFacts DEF Frame
<1>5. k \in 1..Cardinality(HopStarts(b))
  <2>1. PreparedCall(frames[n]) /\ Call(n)
    BY <1>1, <1>2 DEF Called, Prepared
  <2>2. DOMAIN frames[n].hops = 1..Len(frames[n].hops)
    BY <2>1 DEF Call
  <2>3. Len(frames[n].hops) = Cardinality(HopStarts(b))
    BY <2>1 DEF PreparedCall
  <2>4. QED BY <1>3, <2>2, <2>3
<1>6. h.body = IF IsStep(b, j) THEN 0 ELSE Body(b, j)
  <2>1. PreparedCall(frames[n])
    BY <1>1, <1>2 DEF Prepared
  <2>2. QED BY <1>5, <2>1 DEF PreparedCall
<1>7. i \in HopStarts(b)
  BY <1>1, <1>4, <1>5, InTextOrderCount
<1>8. IsInduction(b, j) /\ c = Body(b, j)
  <2>1. c # 0
    BY <1>1, <1>4 DEF GamesList, Blocks
  <2>2. ~IsStep(b, j) /\ c = Body(b, j)
    BY <1>3, <1>6, <2>1
  <2>3. IsStep(b, j) <=> ~IsInduction(b, j)
    BY <1>1, <1>4, <1>7, HopPlace
  <2>4. QED BY <2>2, <2>3
<1>9. QED BY <1>4, <1>5, <1>7, <1>8

(* The body is left: its rollover is reported and the caller moves on.     *)
LEMMA LeaveBodyStep ==
    ASSUME RInv, IInv', pc = "hops", pc' = pc, Depth > 1, ~HasHop, job' = job,
           total_steps' = total_steps,
           frames' = [Front(frames) EXCEPT ![Depth - 1].pos = @ + 1],
           NEW r, LinkOf(r) = RolloverLink(Frame.block),
           hop_results' = Append(hop_results, r), current_step' = current_step + 1
    PROVE  RInv'
<1>1. Called /\ GamesList(job.blocks) /\ Accounts /\ Prepared
  BY DEF RInv, IInv
<1>2. PICK at : Standing(at, frames) /\ Len(hop_results) = Place(at, frames)
  BY DEF RInv, Positioned, Running
<1>3. /\ Depth \in Nat /\ DOMAIN frames = 1..Depth
      /\ DOMAIN frames' = 1..Depth - 1 /\ Depth' = Depth - 1
      /\ frames'[Depth - 1].block = frames[Depth - 1].block
      /\ frames'[Depth - 1].hops = frames[Depth - 1].hops
      /\ frames'[Depth - 1].pos = frames[Depth - 1].pos + 1
      /\ \A d \in 1..Depth - 1 : d # Depth - 1 => frames'[d] = frames[d]
  BY <1>1, LeaveFrames
<1>4. PICK n, calls : n = Depth - 1 /\ calls = frames'
  OBVIOUS
<1>5. /\ n \in Nat \ {0} /\ n + 1 = Depth /\ n \in 1..Depth /\ n + 1 \in 1..Depth
      /\ n + 1 \in 2..Depth /\ n + 1 > 1 /\ n + 1 - 1 = n /\ n <= Depth
      /\ n \in DOMAIN frames /\ n + 1 \in DOMAIN frames
  BY <1>3, <1>4
<1> DEFINE c == Frame.block
           b == frames[n].block
           k == frames[n].pos
           i == InTextOrder(b)[k]
           j == NextAnchor(b, i)
           o == Offsets(b)
<1>6. /\ b \in Blocks /\ c \in Blocks
      /\ k \in 1..Cardinality(HopStarts(b))
      /\ IsInduction(b, j) /\ c = Body(b, j)
  BY <1>5, LedInto
<1>7. /\ at[Depth] \in Nat
      /\ Len(hop_results) = at[Depth] + Len(Scripts[c]) /\ Len(Scripts[c]) \in Nat
      /\ Len(frames) = Depth
  <2>1. Depth \in Nat \ {0}
    BY <1>3
  <2>2. QED BY <1>2, <2>1, AtBlockEnd
<1>8. /\ at[n] \in Nat /\ Within(at[n], b)
      /\ at[n + 1] = at[n] + o[k - 1] + 1
  <2>1. /\ at \in [1..Depth -> Nat]
        /\ \A d \in 1..Depth : Within(at[d], frames[d].block)
        /\ \A d \in 2..Depth :
              at[d] = at[d - 1] + Offsets(frames[d - 1].block)[frames[d - 1].pos - 1] + 1
    BY <1>2, <1>7 DEF Standing
  <2>2. at[n + 1] = at[n + 1 - 1] + Offsets(frames[n + 1 - 1].block)[frames[n + 1 - 1].pos - 1] + 1
    BY <1>5, <2>1
  <2>3. at[n + 1] = at[n] + o[k - 1] + 1
    BY <1>5, <2>2
  <2>4. QED BY <1>5, <2>1, <2>3
<1>9. /\ o[k - 1] \in Nat /\ o[k] \in Nat
      /\ o[k] = o[k - 1] + Len(Scripts[c]) + 2
      /\ at[n] + o[k] <= Len(Script)
      /\ Script[at[n] + o[k]] = RolloverLink(c)
  <2> HIDE DEF b, c, k, o
  <2>1. o = Offsets(b)
    BY DEF o
  <2>2. /\ o[k - 1] \in Nat /\ o[k] \in Nat
        /\ IsInduction(b, j) =>
              /\ o[k] = o[k - 1] + Len(Scripts[Body(b, j)]) + 2
              /\ at[n] + o[k] <= Len(Script)
              /\ Script[at[n] + o[k]] = RolloverLink(Body(b, j))
    <3>1. PICK m : m = at[n]
      OBVIOUS
    <3>2. m \in Nat /\ Within(m, b) /\ GamesList(job.blocks) /\ b \in Blocks
          /\ k \in 1..Cardinality(HopStarts(b))
      BY <1>1, <1>6, <1>8, <3>1
    <3>3. o[k - 1] \in Nat /\ o[k] \in Nat
      BY <2>1, <3>2, WithinFacts
    <3>4. IsInduction(b, j) =>
              /\ o[k] = o[k - 1] + Len(Scripts[Body(b, j)]) + 2
              /\ m + o[k] <= Len(Script)
              /\ Script[m + o[k]] = RolloverLink(Body(b, j))
      BY <2>1, <3>2, WithinFacts
    <3>5. QED BY <3>1, <3>3, <3>4
  <2> HIDE DEF i, j
  <2>3. QED BY <1>6, <2>2
<1>10. Len(hop_results) + 1 = at[n] + o[k]
  <2>1. PICK p, q, l : p = o[k - 1] /\ q = o[k] /\ l = Len(Scripts[c])
    OBVIOUS
  <2>2. /\ p \in Nat /\ l \in Nat /\ q = p + l + 2 /\ at[n] \in Nat
        /\ at[n + 1] = at[n] + p + 1 /\ Len(hop_results) = at[n + 1] + l
    BY <1>5, <1>7, <1>8, <1>9, <2>1
  <2>3. Len(hop_results) + 1 = at[n] + q
    BY <2>2
  <2>4. QED BY <2>1, <2>3
<1> HIDE DEF b, c, i, j, k, o
<1>11. FollowText(hop_results)' /\ Len(hop_results') = Len(hop_results) + 1
  <2>1. Len(hop_results) + 1 <= Len(Script) /\ LinkOf(r) = Script[Len(hop_results) + 1]
    BY <1>9, <1>10 DEF c
  <2>2. PICK S : hop_results \in Seq(S)
    BY DEF RInv, IInv, Reported
  <2>3. FollowText(hop_results)
    BY <1>1 DEF Accounts
  <2>4. FollowText(Append(hop_results, r))
        /\ Len(Append(hop_results, r)) = Len(hop_results) + 1
    BY <2>1, <2>2, <2>3, FollowTextStep
  <2>5. QED BY <2>4, ScriptKept
<1>12. Positioned'
  <2>1. Len(calls) = n /\ n <= Len(frames) /\ Len(frames) \in Nat
    BY <1>3, <1>4, <1>5, <1>7 DEF Depth
  <2>2. \A d \in 1..n : calls[d].block = frames[d].block
    BY <1>3, <1>4
  <2>3. \A d \in 1..n : d # n => calls[d].pos = frames[d].pos
    BY <1>3, <1>4
  <2>4. Standing([d \in 1..n |-> at[d]], calls)
    BY <1>2, <1>5, <2>1, <2>2, <2>3, StandingMoved
  <2>5. PICK here : here = [d \in 1..n |-> at[d]]
    OBVIOUS
  <2>6. Standing(here, calls) /\ here[n] = at[n]
    BY <1>5, <2>4, <2>5
  <2>7. Place(here, calls) = at[n] + o[k]
    <3>1. calls[n].block = b /\ calls[n].pos = k + 1
      BY <1>3, <1>4, <1>5 DEF b, k
    <3>2. k \in Int
      BY <1>6
    <3>3. Place(here, calls) = here[n] + Offsets(calls[n].block)[calls[n].pos - 1]
      <4>1. Len(calls) = n
        BY <2>1
      <4>2. QED BY <4>1 DEF Place
    <3>4. calls[n].pos - 1 = k
      BY <3>1, <3>2
    <3>5. Place(here, calls) = at[n] + Offsets(b)[k]
      <4>1. calls[n].block = b /\ here[n] = at[n]
        BY <2>6, <3>1
      <4>2. QED BY <3>3, <3>4, <4>1
    <3>6. QED BY <3>5 DEF o
  <2>8. Len(hop_results') = Place(here, calls)
    BY <1>10, <1>11, <2>7
  <2>9. pc' # "enter"
    OBVIOUS
  <2>10. QED BY <1>4, <2>6, <2>8, <2>9, PositionedNext
<1>13. Prepared'
  <2>1. ASSUME NEW d \in DOMAIN frames'
        PROVE  PreparedCall(frames'[d])
    <3>1. d \in DOMAIN frames /\ frames'[d].hops = frames[d].hops
          /\ frames'[d].block = frames[d].block
      BY <1>3
    <3>2. PreparedCall(frames[d])
      BY <1>1, <3>1 DEF Prepared
    <3>3. QED BY <3>1, <3>2, PreparedCallSame
  <2>2. QED BY <2>1, PreparedNext
<1>14. Accounts'
  <2>1. frames # <<>> /\ frames' # <<>>
    BY <1>3, <1>5
  <2>2. CountHops' = CountHops
    BY ScriptKept
  <2>3. QED BY <1>1, <1>11, <2>1, <2>2 DEF Accounts
<1>15. QED BY <1>12, <1>13, <1>14 DEF RInv
(* The games list is entered before anything is reported.                  *)
LEMMA EnterListStep ==
    ASSUME RInv, IInv', Start
    PROVE  RInv'
<1> DEFINE call == [block |-> 1, hops |-> PrepareHops(1), pos |-> 1]
<1>1. Called /\ GamesList(job.blocks) /\ Accounts /\ Prepared /\ 1 \in Blocks
  <2>1. Called /\ GamesList(job.blocks) /\ Accounts /\ Prepared
    BY DEF RInv, IInv
  <2>2. 1 \in Blocks
    BY <2>1 DEF GamesList, Blocks
  <2>3. QED BY <2>1, <2>2
<1>2. /\ pc = "lemmas" /\ frames = <<>> /\ EnterBlock(1) /\ job' = job
      /\ hop_results' = hop_results /\ current_step' = current_step
      /\ total_steps' = CountHops
  <2>1. pc = "lemmas" /\ EnterBlock(1) /\ total_steps' = CountHops
        /\ UNCHANGED <<job, hop_results, current_step>>
    BY DEF Start
  <2>2. QED BY <1>1, <2>1 DEF Called
<1>3. hop_results = <<>> /\ current_step = Len(hop_results)
  BY <1>1, <1>2 DEF Accounts
<1>4. FollowText(hop_results)' /\ CountHops' = CountHops
  BY <1>1, <1>2, ScriptKept DEF Accounts
<1>5. CASE AssertionFails(1)
  <2>1. pc' = "crashed" /\ frames' = frames
    BY <1>5, <1>2 DEF EnterBlock
  <2>2. Prepared'
    BY <1>1, <1>2, <2>1, PreparedNext DEF Prepared
  <2>3. Positioned'
    BY <2>1 DEF Positioned, Running
  <2>4. Accounts'
    BY <1>2, <1>3, <1>4, <2>1 DEF Accounts, Running
  <2>5. QED BY <2>2, <2>3, <2>4 DEF RInv
<1>6. CASE ~AssertionFails(1)
  <2>1. /\ frames' = Append(frames, call) /\ pc' \in {"hops", "pool"}
        /\ pc' = "pool" => \A k \in DOMAIN call.hops : call.hops[k].body = 0
    BY <1>2, <1>6 DEF EnterBlock
  <2>2. /\ DOMAIN frames' = 1..1 /\ Depth' = 1 /\ frames'[1] = call
    <3>1. Depth = 0
      BY <1>2 DEF Depth
    <3>2. /\ DOMAIN frames' = 1..Depth + 1 /\ Depth' = Depth + 1
          /\ frames'[Depth + 1] = call
      BY <1>1, <2>1, EnterFrames
    <3>3. QED BY <3>1, <3>2
  <2>3. PICK calls, here : calls = frames' /\ here = [d \in 1..1 |-> 0]
    OBVIOUS
  <2>4. Len(calls) = 1 /\ calls[1].block = 1 /\ calls[1].pos = 1
    BY <2>2, <2>3 DEF Depth
  <2>5. Len(Scripts[1]) \in Nat /\ Offsets(1)[0] = 0
    BY <1>1, BlockPassed
  <2>6. Within(0, 1)
    <3>1. \A x \in 1..Len(Scripts[1]) : 0 + x = x
      BY <2>5
    <3>2. QED BY <2>5, <3>1 DEF Within, Script
  <2>7. here \in [1..1 -> Nat] /\ here[1] = 0
    BY <2>3
  <2>8. Standing(here, calls)
    BY <2>4, <2>6, <2>7 DEF Standing
  <2>9. Place(here, calls) = 0
    <3>1. calls[1].pos - 1 = 0
      BY <2>4
    <3>2. Place(here, calls) = here[1] + Offsets(1)[0]
      BY <2>4, <3>1 DEF Place
    <3>3. QED BY <2>5, <2>7, <3>2
  <2>10. Len(hop_results') = Place(here, calls) /\ pc' # "enter"
    BY <1>2, <1>3, <2>1, <2>9
  <2>11. Positioned'
    BY <1>2, <2>3, <2>8, <2>10, PositionedNext
  <2>12. Prepared'
    <3>1. PreparedCall(call)
      BY <1>1, PrepareHopsPrepared
    <3>2. \A d \in DOMAIN frames' : PreparedCall(frames'[d])
      BY <2>2, <3>1
    <3>3. QED BY <1>2, <3>2, PreparedNext
  <2>13. frames' # <<>>
    <3> HIDE DEF call
    <3>1. QED BY <2>2
  <2>14. pc' = "pool" => \A k \in DOMAIN Frame'.hops : Frame'.hops[k].body = 0
    BY <2>1, <2>2 DEF Frame
  <2>15. Accounts'
    BY <1>2, <1>3, <1>4, <2>1, <2>2, <2>13, <2>14 DEF Accounts, Running
  <2>16. QED BY <2>11, <2>12, <2>15 DEF RInv
<1>7. QED BY <1>5, <1>6

(* At the verdict the text is used up.                                     *)
LEMMA TextUsedUp ==
    ASSUME RInv, Depth = 1, ~HasHop, pc \in Running \ {"enter"}
    PROVE  Len(hop_results) = Len(Script)
<1>1. PICK at : Standing(at, frames) /\ Len(hop_results) = Place(at, frames)
  BY DEF RInv, Positioned
<1>2. Frame.block = 1 /\ at[1] = 0
  BY <1>1 DEF Standing, Frame, Depth
<1>3. Place(at, frames) = at[1] + Len(Scripts[Frame.block]) /\ Len(Scripts[Frame.block]) \in Nat
  BY <1>1, AtBlockEnd
<1>4. QED BY <1>1, <1>2, <1>3 DEF Script

LEMMA CountHopsIsLength ==
    ASSUME GamesList(job.blocks)
    PROVE  CountHops = Len(Script)
<1>1. 1 \in Blocks
  BY DEF GamesList, Blocks
<1>2. QED BY <1>1, CountsAreLengths, CountHopsIsCount DEF Script

(* The steps that report nothing.                                          *)
SilentSteps ==
    \/ ReadFile
    \/ \E l \in todo : SkipLemma(l) \/ VerifyLemma(l) \/ LemmaFails(l)
    \/ HopsDone \/ (\E k \in DOMAIN pool : TaskDone(k))
    \/ PoolBroken \/ PoolDone \/ ReportsDone \/ Succeed \/ Fail
    \/ UNCHANGED vars

LEMMA SilentStep ==
    ASSUME RInv, IInv', SilentSteps
    PROVE  RInv'
<1>1. /\ job' = job /\ frames' = frames /\ hop_results' = hop_results
      /\ current_step' = current_step /\ total_steps' = total_steps
  BY DEF SilentSteps, ReadFile, SkipLemma, VerifyLemma, LemmaFails, HopsDone, TaskDone,
         PoolBroken, PoolDone, ReportsDone, Succeed, Fail, vars
<1>2. \/ pc' = pc
      \/ pc' \in {"lemmas", "failed", "crashed"}
      \/ pc' = "succeeded" /\ pc = "conclude"
      \/ pc = "hops" /\ pc' = "conclude" /\ Depth = 1 /\ ~HasHop
      \/ pc = "pool" /\ pc' = "report"
      \/ pc = "report" /\ pc' = "conclude" /\ ~HasHop
  BY DEF SilentSteps, ReadFile, SkipLemma, VerifyLemma, LemmaFails, HopsDone, TaskDone,
         PoolBroken, PoolDone, ReportsDone, Succeed, Fail, vars
<1>3. Accounts /\ Prepared /\ Positioned /\ GamesList(job.blocks)
  BY DEF RInv, IInv
<1>4. Prepared'
  BY <1>1, <1>3, PreparedNext DEF Prepared
<1>5. Positioned'
  <2>1. CASE pc' \notin Running
    BY <2>1 DEF Positioned
  <2>2. CASE pc' \in Running
    <3>1. pc \in Running /\ (pc' = "enter" <=> pc = "enter")
      BY <1>2, <2>2 DEF Running
    <3>2. PICK at : /\ Standing(at, frames)
                    /\ Len(hop_results) = IF pc = "enter" THEN Place(at, frames) + 1
                                          ELSE Place(at, frames)
      BY <1>3, <3>1 DEF Positioned
    <3>3. PICK calls : calls = frames'
      OBVIOUS
    <3>4. /\ Standing(at, calls)
          /\ Len(hop_results') = IF pc' = "enter" THEN Place(at, calls) + 1
                                 ELSE Place(at, calls)
      BY <1>1, <3>1, <3>2, <3>3
    <3>5. QED BY <1>1, <3>3, <3>4, PositionedNext
  <2>3. QED BY <2>1, <2>2
<1>6. Accounts'
  <2>1. FollowText(hop_results)' /\ CountHops' = CountHops
    BY <1>1, <1>3, ScriptKept DEF Accounts
  <2>2. Depth' = Depth /\ Frame' = Frame /\ (HasHop' <=> HasHop)
    BY <1>1 DEF Depth, Frame, HasHop
  <2>3. /\ current_step' = Len(hop_results')
        /\ frames' = <<>> => hop_results' = <<>>
        /\ frames' # <<>> => total_steps' = CountHops'
    BY <1>1, <1>3, <2>1 DEF Accounts
  <2>4. pc' \in Running => frames' # <<>>
    BY <1>1, <1>2, <1>3 DEF Accounts, Running
  <2>5. pc' \in {"pool", "report", "conclude"} => Depth' = 1
    BY <1>2, <1>3, <2>2 DEF Accounts
  <2>6. pc' \in {"pool", "report"} => \A k \in DOMAIN Frame'.hops : Frame'.hops[k].body = 0
    BY <1>2, <1>3, <2>2 DEF Accounts
  <2>7. pc' = "conclude" => ~HasHop'
    BY <1>2, <1>3, <2>2 DEF Accounts
  <2>8. pc' = "succeeded" => total_steps' = CountHops' /\ Len(hop_results') = Len(Script')
    <3>1. CASE pc = "succeeded"
      BY <1>1, <1>3, <2>1, <3>1, ScriptKept DEF Accounts
    <3>2. CASE pc = "conclude"
      <4>1. Depth = 1 /\ ~HasHop /\ frames # <<>> /\ total_steps = CountHops
        BY <1>3, <3>2 DEF Accounts, Running
      <4>2. Len(hop_results) = Len(Script)
        BY <3>2, <4>1, TextUsedUp DEF Running
      <4>3. Script' = Script
        BY <1>1, ScriptKept
      <4>4. QED BY <1>1, <2>1, <4>1, <4>2, <4>3
    <3>3. QED BY <1>2, <3>1, <3>2
  <2>9. QED BY <2>1, <2>3, <2>4, <2>5, <2>6, <2>7, <2>8 DEF Accounts
<1>7. QED BY <1>4, <1>5, <1>6 DEF RInv
LEMMA ReportAssumptionHopPlaces ==
    ASSUME RInv, IInv', ReportAssumptionHop
    PROVE  RInv'
<1> DEFINE r == Result(CurrentHop, CurrentHop.kind, CurrentHop.valid)
<1>1. /\ HasHop /\ pc = "hops" /\ CurrentHop.kind # "equivalent" /\ frames' = NextHop
      /\ pc' = pc /\ job' = job /\ total_steps' = total_steps
      /\ hop_results' = Append(hop_results, r) /\ current_step' = current_step + 1
  BY DEF ReportAssumptionHop, Report, IsEquivalence
<1>2. LinkOf(r) = LinkOf(CurrentHop)
  BY DEF LinkOf, Result
<1>3. CurrentHop.body = 0
  BY <1>1, HopAtHand
<1>4. PICK e : e = r
  OBVIOUS
<1> HIDE DEF r
<1>5. LinkOf(e) = LinkOf(CurrentHop) /\ hop_results' = Append(hop_results, e)
  BY <1>1, <1>2, <1>4
<1>6. QED BY <1>1, <1>3, <1>5, AdvanceStep

LEMMA CheckHopPlaces ==
    ASSUME RInv, IInv', CheckHop
    PROVE  RInv'
<1>1. /\ HasHop /\ pc = "hops" /\ job' = job /\ total_steps' = total_steps
      /\ current_step' = current_step + 1
  BY DEF CheckHop, Report
<1>2. PICK valid \in BOOLEAN :
          hop_results' = Append(hop_results, Result(CurrentHop, "equivalent", valid))
  BY DEF CheckHop, Report
<1>3. PICK e : e = Result(CurrentHop, "equivalent", valid)
  OBVIOUS
<1>4. LinkOf(e) = LinkOf(CurrentHop) /\ hop_results' = Append(hop_results, e)
  BY <1>2, <1>3 DEF LinkOf, Result
<1>5. CASE CurrentHop.body = 0
  <2>1. frames' = NextHop /\ pc' = pc
    BY <1>5 DEF CheckHop
  <2>2. QED BY <1>1, <1>4, <1>5, <2>1, AdvanceStep
<1>6. CASE CurrentHop.body # 0
  <2>1. frames' = frames /\ pc' = "enter"
    BY <1>6 DEF CheckHop
  <2>2. QED BY <1>1, <1>4, <2>1, IntoBodyStep
<1>7. QED BY <1>5, <1>6

(* The results of the pool are reported in the order of the text.          *)
LEMMA ReportPooledPlaces ==
    ASSUME RInv, IInv', ReportPooled
    PROVE  RInv'
<1>1. /\ HasHop /\ pc = "report" /\ frames' = NextHop /\ pc' = pc /\ job' = job
      /\ total_steps' = total_steps /\ current_step' = current_step + 1
  BY DEF ReportPooled, Report
<1>2. \E e : LinkOf(e) = LinkOf(CurrentHop) /\ hop_results' = Append(hop_results, e)
  <2>1. CASE IsEquivalence(CurrentHop)
    <3> DEFINE r == [Result(CurrentHop, "equivalent", pool[Frame.pos] = "valid")
                        EXCEPT !.assuming = CurrentHop.assuming]
    <3>1. hop_results' = Append(hop_results, r)
      BY <2>1 DEF ReportPooled, Report
    <3>2. LinkOf(r) = LinkOf(CurrentHop)
      BY DEF LinkOf, Result
    <3> HIDE DEF r
    <3>3. QED BY <3>1, <3>2
  <2>2. CASE ~IsEquivalence(CurrentHop)
    <3> DEFINE r == Result(CurrentHop, CurrentHop.kind, CurrentHop.valid)
    <3>1. hop_results' = Append(hop_results, r)
      BY <2>2 DEF ReportPooled, Report
    <3>2. LinkOf(r) = LinkOf(CurrentHop)
      BY DEF LinkOf, Result
    <3> HIDE DEF r
    <3>3. QED BY <3>1, <3>2
  <2>3. QED BY <2>1, <2>2
<1>3. CurrentHop.body = 0
  BY <1>1 DEF RInv, Accounts, HasHop, CurrentHop
<1>4. QED BY <1>1, <1>2, <1>3, AdvanceStep

LEMMA EnterInductionPlaces ==
    ASSUME RInv, IInv', EnterInduction
    PROVE  RInv'
BY EnterBodyStep DEF EnterInduction

LEMMA LeaveInductionPlaces ==
    ASSUME RInv, IInv', LeaveInduction
    PROVE  RInv'
<1> DEFINE h == Rollover(Frame.block, OuterHop.step_num)
           r(valid) == [Result(h, "induction_rollover", valid) EXCEPT !.depth = @ - 1]
<1>1. /\ Depth > 1 /\ pc = "hops" /\ ~HasHop /\ UNCHANGED <<job, pc, total_steps>>
      /\ current_step' = current_step + 1
      /\ frames' = [Front(frames) EXCEPT ![Depth - 1].pos = @ + 1]
  BY DEF LeaveInduction, Report
<1>2. PICK valid \in BOOLEAN : hop_results' = Append(hop_results, r(valid))
  BY DEF LeaveInduction, Report
<1>3. LinkOf(r(valid)) = RolloverLink(Frame.block)
  BY DEF LinkOf, Result, Rollover, RolloverLink
<1>4. PICK e : e = r(valid)
  OBVIOUS
<1> HIDE DEF r
<1>5. LinkOf(e) = RolloverLink(Frame.block) /\ hop_results' = Append(hop_results, e)
  BY <1>2, <1>3, <1>4
<1>6. QED BY <1>1, <1>5, LeaveBodyStep

LEMMA InitRInv == Init => RInv
<1> SUFFICES ASSUME Init PROVE RInv
  OBVIOUS
<1>1. IInv
  BY InitIInv
<1>2. /\ pc = "start" /\ frames = <<>> /\ hop_results = <<>> /\ current_step = 0
  BY DEF Init
<1>3. Accounts
  <2>1. FollowText(<<>>)
    BY DEF FollowText
  <2>2. QED BY <1>2, <2>1 DEF Accounts, Running
<1>4. Prepared /\ Positioned
  BY <1>2 DEF Prepared, Positioned, Running
<1>5. QED BY <1>1, <1>3, <1>4 DEF RInv

LEMMA NextRInv == RInv /\ [Next]_vars => RInv'
<1> SUFFICES ASSUME RInv, [Next]_vars PROVE RInv'
  OBVIOUS
<1>1. IInv'
  BY NextIInv DEF RInv
<1>2. CASE Start
  BY <1>1, <1>2, EnterListStep
<1>3. CASE ReportAssumptionHop
  BY <1>1, <1>3, ReportAssumptionHopPlaces
<1>4. CASE CheckHop
  BY <1>1, <1>4, CheckHopPlaces
<1>5. CASE EnterInduction
  BY <1>1, <1>5, EnterInductionPlaces
<1>6. CASE LeaveInduction
  BY <1>1, <1>6, LeaveInductionPlaces
<1>7. CASE ReportPooled
  BY <1>1, <1>7, ReportPooledPlaces
<1>8. CASE SilentSteps
  BY <1>1, <1>8, SilentStep
<1>9. QED BY <1>2, <1>3, <1>4, <1>5, <1>6, <1>7, <1>8 DEF Next, SilentSteps

-------------------------------------------------------------------------------
(* Theorems.                                                               *)

LEMMA RInvStepsCounted == RInv => StepsCounted
<1> SUFFICES ASSUME RInv PROVE StepsCounted
  OBVIOUS
<1>1. Accounts /\ CountHops = Len(Script)
  BY CountHopsIsLength DEF RInv, IInv
<1>2. pc = "conclude" => Len(hop_results) = Len(Script) /\ total_steps = CountHops
  <2>1. pc = "conclude" => Depth = 1 /\ ~HasHop /\ frames # <<>>
    BY <1>1 DEF Accounts, Running
  <2>2. QED BY <1>1, <2>1, TextUsedUp DEF Accounts, Running
<1>3. QED BY <1>1, <1>2 DEF Accounts, StepsCounted

(* The status line "Step i/n" counts the hops reported, and n, which       *)
(* _count_hops computes from the text ahead of the run, is the number of   *)
(* hops that are reported, whatever inductions are nested in each other    *)
(* and whether the hops run in sequence or in the pool.                    *)
THEOREM StepsCorrect == Spec => []StepsCounted
<1>1. Init => RInv
  BY InitRInv
<1>2. RInv /\ [Next]_vars => RInv'
  BY NextRInv
<1>3. RInv => StepsCounted
  BY RInvStepsCounted
<1>4. QED BY <1>1, <1>2, <1>3, PTL DEF Spec
-------------------------------------------------------------------------------
(* What the user sees: the reports of HopReports.                          *)

Told(results) ==
    [i \in DOMAIN results |-> [hop |-> LinkOf(results[i]), valid |-> results[i].valid]]
Verdict == IF pc \in Outcomes THEN pc ELSE "none"

LEMMA ToldLength ==
    ASSUME NEW S, NEW results \in Seq(S)
    PROVE  Len(Told(results)) = Len(results) /\ Len(results) \in Nat
<1>1. Len(results) \in Nat /\ DOMAIN results = 1..Len(results)
  OBVIOUS
<1>2. DOMAIN Told(results) = 1..Len(results)
  BY <1>1 DEF Told
<1>3. QED BY <1>1, <1>2

LEMMA ToldAppend ==
    ASSUME NEW S, NEW results \in Seq(S), NEW r
    PROVE  Told(Append(results, r)) = Append(Told(results), [hop |-> LinkOf(r), valid |-> r.valid])
<1> DEFINE n == Len(results)
           t == Append(results, r)
           e == [hop |-> LinkOf(r), valid |-> r.valid]
           u == Append(Told(results), e)
<1>1. /\ n \in Nat /\ DOMAIN results = 1..n
      /\ DOMAIN t = 1..n + 1
      /\ \A i \in 1..n : t[i] = results[i]
      /\ t[n + 1] = r
  BY AppendFacts
<1>2. Told(results) \in Seq({Told(results)[i] : i \in 1..n}) /\ Len(Told(results)) = n
  <2>1. Told(results) = [i \in 1..n |-> [hop |-> LinkOf(results[i]), valid |-> results[i].valid]]
    BY <1>1 DEF Told
  <2>2. QED BY <1>1, <2>1
<1> HIDE DEF n, t
<1>3. /\ DOMAIN u = 1..n + 1
      /\ \A i \in 1..n : u[i] = Told(results)[i]
      /\ u[n + 1] = e
      /\ u = [i \in DOMAIN u |-> u[i]]
  <2> DEFINE v == Told(results)
             V == {v[i] : i \in 1..n}
  <2>1. v \in Seq(V) /\ Len(v) = n
    BY <1>2
  <2> HIDE DEF v, V
  <2>2. /\ DOMAIN Append(v, e) = 1..n + 1
        /\ \A i \in 1..n : Append(v, e)[i] = v[i]
        /\ Append(v, e)[n + 1] = e
    BY <2>1, AppendFacts
  <2>3. Append(v, e) = [i \in DOMAIN Append(v, e) |-> Append(v, e)[i]]
    <3> DEFINE W == V \cup {e}
    <3>1. v \in Seq(W) /\ e \in W
      BY <2>1
    <3> HIDE DEF W, e
    <3>2. PICK a : a = Append(v, e)
      OBVIOUS
    <3>3. a \in Seq(W)
      BY <3>1, <3>2
    <3>4. a = [i \in 1..Len(a) |-> a[i]]
      BY <3>3
    <3>5. QED BY <3>2, <3>3, <3>4
  <2>4. QED BY <2>2, <2>3 DEF v
<1>4. \A i \in 1..n + 1 : Told(t)[i] = u[i]
  <2> TAKE i \in 1..n + 1
  <2>1. Told(t)[i] = [hop |-> LinkOf(t[i]), valid |-> t[i].valid]
    BY <1>1 DEF Told, t
  <2>2. CASE i = n + 1
    BY <1>1, <1>3, <2>1, <2>2
  <2>3. CASE i # n + 1
    <3>1. i \in 1..n
      BY <1>1, <2>3
    <3>2. Told(results)[i] = [hop |-> LinkOf(results[i]), valid |-> results[i].valid]
      BY <1>1, <3>1 DEF Told
    <3>3. QED BY <1>1, <1>3, <2>1, <3>1, <3>2
  <2>4. QED BY <2>2, <2>3
<1>5. Told(t) = [i \in 1..n + 1 |-> Told(t)[i]]
  BY <1>1 DEF Told, t
<1> HIDE DEF u
<1>6. Told(t) = u
  BY <1>3, <1>4, <1>5
<1>7. QED BY <1>6 DEF t, u

(* A step that reports a hop is a step of the reports.                     *)
LEMMA ReportRefines ==
    ASSUME RInv, RInv', job' = job, pc \notin Outcomes, pc' \notin Outcomes,
           NEW r, hop_results' = Append(hop_results, r)
    PROVE  Reports!Next
<1>1. PICK S : hop_results \in Seq(S)
  BY DEF RInv, IInv, Reported
<1>2. /\ Len(hop_results) \in Nat
      /\ DOMAIN hop_results' = 1..Len(hop_results) + 1
      /\ hop_results'[Len(hop_results) + 1] = r
  BY <1>1, AppendFacts
<1>3. Len(hop_results) + 1 \in DOMAIN hop_results'
  BY <1>2
<1>4. Len(hop_results) + 1 <= Len(Script) /\ LinkOf(r) = Script[Len(hop_results) + 1]
  <2>1. FollowText(hop_results')
    <3>1. FollowText(hop_results)'
      BY DEF RInv, Accounts
    <3>2. QED BY <3>1, ScriptKept
  <2>2. QED BY <1>2, <1>3, <2>1 DEF FollowText
<1>5. r.valid \in BOOLEAN
  <2>1. \A i \in DOMAIN hop_results' : hop_results'[i].valid \in BOOLEAN
    BY DEF RInv, IInv, Reported, Entry
  <2>2. QED BY <1>2, <1>3, <2>1
<1>6. Told(hop_results') = Append(Told(hop_results), [hop |-> LinkOf(r), valid |-> r.valid])
  BY <1>1, ToldAppend
<1>7. Len(Told(hop_results)) = Len(hop_results)
  BY <1>1, ToldLength
<1>8. Len(Script) \in Nat
  <2>1. GamesList(job.blocks)
    BY DEF RInv, IInv
  <2>2. 1 \in Blocks
    BY <2>1 DEF GamesList, Blocks
  <2>3. QED BY <2>1, <2>2, BlockPassed DEF Script
<1>9. Len(Told(hop_results)) < Len(Script)
  BY <1>2, <1>4, <1>7, <1>8
<1>10. \E valid \in BOOLEAN :
          Told(hop_results') = Append(Told(hop_results),
              [hop |-> Script[Len(Told(hop_results)) + 1], valid |-> valid])
  BY <1>4, <1>5, <1>6, <1>7
<1>11. Reports!ReportNext
  BY <1>9, <1>10 DEF Reports!ReportNext, Told
<1>12. QED BY <1>11 DEF Reports!Next

(* A step that reports nothing is a verdict or none of the user's concern. *)
LEMMA SilentRefines ==
    ASSUME RInv, job' = job, hop_results' = hop_results,
           \/ pc' = pc
           \/ pc \notin Outcomes /\ pc' \notin Outcomes
           \/ pc \notin Outcomes /\ pc' = "crashed"
           \/ pc \notin Outcomes /\ pc' = "failed" /\ hop_results = <<>>
           \/ pc = "conclude" /\ pc' = "failed"
           \/ pc = "conclude" /\ pc' = "succeeded" /\ AllValid
    PROVE  [Reports!Next]_Reports!vars
<1>1. PICK S : hop_results \in Seq(S)
  BY DEF RInv, IInv, Reported
<1>2. Len(Told(hop_results)) = Len(hop_results) /\ DOMAIN Told(hop_results) = DOMAIN hop_results
  BY <1>1, ToldLength DEF Told
<1>3. pc = "conclude" => Len(hop_results) = Len(Script)
  <2>1. pc = "conclude" => Depth = 1 /\ ~HasHop
    BY DEF RInv, Accounts
  <2>2. QED BY <2>1, TextUsedUp DEF Running
<1>4. AllValid => \A i \in DOMAIN Told(hop_results) : Told(hop_results)[i].valid
  BY <1>2 DEF AllValid, Told
<1>5. job.blocks' = job.blocks /\ Told(hop_results)' = Told(hop_results)
  BY DEF Told, LinkOf
<1>6. CASE Verdict' = Verdict
  <2>1. UNCHANGED Reports!vars
    BY <1>5, <1>6 DEF Reports!vars, Told, Verdict
  <2>2. QED BY <2>1
<1>7. CASE Verdict = "none" /\ Verdict' = "crashed"
  <2>1. Reports!Conclude
    BY <1>5, <1>7 DEF Reports!Conclude, Told, Verdict
  <2>2. QED BY <2>1 DEF Reports!Next
<1>8. CASE Verdict = "none" /\ Verdict' = "failed"
           /\ (hop_results = <<>> \/ Len(hop_results) = Len(Script))
  <2>1. Told(hop_results) = <<>> \/ Len(Told(hop_results)) = Len(Script)
    BY <1>2, <1>8 DEF Told
  <2>2. Reports!Conclude
    BY <1>5, <1>8, <2>1 DEF Reports!Conclude, Reports!AllReported, Told, Verdict
  <2>3. QED BY <2>2 DEF Reports!Next
<1>9. CASE Verdict = "none" /\ Verdict' = "succeeded" /\ AllValid
           /\ Len(hop_results) = Len(Script)
  <2>1. Reports!Conclude
    BY <1>2, <1>4, <1>5, <1>9 DEF Reports!Conclude, Reports!AllReported, Told, Verdict
  <2>2. QED BY <2>1 DEF Reports!Next
<1>10. QED BY <1>3, <1>6, <1>7, <1>8, <1>9 DEF Verdict, Outcomes

LEMMA NextRefines == RInv /\ RInv' /\ [Next]_vars => [Reports!Next]_Reports!vars
<1> SUFFICES ASSUME RInv, RInv', [Next]_vars PROVE [Reports!Next]_Reports!vars
  OBVIOUS
<1>1. CASE Start \/ EnterInduction
  <2>1. /\ job' = job /\ hop_results' = hop_results /\ pc \in {"lemmas", "enter"}
        /\ pc' \in {"crashed", "pool", "hops"}
    BY <1>1 DEF Start, EnterInduction, EnterBlock
  <2>2. QED BY <2>1, SilentRefines DEF Outcomes
<1>2. CASE ReportAssumptionHop
  <2>1. job' = job /\ pc = "hops" /\ pc' = pc
        /\ hop_results' = Append(hop_results, Result(CurrentHop, CurrentHop.kind, CurrentHop.valid))
    BY <1>2 DEF ReportAssumptionHop, Report
  <2>2. PICK r : r = Result(CurrentHop, CurrentHop.kind, CurrentHop.valid)
    OBVIOUS
  <2>3. QED BY <2>1, <2>2, ReportRefines DEF Outcomes
<1>3. CASE CheckHop
  <2>1. job' = job /\ pc = "hops" /\ pc' \in {"hops", "enter"}
    BY <1>3 DEF CheckHop
  <2>2. PICK valid \in BOOLEAN :
            hop_results' = Append(hop_results, Result(CurrentHop, "equivalent", valid))
    BY <1>3 DEF CheckHop, Report
  <2>3. PICK r : r = Result(CurrentHop, "equivalent", valid)
    OBVIOUS
  <2>4. QED BY <2>1, <2>2, <2>3, ReportRefines DEF Outcomes
<1>4. CASE LeaveInduction
  <2>1. job' = job /\ pc = "hops" /\ pc' = pc
    BY <1>4 DEF LeaveInduction
  <2>2. \E r : hop_results' = Append(hop_results, r)
    BY <1>4 DEF LeaveInduction, Report
  <2>3. QED BY <2>1, <2>2, ReportRefines DEF Outcomes
<1>5. CASE ReportPooled
  <2>1. job' = job /\ pc = "report" /\ pc' = pc
    BY <1>5 DEF ReportPooled
  <2>2. \E r : hop_results' = Append(hop_results, r)
    BY <1>5 DEF ReportPooled, Report
  <2>3. QED BY <2>1, <2>2, ReportRefines DEF Outcomes
<1>6. CASE SilentSteps
  <2>1. job' = job /\ hop_results' = hop_results
    BY <1>6 DEF SilentSteps, ReadFile, SkipLemma, VerifyLemma, LemmaFails, HopsDone, TaskDone,
           PoolBroken, PoolDone, ReportsDone, Succeed, Fail, vars
  <2>2. \/ pc' = pc
        \/ pc \notin Outcomes /\ pc' \notin Outcomes
        \/ pc \notin Outcomes /\ pc' = "crashed"
        \/ pc = "lemmas" /\ pc' = "failed"
        \/ pc = "conclude" /\ pc' = "failed"
        \/ pc = "conclude" /\ pc' = "succeeded" /\ AllValid
    BY <1>6 DEF SilentSteps, ReadFile, SkipLemma, VerifyLemma, LemmaFails, HopsDone, TaskDone,
           PoolBroken, PoolDone, ReportsDone, Succeed, Fail, vars, Outcomes
  <2>3. pc = "lemmas" => hop_results = <<>>
    BY DEF RInv, IInv, Called, Accounts
  <2>4. QED BY <2>1, <2>2, <2>3, SilentRefines DEF Outcomes
<1>7. QED BY <1>1, <1>2, <1>3, <1>4, <1>5, <1>6 DEF Next, SilentSteps

(* Sequentially or from the pool, whatever task completes first: the hops  *)
(* of the text are reported one by one in its order, each exactly once,    *)
(* there is no verdict before, unless a lemma fails or the run crashes,    *)
(* and a proof succeeds only when every hop was reported valid: the engine *)
(* implements HopReports.                                                  *)
THEOREM ReportsCorrect == Spec => ReportsFollowText
<1>1. Init => RInv
  BY InitRInv
<1>2. RInv /\ [Next]_vars => RInv'
  BY NextRInv
<1>3. Init => Reports!Init
  BY DEF Init, Reports!Init, Outcomes
<1>4. RInv /\ RInv' /\ [Next]_vars => [Reports!Next]_Reports!vars
  BY NextRefines
<1>5. QED BY <1>1, <1>2, <1>3, <1>4, PTL DEF Spec, ReportsFollowText, Reports!Spec

-------------------------------------------------------------------------------
(* The variables of the inductions.                                        *)

(* No induction stands inside another one over a variable of the same      *)
(* name: leaving the inner one would take the type from the outer one.     *)
NoShadowing ==
    \A b \in Blocks \ {1} : job.blocks[b].name \notin InductionNames(Around[Parent(b)])

LEMMA ParentFacts ==
    ASSUME GamesList(job.blocks), NEW b \in Blocks \ {1}
    PROVE  Parent(b) \in Blocks /\ Parent(b) < b
<1>1. \E a \in Blocks : \E i \in Inductions(a) : Body(a, i) = b
  BY DEF GamesList, Blocks, Inductions, IsInduction, Body, Elements
<1>2. PICK a \in Blocks : \E i \in Inductions(a) : Body(a, i) = b
  BY <1>1
<1>3. PICK i \in Inductions(a) : Body(a, i) = b
  BY <1>2
<1>4. Parent(b) = a
  BY <1>3, BodyPlace
<1>5. a < b
  BY <1>3 DEF GamesList, Blocks, Inductions, IsInduction, Body, Elements
<1>6. QED BY <1>4, <1>5

LEMMA AroundMeaning ==
    ASSUME GamesList(job.blocks)
    PROVE  /\ Around[1] = {}
           /\ \A b \in Blocks \ {1} : Around[b] = {b} \cup Around[Parent(b)]
<1>1. PICK N \in Nat \ {0} : Blocks = 1..N
  BY DEF GamesList, Blocks
<1> DEFINE V == SUBSET Blocks
           E(f, b) == IF b = 1 THEN {} ELSE {b} \cup f[Parent(b)]
           D == [p \in [Blocks -> V] \X Blocks |-> E(p[1], p[2])]
           rank == [b \in Blocks |-> b]
<1>2. \A b \in Blocks \ {1} : Parent(b) \in Blocks /\ Parent(b) < b
  BY ParentFacts
<1>3. \A f \in [Blocks -> V], b \in Blocks : E(f, b) \in V
  BY <1>2
<1>4. \E f \in [Blocks -> V] : f = [b \in Blocks |-> D[<<f, b>>]]
  <2>1. V # {}
    OBVIOUS
  <2>2. rank \in [Blocks -> 0..N]
    BY <1>1
  <2>3. D \in [[Blocks -> V] \X Blocks -> V]
    <3> HIDE DEF E, V
    <3>1. QED BY <1>3
  <2>4. ASSUME NEW f \in [Blocks -> V], NEW g \in [Blocks -> V], NEW b \in Blocks,
               \A c \in Blocks : rank[c] < rank[b] => f[c] = g[c]
        PROVE  D[<<f, b>>] = D[<<g, b>>]
    <3>1. E(f, b) = E(g, b)
      BY <1>2, <2>4
    <3> HIDE DEF E, V
    <3>2. QED BY <3>1
  <2>5. \A f, g \in [Blocks -> V] : \A b \in Blocks :
            (\A c \in Blocks : rank[c] < rank[b] => f[c] = g[c]) => D[<<f, b>>] = D[<<g, b>>]
    BY <2>4
  <2> HIDE DEF V, D, rank
  <2>6. ByRank(Blocks, V, N, rank, D)
    BY <1>1, <2>1, <2>2, <2>3, <2>5 DEF ByRank
  <2>7. QED BY <2>6, RecursiveFunction DEF Solvable
<1>5. PICK f \in [Blocks -> V] : f = [b \in Blocks |-> D[<<f, b>>]]
  BY <1>4
<1>6. f = [b \in Blocks |-> E(f, b)]
  <2> HIDE DEF E, V
  <2>1. \A b \in Blocks : D[<<f, b>>] = E(f, b)
    OBVIOUS
  <2> HIDE DEF D
  <2>2. QED BY <1>5, <2>1
<1>7. Around = CHOOSE g : g = [b \in Blocks |-> E(g, b)]
  BY DEF Around
<1>8. Around = [b \in Blocks |-> E(Around, b)]
  <2> HIDE DEF E, V, D
  <2>1. QED BY <1>6, <1>7
<1>9. 1 \in Blocks
  BY <1>1
<1>10. \A b \in Blocks : Around[b] = E(Around, b)
  <2> HIDE DEF E
  <2>1. QED BY <1>8
<1>11. QED BY <1>9, <1>10

(* The names with a type, beside those of the let block, are those of the  *)
(* inductions around the call that runs, and were so at each check.        *)
Types(types, b) ==
    types \ job.file.lets = InductionNames(Around[b]) \ job.file.lets
EntryScoped(r) ==
    r.kind \in {"equivalent", "induction_rollover"} => Types(r.types, Scope(r))

Scoping ==
    /\ NoShadowing
    /\ pc \in Running => Types(proof_let_types, Frame.block)
    /\ pc \in {"start", "lemmas"} => proof_let_types = job.file.lets
    /\ \A i \in DOMAIN hop_results : EntryScoped(hop_results[i])

LEMMA ScopesKept ==
    ASSUME job' = job
    PROVE  /\ NoShadowing' <=> NoShadowing
           /\ \A types, b : Types(types, b)' <=> Types(types, b)
           /\ \A r : EntryScoped(r)' <=> EntryScoped(r)
<1>1. Around' = Around
  BY DEF Around, Blocks, Parent, Inductions, IsInduction, Elements, Body
<1>2. NoShadowing' <=> NoShadowing
  BY <1>1 DEF NoShadowing, InductionNames, Blocks, Parent, Inductions, IsInduction, Elements,
              Body
<1>3. \A types, b : Types(types, b)' <=> Types(types, b)
  BY <1>1 DEF Types, InductionNames
<1>4. \A r : EntryScoped(r)' <=> EntryScoped(r)
  BY <1>1 DEF EntryScoped, Types, InductionNames, Scope, Blocks, Parent, Inductions,
              IsInduction, Elements, Body
<1>5. QED BY <1>2, <1>3, <1>4

(* A reported entry whose types are in order.                              *)
LEMMA EntryScopedStep ==
    ASSUME RInv, Scoping, job' = job, NEW r, hop_results' = Append(hop_results, r),
           EntryScoped(r)
    PROVE  (\A i \in DOMAIN hop_results : EntryScoped(hop_results[i]))'
<1>1. PICK S : hop_results \in Seq(S)
  BY DEF RInv, IInv, Reported
<1>2. /\ DOMAIN hop_results = 1..Len(hop_results) /\ Len(hop_results) \in Nat
      /\ DOMAIN hop_results' = 1..Len(hop_results) + 1
      /\ \A i \in 1..Len(hop_results) : hop_results'[i] = hop_results[i]
      /\ hop_results'[Len(hop_results) + 1] = r
  BY <1>1, AppendFacts
<1>3. \A i \in DOMAIN hop_results' : EntryScoped(hop_results'[i])
  <2> TAKE i \in DOMAIN hop_results'
  <2>1. i = Len(hop_results) + 1 \/ i \in 1..Len(hop_results)
    BY <1>2
  <2>2. QED BY <1>2, <2>1 DEF Scoping
<1>4. PICK t : t = hop_results'
  OBVIOUS
<1>5. \A i \in DOMAIN t : EntryScoped(t[i])
  BY <1>3, <1>4
<1>6. \A i \in DOMAIN t : EntryScoped(t[i])'
  BY <1>5, ScopesKept
<1>7. QED BY <1>4, <1>6
(* A hop of the block at hand is checked with the types of that block.     *)
LEMMA HopScoped ==
    ASSUME RInv, RInv', Scoping, HasHop, pc \in Running, job' = job,
           proof_let_types' = proof_let_types, frames' = NextHop \/ frames' = frames,
           pc' \notin {"start", "lemmas"},
           NEW r, r.cur = CurrentHop.cur, r.types = proof_let_types,
           hop_results' = Append(hop_results, r)
    PROVE  Scoping'
<1>1. Scope(r) = Frame.block
  <2>1. Scope(CurrentHop) = Frame.block
    BY HopAtHand
  <2>2. Scope(r) = Scope(CurrentHop)
    BY DEF Scope
  <2>3. QED BY <2>1, <2>2
<1>2. Types(proof_let_types, Frame.block)
  BY DEF Scoping
<1>3. EntryScoped(r)
  BY <1>1, <1>2 DEF EntryScoped
<1>4. (\A i \in DOMAIN hop_results : EntryScoped(hop_results[i]))'
  BY <1>3, EntryScopedStep
<1>5. Frame'.block = Frame.block
  <2>1. CASE frames' = NextHop
    BY <2>1, NextHopFrames DEF RInv, IInv, Frame
  <2>2. CASE frames' = frames
    BY <2>2 DEF Frame, Depth
  <2>3. QED BY <2>1, <2>2
<1>6. Types(proof_let_types, Frame.block)'
  <2>1. PICK t, b : t = proof_let_types' /\ b = Frame'.block
    OBVIOUS
  <2>2. Types(t, b)
    BY <1>2, <1>5, <2>1
  <2>3. Types(t, b)'
    BY <2>2, ScopesKept
  <2>4. QED BY <2>1, <2>3
<1>7. NoShadowing'
  BY ScopesKept DEF Scoping
<1>8. QED BY <1>4, <1>6, <1>7 DEF Scoping

(* A step that reports nothing.                                            *)
LEMMA QuietScoped ==
    ASSUME RInv, Scoping, job' = job, hop_results' = hop_results,
           pc' \in Running => Types(proof_let_types', Frame'.block),
           pc' \in {"start", "lemmas"} => proof_let_types' = job.file.lets
    PROVE  Scoping'
<1>1. NoShadowing'
  BY ScopesKept DEF Scoping
<1>2. (\A i \in DOMAIN hop_results : EntryScoped(hop_results[i]))'
  <2>1. \A i \in DOMAIN hop_results : EntryScoped(hop_results[i])
    BY DEF Scoping
  <2>2. PICK t : t = hop_results
    OBVIOUS
  <2>3. \A i \in DOMAIN t : EntryScoped(t[i])'
    BY <2>1, <2>2, ScopesKept
  <2>4. t = hop_results'
    BY <2>2
  <2>5. QED BY <2>3, <2>4
<1>3. pc' \in Running => Types(proof_let_types, Frame.block)'
  <2>1. PICK t, b : t = proof_let_types' /\ b = Frame'.block
    OBVIOUS
  <2>2. pc' \in Running => Types(t, b)'
    BY <2>1, ScopesKept
  <2>3. QED BY <2>1, <2>2
<1>4. QED BY <1>1, <1>2, <1>3 DEF Scoping

LEMMA SilentScoped ==
    ASSUME RInv, RInv', Scoping, SilentSteps
    PROVE  Scoping'
<1>1. /\ job' = job /\ hop_results' = hop_results /\ frames' = frames
      /\ proof_let_types' = proof_let_types
  BY DEF SilentSteps, ReadFile, SkipLemma, VerifyLemma, LemmaFails, HopsDone, TaskDone,
         PoolBroken, PoolDone, ReportsDone, Succeed, Fail, vars
<1>2. /\ pc' \in Running => pc \in Running
      /\ pc' \in {"start", "lemmas"} => pc \in {"start", "lemmas"}
  BY DEF SilentSteps, ReadFile, SkipLemma, VerifyLemma, LemmaFails, HopsDone, TaskDone,
         PoolBroken, PoolDone, ReportsDone, Succeed, Fail, vars, Running
<1>3. Frame' = Frame
  BY <1>1 DEF Frame, Depth
<1>4. pc' \in Running => Types(proof_let_types', Frame'.block)
  BY <1>1, <1>2, <1>3 DEF Scoping
<1>5. pc' \in {"start", "lemmas"} => proof_let_types' = job.file.lets
  BY <1>1, <1>2 DEF Scoping
<1>6. QED BY <1>1, <1>4, <1>5, QuietScoped

LEMMA StartScoped ==
    ASSUME RInv, Scoping, Start
    PROVE  Scoping'
<1>1. /\ job' = job /\ hop_results' = hop_results /\ proof_let_types' = proof_let_types
      /\ pc = "lemmas" /\ EnterBlock(1)
  BY DEF Start
<1>2. frames = <<>> /\ Called /\ GamesList(job.blocks)
  BY <1>1 DEF RInv, IInv, Called
<1>3. pc' \in {"crashed", "hops", "pool"}
  BY <1>1 DEF EnterBlock
<1>4. pc' \in Running => Types(proof_let_types', Frame'.block)
  <2>1. 1 \in Blocks
    BY <1>2 DEF GamesList, Blocks
  <2>2. pc' \in Running =>
            frames' = Append(frames, [block |-> 1, hops |-> PrepareHops(1), pos |-> 1])
    BY <1>1 DEF EnterBlock, Running
  <2>3. pc' \in Running => Frame'.block = 1
    BY <1>2, <2>1, <2>2, EnterFrames DEF Frame
  <2>4. Around[1] = {}
    BY <1>2, AroundMeaning
  <2>5. proof_let_types' = job.file.lets
    BY <1>1 DEF Scoping
  <2>6. Types(proof_let_types', 1)
    BY <2>4, <2>5 DEF Types, InductionNames
  <2>7. QED BY <2>3, <2>6
<1>5. pc' \notin {"start", "lemmas"}
  BY <1>3
<1>6. QED BY <1>1, <1>4, <1>5, QuietScoped

(* The body knows the variable of its induction, and those around it.      *)
LEMMA EnterScoped ==
    ASSUME RInv, Scoping, EnterInduction
    PROVE  Scoping'
<1> DEFINE b == Frame.block
           k == Frame.pos
           j == NextAnchor(b, InTextOrder(b)[k])
           c == CurrentHop.body
<1>1. /\ job' = job /\ hop_results' = hop_results /\ pc = "enter" /\ EnterBlock(c)
      /\ proof_let_types' = proof_let_types \cup {job.blocks[c].name}
  BY DEF EnterInduction, InductionName
<1>2. Called /\ GamesList(job.blocks) /\ HasHop /\ c # 0
  BY <1>1 DEF RInv, IInv, Called
<1>3. pc' \in {"crashed", "hops", "pool"}
  BY <1>1 DEF EnterBlock
<1>4. /\ b \in Blocks /\ InTextOrder(b)[k] \in HopStarts(b)
      /\ IsInduction(b, j) /\ c = Body(b, j) /\ c \in Blocks
  BY <1>2, HopAtHand
<1>5. Parent(c) = b /\ c # 1
  <2>1. j \in Inductions(b)
    BY <1>2, <1>4, NextAnchorFacts DEF Inductions, Anchors
  <2>2. Parent(c) = b
    BY <1>2, <1>4, <2>1, BodyPlace
  <2>3. b < c
    BY <1>2, <1>4, HopPlace
  <2>4. c # 1
    <3>1. b \in Nat /\ b >= 1 /\ c \in Nat
      BY <1>2, <1>4 DEF GamesList, Blocks
    <3>2. QED BY <2>3, <3>1
  <2>5. QED BY <2>2, <2>4
<1>6. Around[c] = {c} \cup Around[b]
  BY <1>2, <1>4, <1>5, AroundMeaning
<1>7. Types(proof_let_types, b)
  BY <1>1 DEF Scoping, Running
<1>8. Types(proof_let_types', c)
  <2> HIDE DEF b, c
  <2>1. InductionNames(Around[c]) = {job.blocks[c].name} \cup InductionNames(Around[b])
    BY <1>6 DEF InductionNames
  <2>2. QED BY <1>1, <1>7, <2>1 DEF Types
<1>9. pc' \in Running => Frame'.block = c
  <2>1. pc' \in Running =>
            frames' = Append(frames, [block |-> c, hops |-> PrepareHops(c), pos |-> 1])
    BY <1>1 DEF EnterBlock, Running
  <2> HIDE DEF c
  <2>2. QED BY <1>2, <1>4, <2>1, EnterFrames DEF Frame
<1>10. pc' \notin {"start", "lemmas"}
  BY <1>3
<1>11. QED BY <1>1, <1>8, <1>9, <1>10, QuietScoped

(* The rollover knows the variable still; after it only those around are   *)
(* left.                                                                   *)
LEMMA LeaveScoped ==
    ASSUME RInv, RInv', Scoping, LeaveInduction
    PROVE  Scoping'
<1> DEFINE c == Frame.block
           h == Rollover(c, OuterHop.step_num)
           result(valid) == [Result(h, "induction_rollover", valid) EXCEPT !.depth = @ - 1]
<1>1. /\ job' = job /\ pc = "hops" /\ pc' = pc /\ Depth > 1
      /\ frames' = [Front(frames) EXCEPT ![Depth - 1].pos = @ + 1]
      /\ proof_let_types' = proof_let_types \ {job.blocks[c].name}
  BY DEF LeaveInduction
<1>2. PICK valid \in BOOLEAN : hop_results' = Append(hop_results, result(valid))
  BY DEF LeaveInduction, Report
<1>3. PICK r : r = result(valid)
  OBVIOUS
<1>4. r.types = proof_let_types /\ r.cur = Game(c, LastStep(c), "free")
  BY <1>3 DEF Result, Rollover
<1> HIDE DEF result, h
<1>5. hop_results' = Append(hop_results, r)
  BY <1>2, <1>3
<1>6. Called /\ GamesList(job.blocks)
  BY DEF RInv, IInv
<1>7. Scope(r) = c
  BY <1>4 DEF Scope, Game
<1>8. Types(proof_let_types, c)
  BY <1>1 DEF Scoping, Running
<1>9. (\A i \in DOMAIN hop_results : EntryScoped(hop_results[i]))'
  <2>1. EntryScoped(r)
    BY <1>4, <1>7, <1>8 DEF EntryScoped
  <2>2. QED BY <1>1, <1>5, <2>1, EntryScopedStep
<1>10. PICK n : n = Depth - 1
  OBVIOUS
<1>11. n \in Nat \ {0} /\ n + 1 = Depth
  BY <1>1, <1>6, <1>10, FramesFacts
<1> DEFINE b == frames[n].block
           i == InTextOrder(b)[frames[n].pos]
           j == NextAnchor(b, i)
<1>12. /\ b \in Blocks /\ c \in Blocks /\ i \in HopStarts(b)
       /\ IsInduction(b, j) /\ c = Body(b, j)
  BY <1>11, LedInto
<1>13. Parent(c) = b /\ c # 1
  <2>1. j \in Inductions(b)
    BY <1>6, <1>12, NextAnchorFacts DEF Inductions, Anchors
  <2>2. Parent(c) = b
    BY <1>6, <1>12, <2>1, BodyPlace
  <2>3. b < c
    BY <1>6, <1>12, HopPlace
  <2>4. c # 1
    <3>1. b \in Nat /\ b >= 1 /\ c \in Nat
      BY <1>6, <1>12 DEF GamesList, Blocks
    <3>2. QED BY <2>3, <3>1
  <2>5. QED BY <2>2, <2>4
<1>14. Frame'.block = b
  <2>1. Depth' = Depth - 1 /\ frames'[Depth - 1].block = frames[Depth - 1].block
    BY <1>1, <1>6, LeaveFrames
  <2>2. QED BY <1>10, <2>1 DEF Frame
<1>15. Types(proof_let_types', b)
  <2>1. Around[c] = {c} \cup Around[b]
    BY <1>6, <1>12, <1>13, AroundMeaning
  <2>2. job.blocks[c].name \notin InductionNames(Around[b])
    BY <1>12, <1>13 DEF Scoping, NoShadowing
  <2> HIDE DEF b, c
  <2>3. InductionNames(Around[c]) = {job.blocks[c].name} \cup InductionNames(Around[b])
    BY <2>1 DEF InductionNames
  <2>4. QED BY <1>1, <1>8, <2>2, <2>3 DEF Types
<1>16. Types(proof_let_types, Frame.block)'
  <2>1. PICK t, d : t = proof_let_types' /\ d = Frame'.block
    OBVIOUS
  <2>2. Types(t, d)
    BY <1>14, <1>15, <2>1
  <2>3. Types(t, d)'
    BY <1>1, <2>2, ScopesKept
  <2>4. QED BY <2>1, <2>3
<1>17. NoShadowing'
  BY <1>1, ScopesKept DEF Scoping
<1>18. QED BY <1>1, <1>9, <1>16, <1>17 DEF Scoping

LEMMA NextScoping == RInv /\ RInv' /\ Scoping /\ [Next]_vars => Scoping'
<1> SUFFICES ASSUME RInv, RInv', Scoping, [Next]_vars PROVE Scoping'
  OBVIOUS
<1>1. CASE Start
  BY <1>1, StartScoped
<1>2. CASE ReportAssumptionHop
  <2>1. /\ job' = job /\ pc = "hops" /\ pc' = pc /\ HasHop /\ frames' = NextHop
        /\ proof_let_types' = proof_let_types
        /\ hop_results' = Append(hop_results, Result(CurrentHop, CurrentHop.kind, CurrentHop.valid))
    BY <1>2 DEF ReportAssumptionHop, Report
  <2>2. PICK r : r = Result(CurrentHop, CurrentHop.kind, CurrentHop.valid)
    OBVIOUS
  <2>3. r.cur = CurrentHop.cur /\ r.types = proof_let_types
    BY <2>2 DEF Result
  <2>4. QED BY <2>1, <2>2, <2>3, HopScoped DEF Running
<1>3. CASE CheckHop
  <2>1. /\ job' = job /\ pc = "hops" /\ pc' \in {"hops", "enter"} /\ HasHop
        /\ frames' = NextHop \/ frames' = frames
        /\ proof_let_types' = proof_let_types
    BY <1>3 DEF CheckHop
  <2>2. PICK valid \in BOOLEAN :
            hop_results' = Append(hop_results, Result(CurrentHop, "equivalent", valid))
    BY <1>3 DEF CheckHop, Report
  <2>3. PICK r : r = Result(CurrentHop, "equivalent", valid)
    OBVIOUS
  <2>4. r.cur = CurrentHop.cur /\ r.types = proof_let_types
    BY <2>3 DEF Result
  <2>5. QED BY <2>1, <2>2, <2>3, <2>4, HopScoped DEF Running
<1>4. CASE EnterInduction
  BY <1>4, EnterScoped
<1>5. CASE LeaveInduction
  BY <1>5, LeaveScoped
<1>6. CASE ReportPooled
  <2>1. /\ job' = job /\ pc = "report" /\ pc' = pc /\ HasHop /\ frames' = NextHop
        /\ proof_let_types' = proof_let_types
    BY <1>6 DEF ReportPooled
  <2>2. \E r : /\ r.cur = CurrentHop.cur /\ r.types = proof_let_types
               /\ hop_results' = Append(hop_results, r)
    <3> DEFINE p == [Result(CurrentHop, "equivalent", pool[Frame.pos] = "valid")
                        EXCEPT !.assuming = CurrentHop.assuming]
               q == Result(CurrentHop, CurrentHop.kind, CurrentHop.valid)
    <3>1. hop_results' = Append(hop_results, p) \/ hop_results' = Append(hop_results, q)
      BY <1>6 DEF ReportPooled, Report
    <3>2. /\ p.cur = CurrentHop.cur /\ p.types = proof_let_types
          /\ q.cur = CurrentHop.cur /\ q.types = proof_let_types
      BY DEF Result
    <3> HIDE DEF p, q
    <3>3. QED BY <3>1, <3>2
  <2>3. QED BY <2>1, <2>2, HopScoped DEF Running
<1>7. CASE SilentSteps
  BY <1>7, SilentScoped
<1>8. QED BY <1>1, <1>2, <1>3, <1>4, <1>5, <1>6, <1>7 DEF Next, SilentSteps

(* A games pair is checked with a type for the variables of the inductions *)
(* around its hop and no others, entered and left in any order, when no    *)
(* induction stands in another one over a variable of the same name.  The  *)
(* code does not reject such a file, and leaving the inner induction takes *)
(* the type away from the rest of the outer one's body.                    *)
THEOREM ScopesCorrect == Spec /\ NoShadowing => []VariablesScoped
<1>1. Init => RInv
  BY InitRInv
<1>2. RInv /\ [Next]_vars => RInv'
  BY NextRInv
<1>3. Init /\ NoShadowing => Scoping
  BY DEF Init, Scoping, Running
<1>4. RInv /\ RInv' /\ Scoping /\ [Next]_vars => Scoping'
  BY NextScoping
<1>5. RInv /\ Scoping => VariablesScoped
  BY DEF Scoping, EntryScoped, Types, VariablesScoped, Checked, ToSet
<1>6. QED BY <1>1, <1>2, <1>3, <1>4, <1>5, PTL DEF Spec
=============================================================================
