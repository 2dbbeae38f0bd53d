------------------------------- MODULE UptoProofs -------------------------------
(***************************************************************************)
(* Two games that the walk of UptoWalk accepts are identical until their   *)
(* flag, whatever their statements, expressions and states are.            *)
(***************************************************************************)
EXTENDS UptoMeaning, RecursiveFunctions, FiniteSetTheorems

-------------------------------------------------------------------------------
(* Statements and blocks.                                                  *)

Blocks == Seq(Statements)
Simples == {"assign", "draw", "raise", "return"}

LEMMA BlockParts ==
    ASSUME NEW b \in Blocks, b # <<>>
    PROVE  /\ Head(b) \in Statements /\ Tail(b) \in Blocks
           /\ Head(b) = b[1] /\ Len(b) \in Nat \ {0} /\ Len(Tail(b)) = Len(b) - 1
           /\ \A k \in 1..Len(b) - 1 : Tail(b)[k] = b[k + 1]
BY DEF Blocks

LEMMA StatementParts ==
    ASSUME NEW s \in Statements
    PROVE  /\ \A i \in DOMAIN s.blocks : s.blocks[i] \in Blocks
           /\ Len(s.blocks) \in Nat /\ DOMAIN s.blocks = 1..Len(s.blocks)
           /\ Len(s.conditions) \in Nat /\ DOMAIN s.conditions = 1..Len(s.conditions)
           /\ Len(s.index) \in Nat /\ DOMAIN s.index = 1..Len(s.index)
<1>1. s.blocks \in Seq(Blocks) /\ s.conditions \in Seq(Tests) /\ s.index \in Seq(Texts)
  BY StatementAssumption DEF Blocks
<1>2. QED BY <1>1

(* What follows for a block from its tail and the blocks of its head,      *)
(* holds for all blocks: statements are trees.                             *)
LEMMA BlockInduction ==
    ASSUME NEW P,
           \A b \in Blocks :
              (b # <<>> => /\ Tail(b) \in P
                           /\ \A i \in DOMAIN Head(b).blocks : Head(b).blocks[i] \in P)
              => b \in P
    PROVE  \A b \in Blocks : b \in P
<1> DEFINE Low(n) == {s \in Statements : Depth(s) < n}
           rank == [b \in Blocks |-> Len(b)]
<1>1. \A b \in Blocks : rank[b] \in Nat
  BY DEF Blocks
<1>2. ASSUME NEW n \in Nat, \A b \in Seq(Low(n)) : b \in P
      PROVE  \A b \in Seq(Low(n + 1)) : b \in P
  <2> DEFINE Q == {b \in Blocks : b \in Seq(Low(n + 1)) => b \in P}
  <2>1. ASSUME NEW b \in Blocks, \A c \in Blocks : rank[c] < rank[b] => c \in Q
        PROVE  b \in Q
    <3>1. SUFFICES ASSUME b \in Seq(Low(n + 1)) PROVE b \in P
      OBVIOUS
    <3>2. CASE b = <<>>
      BY <3>2
    <3>3. CASE b # <<>>
      <4>1. Tail(b) \in Blocks /\ Head(b) \in Statements /\ rank[Tail(b)] < rank[b]
        BY <3>3, BlockParts
      <4>2. Tail(b) \in Seq(Low(n + 1)) /\ Head(b) \in Low(n + 1)
        BY <3>1, <3>3
      <4>3. Tail(b) \in P
        BY <2>1, <4>1, <4>2
      <4>4. ASSUME NEW i \in DOMAIN Head(b).blocks
            PROVE  Head(b).blocks[i] \in P
        <5> DEFINE c == Head(b).blocks[i]
        <5>1. c \in Blocks
          BY <4>1, StatementParts
        <5>2. \A k \in DOMAIN c : c[k] \in Statements /\ Depth(c[k]) < Depth(Head(b))
          BY <4>1, <5>1, StatementAssumption DEF Blocks
        <5>3. Depth(Head(b)) \in Nat /\ Depth(Head(b)) < n + 1
          BY <4>1, <4>2, StatementAssumption
        <5>4. \A k \in DOMAIN c : c[k] \in Low(n)
          <6> SUFFICES ASSUME NEW k \in DOMAIN c PROVE Depth(c[k]) < n
            BY <5>2
          <6>1. Depth(c[k]) \in Nat /\ Depth(c[k]) < Depth(Head(b))
            BY <5>2, StatementAssumption
          <6>2. QED BY <5>3, <6>1
        <5>5. c \in Seq(Low(n))
          <6> HIDE DEF Low
          <6>1. QED BY <5>1, <5>4 DEF Blocks
        <5>6. QED BY <1>2, <5>5
      <4>5. QED BY <3>3, <4>3, <4>4
    <3>4. QED BY <3>2, <3>3
  <2> HIDE DEF Low, Q, rank
  <2>2. \A b \in Blocks : b \in Q
    BY <1>1, <2>1, RankInduction
  <2>3. \A b \in Seq(Low(n + 1)) : b \in Blocks
    BY DEF Low, Blocks
  <2>4. QED BY <2>2, <2>3 DEF Q
<1>3. \A b \in Seq(Low(0)) : b \in P
  <2>1. Low(0) = {}
    BY StatementAssumption
  <2>2. \A b \in Seq(Low(0)) : b = <<>>
    <3> HIDE DEF Low
    <3>1. QED BY <2>1
  <2>3. <<>> \in Blocks
    BY DEF Blocks
  <2>4. QED BY <2>2, <2>3
<1>4. ASSUME NEW n \in Nat
      PROVE  \A b \in Seq(Low(n)) : b \in P
  <2> DEFINE Q == {k \in 0..n : \A b \in Seq(Low(k)) : b \in P}
  <2>1. 0 \in Q
    BY <1>3
  <2>2. \A k \in 0..n : k < n /\ k \in Q => k + 1 \in Q
    BY <1>2
  <2>3. \A k \in 0..n : k \in Q
    <3> HIDE DEF Q
    <3>1. QED BY <2>1, <2>2, RangeInduction
  <2>4. n \in Q
    BY <2>3
  <2>5. QED BY <2>4
<1> DEFINE R == {b \in Blocks : \E n \in Nat : b \in Seq(Low(n))}
<1>5. ASSUME NEW b \in Blocks, \A c \in Blocks : rank[c] < rank[b] => c \in R
      PROVE  b \in R
  <2>1. CASE b = <<>>
    <3>1. b \in Seq(Low(0))
      BY <2>1
    <3>2. QED BY <3>1
  <2>2. CASE b # <<>>
    <3>1. Tail(b) \in Blocks /\ Head(b) \in Statements /\ rank[Tail(b)] < rank[b]
      BY <2>2, BlockParts
    <3>2. PICK n \in Nat : Tail(b) \in Seq(Low(n))
      BY <1>5, <3>1
    <3>3. PICK m \in Nat : m > n /\ m > Depth(Head(b))
      <4>1. Depth(Head(b)) \in Nat
        BY <3>1, StatementAssumption
      <4>2. n + Depth(Head(b)) + 1 \in Nat /\ n + Depth(Head(b)) + 1 > n
            /\ n + Depth(Head(b)) + 1 > Depth(Head(b))
        BY <4>1
      <4>3. QED BY <4>2
    <3>4. \A k \in 1..Len(b) : b[k] \in Low(m)
      <4> SUFFICES ASSUME NEW k \in 1..Len(b) PROVE b[k] \in Low(m)
        OBVIOUS
      <4>1. CASE k = 1
        BY <2>2, <3>1, <3>3, <4>1, BlockParts
      <4>2. CASE k # 1
        <5>1. k - 1 \in 1..Len(b) - 1 /\ b[k] = Tail(b)[k - 1]
          BY <2>2, <4>2, BlockParts
        <5>2. Tail(b)[k - 1] \in Low(n)
          <6> HIDE DEF Low
          <6>1. k - 1 \in 1..Len(Tail(b))
            BY <2>2, <5>1, BlockParts
          <6>2. QED BY <3>2, <6>1
        <5>3. Depth(b[k]) \in Nat /\ Depth(b[k]) < n /\ b[k] \in Statements
          BY <5>1, <5>2, StatementAssumption
        <5>4. QED BY <3>3, <5>3
      <4>3. QED BY <4>1, <4>2
    <3>5. b \in Seq(Low(m))
      <4> HIDE DEF Low
      <4>1. QED BY <3>4 DEF Blocks
    <3>6. QED BY <3>5
  <2>3. QED BY <2>1, <2>2
<1>6. \A b \in Blocks : b \in R
  <2> HIDE DEF R, rank
  <2>1. QED BY <1>1, <1>5, RankInduction
<1>7. QED BY <1>4, <1>6

-------------------------------------------------------------------------------
(* What one statement does.                                                *)

Meanings == [Outs -> Outs]

LEMMA LeastOf ==
    ASSUME NEW S \in SUBSET Nat, S # {}
    PROVE  Min(S) \in S /\ \A k \in S : Min(S) <= k
<1>1. \E m \in S : \A k \in S : m <= k
  BY LeastElement
<1>2. QED BY <1>1 DEF Min

LEMMA CallsInNat ==
    ASSUME NEW texts, NEW n \in Nat
    PROVE  CallsIn(texts, n) \in Nat
<1> DEFINE T == {k \in 1..n : Calls(texts[k])}
<1>1. IsFiniteSet(1..n)
  BY FS_Interval
<1>2. IsFiniteSet(T)
  BY <1>1, FS_Subset
<1>3. Cardinality(T) \in Nat
  BY <1>2, FS_CardinalityType
<1>4. QED BY <1>3 DEF CallsIn

LEMMA OutFields ==
    ASSUME NEW out \in Outs
    PROVE  /\ out.end \in {"next", "return", "raised"} /\ out.state \in States
           /\ out.coins \in AllCoins /\ out.drawn \in Nat /\ out.value \in Answers
           /\ out.raised \in BOOLEAN /\ out.stop \in BOOLEAN
BY DEF Outs

LEMMA CoinValue ==
    ASSUME NEW out \in Outs, NEW k \in Nat
    PROVE  Coin(out, k) \in Values
<1>1. out.coins \in AllCoins /\ out.drawn \in Nat
  BY OutFields
<1>2. Coins \in Nat \ {0}
  BY StateAssumption
<1>3. (out.drawn + k) % Coins \in 0..Coins - 1
  BY <1>1, <1>2
<1>4. 1 + ((out.drawn + k) % Coins) \in 1..Coins
  BY <1>2, <1>3
<1>5. QED BY <1>1, <1>4 DEF Coin, AllCoins

LEMMA ValuePossible ==
    ASSUME NEW out \in Outs, NEW k \in Nat, NEW text
    PROVE  Value(text, k, out) \in Possible(text, out.state)
BY CoinValue DEF Value, Possible

LEMMA ValueAnswers ==
    ASSUME NEW out \in Outs, NEW k \in Nat, NEW text \in Texts
    PROVE  Value(text, k, out) \in Answers
<1>1. CASE Calls(text)
  BY <1>1, CoinValue DEF Value, Answers
<1>2. CASE ~Calls(text)
  <2>1. Value(text, k, out) = Eval(text, out.state) /\ out.state \in States
    BY <1>2, OutFields DEF Value
  <2>2. QED BY <1>2, <2>1 DEF Answers
<1>3. QED BY <1>1, <1>2

(* A write leaves a run a run; it changes the target's variable only.      *)
LEMMA PutFacts ==
    ASSUME NEW s \in Statements, s.op \in {"assign", "draw", "raise"},
           NEW out \in Outs, NEW value \in Given(s, out.state), NEW used \in Nat
    PROVE  LET new == Put(s, value, used, out) IN
           /\ new \in Outs
           /\ new.end = out.end /\ new.stop = out.stop /\ new.raised = out.raised
           /\ Same(Names \ {s.var}, new.state, out.state)
           /\ s.index = <<>> => new.state[s.var] = value
<1> DEFINE keys == [k \in DOMAIN s.index |-> Value(s.index[k], CallsIn(s.index, k - 1), out)]
           state == Write(<<s.var>> \o keys, value, out.state)
<1>1. keys \in Keys(s, out.state)
  <2>1. \A k \in DOMAIN s.index : keys[k] \in Possible(s.index[k], out.state)
    <3> SUFFICES ASSUME NEW k \in DOMAIN s.index
                 PROVE  keys[k] \in Possible(s.index[k], out.state)
      OBVIOUS
    <3>1. k - 1 \in Nat
      BY StatementParts
    <3>2. CallsIn(s.index, k - 1) \in Nat
      BY <3>1, CallsInNat
    <3>3. QED BY <3>2, ValuePossible
  <2> HIDE DEF keys
  <2>2. keys = [k \in DOMAIN s.index |-> keys[k]]
    BY DEF keys
  <2>3. keys \in [DOMAIN s.index -> UNION {Possible(s.index[k], out.state) : k \in DOMAIN s.index}]
    BY <2>1, <2>2
  <2>4. QED BY <2>1, <2>3 DEF Keys
<1>2. out.state \in States /\ out.drawn + used \in Nat
  BY OutFields
<1> HIDE DEF keys
<1>3. /\ state \in States
      /\ Same(Names \ {s.var}, state, out.state)
      /\ s.index = <<>> => state[s.var] = value
  BY <1>1, <1>2, WriteAssumption
<1>4. Put(s, value, used, out) = [out EXCEPT !.state = state, !.drawn = out.drawn + used]
  BY DEF Put, Target, keys
<1> HIDE DEF state
<1>5. [out EXCEPT !.state = state, !.drawn = out.drawn + used] \in Outs
  BY <1>2, <1>3 DEF Outs
<1>6. QED BY <1>3, <1>4, <1>5 DEF Outs

LEMMA UsedNat ==
    ASSUME NEW s \in Statements
    PROVE  Used(s) \in Nat
BY StatementParts, CallsInNat DEF Used

LEMMA RepeatedTurns ==
    ASSUME NEW body \in Meanings, NEW out \in Outs
    PROVE  \E turn \in [0..Rounds -> Outs] :
              /\ turn[0] = out
              /\ \A n \in 1..Rounds : turn[n] = body[turn[n - 1]]
              /\ Repeated(body, out) = turn[Rounds]
<1> DEFINE S == 0..Rounds
           E(f, n) == IF n = 0 THEN out ELSE body[f[n - 1]]
           D == [p \in [S -> Outs] \X S |-> E(p[1], p[2])]
           rank == [n \in S |-> n]
<1>1. Rounds \in Nat
  BY StateAssumption
<1>2. ByRank(S, Outs, Rounds, rank, D)
  <2>1. \A f \in [S -> Outs] : \A n \in S : E(f, n) \in Outs
    <3> SUFFICES ASSUME NEW f \in [S -> Outs], NEW n \in S, n # 0
                 PROVE  body[f[n - 1]] \in Outs
      OBVIOUS
    <3>1. n - 1 \in S
      BY <1>1
    <3>2. f[n - 1] \in Outs
      BY <3>1
    <3>3. QED BY <3>2 DEF Meanings
  <2>2. D \in [[S -> Outs] \X S -> Outs]
    <3> HIDE DEF E
    <3>1. QED BY <2>1
  <2>3. ASSUME NEW f \in [S -> Outs], NEW g \in [S -> Outs], NEW n \in S,
               \A k \in S : rank[k] < rank[n] => f[k] = g[k]
        PROVE  D[<<f, n>>] = D[<<g, n>>]
    <3>1. E(f, n) = E(g, n)
      <4>1. CASE n = 0
        BY <4>1
      <4>2. CASE n # 0
        <5>1. n - 1 \in S /\ n - 1 < n
          BY <1>1, <4>2
        <5>2. f[n - 1] = g[n - 1]
          BY <2>3, <5>1
        <5>3. QED BY <4>2, <5>2
      <4>3. QED BY <4>1, <4>2
    <3> HIDE DEF E
    <3>2. QED BY <3>1
  <2>4. rank \in [S -> 0..Rounds]
    OBVIOUS
  <2> HIDE DEF D, rank
  <2>5. QED BY <1>1, <2>2, <2>3, <2>4 DEF ByRank
<1>3. PICK f \in [S -> Outs] : f = [n \in S |-> D[<<f, n>>]]
  <2> HIDE DEF D, rank, S
  <2>1. QED BY <1>2, RecursiveFunction DEF Solvable
<1>4. f = [n \in S |-> E(f, n)]
  <2>1. \A n \in S : D[<<f, n>>] = E(f, n)
    OBVIOUS
  <2> HIDE DEF D, E
  <2>2. QED BY <1>3, <2>1
<1> DEFINE turn == CHOOSE g : g = [n \in S |-> E(g, n)]
<1>5. turn = [n \in S |-> E(turn, n)]
  <2> HIDE DEF E, S
  <2>1. QED BY <1>4
<1>6. Repeated(body, out) = turn[Rounds]
  BY DEF Repeated
<1> HIDE DEF turn
<1>7. turn[0] = out
  BY <1>1, <1>5
<1>8. \A n \in 1..Rounds : turn[n] = body[turn[n - 1]]
  BY <1>1, <1>5
<1>9. \A n \in 0..Rounds : turn[n] \in Outs
  <2> DEFINE P == {n \in 0..Rounds : turn[n] \in Outs}
  <2>1. 0 \in P
    BY <1>1, <1>7
  <2>2. \A n \in 0..Rounds : n < Rounds /\ n \in P => n + 1 \in P
    <3> SUFFICES ASSUME NEW n \in 0..Rounds, n < Rounds, turn[n] \in Outs
                 PROVE  n + 1 \in 0..Rounds /\ turn[n + 1] \in Outs
      OBVIOUS
    <3>1. n + 1 \in 1..Rounds /\ (n + 1) - 1 = n
      BY <1>1
    <3>2. turn[n + 1] = body[turn[n]]
      BY <1>8, <3>1
    <3>3. QED BY <3>1, <3>2 DEF Meanings
  <2> HIDE DEF P
  <2>3. \A n \in 0..Rounds : n \in P
    BY <1>1, <2>1, <2>2, RangeInduction
  <2>4. QED BY <2>3 DEF P
<1>10. turn \in [0..Rounds -> Outs]
  <2>1. turn = [n \in S |-> turn[n]]
    BY <1>5
  <2>2. QED BY <1>9, <2>1
<1>11. QED BY <1>6, <1>7, <1>8, <1>10

LEMMA TestedFacts ==
    ASSUME NEW s \in Statements, s.op = "if", NEW out \in Outs
    PROVE  /\ Tested(s, out) \in Outs
           /\ \E n \in Nat : Tested(s, out) = [out EXCEPT !.drawn = @ + n]
           /\ Arms(s, out) \subseteq DOMAIN s.blocks
           /\ Arms(s, out) # {} =>
                 /\ Min(Arms(s, out)) \in Arms(s, out)
                 /\ \A i \in Arms(s, out) : Min(Arms(s, out)) <= i
<1>1. DOMAIN s.conditions = 1..Len(s.conditions) /\ DOMAIN s.blocks = 1..Len(s.blocks)
      /\ Len(s.conditions) \in Nat /\ Len(s.blocks) \in Nat
      /\ Len(s.conditions) <= Len(s.blocks)
  BY StatementParts, KindAssumption
<1>2. Met(s, out) \in SUBSET Nat /\ Met(s, out) \subseteq DOMAIN s.conditions
  BY <1>1 DEF Met
<1>3. Arms(s, out) \subseteq DOMAIN s.blocks /\ Arms(s, out) \in SUBSET Nat
  BY <1>1, <1>2 DEF Arms
<1> DEFINE n == IF Met(s, out) = {} THEN Len(s.conditions) ELSE Min(Met(s, out))
<1>4. n \in Nat
  <2>1. Met(s, out) # {} => Min(Met(s, out)) \in Nat
    BY <1>2, LeastOf
  <2>2. QED BY <1>1, <2>1
<1>5. CallsIn(s.conditions, n) \in Nat
  BY <1>4, CallsInNat
<1>6. Tested(s, out) = [out EXCEPT !.drawn = @ + CallsIn(s.conditions, n)]
  BY DEF Tested
<1> HIDE DEF n
<1>7. Tested(s, out) \in Outs
  <2>1. out.drawn + CallsIn(s.conditions, n) \in Nat
    BY <1>5, OutFields
  <2>2. QED BY <1>6, <2>1 DEF Outs
<1>8. QED BY <1>3, <1>5, <1>6, <1>7, LeastOf

LEMMA LeaveFacts ==
    ASSUME NEW s \in Statements, NEW before \in Outs, NEW out \in Outs
    PROVE  LET new == Leave(s, before, out) IN
           /\ new \in Outs
           /\ new.end = out.end /\ new.stop = out.stop /\ new.raised = out.raised
           /\ Same(Names \ {s.var}, new.state, out.state)
           /\ s.typed => s.op \in {"assign", "draw"}
           /\ ~s.typed => new = out
           /\ s.typed => new.state[s.var] = before.state[s.var]
<1>1. s.typed => s.op \in {"assign", "draw"}
  <2>1. s.op \in {"if", "for"} => ~s.typed
    BY StatementAssumption DEF Compound
  <2>2. QED BY <2>1, StatementAssumption, KindAssumption
<1>2. CASE ~s.typed
  BY <1>1, <1>2 DEF Leave, Same
<1>3. CASE s.typed
  <2> DEFINE state == [out.state EXCEPT ![s.var] = before.state[s.var]]
  <2>1. out.state \in States /\ before.state \in States
    BY OutFields
  <2>2. state \in States
    BY <1>1, <1>3, <2>1, WriteAssumption
  <2>3. Leave(s, before, out) = [out EXCEPT !.state = state]
    BY <1>3 DEF Leave
  <2>4. out.state = [m \in Names |-> out.state[m]] /\ s.var \in Names
    BY <1>1, <1>3, <2>1, StateAssumption, KindAssumption
  <2>5. Same(Names \ {s.var}, state, out.state) /\ state[s.var] = before.state[s.var]
    <3>1. \A m \in Names : state[m] = IF m = s.var THEN before.state[s.var] ELSE out.state[m]
      BY <2>4
    <3>2. QED BY <2>4, <3>1 DEF Same
  <2> HIDE DEF state
  <2>6. QED BY <1>1, <1>3, <2>2, <2>3, <2>5 DEF Outs
<1>4. QED BY <1>2, <1>3

(* A statement whose blocks take runs to runs does, too.                   *)
LEMMA DoesOut ==
    ASSUME NEW s \in Statements, NEW blocks \in [DOMAIN s.blocks -> Meanings],
           NEW out \in Outs
    PROVE  Does(s, blocks, out) \in Outs
<1>1. s.op \in {"assign", "draw", "raise", "return", "if", "for"}
  BY StatementAssumption
<1>2. CallsIn(<<s.value>>, 1) \in Nat /\ Used(s) \in Nat
  BY CallsInNat, UsedNat
<1>3. CASE s.op = "assign"
  <2>1. Value(s.value, Used(s), out) \in Given(s, out.state)
    BY <1>2, <1>3, ValuePossible DEF Given
  <2>2. Used(s) + CallsIn(<<s.value>>, 1) \in Nat
    BY <1>2
  <2>3. Does(s, blocks, out) =
            Put(s, Value(s.value, Used(s), out), Used(s) + CallsIn(<<s.value>>, 1), out)
    BY <1>3 DEF Does
  <2>4. QED BY <1>3, <2>1, <2>2, <2>3, PutFacts
<1>4. CASE s.op = "draw"
  <2>1. Coin(out, Used(s)) \in Given(s, out.state) /\ Used(s) + 1 \in Nat
    BY <1>2, <1>4, CoinValue DEF Given
  <2>2. Does(s, blocks, out) = Put(s, Coin(out, Used(s)), Used(s) + 1, out)
    BY <1>4 DEF Does
  <2>3. QED BY <1>4, <2>1, <2>2, PutFacts
<1>5. CASE s.op = "raise"
  <2>1. TRUE \in Given(s, out.state) /\ 0 \in Nat
    BY <1>5 DEF Given
  <2>2. Put(s, TRUE, 0, out) \in Outs
    BY <1>5, <2>1, PutFacts
  <2>3. Does(s, blocks, out) = Raising(Put(s, TRUE, 0, out))
    BY <1>5 DEF Does
  <2>4. QED BY <2>2, <2>3 DEF Raising, Outs
<1>6. CASE s.op = "return"
  <2>1. Value(s.value, 0, out) \in Answers
    BY <1>6, KindAssumption, ValueAnswers
  <2>2. out.drawn + CallsIn(<<s.value>>, 1) \in Nat
    BY <1>2, OutFields
  <2>3. Does(s, blocks, out) =
            [out EXCEPT !.end = "return", !.value = Value(s.value, 0, out),
                        !.drawn = out.drawn + CallsIn(<<s.value>>, 1)]
    BY <1>6 DEF Does
  <2>4. QED BY <2>1, <2>2, <2>3 DEF Outs
<1>7. CASE s.op = "for"
  <2>1. blocks[1] \in Meanings
    BY <1>7, KindAssumption, StatementParts
  <2>2. Does(s, blocks, out) = Repeated(blocks[1], out)
    BY <1>7 DEF Does
  <2>3. Rounds \in 0..Rounds
    BY StateAssumption
  <2>4. QED BY <2>1, <2>2, <2>3, RepeatedTurns
<1>8. CASE s.op = "if"
  <2>1. CASE Arms(s, out) = {}
    BY <1>8, <2>1, TestedFacts DEF Does
  <2>2. CASE Arms(s, out) # {}
    <3>1. Min(Arms(s, out)) \in DOMAIN s.blocks /\ Tested(s, out) \in Outs
      BY <1>8, <2>2, TestedFacts
    <3>2. Does(s, blocks, out) = blocks[Min(Arms(s, out))][Tested(s, out)]
      BY <1>8, <2>2 DEF Does
    <3>3. QED BY <3>1, <3>2 DEF Meanings
  <2>3. QED BY <2>1, <2>2
<1>9. QED BY <1>1, <1>3, <1>4, <1>5, <1>6, <1>7, <1>8

-------------------------------------------------------------------------------
(* Running a block: the recursive function Exec exists.                    *)

(* A statement, and one round of the recursion, given what blocks do.      *)
OneBy(f, s, out) == Does(s, [i \in DOMAIN s.blocks |-> f[s.blocks[i]]], out)
ExecBy(f, b) ==
    [out \in Outs |->
        IF b = <<>> \/ out.end # "next" THEN out
        ELSE Leave(Head(b), out, f[Tail(b)][OneBy(f, Head(b), out)])]

One(s, out) == OneBy(Exec, s, out)

LEMMA OneByOut ==
    ASSUME NEW f, NEW s \in Statements, NEW out \in Outs,
           \A i \in DOMAIN s.blocks : f[s.blocks[i]] \in Meanings
    PROVE  OneBy(f, s, out) \in Outs
<1>1. [i \in DOMAIN s.blocks |-> f[s.blocks[i]]] \in [DOMAIN s.blocks -> Meanings]
  OBVIOUS
<1>2. QED BY <1>1, DoesOut DEF OneBy

LEMMA ExecByMeaning ==
    ASSUME NEW f, NEW b \in Blocks,
           b # <<>> =>
              /\ f[Tail(b)] \in Meanings
              /\ \A i \in DOMAIN Head(b).blocks : f[Head(b).blocks[i]] \in Meanings
    PROVE  ExecBy(f, b) \in Meanings
<1>1. ASSUME NEW out \in Outs, b # <<>>
      PROVE  Leave(Head(b), out, f[Tail(b)][OneBy(f, Head(b), out)]) \in Outs
  <2>1. Head(b) \in Statements /\ Tail(b) \in Blocks
    BY <1>1, BlockParts
  <2>2. OneBy(f, Head(b), out) \in Outs
    BY <1>1, <2>1, OneByOut
  <2>3. f[Tail(b)][OneBy(f, Head(b), out)] \in Outs
    BY <1>1, <2>2 DEF Meanings
  <2>4. QED BY <2>1, <2>3, LeaveFacts
<1>2. QED BY <1>1 DEF ExecBy, Meanings

LEMMA ExecSolves ==
    /\ Exec \in [Blocks -> Meanings]
    /\ \A b \in Blocks : Exec[b] = ExecBy(Exec, b)
<1> DEFINE below == [b \in Blocks |->
                        IF b = <<>> THEN {}
                        ELSE {Tail(b)} \cup {Head(b).blocks[i] : i \in DOMAIN Head(b).blocks}]
           D == [p \in [Blocks -> Meanings] \X Blocks |-> ExecBy(p[1], p[2])]
<1>1. below \in [Blocks -> SUBSET Blocks]
  <2> SUFFICES ASSUME NEW b \in Blocks, b # <<>>
               PROVE  {Tail(b)} \cup {Head(b).blocks[i] : i \in DOMAIN Head(b).blocks}
                          \subseteq Blocks
    OBVIOUS
  <2>1. QED BY BlockParts, StatementParts
<1>2. Meanings # {}
  <2>1. [out \in Outs |-> out] \in Meanings
    BY DEF Meanings
  <2>2. QED BY <2>1
<1>3. D \in [[Blocks -> Meanings] \X Blocks -> Meanings]
  <2> SUFFICES ASSUME NEW f \in [Blocks -> Meanings], NEW b \in Blocks
               PROVE  ExecBy(f, b) \in Meanings
    OBVIOUS
  <2>1. b # <<>> =>
            /\ f[Tail(b)] \in Meanings
            /\ \A i \in DOMAIN Head(b).blocks : f[Head(b).blocks[i]] \in Meanings
    BY BlockParts, StatementParts
  <2>2. QED BY <2>1, ExecByMeaning
<1>4. ASSUME NEW P \in SUBSET Blocks, \A b \in Blocks : below[b] \subseteq P => b \in P
      PROVE  Blocks \subseteq P
  <2>1. ASSUME NEW b \in Blocks,
               b # <<>> => /\ Tail(b) \in P
                           /\ \A i \in DOMAIN Head(b).blocks : Head(b).blocks[i] \in P
        PROVE  b \in P
    <3>1. below[b] \subseteq P
      BY <2>1
    <3> HIDE DEF below
    <3>2. QED BY <1>4, <3>1
  <2>2. QED BY <2>1, BlockInduction
<1>5. LooksBelow(Blocks, Meanings, below, D)
  <2> SUFFICES ASSUME NEW f \in [Blocks -> Meanings], NEW g \in [Blocks -> Meanings],
                      NEW b \in Blocks,
                      \A c \in Blocks : c \in below[b] => f[c] = g[c]
               PROVE  D[<<f, b>>] = D[<<g, b>>]
    BY DEF LooksBelow
  <2>1. D[<<f, b>>] = ExecBy(f, b) /\ D[<<g, b>>] = ExecBy(g, b)
    OBVIOUS
  <2>2. CASE b = <<>>
    BY <2>1, <2>2 DEF ExecBy
  <2>3. CASE b # <<>>
    <3>1. Tail(b) \in Blocks /\ Tail(b) \in below[b]
      BY <2>3, BlockParts
    <3>2. \A i \in DOMAIN Head(b).blocks :
              Head(b).blocks[i] \in Blocks /\ Head(b).blocks[i] \in below[b]
      BY <2>3, BlockParts, StatementParts
    <3> HIDE DEF below
    <3>3. f[Tail(b)] = g[Tail(b)]
      BY <3>1
    <3>4. \A i \in DOMAIN Head(b).blocks : f[Head(b).blocks[i]] = g[Head(b).blocks[i]]
      BY <3>2
    <3>5. [i \in DOMAIN Head(b).blocks |-> f[Head(b).blocks[i]]]
              = [i \in DOMAIN Head(b).blocks |-> g[Head(b).blocks[i]]]
      BY <3>4
    <3>6. \A out : OneBy(f, Head(b), out) = OneBy(g, Head(b), out)
      BY <3>5 DEF OneBy
    <3>7. ExecBy(f, b) = ExecBy(g, b)
      BY <3>3, <3>6 DEF ExecBy
    <3>8. QED BY <2>1, <3>7
  <2>4. QED BY <2>2, <2>3
<1>6. ByDependency(Blocks, Meanings, below, D)
  <2> HIDE DEF below, D
  <2>1. QED BY <1>1, <1>2, <1>3, <1>4, <1>5 DEF ByDependency
<1>7. PICK f \in [Blocks -> Meanings] : f = [b \in Blocks |-> D[<<f, b>>]]
  <2> HIDE DEF below, D
  <2>1. QED BY <1>6, DependentFunction DEF Solvable
<1>8. f = [b \in Blocks |-> ExecBy(f, b)]
  <2>1. \A b \in Blocks : D[<<f, b>>] = ExecBy(f, b)
    OBVIOUS
  <2> HIDE DEF D
  <2>2. QED BY <1>7, <2>1
<1> DEFINE G == CHOOSE g : g = [b \in Blocks |-> ExecBy(g, b)]
<1>9. Exec = G
  BY DEF Exec, ExecBy, OneBy, Blocks
<1>10. G = [b \in Blocks |-> ExecBy(G, b)]
  BY <1>8
<1>11. Exec = [b \in Blocks |-> ExecBy(Exec, b)]
  BY <1>9, <1>10
<1> HIDE DEF G
<1>12. \A b \in Blocks : Exec[b] \in Meanings
  <2> DEFINE P == {b \in Blocks : Exec[b] \in Meanings}
  <2>1. ASSUME NEW b \in Blocks,
               b # <<>> => /\ Tail(b) \in P
                           /\ \A i \in DOMAIN Head(b).blocks : Head(b).blocks[i] \in P
        PROVE  b \in P
    <3>1. ExecBy(Exec, b) \in Meanings
      BY <2>1, ExecByMeaning
    <3>2. QED BY <1>11, <3>1
  <2> HIDE DEF P
  <2>2. \A b \in Blocks : b \in P
    BY <2>1, BlockInduction
  <2>3. QED BY <2>2 DEF P
<1>13. \A b \in Blocks : Exec[b] = ExecBy(Exec, b)
  BY <1>11
<1>14. Exec = [b \in Blocks |-> Exec[b]]
  BY <1>11, <1>13
<1>15. QED BY <1>12, <1>13, <1>14

LEMMA ExecAt ==
    ASSUME NEW b \in Blocks, NEW out \in Outs
    PROVE  /\ Exec[b] \in Meanings /\ Exec[b][out] \in Outs
           /\ b = <<>> \/ out.end # "next" => Exec[b][out] = out
           /\ b # <<>> /\ out.end = "next" =>
                 Exec[b][out] = Leave(Head(b), out, Exec[Tail(b)][One(Head(b), out)])
<1>1. Exec[b] \in Meanings /\ Exec[b] = ExecBy(Exec, b)
  BY ExecSolves
<1>2. Exec[b][out] \in Outs
  BY <1>1 DEF Meanings
<1>3. Exec[b][out] = IF b = <<>> \/ out.end # "next" THEN out
                     ELSE Leave(Head(b), out, Exec[Tail(b)][OneBy(Exec, Head(b), out)])
  BY <1>1 DEF ExecBy
<1>4. QED BY <1>1, <1>2, <1>3 DEF One

LEMMA OneOut ==
    ASSUME NEW s \in Statements, NEW out \in Outs
    PROVE  One(s, out) \in Outs
<1>1. \A i \in DOMAIN s.blocks : Exec[s.blocks[i]] \in Meanings
  BY StatementParts, ExecSolves
<1>2. QED BY <1>1, OneByOut DEF One

(* What each statement does, its blocks run.                               *)
LEMMA OneAssign ==
    ASSUME NEW s \in Statements, s.op = "assign", NEW out \in Outs
    PROVE  LET value == Value(s.value, Used(s), out)
               used == Used(s) + CallsIn(<<s.value>>, 1)
           IN /\ One(s, out) = Put(s, value, used, out)
              /\ value \in Given(s, out.state) /\ used \in Nat
<1>1. CallsIn(<<s.value>>, 1) \in Nat /\ Used(s) \in Nat
  BY CallsInNat, UsedNat
<1>2. Value(s.value, Used(s), out) \in Given(s, out.state)
  BY <1>1, ValuePossible DEF Given
<1>3. QED BY <1>1, <1>2 DEF One, OneBy, Does

LEMMA OneDraw ==
    ASSUME NEW s \in Statements, s.op = "draw", NEW out \in Outs
    PROVE  /\ One(s, out) = Put(s, Coin(out, Used(s)), Used(s) + 1, out)
           /\ Coin(out, Used(s)) \in Given(s, out.state) /\ Used(s) + 1 \in Nat
<1>1. Used(s) \in Nat
  BY UsedNat
<1>2. Coin(out, Used(s)) \in Given(s, out.state)
  BY <1>1, CoinValue DEF Given
<1>3. QED BY <1>1, <1>2 DEF One, OneBy, Does

LEMMA OneRaise ==
    ASSUME NEW s \in Statements, s.op = "raise", NEW out \in Outs
    PROVE  /\ One(s, out) = Raising(Put(s, TRUE, 0, out))
           /\ TRUE \in Given(s, out.state)
           /\ One(s, out).state = Put(s, TRUE, 0, out).state
           /\ One(s, out).stop = out.stop
           /\ One(s, out).raised = TRUE
           /\ out.stop => One(s, out).end = "raised"
<1>1. One(s, out) = Raising(Put(s, TRUE, 0, out)) /\ TRUE \in Given(s, out.state)
  BY DEF One, OneBy, Does, Given
<1>2. Put(s, TRUE, 0, out) \in Outs /\ Put(s, TRUE, 0, out).stop = out.stop
  BY <1>1, PutFacts
<1> DEFINE put == Put(s, TRUE, 0, out)
<1> HIDE DEF put
<1>3. put \in Outs /\ put.stop = out.stop /\ One(s, out) = Raising(put)
  BY <1>1, <1>2 DEF put
<1>4. QED BY <1>1, <1>3 DEF Raising, Outs, put

LEMMA OneReturn ==
    ASSUME NEW s \in Statements, s.op = "return", NEW out \in Outs
    PROVE  /\ One(s, out) =
                [out EXCEPT !.end = "return", !.value = Value(s.value, 0, out),
                            !.drawn = @ + CallsIn(<<s.value>>, 1)]
           /\ One(s, out).end = "return" /\ One(s, out).state = out.state
           /\ One(s, out).stop = out.stop /\ One(s, out).raised = out.raised
<1>1. One(s, out) =
         [out EXCEPT !.end = "return", !.value = Value(s.value, 0, out),
                     !.drawn = @ + CallsIn(<<s.value>>, 1)]
  BY DEF One, OneBy, Does
<1>2. QED BY <1>1 DEF Outs

LEMMA OneFor ==
    ASSUME NEW s \in Statements, s.op = "for", NEW out \in Outs
    PROVE  /\ One(s, out) = Repeated(Exec[s.blocks[1]], out)
           /\ s.blocks[1] \in Blocks /\ 1 \in DOMAIN s.blocks
<1>1. 1 \in DOMAIN s.blocks
  BY StatementParts, KindAssumption
<1>2. s.blocks[1] \in Blocks
  BY <1>1, StatementParts
<1>3. QED BY <1>1, <1>2 DEF One, OneBy, Does

LEMMA OneIf ==
    ASSUME NEW s \in Statements, s.op = "if", NEW out \in Outs
    PROVE  /\ Arms(s, out) = {} => One(s, out) = Tested(s, out)
           /\ Arms(s, out) # {} =>
                 One(s, out) = Exec[s.blocks[Min(Arms(s, out))]][Tested(s, out)]
<1>1. Arms(s, out) # {} => Min(Arms(s, out)) \in DOMAIN s.blocks
  BY TestedFacts
<1>2. QED BY <1>1 DEF One, OneBy, Does

LEMMA StatementKinds ==
    ASSUME NEW s \in Statements
    PROVE  /\ s.op \in {"assign", "draw", "raise", "return", "if", "for"}
           /\ s.op \in {"assign", "draw", "raise"} => s.assigned = {s.var} /\ ~s.returns
           /\ s.op = "return" => s.assigned = {} /\ s.returns
           /\ s.op \in Simples => (s.lowers <=> s.op \in {"assign", "draw"} /\ s.var = Flag)
           /\ s.op \in {"if", "for"} =>
                 /\ ~s.typed
                 /\ s.assigned = UNION {Assigned(s.blocks[k]) : k \in DOMAIN s.blocks}
                 /\ s.returns <=> \E k \in DOMAIN s.blocks : Returns(s.blocks[k])
                 /\ s.lowers <=> \E k \in DOMAIN s.blocks : Lowers(s.blocks[k])
           /\ s.typed => s.op \in {"assign", "draw"}
<1>1. s.op \in {"assign", "draw", "raise", "return", "if", "for"}
  BY StatementAssumption
<1>2. CASE s.op \in {"if", "for"}
  <2>1. s = Compound(s.op, s.conditions, s.blocks)
    BY <1>2, StatementAssumption
  <2>2. /\ s.typed = Compound(s.op, s.conditions, s.blocks).typed
        /\ s.assigned = Compound(s.op, s.conditions, s.blocks).assigned
        /\ s.returns = Compound(s.op, s.conditions, s.blocks).returns
        /\ s.lowers = Compound(s.op, s.conditions, s.blocks).lowers
    BY <2>1
  <2>3. QED BY <1>2, <2>2 DEF Compound, Simples
<1>3. CASE s.op \in {"assign", "draw", "raise", "return"}
  <2>1. s = Statement(s.op, s.var, s.index, s.value, s.typed)
    BY <1>3, StatementAssumption
  <2>2. /\ s.assigned = Statement(s.op, s.var, s.index, s.value, s.typed).assigned
        /\ s.returns = Statement(s.op, s.var, s.index, s.value, s.typed).returns
        /\ s.lowers = Statement(s.op, s.var, s.index, s.value, s.typed).lowers
    BY <2>1
  <2>3. s.typed => s.op \in {"assign", "draw"}
    BY <1>3, KindAssumption
  <2>4. QED BY <1>3, <2>2, <2>3 DEF Statement, Simples
<1>4. QED BY <1>1, <1>2, <1>3

LEMMA HasBlocks ==
    ASSUME NEW s \in Statements, NEW i \in DOMAIN s.blocks
    PROVE  s.blocks[i] \in Blocks /\ s.op \in {"if", "for"}
<1>1. s.op \notin {"if", "for"} => s.blocks = <<>>
  <2>1. s.op \notin {"if", "for"} => s = Statement(s.op, s.var, s.index, s.value, s.typed)
    BY StatementAssumption
  <2>2. Statement(s.op, s.var, s.index, s.value, s.typed).blocks = <<>>
    BY DEF Statement
  <2>3. QED BY <2>1, <2>2
<1>2. s.blocks # <<>>
  OBVIOUS
<1>3. QED BY <1>1, <1>2, StatementParts

LEMMA BlockFields ==
    ASSUME NEW b \in Blocks, b # <<>>
    PROVE  /\ Assigned(b) = Head(b).assigned \cup Assigned(Tail(b))
           /\ Returns(b) <=> Head(b).returns \/ Returns(Tail(b))
           /\ Lowers(b) <=> Head(b).lowers \/ Lowers(Tail(b))
           /\ DeclaresLocals(b) <=> Head(b).typed \/ DeclaresLocals(Tail(b))
<1>1. /\ Head(b) = b[1] /\ Len(b) \in Nat \ {0} /\ Len(Tail(b)) = Len(b) - 1
      /\ \A k \in 1..Len(b) - 1 : Tail(b)[k] = b[k + 1]
      /\ DOMAIN b = 1..Len(b) /\ DOMAIN Tail(b) = 1..Len(b) - 1
  BY BlockParts DEF Blocks
<1>2. \A k \in DOMAIN b : k = 1 \/ (k - 1 \in DOMAIN Tail(b) /\ b[k] = Tail(b)[k - 1])
  BY <1>1
<1>3. \A k \in DOMAIN Tail(b) : k + 1 \in DOMAIN b /\ b[k + 1] = Tail(b)[k]
  BY <1>1
<1>4. 1 \in DOMAIN b
  BY <1>1
<1> HIDE DEF Blocks
<1>5. Assigned(b) = Head(b).assigned \cup Assigned(Tail(b))
  <2>1. \A n : n \in Assigned(b) => n \in Head(b).assigned \cup Assigned(Tail(b))
    BY <1>1, <1>2 DEF Assigned
  <2>2. \A n : n \in Head(b).assigned \cup Assigned(Tail(b)) => n \in Assigned(b)
    BY <1>1, <1>3, <1>4 DEF Assigned
  <2>3. QED BY <2>1, <2>2
<1>6. Returns(b) <=> Head(b).returns \/ Returns(Tail(b))
  BY <1>1, <1>2, <1>3, <1>4 DEF Returns
<1>7. Lowers(b) <=> Head(b).lowers \/ Lowers(Tail(b))
  BY <1>1, <1>2, <1>3, <1>4 DEF Lowers
<1>8. DeclaresLocals(b) <=> Head(b).typed \/ DeclaresLocals(Tail(b))
  BY <1>1, <1>2, <1>3, <1>4 DEF DeclaresLocals
<1>9. QED BY <1>5, <1>6, <1>7, <1>8

-------------------------------------------------------------------------------
(* What a run keeps.                                                       *)

LEMMA RepeatedKeeps ==
    ASSUME NEW body \in Meanings, NEW P \in SUBSET Outs, NEW out \in P,
           \A o \in P : body[o] \in P
    PROVE  Repeated(body, out) \in P
<1>1. PICK turn \in [0..Rounds -> Outs] :
          /\ turn[0] = out
          /\ \A n \in 1..Rounds : turn[n] = body[turn[n - 1]]
          /\ Repeated(body, out) = turn[Rounds]
  BY RepeatedTurns
<1>2. Rounds \in Nat
  BY StateAssumption
<1> DEFINE Q == {n \in 0..Rounds : turn[n] \in P}
<1>3. 0 \in Q
  BY <1>1, <1>2
<1>4. ASSUME NEW n \in 0..Rounds, n < Rounds, n \in Q
      PROVE  n + 1 \in Q
  <2>1. n + 1 \in 1..Rounds /\ (n + 1) - 1 = n
    BY <1>2, <1>4
  <2>2. turn[n + 1] = body[turn[n]]
    BY <1>1, <2>1
  <2>3. QED BY <1>4, <2>1, <2>2
<1> HIDE DEF Q
<1>5. \A n \in 0..Rounds : n \in Q
  BY <1>2, <1>3, <1>4, RangeInduction
<1>6. Rounds \in Q
  BY <1>2, <1>5
<1>7. QED BY <1>1, <1>6 DEF Q

(* What the simple statements of a block, the tests of conditions and the  *)
(* ends of scopes keep, the block keeps.                                   *)
LEMMA ExecKeeps ==
    ASSUME NEW S \in SUBSET Statements, NEW P \in SUBSET Outs,
           \A s \in S : \A i \in DOMAIN s.blocks : s.blocks[i] \in Seq(S),
           \A s \in S, out \in P :
              out.end = "next" /\ s.op \in Simples => One(s, out) \in P,
           \A s \in S, out \in P : s.op = "if" => Tested(s, out) \in P,
           \A s \in S, before \in P, out \in P : s.typed => Leave(s, before, out) \in P
    PROVE  \A b \in Seq(S), out \in P : Exec[b][out] \in P
<1> DEFINE Q == {b \in Blocks : b \in Seq(S) => \A out \in P : Exec[b][out] \in P}
<1>1. ASSUME NEW b \in Blocks,
             b # <<>> => /\ Tail(b) \in Q
                         /\ \A i \in DOMAIN Head(b).blocks : Head(b).blocks[i] \in Q
      PROVE  b \in Q
  <2>1. SUFFICES ASSUME b \in Seq(S), NEW out \in P PROVE Exec[b][out] \in P
    OBVIOUS
  <2>2. CASE b = <<>> \/ out.end # "next"
    BY <2>2, ExecAt
  <2>3. CASE b # <<>> /\ out.end = "next"
    <3> DEFINE s == Head(b)
    <3>1. s \in S /\ s \in Statements /\ Tail(b) \in Seq(S) /\ Tail(b) \in Blocks
      BY <2>1, <2>3, BlockParts
    <3>2. \A o \in P : Exec[Tail(b)][o] \in P
      BY <1>1, <2>3, <3>1
    <3>3. \A i \in DOMAIN s.blocks :
              s.blocks[i] \in Blocks /\ \A o \in P : Exec[s.blocks[i]][o] \in P
      <4> SUFFICES ASSUME NEW i \in DOMAIN s.blocks
                   PROVE  s.blocks[i] \in Blocks /\ \A o \in P : Exec[s.blocks[i]][o] \in P
        OBVIOUS
      <4>1. s.blocks[i] \in Seq(S) /\ s.blocks[i] \in Blocks
        BY <3>1, StatementParts
      <4>2. s.blocks[i] \in Q
        BY <1>1, <2>3
      <4>3. QED BY <4>1, <4>2
    <3> HIDE DEF s, Q
    <3>4. One(s, out) \in P
      <4>1. CASE s.op \in Simples
        BY <2>3, <3>1, <4>1
      <4>2. CASE s.op = "for"
        <5>1. One(s, out) = Repeated(Exec[s.blocks[1]], out) /\ s.blocks[1] \in Blocks
              /\ 1 \in DOMAIN s.blocks
          BY <3>1, <4>2, OneFor
        <5>2. Exec[s.blocks[1]] \in Meanings
          BY <5>1, ExecSolves
        <5>3. \A o \in P : Exec[s.blocks[1]][o] \in P
          BY <3>3, <5>1
        <5>4. QED BY <5>1, <5>2, <5>3, RepeatedKeeps
      <4>3. CASE s.op = "if"
        <5>1. Tested(s, out) \in P
          BY <3>1, <4>3
        <5>2. CASE Arms(s, out) = {}
          BY <3>1, <4>3, <5>1, <5>2, OneIf
        <5>3. CASE Arms(s, out) # {}
          <6>1. Min(Arms(s, out)) \in DOMAIN s.blocks
            BY <3>1, <4>3, <5>3, TestedFacts
          <6>2. One(s, out) = Exec[s.blocks[Min(Arms(s, out))]][Tested(s, out)]
            BY <3>1, <4>3, <5>3, OneIf
          <6>3. QED BY <3>3, <5>1, <6>1, <6>2
        <5>4. QED BY <5>2, <5>3
      <4>4. QED BY <3>1, <4>1, <4>2, <4>3, StatementKinds DEF Simples
    <3>5. Exec[Tail(b)][One(s, out)] \in P
      BY <3>2, <3>4
    <3>6. Exec[b][out] = Leave(s, out, Exec[Tail(b)][One(s, out)])
      BY <2>3, ExecAt DEF s
    <3>7. CASE s.typed
      BY <3>1, <3>5, <3>6, <3>7
    <3>8. CASE ~s.typed
      BY <3>5, <3>6, <3>8 DEF Leave
    <3>9. QED BY <3>7, <3>8
  <2>4. QED BY <2>2, <2>3
<1> HIDE DEF Q
<1>2. \A b \in Blocks : b \in Q
  BY <1>1, BlockInduction
<1>3. \A b \in Seq(S) : b \in Blocks
  BY DEF Blocks
<1>4. QED BY <1>2, <1>3 DEF Q

(* The runs that differ from a first one in some names only.               *)
Beside(first, names) ==
    {out \in Outs : out.stop = first.stop /\ Same(Names \ names, out.state, first.state)}

LEMMA SameFacts ==
    ASSUME NEW names, NEW s1, NEW s2, NEW s3, Same(names, s1, s2), Same(names, s2, s3)
    PROVE  Same(names, s1, s3)
BY DEF Same

LEMMA SimpleChanges ==
    ASSUME NEW s \in Statements, s.op \in Simples, NEW out \in Outs
    PROVE  /\ One(s, out).stop = out.stop
           /\ Same(Names \ s.assigned, One(s, out).state, out.state)
<1>1. CASE s.op = "assign"
  <2> DEFINE value == Value(s.value, Used(s), out)
             used == Used(s) + CallsIn(<<s.value>>, 1)
  <2>1. One(s, out) = Put(s, value, used, out) /\ value \in Given(s, out.state) /\ used \in Nat
    BY <1>1, OneAssign
  <2> HIDE DEF value, used
  <2>2. /\ Put(s, value, used, out).stop = out.stop
        /\ Same(Names \ {s.var}, Put(s, value, used, out).state, out.state)
    BY <1>1, <2>1, PutFacts
  <2>3. s.assigned = {s.var}
    BY <1>1, StatementKinds
  <2>4. QED BY <2>1, <2>2, <2>3
<1>2. CASE s.op = "draw"
  <2> DEFINE value == Coin(out, Used(s))
             used == Used(s) + 1
  <2>1. One(s, out) = Put(s, value, used, out) /\ value \in Given(s, out.state) /\ used \in Nat
    BY <1>2, OneDraw
  <2> HIDE DEF value, used
  <2>2. /\ Put(s, value, used, out).stop = out.stop
        /\ Same(Names \ {s.var}, Put(s, value, used, out).state, out.state)
    BY <1>2, <2>1, PutFacts
  <2>3. s.assigned = {s.var}
    BY <1>2, StatementKinds
  <2>4. QED BY <2>1, <2>2, <2>3
<1>3. CASE s.op = "raise"
  <2>1. TRUE \in Given(s, out.state) /\ 0 \in Nat
    BY <1>3, OneRaise
  <2>2. Same(Names \ {s.var}, Put(s, TRUE, 0, out).state, out.state)
    BY <1>3, <2>1, PutFacts
  <2>3. s.assigned = {s.var}
    BY <1>3, StatementKinds
  <2>4. QED BY <1>3, <2>2, <2>3, OneRaise
<1>4. CASE s.op = "return"
  BY <1>4, OneReturn DEF Same
<1>5. QED BY <1>1, <1>2, <1>3, <1>4 DEF Simples

LEMMA TestedKeeps ==
    ASSUME NEW s \in Statements, s.op = "if", NEW out \in Outs
    PROVE  LET new == Tested(s, out) IN
           /\ new \in Outs /\ new.end = out.end /\ new.state = out.state
           /\ new.stop = out.stop /\ new.raised = out.raised
<1>1. PICK n \in Nat : Tested(s, out) = [out EXCEPT !.drawn = @ + n]
  BY TestedFacts
<1>2. Tested(s, out) \in Outs
  BY TestedFacts
<1>3. QED BY <1>1, <1>2 DEF Outs

LEMMA ExecChanges ==
    ASSUME NEW names, NEW b \in Blocks, Assigned(b) \subseteq names, NEW first \in Outs,
           NEW out \in Beside(first, names)
    PROVE  Exec[b][out] \in Beside(first, names)
<1> DEFINE S == {s \in Statements : s.assigned \subseteq names}
           P == Beside(first, names)
<1>1. P \in SUBSET Outs /\ S \in SUBSET Statements
  BY DEF Beside
<1>2. ASSUME NEW c \in Blocks, Assigned(c) \subseteq names
      PROVE  c \in Seq(S)
  <2>1. \A k \in 1..Len(c) : c[k] \in S
    BY <1>2 DEF Assigned, Blocks
  <2> HIDE DEF S
  <2>2. QED BY <2>1 DEF Blocks
<1>3. ASSUME NEW s \in S, NEW i \in DOMAIN s.blocks
      PROVE  s.blocks[i] \in Seq(S)
  <2>1. s.blocks[i] \in Blocks /\ s.op \in {"if", "for"}
    BY HasBlocks
  <2>2. Assigned(s.blocks[i]) \subseteq names
    BY <2>1, StatementKinds
  <2> HIDE DEF S
  <2>3. QED BY <1>2, <2>1, <2>2
<1>4. ASSUME NEW s \in S, NEW o \in P, s.op \in Simples
      PROVE  One(s, o) \in P
  <2>1. o \in Outs /\ s \in Statements
    BY <1>1
  <2>2. One(s, o) \in Outs
    BY <2>1, OneOut
  <2>3. One(s, o).stop = o.stop /\ Same(Names \ s.assigned, One(s, o).state, o.state)
    BY <1>4, <2>1, SimpleChanges
  <2>4. Same(Names \ names, One(s, o).state, o.state)
    BY <2>3 DEF Same
  <2>5. QED BY <2>2, <2>3, <2>4, SameFacts DEF Beside
<1>5. ASSUME NEW s \in S, NEW o \in P, s.op = "if"
      PROVE  Tested(s, o) \in P
  BY <1>1, <1>5, TestedKeeps DEF Beside
<1>6. ASSUME NEW s \in S, NEW before \in P, NEW o \in P, s.typed
      PROVE  Leave(s, before, o) \in P
  <2>1. s \in Statements /\ before \in Outs /\ o \in Outs
    BY <1>1
  <2>2. s.var \in names
    BY <1>6, <2>1, StatementKinds
  <2>3. Leave(s, before, o) \in Outs /\ Leave(s, before, o).stop = o.stop
        /\ Same(Names \ {s.var}, Leave(s, before, o).state, o.state)
    BY <2>1, LeaveFacts
  <2>4. Same(Names \ names, Leave(s, before, o).state, o.state)
    BY <2>2, <2>3 DEF Same
  <2>5. QED BY <2>3, <2>4, SameFacts DEF Beside
<1>7. b \in Seq(S)
  BY <1>2
<1> HIDE DEF S, P
<1>8. \A c \in Seq(S), o \in P : Exec[c][o] \in P
  BY <1>1, <1>3, <1>4, <1>5, <1>6, ExecKeeps
<1>9. QED BY <1>7, <1>8 DEF P

(* A statement changes only what it is said to assign.                     *)
LEMMA OneChanges ==
    ASSUME NEW s \in Statements, NEW out \in Outs
    PROVE  /\ One(s, out).stop = out.stop
           /\ Same(Names \ s.assigned, One(s, out).state, out.state)
<1> DEFINE P == Beside(out, s.assigned)
<1>1. out \in P
  BY DEF Beside, Same
<1>2. CASE s.op \in Simples
  BY <1>2, SimpleChanges
<1>3. ASSUME s.op \in {"if", "for"}, NEW i \in DOMAIN s.blocks, NEW o \in P
      PROVE  Exec[s.blocks[i]][o] \in P
  <2>1. s.blocks[i] \in Blocks /\ Assigned(s.blocks[i]) \subseteq s.assigned
    BY <1>3, StatementParts, StatementKinds
  <2>2. QED BY <2>1, ExecChanges
<1>4. CASE s.op = "for"
  <2>1. One(s, out) = Repeated(Exec[s.blocks[1]], out) /\ s.blocks[1] \in Blocks
        /\ 1 \in DOMAIN s.blocks
    BY <1>4, OneFor
  <2>2. Exec[s.blocks[1]] \in Meanings /\ P \in SUBSET Outs
    BY <2>1, ExecSolves DEF Beside
  <2>3. \A o \in P : Exec[s.blocks[1]][o] \in P
    BY <1>3, <1>4, <2>1
  <2> HIDE DEF P
  <2>4. One(s, out) \in P
    BY <1>1, <2>1, <2>2, <2>3, RepeatedKeeps
  <2>5. QED BY <2>4 DEF P, Beside
<1>5. CASE s.op = "if"
  <2>1. Tested(s, out) \in P
    BY <1>1, <1>5, TestedKeeps DEF Beside
  <2>2. One(s, out) \in P
    <3>1. CASE Arms(s, out) = {}
      BY <1>5, <2>1, <3>1, OneIf
    <3>2. CASE Arms(s, out) # {}
      <4>1. Min(Arms(s, out)) \in DOMAIN s.blocks
        BY <1>5, <3>2, TestedFacts
      <4>2. One(s, out) = Exec[s.blocks[Min(Arms(s, out))]][Tested(s, out)]
        BY <1>5, <3>2, OneIf
      <4> HIDE DEF P
      <4>3. QED BY <1>3, <1>5, <2>1, <4>1, <4>2
    <3>3. QED BY <3>1, <3>2
  <2>3. QED BY <2>2 DEF Beside
<1>6. QED BY <1>2, <1>4, <1>5, StatementKinds DEF Simples

(* A block without declarations at its top runs before what follows it.    *)
LEMMA ExecConcat ==
    ASSUME NEW t \in Blocks
    PROVE  \A b \in Blocks : ~DeclaresLocals(b) =>
              b \o t \in Blocks /\ \A out \in Outs : Exec[b \o t][out] = Exec[t][Exec[b][out]]
<1> DEFINE Q == {b \in Blocks : ~DeclaresLocals(b) =>
                    b \o t \in Blocks /\ \A out \in Outs : Exec[b \o t][out] = Exec[t][Exec[b][out]]}
<1>1. ASSUME NEW b \in Blocks,
             b # <<>> => /\ Tail(b) \in Q
                         /\ \A i \in DOMAIN Head(b).blocks : Head(b).blocks[i] \in Q
      PROVE  b \in Q
  <2>1. b \o t \in Blocks
    BY DEF Blocks
  <2>2. SUFFICES ASSUME ~DeclaresLocals(b), NEW out \in Outs
                 PROVE  Exec[b \o t][out] = Exec[t][Exec[b][out]]
    BY <2>1
  <2>3. CASE b = <<>>
    <3>1. b \o t = t
      BY <2>3 DEF Blocks
    <3>2. Exec[b][out] = out
      BY <2>3, ExecAt
    <3>3. QED BY <3>1, <3>2
  <2>4. CASE out.end # "next"
    <3>1. Exec[b][out] = out /\ Exec[t][out] = out /\ Exec[b \o t][out] = out
      BY <2>1, <2>4, ExecAt
    <3>2. QED BY <3>1
  <2>5. CASE b # <<>> /\ out.end = "next"
    <3>1. Head(b) \in Statements /\ Tail(b) \in Blocks
      BY <2>5, BlockParts
    <3>2. ~Head(b).typed /\ ~DeclaresLocals(Tail(b))
      BY <2>2, <2>5, BlockFields
    <3>3. b \o t # <<>> /\ Head(b \o t) = Head(b) /\ Tail(b \o t) = Tail(b) \o t
      BY <2>5 DEF Blocks
    <3>4. One(Head(b), out) \in Outs
      BY <3>1, OneOut
    <3>5. Exec[Tail(b) \o t][One(Head(b), out)] = Exec[t][Exec[Tail(b)][One(Head(b), out)]]
      BY <1>1, <2>5, <3>2, <3>4
    <3>6. Exec[b \o t][out] = Exec[Tail(b) \o t][One(Head(b), out)]
      BY <2>1, <2>5, <3>2, <3>3, ExecAt DEF Leave
    <3>7. Exec[b][out] = Exec[Tail(b)][One(Head(b), out)]
      BY <2>5, <3>2, ExecAt DEF Leave
    <3>8. QED BY <3>5, <3>6, <3>7
  <2>6. QED BY <2>3, <2>4, <2>5
<1> HIDE DEF Q
<1>2. \A b \in Blocks : b \in Q
  BY <1>1, BlockInduction
<1>3. QED BY <1>2 DEF Q

-------------------------------------------------------------------------------
(* Facts.                                                                  *)

(* A fact is about the variables it names.                                 *)
Facts ==
    {fact \in [names : SUBSET Names, worlds : SUBSET Worlds] :
        \A s1, s2 \in States :
            Same(fact.names, s1, s2)
                => (World(s1) \in fact.worlds <=> World(s2) \in fact.worlds)}
Sat(phi, state) == \A fact \in phi : World(state) \in fact.worlds

LEMMA EntailsHolds ==
    ASSUME NEW phi, NEW goal, Entails(phi, goal), NEW state \in States, Sat(phi, state)
    PROVE  World(state) \in goal
BY WorldAssumption DEF Entails, Sat

LEMMA KillHolds ==
    ASSUME NEW phi \in SUBSET Facts, NEW names, NEW s1 \in States, NEW s2 \in States,
           Same(Names \ names, s2, s1), Sat(phi, s1)
    PROVE  Sat(Kill(phi, names), s2)
<1> SUFFICES ASSUME NEW fact \in phi, fact.names \cap names = {}
             PROVE  World(s2) \in fact.worlds
  BY DEF Sat, Kill
<1>1. fact.names \subseteq Names /\ World(s1) \in fact.worlds
  BY DEF Facts, Sat
<1>2. Same(fact.names, s1, s2)
  BY <1>1 DEF Same
<1>3. QED BY <1>1, <1>2 DEF Facts

LEMMA KillFacts ==
    ASSUME NEW phi \in SUBSET Facts, NEW names
    PROVE  Kill(phi, names) \in SUBSET Facts
BY DEF Kill

LEMMA FlagDownFact ==
    /\ FlagDown \in Facts
    /\ \A state \in States : World(state) \in FlagDown.worlds <=> ~state[Flag]
<1>1. Flag \in Names \cap Texts /\ "false" \in Texts /\ ~Calls(Flag) /\ ~Calls("false")
  BY StateAssumption, EvalAssumption, ExpressionAssumption
<1>2. ASSUME NEW state \in States
      PROVE  World(state) \in FlagDown.worlds <=> ~state[Flag]
  <2>1. FlagDown.worlds = EqualIn(Flag, "false")
    BY DEF FlagDown, Fact
  <2>2. World(state) \in EqualIn(Flag, "false") <=> Eval(Flag, state) = Eval("false", state)
    BY <1>1, WorldAssumption DEF EqualIn
  <2>3. Eval(Flag, state) = state[Flag] /\ Eval("false", state) = FALSE
    BY <1>1, EvalAssumption
  <2>4. state[Flag] \in BOOLEAN
    BY StateAssumption
  <2>5. QED BY <2>1, <2>2, <2>3, <2>4
<1>3. FlagDown.names = {Flag} /\ FlagDown \in [names : SUBSET Names, worlds : SUBSET Worlds]
  BY <1>1 DEF FlagDown, Fact, EqualIn
<1>4. ASSUME NEW s1 \in States, NEW s2 \in States, Same(FlagDown.names, s1, s2)
      PROVE  World(s1) \in FlagDown.worlds <=> World(s2) \in FlagDown.worlds
  <2>1. s1[Flag] = s2[Flag]
    BY <1>3, <1>4 DEF Same
  <2>2. QED BY <1>2, <2>1
<1>5. FlagDown \in Facts
  BY <1>3, <1>4 DEF Facts
<1>6. QED BY <1>2, <1>5

LEMMA ConditionFacts ==
    ASSUME NEW c \in Tests, ~Calls(c)
    PROVE  /\ Fact(Free(c), Where(c)) \in Facts
           /\ Fact(Free(c), Worlds \ Where(c)) \in Facts
           /\ \A state \in States :
                 /\ World(state) \in Where(c) <=> Holds(c, state)
                 /\ World(state) \in Worlds \ Where(c) <=> ~Holds(c, state)
<1>1. Free(c) \subseteq Names
  BY EvalAssumption
<1>2. ASSUME NEW state \in States
      PROVE  /\ World(state) \in Where(c) <=> Holds(c, state)
             /\ World(state) \in Worlds \ Where(c) <=> ~Holds(c, state)
  BY WorldAssumption
<1>3. ASSUME NEW s1 \in States, NEW s2 \in States, Same(Free(c), s1, s2)
      PROVE  Holds(c, s1) <=> Holds(c, s2)
  BY <1>3, EvalAssumption
<1>4. Where(c) \subseteq Worlds
  BY WorldAssumption
<1> DEFINE yes == Fact(Free(c), Where(c))
           no == Fact(Free(c), Worlds \ Where(c))
<1>5. /\ yes \in [names : SUBSET Names, worlds : SUBSET Worlds]
      /\ no \in [names : SUBSET Names, worlds : SUBSET Worlds]
      /\ yes.names = Free(c) /\ no.names = Free(c)
      /\ yes.worlds = Where(c) /\ no.worlds = Worlds \ Where(c)
  BY <1>1, <1>4 DEF Fact
<1> HIDE DEF yes, no
<1>6. \A s1, s2 \in States : Same(Free(c), s1, s2) =>
          /\ World(s1) \in Where(c) <=> World(s2) \in Where(c)
          /\ World(s1) \in Worlds \ Where(c) <=> World(s2) \in Worlds \ Where(c)
  BY <1>2, <1>3
<1>7. yes \in Facts /\ no \in Facts
  BY <1>5, <1>6 DEF Facts
<1>8. QED BY <1>2, <1>7 DEF yes, no

(* What the facts of the path to an arm say, and what their negation says. *)
OnPath(conditions, i, state) ==
    \A l \in DOMAIN conditions : ~Calls(conditions[l]) =>
        /\ l < i => ~Holds(conditions[l], state)
        /\ l = i => Holds(conditions[l], state)

LEMMA PathFacts ==
    ASSUME NEW conditions \in Seq(Tests), NEW i \in 1..Len(conditions) + 1
    PROVE  /\ Path(conditions, i) \in SUBSET Facts
           /\ \A state \in States :
                 Sat(Path(conditions, i), state) <=> OnPath(conditions, i, state)
<1>1. DOMAIN conditions = 1..Len(conditions) /\ Len(conditions) \in Nat
  OBVIOUS
<1> DEFINE Against == {l \in 1..i - 1 : ~Calls(conditions[l])}
           For == {l \in {i} \cap DOMAIN conditions : ~Calls(conditions[l])}
           NoFact(l) == Fact(Free(conditions[l]), Worlds \ Where(conditions[l]))
           YesFact(l) == Fact(Free(conditions[l]), Where(conditions[l]))
<1>2. Path(conditions, i) = {NoFact(l) : l \in Against} \cup {YesFact(l) : l \in For}
  BY DEF Path
<1>3. \A l \in DOMAIN conditions : ~Calls(conditions[l]) =>
          /\ l < i <=> l \in Against
          /\ l = i <=> l \in For
  BY <1>1
<1>4. \A l : l \in Against \cup For => l \in DOMAIN conditions /\ ~Calls(conditions[l])
  BY <1>1
<1>5. ASSUME NEW l \in DOMAIN conditions, ~Calls(conditions[l])
      PROVE  /\ NoFact(l) \in Facts /\ YesFact(l) \in Facts
             /\ \A state \in States :
                   /\ World(state) \in YesFact(l).worlds <=> Holds(conditions[l], state)
                   /\ World(state) \in NoFact(l).worlds <=> ~Holds(conditions[l], state)
  <2>1. conditions[l] \in Tests
    OBVIOUS
  <2>2. QED BY <1>5, <2>1, ConditionFacts DEF Fact
<1> HIDE DEF Against, For, NoFact, YesFact
<1>6. Path(conditions, i) \in SUBSET Facts
  BY <1>2, <1>4, <1>5
<1>7. ASSUME NEW state \in States
      PROVE  Sat(Path(conditions, i), state) <=> OnPath(conditions, i, state)
  <2>1. Sat(Path(conditions, i), state)
            <=> /\ \A l \in Against : World(state) \in NoFact(l).worlds
                /\ \A l \in For : World(state) \in YesFact(l).worlds
    BY <1>2 DEF Sat
  <2>2. \A l \in Against : World(state) \in NoFact(l).worlds <=> ~Holds(conditions[l], state)
    BY <1>4, <1>5
  <2>3. \A l \in For : World(state) \in YesFact(l).worlds <=> Holds(conditions[l], state)
    BY <1>4, <1>5
  <2>4. QED BY <1>3, <1>4, <2>1, <2>2, <2>3 DEF OnPath
<1>8. QED BY <1>6, <1>7

LEMMA NotAllFacts ==
    ASSUME NEW path \in SUBSET Facts
    PROVE  /\ NotAll(path) \in Facts
           /\ \A state \in States : World(state) \in NotAll(path).worlds <=> ~Sat(path, state)
<1> DEFINE names == UNION {fact.names : fact \in path}
           worlds == Worlds \ {w \in Worlds : \A fact \in path : w \in fact.worlds}
<1>1. NotAll(path).names = names /\ NotAll(path).worlds = worlds
      /\ NotAll(path) = [names |-> names, worlds |-> worlds]
  BY DEF NotAll, Fact
<1>2. \A fact \in path : fact.names \subseteq names /\ fact.names \subseteq Names
  BY DEF Facts
<1>3. names \in SUBSET Names /\ worlds \in SUBSET Worlds
  BY <1>2
<1>4. \A state \in States : World(state) \in worlds <=> ~Sat(path, state)
  BY WorldAssumption DEF Sat
<1>5. ASSUME NEW s1 \in States, NEW s2 \in States, Same(names, s1, s2)
      PROVE  Sat(path, s1) <=> Sat(path, s2)
  <2>1. \A fact \in path : Same(fact.names, s1, s2)
    BY <1>2, <1>5 DEF Same
  <2>2. \A fact \in path : World(s1) \in fact.worlds <=> World(s2) \in fact.worlds
    BY <2>1 DEF Facts
  <2>3. QED BY <2>2 DEF Sat
<1> HIDE DEF names, worlds
<1>6. NotAll(path) \in [names : SUBSET Names, worlds : SUBSET Worlds]
  BY <1>1, <1>3
<1>7. NotAll(path) \in Facts
  BY <1>1, <1>4, <1>5, <1>6 DEF Facts
<1>8. QED BY <1>1, <1>4, <1>7

(* What is learned from an assignment holds after it.                      *)
LEMMA LearnedHolds ==
    ASSUME NEW x \in Statements, x.op = "assign"
    PROVE  /\ Learned(x) \in SUBSET Facts
           /\ \A out \in Outs : Sat(Learned(x), One(x, out).state)
<1>1. CASE Learned(x) = {}
  BY <1>1 DEF Sat
<1>2. CASE Learned(x) # {}
  <2> DEFINE fact == Fact({x.var} \cup Free(x.value), EqualIn(x.var, x.value))
  <2>1. /\ x.index = <<>> /\ ~Calls(x.value) /\ x.var \notin Free(x.value)
        /\ Learned(x) = {fact}
    BY <1>2 DEF Learned
  <2>2. x.var \in Names \cap Texts /\ x.value \in Texts
    BY <2>1, KindAssumption
  <2>3. Free(x.value) \subseteq Names /\ ~Calls(x.var) /\ Free(x.var) = {x.var}
        /\ \A state \in States : Eval(x.var, state) = state[x.var]
    BY <2>2, EvalAssumption
  <2>4. fact.names = {x.var} \cup Free(x.value) /\ fact.worlds = EqualIn(x.var, x.value)
        /\ fact \in [names : SUBSET Names, worlds : SUBSET Worlds]
    BY <2>2, <2>3 DEF Fact, EqualIn
  <2>5. \A state \in States :
            World(state) \in fact.worlds <=> state[x.var] = Eval(x.value, state)
    <3> SUFFICES ASSUME NEW state \in States
                 PROVE  World(state) \in EqualIn(x.var, x.value)
                            <=> state[x.var] = Eval(x.value, state)
      BY <2>4
    <3>1. World(state) \in Worlds
          /\ (Class(x.var, World(state)) = Class(x.value, World(state))
                  <=> Eval(x.var, state) = Eval(x.value, state))
      BY <2>1, <2>2, <2>3, WorldAssumption
    <3>2. QED BY <2>3, <3>1 DEF EqualIn
  <2>6. \A s1, s2 \in States :
            Same(Free(x.value), s1, s2) => Eval(x.value, s1) = Eval(x.value, s2)
    BY <2>1, <2>2, EvalAssumption
  <2> HIDE DEF fact
  <2>7. fact \in Facts
    <3>1. ASSUME NEW s1 \in States, NEW s2 \in States, Same(fact.names, s1, s2)
          PROVE  World(s1) \in fact.worlds <=> World(s2) \in fact.worlds
      <4>1. s1[x.var] = s2[x.var] /\ Same(Free(x.value), s1, s2)
        BY <2>4, <3>1 DEF Same
      <4>2. QED BY <2>5, <2>6, <4>1
    <3>2. QED BY <2>4, <3>1 DEF Facts
  <2>8. ASSUME NEW out \in Outs
        PROVE  World(One(x, out).state) \in fact.worlds
    <3> DEFINE value == Value(x.value, Used(x), out)
               used == Used(x) + CallsIn(<<x.value>>, 1)
    <3>1. One(x, out) = Put(x, value, used, out) /\ value \in Given(x, out.state)
          /\ used \in Nat
      BY OneAssign
    <3>2. value = Eval(x.value, out.state)
      BY <2>1 DEF Value
    <3> HIDE DEF value, used
    <3>3. /\ Put(x, value, used, out) \in Outs
          /\ Same(Names \ {x.var}, Put(x, value, used, out).state, out.state)
          /\ Put(x, value, used, out).state[x.var] = value
      BY <2>1, <3>1, PutFacts
    <3> DEFINE new == One(x, out).state
    <3>4. new \in States /\ out.state \in States
      BY <3>1, <3>3, OutFields
    <3>5. Same(Free(x.value), new, out.state) /\ new[x.var] = value
      BY <2>1, <2>3, <3>1, <3>3 DEF Same
    <3> HIDE DEF new
    <3>6. Eval(x.value, new) = Eval(x.value, out.state)
      BY <2>6, <3>4, <3>5
    <3>7. World(new) \in fact.worlds
      BY <2>5, <3>2, <3>4, <3>5, <3>6
    <3>8. QED BY <3>7 DEF new
  <2>9. QED BY <2>1, <2>7, <2>8 DEF Sat
<1>3. QED BY <1>1, <1>2

(* Expressions, conditions and targets that compare equal give the same.   *)
LEMMA LeafEqualHolds ==
    ASSUME NEW a \in Texts, NEW b \in Texts, NEW phi, LeafEqual(a, b, phi),
           NEW out \in Outs, Sat(phi, out.state)
    PROVE  /\ Calls(a) <=> Calls(b)
           /\ \A k : Value(a, k, out) = Value(b, k, out)
<1>1. CASE a = b
  BY <1>1
<1>2. CASE ~Calls(a) /\ ~Calls(b) /\ Entails(phi, EqualIn(a, b))
  <2>1. out.state \in States
    BY OutFields
  <2>2. World(out.state) \in EqualIn(a, b)
    BY <1>2, <2>1, EntailsHolds
  <2>3. Eval(a, out.state) = Eval(b, out.state)
    BY <1>2, <2>1, <2>2, WorldAssumption DEF EqualIn
  <2>4. QED BY <1>2, <2>3 DEF Value
<1>3. QED BY <1>1, <1>2 DEF LeafEqual

LEMMA CondEqualHolds ==
    ASSUME NEW a \in Tests, NEW b \in Tests, NEW phi, CondEqual(a, b, phi)
    PROVE  /\ Calls(a) <=> Calls(b)
           /\ \A state \in States :
                 Sat(phi, state) /\ ~Calls(a) => (Holds(a, state) <=> Holds(b, state))
<1>1. CASE a = b
  BY <1>1
<1>2. CASE /\ ~Calls(a) /\ ~Calls(b)
           /\ Entails(phi, {w \in Worlds : w \in Where(a) <=> w \in Where(b)})
  <2> SUFFICES ASSUME NEW state \in States, Sat(phi, state)
               PROVE  Holds(a, state) <=> Holds(b, state)
    BY <1>2
  <2>1. World(state) \in {w \in Worlds : w \in Where(a) <=> w \in Where(b)}
    BY <1>2, EntailsHolds
  <2>2. QED BY <1>2, <2>1, WorldAssumption
<1>3. QED BY <1>1, <1>2 DEF CondEqual

LEMMA SameCalls ==
    ASSUME NEW a, NEW b, NEW n \in Nat, \A k \in 1..n : Calls(a[k]) <=> Calls(b[k])
    PROVE  CallsIn(a, n) = CallsIn(b, n)
<1>1. {k \in 1..n : Calls(a[k])} = {k \in 1..n : Calls(b[k])}
  OBVIOUS
<1>2. QED BY <1>1 DEF CallsIn

LEMMA TargetEqualHolds ==
    ASSUME NEW x \in Statements, NEW y \in Statements, NEW phi, TargetEqual(x, y, phi),
           NEW out \in Outs, Sat(phi, out.state)
    PROVE  x.var = y.var /\ Target(x, out) = Target(y, out) /\ Used(x) = Used(y)
<1>1. x.index \in Seq(Texts) /\ y.index \in Seq(Texts)
  BY StatementAssumption
<1>2. /\ x.var = y.var /\ Len(x.index) = Len(y.index)
      /\ DOMAIN x.index = 1..Len(x.index) /\ DOMAIN y.index = 1..Len(x.index)
      /\ Len(x.index) \in Nat
  BY <1>1 DEF TargetEqual
<1>3. ASSUME NEW k \in 1..Len(x.index)
      PROVE  /\ Calls(x.index[k]) <=> Calls(y.index[k])
             /\ \A n : Value(x.index[k], n, out) = Value(y.index[k], n, out)
  <2>1. x.index[k] \in Texts /\ y.index[k] \in Texts
    BY <1>1, <1>2
  <2>2. LeafEqual(x.index[k], y.index[k], phi)
    BY <1>2 DEF TargetEqual
  <2>3. QED BY <2>1, <2>2, LeafEqualHolds
<1>4. \A n \in 0..Len(x.index) : CallsIn(x.index, n) = CallsIn(y.index, n)
  <2> SUFFICES ASSUME NEW n \in 0..Len(x.index)
               PROVE  CallsIn(x.index, n) = CallsIn(y.index, n)
    OBVIOUS
  <2>1. \A k \in 1..n : Calls(x.index[k]) <=> Calls(y.index[k])
    BY <1>2, <1>3
  <2>2. n \in Nat
    BY <1>2
  <2>3. QED BY <2>1, <2>2, SameCalls
<1>5. \A k \in 1..Len(x.index) :
          Value(x.index[k], CallsIn(x.index, k - 1), out)
              = Value(y.index[k], CallsIn(y.index, k - 1), out)
  <2> SUFFICES ASSUME NEW k \in 1..Len(x.index)
               PROVE  Value(x.index[k], CallsIn(x.index, k - 1), out)
                          = Value(y.index[k], CallsIn(y.index, k - 1), out)
    OBVIOUS
  <2>1. k - 1 \in 0..Len(x.index)
    BY <1>2
  <2>2. CallsIn(x.index, k - 1) = CallsIn(y.index, k - 1)
    BY <1>4, <2>1
  <2>3. QED BY <1>3, <2>2
<1>6. Target(x, out) = Target(y, out)
  BY <1>2, <1>5 DEF Target
<1>7. Used(x) = Used(y)
  BY <1>2, <1>4 DEF Used
<1>8. QED BY <1>2, <1>6, <1>7

-------------------------------------------------------------------------------
(* Pruning.                                                                *)

Ordering(is, e) ==
    /\ e \in [1..Cardinality(is) -> is]
    /\ is = {e[k] : k \in DOMAIN e}
    /\ \A j, k \in DOMAIN e : j < k => e[j] < e[k]

LEMMA OrderingExists ==
    ASSUME NEW n \in Nat
    PROVE  \A is \in SUBSET (1..n) : \E e : Ordering(is, e)
<1> DEFINE Q == {m \in 0..n : \A is \in SUBSET (1..m) : \E e : Ordering(is, e)}
<1>1. 0 \in Q
  <2> SUFFICES ASSUME NEW is \in SUBSET (1..0) PROVE \E e : Ordering(is, e)
    OBVIOUS
  <2>1. is = {}
    OBVIOUS
  <2>2. Cardinality(is) = 0
    BY <2>1, FS_EmptySet
  <2> DEFINE e == [k \in 1..0 |-> 0]
  <2>3. DOMAIN e = {} /\ e \in [1..Cardinality(is) -> is]
    BY <2>1, <2>2
  <2> HIDE DEF e
  <2>4. Ordering(is, e)
    BY <2>1, <2>3 DEF Ordering
  <2>5. QED BY <2>4
<1>2. ASSUME NEW m \in 0..n, m < n, m \in Q
      PROVE  m + 1 \in Q
  <2>1. SUFFICES ASSUME NEW is \in SUBSET (1..m + 1) PROVE \E e : Ordering(is, e)
    BY <1>2
  <2>2. CASE m + 1 \notin is
    <3>1. is \in SUBSET (1..m)
      BY <2>2
    <3>2. QED BY <1>2, <3>1
  <2>3. CASE m + 1 \in is
    <3> DEFINE rest == is \ {m + 1}
               c == Cardinality(rest)
    <3>1. rest \in SUBSET (1..m)
      OBVIOUS
    <3>2. IsFiniteSet(is) /\ Cardinality(is) = c + 1 /\ c \in Nat
      <4>1. IsFiniteSet(1..m + 1)
        BY FS_Interval
      <4>2. IsFiniteSet(is) /\ IsFiniteSet(rest)
        BY <4>1, FS_Subset
      <4>3. Cardinality(rest) = Cardinality(is) - 1 /\ Cardinality(is) \in Nat
            /\ Cardinality(rest) \in Nat
        BY <2>3, <4>2, FS_RemoveElement, FS_CardinalityType
      <4>4. QED BY <4>2, <4>3
    <3> HIDE DEF rest
    <3>3. PICK d : Ordering(rest, d)
      BY <1>2, <3>1
    <3> HIDE DEF c
    <3>4. /\ d \in [1..c -> rest] /\ rest = {d[k] : k \in 1..c}
          /\ \A j, k \in 1..c : j < k => d[j] < d[k]
      BY <3>3 DEF Ordering, c
    <3> DEFINE e == [k \in 1..c + 1 |-> IF k = c + 1 THEN m + 1 ELSE d[k]]
    <3>5. is = rest \cup {m + 1}
      BY <2>3 DEF rest
    <3>6. /\ DOMAIN e = 1..c + 1 /\ e[c + 1] = m + 1
          /\ \A k \in 1..c : e[k] = d[k] /\ d[k] \in rest /\ k \in 1..c + 1
      BY <3>2, <3>4
    <3>7. \A k \in 1..c + 1 : k = c + 1 \/ k \in 1..c
      BY <3>2
    <3>8. e \in [1..c + 1 -> is]
      BY <3>2, <3>4, <3>5, <3>7
    <3> HIDE DEF e
    <3>9. c + 1 \in 1..c + 1
      BY <3>2
    <3>10. is = {e[k] : k \in 1..c + 1}
      <4>1. \A i \in is : \E k \in 1..c + 1 : i = e[k]
        BY <3>4, <3>5, <3>6, <3>9
      <4>2. \A k \in 1..c + 1 : e[k] \in is
        BY <3>8
      <4>3. QED BY <4>1, <4>2
    <3>11. \A j, k \in 1..c + 1 : j < k => e[j] < e[k]
      <4> SUFFICES ASSUME NEW j \in 1..c + 1, NEW k \in 1..c + 1, j < k PROVE e[j] < e[k]
        OBVIOUS
      <4>1. j \in 1..c
        BY <3>2
      <4>2. CASE k \in 1..c
        BY <3>4, <3>6, <4>1, <4>2
      <4>3. CASE k = c + 1
        <5>1. e[k] = m + 1 /\ e[j] \in rest
          BY <3>6, <4>1, <4>3
        <5>2. e[j] \in 1..m
          BY <3>1, <5>1
        <5>3. QED BY <5>1, <5>2
      <4>4. QED BY <3>7, <4>2, <4>3
    <3>12. Ordering(is, e)
      BY <3>2, <3>6, <3>8, <3>10, <3>11 DEF Ordering
    <3>13. QED BY <3>12
  <2>4. QED BY <2>2, <2>3
<1> HIDE DEF Q
<1>3. \A m \in 0..n : m \in Q
  BY <1>1, <1>2, RangeInduction
<1>4. n \in Q
  BY <1>3
<1>5. QED BY <1>4 DEF Q

LEMMA InOrderFacts ==
    ASSUME NEW n \in Nat, NEW is \in SUBSET (1..n)
    PROVE  Ordering(is, InOrder(is))
<1>1. \E e : Ordering(is, e)
  BY OrderingExists
<1>2. QED BY <1>1 DEF InOrder, Ordering

(* The arm that an if-statement without calls takes.                       *)
CallFree(s) == \A k \in DOMAIN s.conditions : ~Calls(s.conditions[k])
Takes(s, i, state) ==
    /\ i \in DOMAIN s.blocks
    /\ i \in DOMAIN s.conditions => Holds(s.conditions[i], state)
    /\ \A l \in DOMAIN s.conditions : l < i => ~Holds(s.conditions[l], state)

LEMMA IfShape ==
    ASSUME NEW s \in Statements, s.op = "if"
    PROVE  /\ DOMAIN s.conditions = 1..Len(s.conditions) /\ DOMAIN s.blocks = 1..Len(s.blocks)
           /\ Len(s.conditions) \in Nat /\ Len(s.blocks) \in Nat
           /\ Len(s.blocks) = Len(s.conditions) \/ Len(s.blocks) = Len(s.conditions) + 1
           /\ s.conditions \in Seq(Tests)
BY StatementParts, KindAssumption, StatementAssumption

LEMMA TestsNothing ==
    ASSUME NEW s \in Statements, s.op = "if", CallFree(s), NEW out \in Outs
    PROVE  /\ Tested(s, out) = out
           /\ Met(s, out) = {i \in DOMAIN s.conditions : Holds(s.conditions[i], out.state)}
<1>1. Met(s, out) = {i \in DOMAIN s.conditions : Holds(s.conditions[i], out.state)}
  BY DEF Met, CallFree
<1>2. DOMAIN s.conditions = 1..Len(s.conditions) /\ Len(s.conditions) \in Nat
  BY IfShape
<1> DEFINE n == IF Met(s, out) = {} THEN Len(s.conditions) ELSE Min(Met(s, out))
<1>3. n \in 0..Len(s.conditions)
  <2>1. Met(s, out) # {} => Min(Met(s, out)) \in Met(s, out)
    <3>1. Met(s, out) \in SUBSET Nat
      BY <1>1, <1>2
    <3>2. QED BY <3>1, LeastOf
  <2>2. QED BY <1>1, <1>2, <2>1
<1>4. Tested(s, out) = [out EXCEPT !.drawn = @ + CallsIn(s.conditions, n)]
  BY DEF Tested
<1> HIDE DEF n
<1>5. CallsIn(s.conditions, n) = 0
  <2>1. {k \in 1..n : Calls(s.conditions[k])} = {}
    BY <1>2, <1>3 DEF CallFree
  <2>2. QED BY <2>1, FS_EmptySet DEF CallsIn
<1>6. Tested(s, out) = out
  BY <1>4, <1>5 DEF Outs
<1>7. QED BY <1>1, <1>6

LEMMA OneTakes ==
    ASSUME NEW s \in Statements, s.op = "if", CallFree(s), NEW out \in Outs
    PROVE  /\ \A i : Takes(s, i, out.state) => One(s, out) = Exec[s.blocks[i]][out]
           /\ (~\E i : Takes(s, i, out.state)) => One(s, out) = out
<1>1. /\ DOMAIN s.conditions = 1..Len(s.conditions) /\ DOMAIN s.blocks = 1..Len(s.blocks)
      /\ Len(s.conditions) \in Nat /\ Len(s.blocks) \in Nat
      /\ Len(s.blocks) = Len(s.conditions) \/ Len(s.blocks) = Len(s.conditions) + 1
  BY IfShape
<1>2. /\ Tested(s, out) = out
      /\ Met(s, out) = {i \in DOMAIN s.conditions : Holds(s.conditions[i], out.state)}
  BY TestsNothing
<1>3. Arms(s, out) \subseteq DOMAIN s.blocks /\ Arms(s, out) \in SUBSET Nat
  BY <1>1, <1>2 DEF Arms
<1>4. ASSUME NEW i, Takes(s, i, out.state)
      PROVE  One(s, out) = Exec[s.blocks[i]][out]
  <2>1. i \in Arms(s, out)
    BY <1>2, <1>4 DEF Arms, Takes
  <2>2. \A l \in Arms(s, out) : i <= l
    <3> SUFFICES ASSUME NEW l \in Arms(s, out), l < i PROVE FALSE
      BY <1>1, <1>3, <2>1
    <3>1. l \in DOMAIN s.conditions
      BY <1>1, <1>3, <2>1
    <3>2. l \in Met(s, out)
      BY <3>1 DEF Arms
    <3>3. QED BY <1>2, <1>4, <3>2 DEF Takes
  <2>3. Min(Arms(s, out)) \in Arms(s, out) /\ \A l \in Arms(s, out) : Min(Arms(s, out)) <= l
    BY <1>3, <2>1, LeastOf
  <2>4. Min(Arms(s, out)) = i
    BY <1>3, <2>1, <2>2, <2>3
  <2>5. QED BY <1>2, <2>1, <2>4, OneIf
<1>5. ASSUME ~\E i : Takes(s, i, out.state)
      PROVE  One(s, out) = out
  <2>1. Arms(s, out) = {}
    <3> SUFFICES ASSUME Arms(s, out) # {} PROVE FALSE
      OBVIOUS
    <3> DEFINE i == Min(Arms(s, out))
    <3>1. i \in Arms(s, out) /\ \A l \in Arms(s, out) : i <= l
      BY <1>3, LeastOf
    <3> HIDE DEF i
    <3>2. i \in DOMAIN s.conditions => Holds(s.conditions[i], out.state)
      BY <1>2, <3>1 DEF Arms
    <3>3. \A l \in DOMAIN s.conditions : l < i => ~Holds(s.conditions[l], out.state)
      <4> SUFFICES ASSUME NEW l \in DOMAIN s.conditions, l < i, Holds(s.conditions[l], out.state)
                   PROVE  FALSE
        OBVIOUS
      <4>1. l \in Arms(s, out)
        BY <1>2 DEF Arms
      <4>2. QED BY <1>1, <1>3, <3>1, <4>1
    <3>4. Takes(s, i, out.state)
      BY <1>3, <3>1, <3>2, <3>3 DEF Takes
    <3>5. QED BY <1>5, <3>4
  <2>2. QED BY <1>2, <2>1, OneIf
<1>6. QED BY <1>4, <1>5

(* What stands for an if-statement where the facts phi hold.               *)
StandsFor(r, s, phi) ==
    /\ r \in Blocks /\ ~DeclaresLocals(r)
    /\ \A out \in Outs :
          out.end = "next" /\ Sat(phi, out.state) => Exec[r][out] = One(s, out)

LEMMA ExecOne ==
    ASSUME NEW u \in Statements, ~u.typed
    PROVE  /\ <<u>> \in Blocks /\ ~DeclaresLocals(<<u>>)
           /\ \A out \in Outs : out.end = "next" => Exec[<<u>>][out] = One(u, out)
<1>1. <<u>> \in Blocks /\ <<u>> # <<>> /\ Head(<<u>>) = u /\ Tail(<<u>>) = <<>>
      /\ <<>> \in Blocks
  BY DEF Blocks
<1>2. ~DeclaresLocals(<<u>>)
  BY DEF DeclaresLocals
<1>3. ASSUME NEW out \in Outs, out.end = "next"
      PROVE  Exec[<<u>>][out] = One(u, out)
  <2>1. One(u, out) \in Outs
    BY OneOut
  <2>2. Exec[<<>>][One(u, out)] = One(u, out)
    BY <1>1, <2>1, ExecAt
  <2>3. Exec[<<u>>][out] = Leave(u, out, Exec[<<>>][One(u, out)])
    BY <1>1, <1>3, ExecAt
  <2>4. QED BY <2>2, <2>3 DEF Leave
<1>4. QED BY <1>1, <1>2, <1>3

LEMMA AloneFacts ==
    ASSUME NEW c, NEW b
    PROVE  LET u == Alone(c, b) IN
           u.op = "if" /\ u.conditions = <<c>> /\ u.blocks = <<b>> /\ ~u.typed
BY DEF Alone, Compound

Only(c, b) == IF DeclaresLocals(b) THEN <<Alone(c, b)>> ELSE b

LEMMA OnlyStands ==
    ASSUME NEW s \in Statements, NEW phi, NEW b \in Blocks,
           NEW c \in Tests, ~Calls(c), Alone(c, b) \in Statements,
           \A out \in Outs : Sat(phi, out.state) =>
               Holds(c, out.state) /\ One(s, out) = Exec[b][out]
    PROVE  StandsFor(Only(c, b), s, phi)
<1>1. CASE ~DeclaresLocals(b)
  BY <1>1 DEF Only, StandsFor
<1>2. CASE DeclaresLocals(b)
  <2> DEFINE u == Alone(c, b)
  <2>1. u.op = "if" /\ u.conditions = <<c>> /\ u.blocks = <<b>> /\ ~u.typed
    BY AloneFacts
  <2> HIDE DEF u
  <2>2. u \in Statements
    BY DEF u
  <2>3. CallFree(u)
    BY <2>1 DEF CallFree
  <2>4. ASSUME NEW out \in Outs, out.end = "next", Sat(phi, out.state)
        PROVE  Exec[<<u>>][out] = One(s, out)
    <3>1. Takes(u, 1, out.state)
      BY <2>1, <2>4 DEF Takes
    <3>2. One(u, out) = Exec[u.blocks[1]][out]
      BY <2>1, <2>2, <2>3, <3>1, OneTakes
    <3>3. u.blocks[1] = b
      BY <2>1
    <3>4. QED BY <2>1, <2>2, <2>4, <3>2, <3>3, ExecOne
  <2>5. Only(c, b) = <<u>>
    BY <1>2 DEF Only, u
  <2>6. QED BY <2>1, <2>2, <2>4, <2>5, ExecOne DEF StandsFor
<1>3. QED BY <1>1, <1>2

Live(s, phi) == {i \in DOMAIN s.conditions : ~Entails(phi, Worlds \ Where(s.conditions[i]))}
Else(s) == DOMAIN s.blocks \ DOMAIN s.conditions
Forced(s, phi) ==
    Live(s, phi) # {} /\ Entails(phi, Where(s.conditions[Min(Live(s, phi))]))

LEMMA PrunedCases ==
    ASSUME NEW s, NEW phi
    PROVE  LET c == s.conditions[Min(Live(s, phi))]
               b == s.blocks[Min(Live(s, phi))]
           IN /\ Forced(s, phi) => Pruned(s, phi) = Only(c, b)
              /\ Live(s, phi) = {} /\ Else(s) = {} => Pruned(s, phi) = <<>>
              /\ Live(s, phi) = {} /\ Else(s) # {} =>
                    Pruned(s, phi) = Only("true", s.blocks[Min(Else(s))])
              /\ Live(s, phi) # {} /\ ~Forced(s, phi) =>
                    Pruned(s, phi) = <<Kept(s, Live(s, phi) \cup Else(s))>>
<1> DEFINE live == Live(s, phi)
           forced == Forced(s, phi)
           else == Else(s)
<1>1. Pruned(s, phi) =
        CASE forced -> Only(s.conditions[Min(live)], s.blocks[Min(live)])
          [] live = {} /\ else = {} -> <<>>
          [] live = {} /\ else # {} -> Only("true", s.blocks[Min(else)])
          [] live # {} /\ ~forced -> <<Kept(s, live \cup else)>>
  BY DEF Pruned, Only, Live, Else, Forced
<1>2. forced => live # {}
  BY DEF Forced
<1> HIDE DEF live, forced, else
<1>3. /\ forced => Pruned(s, phi) = Only(s.conditions[Min(live)], s.blocks[Min(live)])
      /\ live = {} /\ else = {} => Pruned(s, phi) = <<>>
      /\ live = {} /\ else # {} => Pruned(s, phi) = Only("true", s.blocks[Min(else)])
      /\ live # {} /\ ~forced => Pruned(s, phi) = <<Kept(s, live \cup else)>>
  BY <1>1, <1>2
<1>4. QED BY <1>3 DEF live, forced, else

(* Where the facts hold, a condition that is not live does not.            *)
LEMMA LiveHolds ==
    ASSUME NEW s \in Statements, s.op = "if", CallFree(s), NEW phi,
           NEW state \in States, Sat(phi, state), NEW i \in DOMAIN s.conditions
    PROVE  /\ Holds(s.conditions[i], state) => i \in Live(s, phi)
           /\ Entails(phi, Where(s.conditions[i])) => Holds(s.conditions[i], state)
<1>1. s.conditions[i] \in Tests /\ ~Calls(s.conditions[i])
  BY IfShape DEF CallFree
<1>2. /\ World(state) \in Where(s.conditions[i]) <=> Holds(s.conditions[i], state)
      /\ World(state) \in Worlds \ Where(s.conditions[i]) <=> ~Holds(s.conditions[i], state)
  BY <1>1, ConditionFacts
<1>3. QED BY <1>2, EntailsHolds DEF Live

LEMMA ElseFacts ==
    ASSUME NEW s \in Statements, s.op = "if"
    PROVE  /\ Else(s) = {} \/ Else(s) = {Len(s.conditions) + 1}
           /\ DOMAIN s.blocks = DOMAIN s.conditions \cup Else(s)
BY IfShape DEF Else

(* The arms that are kept stand in their order, the else arm last.         *)
LEMMA KeptOrder ==
    ASSUME NEW s \in Statements, s.op = "if", NEW live \in SUBSET DOMAIN s.conditions
    PROVE  LET is == live \cup Else(s)
               e == InOrder(is)
           IN /\ Ordering(is, e)
              /\ Cardinality(is) \in Nat /\ Cardinality(live) \in Nat
              /\ Cardinality(live) <= Cardinality(is)
              /\ \A k \in 1..Cardinality(is) :
                    k <= Cardinality(live) <=> e[k] \in DOMAIN s.conditions
<1> DEFINE n == Len(s.conditions)
           is == live \cup Else(s)
           e == InOrder(is)
<1>1. /\ DOMAIN s.conditions = 1..n /\ DOMAIN s.blocks = 1..Len(s.blocks)
      /\ n \in Nat /\ (Len(s.blocks) = n \/ Len(s.blocks) = n + 1)
  BY IfShape
<1>2. Else(s) = {} \/ Else(s) = {n + 1}
  BY ElseFacts
<1> HIDE DEF n
<1>3. is \in SUBSET (1..n + 1) /\ live \in SUBSET (1..n)
  BY <1>1, <1>2
<1>4. Ordering(is, e)
  <2>1. n + 1 \in Nat
    BY <1>1
  <2>2. \A js \in SUBSET (1..n + 1) : Ordering(js, InOrder(js))
    BY <2>1, InOrderFacts
  <2>3. QED BY <1>3, <2>2
<1>5. IsFiniteSet(1..n) /\ IsFiniteSet(1..n + 1)
  BY <1>1, FS_Interval
<1>6. IsFiniteSet(live) /\ IsFiniteSet(is)
  BY <1>3, <1>5, FS_Subset
<1>7. Cardinality(live) \in Nat /\ Cardinality(is) \in Nat
  BY <1>6, FS_CardinalityType
<1> HIDE DEF e
<1> DEFINE m == Cardinality(is)
           c == Cardinality(live)
<1>8. /\ e \in [1..m -> is] /\ is = {e[k] : k \in 1..m}
      /\ \A j, k \in 1..m : j < k => e[j] < e[k]
  BY <1>4 DEF Ordering
<1>9. CASE Else(s) = {}
  <2>1. is = live
    BY <1>9
  <2>2. c = m
    BY <2>1
  <2>3. \A k \in 1..m : e[k] \in 1..n
    BY <1>3, <1>8, <2>1
  <2> HIDE DEF m, c, is
  <2>4. c <= m /\ \A k \in 1..m : k <= c <=> e[k] \in 1..n
    BY <1>7, <2>2, <2>3 DEF m, c
  <2>5. QED BY <1>1, <1>4, <1>7, <2>4 DEF m, c, e, is
<1>10. CASE Else(s) = {n + 1}
  <2>1. is = live \cup {n + 1} /\ n + 1 \notin live
    BY <1>1, <1>3, <1>10
  <2>2. m = c + 1
    BY <1>6, <2>1, FS_AddElement
  <2> HIDE DEF m, c
  <2>3. c \in Nat /\ m \in Nat
    BY <1>7 DEF c, m
  <2>4. m \in 1..m /\ \A k \in 1..m : e[k] \in 1..n + 1
    BY <1>3, <1>8, <2>2, <2>3
  <2>5. \A k \in 1..m : k < m => e[k] \in 1..n
    <3> SUFFICES ASSUME NEW k \in 1..m, k < m PROVE e[k] \in 1..n
      OBVIOUS
    <3>1. e[k] < e[m]
      BY <1>8, <2>4
    <3>2. QED BY <1>1, <2>4, <3>1
  <2>6. e[m] = n + 1
    <3>1. n + 1 \in is
      BY <2>1
    <3>2. PICK k \in 1..m : e[k] = n + 1
      BY <1>8, <3>1
    <3>3. ~(k < m)
      BY <1>1, <2>5, <3>2
    <3>4. k = m
      BY <2>3, <3>3
    <3>5. QED BY <3>2, <3>4
  <2>7. c <= m /\ \A k \in 1..m : k <= c <=> e[k] \in 1..n
    <3> SUFFICES ASSUME NEW k \in 1..m PROVE k <= c <=> e[k] \in 1..n
      BY <2>2, <2>3
    <3>1. k <= c <=> k < m
      BY <2>2, <2>3
    <3>2. k < m => e[k] \in 1..n
      BY <2>5
    <3>3. ~(k < m) => k = m
      BY <2>3
    <3>4. n + 1 \notin 1..n
      BY <1>1
    <3>5. QED BY <2>6, <3>1, <3>2, <3>3, <3>4
  <2>8. QED BY <1>1, <1>4, <1>7, <2>7 DEF m, c, e
<1>11. QED BY <1>2, <1>9, <1>10

LEMMA KeptStands ==
    ASSUME NEW s \in Statements, s.op = "if", CallFree(s), NEW phi,
           Live(s, phi) # {}, Kept(s, Live(s, phi) \cup Else(s)) \in Statements
    PROVE  StandsFor(<<Kept(s, Live(s, phi) \cup Else(s))>>, s, phi)
<1> DEFINE live == Live(s, phi)
           is == live \cup Else(s)
           e == InOrder(is)
           m == Cardinality(is)
           c == Cardinality(live)
           kept == Kept(s, is)
<1>1. /\ DOMAIN s.conditions = 1..Len(s.conditions) /\ DOMAIN s.blocks = 1..Len(s.blocks)
      /\ Len(s.conditions) \in Nat /\ Len(s.blocks) \in Nat
  BY IfShape
<1>2. live \in SUBSET DOMAIN s.conditions /\ DOMAIN s.blocks = DOMAIN s.conditions \cup Else(s)
  BY ElseFacts DEF Live
<1>3. is \subseteq DOMAIN s.blocks /\ is \cap DOMAIN s.conditions = live
  BY <1>2 DEF Else
<1>4. /\ Ordering(is, e) /\ m \in Nat /\ c \in Nat /\ c <= m
      /\ \A k \in 1..m : k <= c <=> e[k] \in DOMAIN s.conditions
  BY <1>2, KeptOrder
<1>5. /\ e \in [1..m -> is] /\ is = {e[k] : k \in 1..m}
      /\ \A j, k \in 1..m : j < k => e[j] < e[k]
  BY <1>4 DEF Ordering
<1>6. /\ kept.op = "if" /\ ~kept.typed
      /\ kept.conditions = [k \in 1..c |-> s.conditions[e[k]]]
      /\ kept.blocks = [k \in 1..m |-> s.blocks[e[k]]]
  BY <1>3 DEF Kept, Compound
<1>7. kept \in Statements
  OBVIOUS
<1>8. Live(s, phi) = live
  OBVIOUS
<1> HIDE DEF live, is, e, m, c, kept
<1>9. CallFree(kept)
  <2> SUFFICES ASSUME NEW k \in 1..c PROVE ~Calls(s.conditions[e[k]])
    BY <1>6 DEF CallFree
  <2>1. e[k] \in DOMAIN s.conditions
    BY <1>4
  <2>2. QED BY <2>1 DEF CallFree
<1>10. \A i, j \in is : i \in Nat /\ j \in Nat
  BY <1>1, <1>3
<1>11. ASSUME NEW out \in Outs, out.end = "next", Sat(phi, out.state)
       PROVE  Exec[<<kept>>][out] = One(s, out)
  <2> DEFINE state == out.state
  <2>1. state \in States
    BY OutFields
  <2> HIDE DEF state
  <2>2. \A i \in DOMAIN s.conditions : Holds(s.conditions[i], state) => i \in live
    BY <1>8, <1>11, <2>1, LiveHolds DEF state
  <2>3. ASSUME NEW k \in 1..m
        PROVE  Takes(kept, k, state) <=> Takes(s, e[k], state)
    <3>1. e[k] \in is /\ e[k] \in DOMAIN s.blocks /\ e[k] \in Nat
      BY <1>3, <1>5, <1>10
    <3>2. k \in DOMAIN kept.blocks /\ DOMAIN kept.conditions = 1..c
      BY <1>6
    <3>3. k \in DOMAIN kept.conditions <=> e[k] \in DOMAIN s.conditions
      BY <1>4, <3>2
    <3>4. k \in DOMAIN kept.conditions => kept.conditions[k] = s.conditions[e[k]]
      BY <1>6, <3>2
    <3>5. (\A l \in DOMAIN kept.conditions : l < k => ~Holds(kept.conditions[l], state))
              <=> \A l \in DOMAIN s.conditions : l < e[k] => ~Holds(s.conditions[l], state)
      <4>1. ASSUME NEW l \in DOMAIN kept.conditions, l < k
            PROVE  /\ e[l] \in DOMAIN s.conditions /\ e[l] < e[k]
                   /\ kept.conditions[l] = s.conditions[e[l]]
        <5>1. l \in 1..c /\ l \in 1..m
          BY <1>4, <3>2
        <5>2. QED BY <1>4, <1>5, <1>6, <4>1, <5>1
      <4>2. ASSUME NEW l \in DOMAIN s.conditions, l < e[k], Holds(s.conditions[l], state)
            PROVE  \E j \in DOMAIN kept.conditions :
                      j < k /\ kept.conditions[j] = s.conditions[l]
        <5>1. l \in is
          BY <1>3, <2>2, <4>2
        <5>2. PICK j \in 1..m : e[j] = l
          BY <1>5, <5>1
        <5>3. j <= c
          BY <1>4, <5>2
        <5>4. j < k
          <6>1. CASE j = k
            BY <1>1, <3>1, <4>2, <5>2, <6>1
          <6>2. CASE k < j
            <7>1. e[k] < e[j]
              BY <1>5, <6>2
            <7>2. QED BY <1>10, <3>1, <4>2, <5>1, <5>2, <7>1
          <6>3. QED BY <6>1, <6>2
        <5>5. j \in 1..c
          BY <1>4, <5>3
        <5>6. QED BY <1>6, <3>2, <5>2, <5>4, <5>5
      <4>3. QED BY <4>1, <4>2
    <3>6. QED BY <3>1, <3>2, <3>3, <3>4, <3>5 DEF Takes
  <2>4. CASE \E i : Takes(s, i, state)
    <3>1. PICK i : Takes(s, i, state)
      BY <2>4
    <3>2. i \in is
      <4>1. i \in DOMAIN s.conditions => i \in live
        BY <2>2, <3>1 DEF Takes
      <4>2. i \in DOMAIN s.blocks
        BY <3>1 DEF Takes
      <4>3. QED BY <1>2, <4>1, <4>2 DEF is
    <3>3. PICK k \in 1..m : e[k] = i
      BY <1>5, <3>2
    <3>4. Takes(kept, k, state)
      BY <2>3, <3>1, <3>3
    <3>5. One(kept, out) = Exec[kept.blocks[k]][out]
      BY <1>6, <1>7, <1>9, <3>4, OneTakes DEF state
    <3>6. One(s, out) = Exec[s.blocks[i]][out]
      BY <3>1, OneTakes DEF state
    <3>7. kept.blocks[k] = s.blocks[i]
      BY <1>6, <3>3
    <3>8. One(kept, out) = One(s, out)
      BY <3>5, <3>6, <3>7
    <3>9. QED BY <1>6, <1>7, <1>11, <3>8, ExecOne
  <2>5. CASE ~\E i : Takes(s, i, state)
    <3>1. ~\E k : Takes(kept, k, state)
      <4> SUFFICES ASSUME NEW k, Takes(kept, k, state) PROVE FALSE
        OBVIOUS
      <4>1. k \in 1..m
        BY <1>6 DEF Takes
      <4>2. QED BY <2>3, <2>5, <4>1
    <3>2. One(kept, out) = out /\ One(s, out) = out
      BY <1>6, <1>7, <1>9, <2>5, <3>1, OneTakes DEF state
    <3>3. QED BY <1>6, <1>7, <1>11, <3>2, ExecOne
  <2>6. QED BY <2>4, <2>5
<1>12. StandsFor(<<kept>>, s, phi)
  BY <1>6, <1>7, <1>11, ExecOne DEF StandsFor
<1>13. QED BY <1>12 DEF kept, is, live

LEMMA PrunedStands ==
    ASSUME NEW s \in Statements, s.op = "if", CallFree(s), NEW phi
    PROVE  StandsFor(Pruned(s, phi), s, phi)
<1>1. /\ DOMAIN s.conditions = 1..Len(s.conditions) /\ DOMAIN s.blocks = 1..Len(s.blocks)
      /\ Len(s.conditions) \in Nat /\ Len(s.blocks) \in Nat
      /\ s.conditions \in Seq(Tests)
  BY IfShape
<1>2. /\ Else(s) = {} \/ Else(s) = {Len(s.conditions) + 1}
      /\ DOMAIN s.blocks = DOMAIN s.conditions \cup Else(s)
  BY ElseFacts
<1> DEFINE live == Live(s, phi)
<1>3. live \in SUBSET Nat /\ live \subseteq DOMAIN s.conditions
  BY <1>1 DEF Live
<1>4. \A out \in Outs : \A i \in DOMAIN s.conditions : Sat(phi, out.state) =>
          /\ Holds(s.conditions[i], out.state) => i \in live
          /\ Entails(phi, Where(s.conditions[i])) => Holds(s.conditions[i], out.state)
  BY OutFields, LiveHolds
<1>5. s \in {t \in Statements : t.op = "if"}
  OBVIOUS
<1>6. CASE Forced(s, phi)
  <2> DEFINE i == Min(live)
             c == s.conditions[i]
             b == s.blocks[i]
  <2>1. live # {} /\ Entails(phi, Where(c))
    BY <1>6 DEF Forced
  <2>2. i \in live /\ \A k \in live : i <= k
    BY <1>3, <2>1, LeastOf
  <2>3. Pruned(s, phi) = Only(c, b)
    BY <1>6, PrunedCases
  <2> HIDE DEF i, live
  <2>4. i \in DOMAIN s.conditions /\ c \in Tests /\ ~Calls(c) /\ b \in Blocks
        /\ i \in DOMAIN s.blocks /\ i \in Nat
    BY <1>1, <1>2, <1>3, <2>2, StatementParts DEF CallFree
  <2>5. Alone(c, b) \in Statements
    BY <1>5, <2>4, PruningAssumption
  <2>6. ASSUME NEW out \in Outs, Sat(phi, out.state)
        PROVE  Holds(c, out.state) /\ One(s, out) = Exec[b][out]
    <3>1. Holds(c, out.state)
      BY <1>4, <2>1, <2>4, <2>6
    <3>2. \A l \in DOMAIN s.conditions : l < i => ~Holds(s.conditions[l], out.state)
      <4> SUFFICES ASSUME NEW l \in DOMAIN s.conditions, l < i,
                          Holds(s.conditions[l], out.state)
                   PROVE  FALSE
        OBVIOUS
      <4>1. l \in live
        BY <1>4, <2>6
      <4>2. QED BY <1>1, <2>2, <2>4, <4>1
    <3>3. Takes(s, i, out.state)
      BY <2>4, <3>1, <3>2 DEF Takes
    <3>4. QED BY <3>1, <3>3, OneTakes
  <2> HIDE DEF c, b
  <2>7. QED BY <2>3, <2>4, <2>5, <2>6, OnlyStands
<1>7. CASE live = {} /\ Else(s) = {}
  <2>1. Pruned(s, phi) = <<>>
    BY <1>7, PrunedCases
  <2>2. ASSUME NEW out \in Outs, Sat(phi, out.state)
        PROVE  One(s, out) = out
    <3>1. ~\E i : Takes(s, i, out.state)
      BY <1>2, <1>4, <1>7, <2>2 DEF Takes
    <3>2. QED BY <3>1, OneTakes
  <2>3. <<>> \in Blocks /\ ~DeclaresLocals(<<>>)
    BY DEF Blocks, DeclaresLocals
  <2>4. \A out \in Outs : Exec[<<>>][out] = out
    BY <2>3, ExecAt
  <2>5. QED BY <2>1, <2>2, <2>3, <2>4 DEF StandsFor
<1>8. CASE live = {} /\ Else(s) # {}
  <2> DEFINE i == Min(Else(s))
             b == s.blocks[i]
  <2>1. Pruned(s, phi) = Only("true", b)
    BY <1>8, PrunedCases
  <2>2. Else(s) \in SUBSET Nat
    BY <1>1, <1>2
  <2>3. i \in Else(s) /\ i = Len(s.conditions) + 1
    BY <1>2, <1>8, <2>2, LeastOf
  <2> HIDE DEF i
  <2>4. i \in DOMAIN s.blocks /\ i \notin DOMAIN s.conditions /\ b \in Blocks
    BY <1>1, <1>2, <2>3, StatementParts
  <2>5. "true" \in Tests /\ ~Calls("true") /\ Where("true") = Worlds
    BY EvalAssumption, ExpressionAssumption
  <2>6. Alone("true", b) \in Statements
    BY <1>5, <2>4, PruningAssumption
  <2>7. ASSUME NEW out \in Outs, Sat(phi, out.state)
        PROVE  Holds("true", out.state) /\ One(s, out) = Exec[b][out]
    <3>1. Holds("true", out.state)
      BY <2>5, OutFields, WorldAssumption
    <3>2. Takes(s, i, out.state)
      BY <1>4, <1>8, <2>4, <2>7 DEF Takes
    <3>3. QED BY <3>1, <3>2, OneTakes
  <2> HIDE DEF b
  <2>8. QED BY <2>1, <2>4, <2>5, <2>6, <2>7, OnlyStands
<1>9. CASE live # {} /\ ~Forced(s, phi)
  <2>1. Pruned(s, phi) = <<Kept(s, live \cup Else(s))>>
    BY <1>9, PrunedCases
  <2>2. (live \cup Else(s)) \in SUBSET DOMAIN s.blocks
        /\ (live \cup Else(s)) \cap DOMAIN s.conditions # {}
    BY <1>2, <1>3, <1>9
  <2>3. Kept(s, live \cup Else(s)) \in Statements
    BY <1>5, <2>2, PruningAssumption
  <2>4. QED BY <1>9, <2>1, <2>3, KeptStands
<1>10. QED BY <1>6, <1>7, <1>8, <1>9

(* A block in whose front an if-statement is pruned does what it did.      *)
PruneStep(q, phi) == Pruned(Head(q), phi) \o Tail(q)

LEMMA PruneRuns ==
    ASSUME NEW q \in Blocks, NEW phi, Prunable(q, phi)
    PROVE  /\ PruneStep(q, phi) \in Blocks
           /\ \A out \in Outs : out.end = "next" /\ Sat(phi, out.state) =>
                 Exec[PruneStep(q, phi)][out] = Exec[q][out]
<1> DEFINE s == Head(q)
           r == Pruned(s, phi)
<1>1. q # <<>> /\ s.op = "if" /\ CallFree(s)
  BY DEF Prunable, CallFree
<1>2. s \in Statements /\ Tail(q) \in Blocks /\ ~s.typed
  BY <1>1, BlockParts, StatementKinds
<1>3. StandsFor(r, s, phi)
  BY <1>1, <1>2, PrunedStands
<1>4. PruneStep(q, phi) = r \o Tail(q)
  BY DEF PruneStep
<1> HIDE DEF r
<1>5. r \in Blocks /\ ~DeclaresLocals(r)
  BY <1>3 DEF StandsFor
<1>6. r \o Tail(q) \in Blocks
      /\ \A out \in Outs : Exec[r \o Tail(q)][out] = Exec[Tail(q)][Exec[r][out]]
  BY <1>2, <1>5, ExecConcat
<1>7. ASSUME NEW out \in Outs, out.end = "next", Sat(phi, out.state)
      PROVE  Exec[r \o Tail(q)][out] = Exec[q][out]
  <2>1. Exec[r][out] = One(s, out)
    BY <1>3, <1>7 DEF StandsFor
  <2>2. Exec[q][out] = Leave(s, out, Exec[Tail(q)][One(s, out)])
    BY <1>1, <1>7, ExecAt
  <2>3. Exec[q][out] = Exec[Tail(q)][One(s, out)]
    BY <1>2, <2>2 DEF Leave
  <2>4. QED BY <1>6, <2>1, <2>3
<1>8. QED BY <1>4, <1>6, <1>7

-------------------------------------------------------------------------------
(* Blocks that do the same under the facts phi.                            *)

Runs(phi) == {out \in Outs : out.end = "next" /\ out.stop /\ Sat(phi, out.state)}
Equiv(l, r, phi) == \A out \in Runs(phi) : Exec[l][out] = Exec[r][out]
Stops(b, phi) == \A out \in Runs(phi) : Exec[b][out].end # "next"

(* To compare f is enough to compare g.                                    *)
Covers(f, g) ==
    /\ Equiv(f.left, f.right, f.phi) => Equiv(g.left, g.right, g.phi)
    /\ Stops(f.left, f.phi) => Stops(g.left, g.phi)

LEMMA RunsFacts ==
    ASSUME NEW phi, NEW out \in Runs(phi)
    PROVE  /\ out \in Outs /\ out.end = "next" /\ out.stop /\ out.state \in States
           /\ Sat(phi, out.state)
BY OutFields DEF Runs

LEMMA StepCovers ==
    ASSUME NEW l \in Blocks, l # <<>>, NEW r \in Blocks, r # <<>>, NEW phi, NEW psi,
           Head(l).typed = Head(r).typed,
           Head(l).typed => Head(l).var = Head(r).var,
           \A out \in Runs(phi) :
               LET mid == One(Head(l), out) IN
               mid = One(Head(r), out) /\ (mid.end = "next" => Sat(psi, mid.state))
    PROVE  /\ Equiv(Tail(l), Tail(r), psi) => Equiv(l, r, phi)
           /\ Stops(Tail(l), psi) => Stops(l, phi)
<1> DEFINE x == Head(l)
           y == Head(r)
<1>1. x \in Statements /\ y \in Statements /\ Tail(l) \in Blocks /\ Tail(r) \in Blocks
  BY BlockParts
<1>2. ASSUME NEW out \in Runs(phi)
      PROVE  LET mid == One(x, out) IN
             /\ mid = One(y, out) /\ mid \in Outs
             /\ mid \in Runs(psi) \/ mid.end # "next"
             /\ Exec[l][out] = Leave(x, out, Exec[Tail(l)][mid])
             /\ Exec[r][out] = Leave(y, out, Exec[Tail(r)][mid])
  <2> DEFINE mid == One(x, out)
  <2>1. out \in Outs /\ out.end = "next" /\ out.stop
    BY RunsFacts
  <2>2. mid \in Outs /\ mid.stop = out.stop
    BY <1>1, <2>1, OneOut, OneChanges
  <2>3. mid = One(y, out) /\ (mid.end = "next" => Sat(psi, mid.state))
    OBVIOUS
  <2>4. /\ Exec[l][out] = Leave(x, out, Exec[Tail(l)][One(x, out)])
        /\ Exec[r][out] = Leave(y, out, Exec[Tail(r)][One(y, out)])
    BY <2>1, ExecAt
  <2>5. mid \in Runs(psi) \/ mid.end # "next"
    <3> HIDE DEF mid
    <3>1. QED BY <2>1, <2>2, <2>3 DEF Runs
  <2>6. QED BY <2>2, <2>3, <2>4, <2>5
<1>3. ASSUME Equiv(Tail(l), Tail(r), psi), NEW out \in Runs(phi)
      PROVE  Exec[l][out] = Exec[r][out]
  <2> DEFINE mid == One(x, out)
  <2>1. /\ mid \in Outs /\ (mid \in Runs(psi) \/ mid.end # "next")
        /\ Exec[l][out] = Leave(x, out, Exec[Tail(l)][mid])
        /\ Exec[r][out] = Leave(y, out, Exec[Tail(r)][mid])
    BY <1>2
  <2> HIDE DEF mid
  <2>2. Exec[Tail(l)][mid] = Exec[Tail(r)][mid]
    <3>1. CASE mid \in Runs(psi)
      BY <1>3, <3>1 DEF Equiv
    <3>2. CASE mid.end # "next"
      BY <1>1, <2>1, <3>2, ExecAt
    <3>3. QED BY <2>1, <3>1, <3>2
  <2>3. \A o : Leave(x, out, o) = Leave(y, out, o)
    BY DEF Leave
  <2>4. QED BY <2>1, <2>2, <2>3
<1>4. ASSUME Stops(Tail(l), psi), NEW out \in Runs(phi)
      PROVE  Exec[l][out].end # "next"
  <2> DEFINE mid == One(x, out)
  <2>1. /\ mid \in Outs /\ (mid \in Runs(psi) \/ mid.end # "next")
        /\ Exec[l][out] = Leave(x, out, Exec[Tail(l)][mid])
    BY <1>2
  <2> HIDE DEF mid, x
  <2>2. Exec[Tail(l)][mid].end # "next"
    <3>1. CASE mid \in Runs(psi)
      BY <1>4, <3>1 DEF Stops
    <3>2. CASE mid.end # "next"
      BY <1>1, <2>1, <3>2, ExecAt
    <3>3. QED BY <2>1, <3>1, <3>2
  <2>3. Exec[Tail(l)][mid] \in Outs /\ out \in Outs
    BY <1>1, <2>1, ExecAt, RunsFacts
  <2>4. Leave(x, out, Exec[Tail(l)][mid]).end = Exec[Tail(l)][mid].end
    BY <1>1, <2>3, LeaveFacts
  <2>5. QED BY <2>1, <2>2, <2>4
<1>5. QED BY <1>3, <1>4 DEF Equiv, Stops

LEMMA PruneCovers ==
    ASSUME NEW l \in Blocks, NEW r \in Blocks, NEW phi
    PROVE  /\ Prunable(l, phi) =>
                 /\ Equiv(PruneStep(l, phi), r, phi) => Equiv(l, r, phi)
                 /\ Stops(PruneStep(l, phi), phi) => Stops(l, phi)
           /\ Prunable(r, phi) => (Equiv(l, PruneStep(r, phi), phi) => Equiv(l, r, phi))
<1>1. ASSUME NEW q \in Blocks, Prunable(q, phi)
      PROVE  \A out \in Runs(phi) : Exec[PruneStep(q, phi)][out] = Exec[q][out]
  BY <1>1, PruneRuns, RunsFacts
<1>2. QED BY <1>1 DEF Equiv, Stops

LEMMA EndCovers ==
    ASSUME NEW phi
    PROVE  Equiv(<<>>, <<>>, phi)
BY DEF Equiv

(* A raise stops both sides in the same way.                               *)
LEMMA RaiseCovers ==
    ASSUME NEW l \in Blocks, l # <<>>, NEW r \in Blocks, r # <<>>, NEW phi,
           Head(l).op = "raise", Head(r).op = "raise"
    PROVE  Equiv(l, r, phi) /\ Stops(l, phi)
<1> DEFINE x == Head(l)
           y == Head(r)
<1>1. x \in Statements /\ y \in Statements /\ Tail(l) \in Blocks /\ Tail(r) \in Blocks
  BY BlockParts
<1>2. /\ x.var = Flag /\ x.index = <<>> /\ ~x.typed
      /\ y.var = Flag /\ y.index = <<>> /\ ~y.typed
  BY <1>1, KindAssumption
<1>3. ASSUME NEW out \in Runs(phi)
      PROVE  Exec[l][out] = Exec[r][out] /\ Exec[l][out].end # "next"
  <2>1. out \in Outs /\ out.end = "next" /\ out.stop
    BY RunsFacts
  <2>2. Put(x, TRUE, 0, out) = Put(y, TRUE, 0, out)
    BY <1>2 DEF Put, Target
  <2>3. /\ One(x, out) = Raising(Put(x, TRUE, 0, out)) /\ One(x, out).end = "raised"
        /\ One(y, out) = Raising(Put(y, TRUE, 0, out)) /\ One(y, out).end = "raised"
    BY <1>1, <2>1, OneRaise
  <2>4. /\ Exec[Tail(l)][One(x, out)] = One(x, out)
        /\ Exec[Tail(r)][One(y, out)] = One(y, out)
    BY <1>1, <2>1, <2>3, OneOut, ExecAt
  <2>5. /\ Exec[l][out] = Leave(x, out, Exec[Tail(l)][One(x, out)])
        /\ Exec[r][out] = Leave(y, out, Exec[Tail(r)][One(y, out)])
    BY <2>1, ExecAt
  <2> HIDE DEF x, y
  <2>6. Exec[l][out] = One(x, out) /\ Exec[r][out] = One(y, out)
    BY <1>2, <2>4, <2>5 DEF Leave
  <2>7. QED BY <2>2, <2>3, <2>6
<1>4. QED BY <1>3 DEF Equiv, Stops

(* The facts after a statement.                                            *)
LEMMA AfterHolds ==
    ASSUME NEW x \in Statements, NEW names, x.assigned \subseteq names,
           NEW phi \in SUBSET Facts, NEW out \in Runs(phi),
           NEW learned, Sat(learned, One(x, out).state)
    PROVE  Sat(Kill(phi, names) \cup learned, One(x, out).state)
<1>1. out \in Outs /\ out.state \in States /\ Sat(phi, out.state)
  BY RunsFacts
<1>2. One(x, out) \in Outs /\ Same(Names \ x.assigned, One(x, out).state, out.state)
  BY <1>1, OneOut, OneChanges
<1>3. One(x, out).state \in States
  BY <1>2, OutFields
<1>4. Same(Names \ names, One(x, out).state, out.state)
  BY <1>2 DEF Same
<1>5. Sat(Kill(phi, names), One(x, out).state)
  BY <1>1, <1>3, <1>4, KillHolds
<1>6. QED BY <1>5 DEF Sat

(* Simple statements that agree do the same.                               *)
LEMMA SimpleSame ==
    ASSUME NEW x \in Statements, NEW y \in Statements, NEW phi,
           x.op \in {"return", "assign", "draw"}, Agree(x, y, phi)
    PROVE  /\ x.typed = y.typed /\ (x.typed => x.var = y.var)
           /\ \A out \in Runs(phi) : One(x, out) = One(y, out)
<1>1. x.op = y.op
  BY DEF Agree
<1>2. ASSUME NEW a \in Texts, NEW b \in Texts, LeafEqual(a, b, phi), NEW out \in Runs(phi)
      PROVE  /\ \A k : Value(a, k, out) = Value(b, k, out)
             /\ CallsIn(<<a>>, 1) = CallsIn(<<b>>, 1)
  <2>1. (Calls(a) <=> Calls(b)) /\ \A k : Value(a, k, out) = Value(b, k, out)
    BY <1>2, LeafEqualHolds, RunsFacts
  <2>2. \A k \in 1..1 : Calls(<<a>>[k]) <=> Calls(<<b>>[k])
    BY <2>1
  <2>3. CallsIn(<<a>>, 1) = CallsIn(<<b>>, 1)
    BY <2>2, SameCalls
  <2>4. QED BY <2>1, <2>3
<1>3. CASE x.op = "draw"
  BY <1>3 DEF Agree
<1>4. CASE x.op = "return"
  <2>1. x.value \in Texts /\ y.value \in Texts /\ ~x.typed /\ ~y.typed
    BY <1>1, <1>4, KindAssumption
  <2>2. LeafEqual(x.value, y.value, phi)
    BY <1>4 DEF Agree
  <2>3. ASSUME NEW out \in Runs(phi)
        PROVE  One(x, out) = One(y, out)
    <3>1. Value(x.value, 0, out) = Value(y.value, 0, out)
          /\ CallsIn(<<x.value>>, 1) = CallsIn(<<y.value>>, 1)
      BY <1>2, <2>1, <2>2
    <3>2. out \in Outs
      BY RunsFacts
    <3>3. /\ One(x, out) = [out EXCEPT !.end = "return", !.value = Value(x.value, 0, out),
                                       !.drawn = @ + CallsIn(<<x.value>>, 1)]
          /\ One(y, out) = [out EXCEPT !.end = "return", !.value = Value(y.value, 0, out),
                                       !.drawn = @ + CallsIn(<<y.value>>, 1)]
      BY <1>1, <1>4, <3>2, OneReturn
    <3>4. QED BY <3>1, <3>3
  <2>4. x.typed \in BOOLEAN /\ y.typed \in BOOLEAN
    BY StatementAssumption
  <2>5. QED BY <2>1, <2>3, <2>4
<1>5. CASE x.op = "assign"
  <2>1. x.value \in Texts /\ y.value \in Texts
    BY <1>1, <1>5, KindAssumption
  <2>2. x.typed = y.typed /\ TargetEqual(x, y, phi) /\ LeafEqual(x.value, y.value, phi)
    BY <1>5 DEF Agree
  <2>3. x.var = y.var
    BY <2>2 DEF TargetEqual
  <2>4. ASSUME NEW out \in Runs(phi)
        PROVE  One(x, out) = One(y, out)
    <3>1. out \in Outs /\ Sat(phi, out.state)
      BY RunsFacts
    <3>2. Target(x, out) = Target(y, out) /\ Used(x) = Used(y)
      BY <2>2, <3>1, TargetEqualHolds
    <3>3. Value(x.value, Used(x), out) = Value(y.value, Used(y), out)
          /\ CallsIn(<<x.value>>, 1) = CallsIn(<<y.value>>, 1)
      BY <1>2, <2>1, <2>2, <3>2
    <3>4. /\ One(x, out) = Put(x, Value(x.value, Used(x), out),
                               Used(x) + CallsIn(<<x.value>>, 1), out)
          /\ One(y, out) = Put(y, Value(y.value, Used(y), out),
                               Used(y) + CallsIn(<<y.value>>, 1), out)
      BY <1>1, <1>5, <3>1, OneAssign
    <3>5. QED BY <3>2, <3>3, <3>4 DEF Put
  <2>5. QED BY <2>2, <2>3, <2>4
<1>6. QED BY <1>3, <1>4, <1>5

(* The arm that is taken, and its path.                                    *)
LEMMA TakenPath ==
    ASSUME NEW x \in Statements, x.op = "if", NEW out \in Outs, Arms(x, out) # {}
    PROVE  LET i == Min(Arms(x, out)) IN
           /\ i \in DOMAIN x.blocks /\ i \in 1..Len(x.conditions) + 1
           /\ OnPath(x.conditions, i, out.state)
<1> DEFINE i == Min(Arms(x, out))
<1>1. i \in Arms(x, out) /\ \A l \in Arms(x, out) : i <= l
      /\ Arms(x, out) \subseteq DOMAIN x.blocks
  BY TestedFacts
<1>2. /\ DOMAIN x.conditions = 1..Len(x.conditions) /\ DOMAIN x.blocks = 1..Len(x.blocks)
      /\ Len(x.conditions) \in Nat /\ Len(x.blocks) \in Nat
      /\ Len(x.blocks) = Len(x.conditions) \/ Len(x.blocks) = Len(x.conditions) + 1
  BY IfShape
<1> HIDE DEF i
<1>3. i \in DOMAIN x.blocks /\ i \in 1..Len(x.conditions) + 1
  BY <1>1, <1>2
<1>4. ASSUME NEW l \in DOMAIN x.conditions, ~Calls(x.conditions[l])
      PROVE  /\ l < i => ~Holds(x.conditions[l], out.state)
             /\ l = i => Holds(x.conditions[l], out.state)
  <2>1. l \in Met(x, out) <=> Holds(x.conditions[l], out.state)
    BY <1>4 DEF Met
  <2>2. l \in Arms(x, out) <=> l \in Met(x, out)
    BY DEF Arms
  <2>3. l \in Nat /\ i \in Nat
    BY <1>2, <1>3
  <2>4. l < i => l \notin Arms(x, out)
    BY <1>1, <2>3
  <2>5. QED BY <1>1, <2>1, <2>2, <2>4
<1>5. OnPath(x.conditions, i, out.state)
  BY <1>4 DEF OnPath
<1>6. QED BY <1>3, <1>5 DEF i

LEMMA PathTaken ==
    ASSUME NEW x \in Statements, x.op = "if", NEW out \in Outs, NEW i \in DOMAIN x.blocks,
           ~CallsOnPath(x.conditions, i), OnPath(x.conditions, i, out.state)
    PROVE  Arms(x, out) # {} /\ Min(Arms(x, out)) = i
<1>1. /\ DOMAIN x.conditions = 1..Len(x.conditions) /\ DOMAIN x.blocks = 1..Len(x.blocks)
      /\ Len(x.conditions) \in Nat /\ Len(x.blocks) \in Nat
      /\ Len(x.blocks) = Len(x.conditions) \/ Len(x.blocks) = Len(x.conditions) + 1
  BY IfShape
<1>2. \A l \in DOMAIN x.conditions : l <= i => ~Calls(x.conditions[l])
  <2> SUFFICES ASSUME NEW l \in DOMAIN x.conditions, l <= i PROVE ~Calls(x.conditions[l])
    OBVIOUS
  <2>1. l \in (1..i) \cap DOMAIN x.conditions
    BY <1>1
  <2>2. QED BY <2>1 DEF CallsOnPath
<1>3. \A l \in DOMAIN x.conditions : l <= i =>
          (l \in Met(x, out) <=> Holds(x.conditions[l], out.state))
  BY <1>2 DEF Met
<1>4. i \in Arms(x, out)
  <2>1. CASE i \in DOMAIN x.conditions
    <3>1. Holds(x.conditions[i], out.state)
      BY <1>1, <1>2, <2>1 DEF OnPath
    <3>2. QED BY <1>1, <1>3, <2>1, <3>1 DEF Arms
  <2>2. CASE i \notin DOMAIN x.conditions
    BY <2>2 DEF Arms
  <2>3. QED BY <2>1, <2>2
<1>5. Arms(x, out) \subseteq DOMAIN x.blocks
      /\ Min(Arms(x, out)) \in Arms(x, out)
      /\ \A l \in Arms(x, out) : Min(Arms(x, out)) <= l
  BY <1>4, TestedFacts
<1>6. \A l \in Arms(x, out) : i <= l
  <2> SUFFICES ASSUME NEW l \in Arms(x, out), l < i PROVE FALSE
    BY <1>1, <1>5
  <2>1. l \in DOMAIN x.conditions
    BY <1>1, <1>5
  <2>2. l \in Met(x, out)
    BY <2>1 DEF Arms
  <2>3. Holds(x.conditions[l], out.state) /\ ~Calls(x.conditions[l])
    BY <1>1, <1>2, <1>3, <2>1, <2>2
  <2>4. QED BY <2>1, <2>3 DEF OnPath
<1>7. QED BY <1>1, <1>4, <1>5, <1>6

LEMMA TestedRuns ==
    ASSUME NEW x \in Statements, x.op = "if", NEW phi, NEW i \in 1..Len(x.conditions) + 1,
           NEW out \in Runs(phi), OnPath(x.conditions, i, out.state)
    PROVE  Tested(x, out) \in Runs(phi \cup Path(x.conditions, i))
<1>1. out \in Outs /\ out.end = "next" /\ out.stop /\ out.state \in States
      /\ Sat(phi, out.state)
  BY RunsFacts
<1>2. x.conditions \in Seq(Tests)
  BY IfShape
<1>3. Sat(Path(x.conditions, i), out.state)
  BY <1>1, <1>2, PathFacts
<1>4. Sat(phi \cup Path(x.conditions, i), out.state)
  BY <1>1, <1>3 DEF Sat
<1> DEFINE new == Tested(x, out)
<1>5. new \in Outs /\ new.end = out.end /\ new.state = out.state /\ new.stop = out.stop
  BY <1>1, TestedKeeps
<1> HIDE DEF new
<1>6. new \in Runs(phi \cup Path(x.conditions, i))
  BY <1>1, <1>4, <1>5 DEF Runs
<1>7. QED BY <1>6 DEF new

LEMMA SameTests ==
    ASSUME NEW x \in Statements, NEW y \in Statements, x.op = "if", NEW phi, Agree(x, y, phi),
           NEW out \in Runs(phi)
    PROVE  /\ y.op = "if" /\ DOMAIN y.blocks = DOMAIN x.blocks
           /\ Arms(x, out) = Arms(y, out)
           /\ Tested(x, out) = Tested(y, out)
<1>1. /\ y.op = "if" /\ Len(x.conditions) = Len(y.conditions)
      /\ Len(x.blocks) = Len(y.blocks)
      /\ \A i \in DOMAIN x.conditions : CondEqual(x.conditions[i], y.conditions[i], phi)
  BY DEF Agree
<1>2. /\ DOMAIN x.conditions = 1..Len(x.conditions) /\ DOMAIN x.blocks = 1..Len(x.blocks)
      /\ Len(x.conditions) \in Nat /\ Len(x.blocks) \in Nat
      /\ x.conditions \in Seq(Tests)
  BY IfShape
<1>3. /\ DOMAIN y.conditions = 1..Len(x.conditions) /\ DOMAIN y.blocks = 1..Len(x.blocks)
      /\ y.conditions \in Seq(Tests)
  BY <1>1, IfShape
<1>4. out \in Outs /\ out.state \in States /\ Sat(phi, out.state)
  BY RunsFacts
<1>5. ASSUME NEW i \in DOMAIN x.conditions
      PROVE  /\ Calls(x.conditions[i]) <=> Calls(y.conditions[i])
             /\ ~Calls(x.conditions[i]) =>
                   (Holds(x.conditions[i], out.state) <=> Holds(y.conditions[i], out.state))
  <2>1. x.conditions[i] \in Tests /\ y.conditions[i] \in Tests
    BY <1>2, <1>3
  <2>2. CondEqual(x.conditions[i], y.conditions[i], phi)
    BY <1>1
  <2>3. QED BY <1>4, <2>1, <2>2, CondEqualHolds
<1>6. \A n \in 0..Len(x.conditions) : CallsIn(x.conditions, n) = CallsIn(y.conditions, n)
  <2> SUFFICES ASSUME NEW n \in 0..Len(x.conditions)
               PROVE  CallsIn(x.conditions, n) = CallsIn(y.conditions, n)
    OBVIOUS
  <2>1. \A k \in 1..n : Calls(x.conditions[k]) <=> Calls(y.conditions[k])
    BY <1>2, <1>5
  <2>2. n \in Nat
    BY <1>2
  <2>3. QED BY <2>1, <2>2, SameCalls
<1>7. Met(x, out) = Met(y, out)
  <2>1. \A i \in DOMAIN x.conditions : CallsIn(x.conditions, i - 1) = CallsIn(y.conditions, i - 1)
    <3> SUFFICES ASSUME NEW i \in DOMAIN x.conditions
                 PROVE  CallsIn(x.conditions, i - 1) = CallsIn(y.conditions, i - 1)
      OBVIOUS
    <3>1. i - 1 \in 0..Len(x.conditions)
      BY <1>2
    <3>2. QED BY <1>6, <3>1
  <2>2. DOMAIN y.conditions = DOMAIN x.conditions
    BY <1>2, <1>3
  <2>3. \A i \in DOMAIN x.conditions : i \in Met(x, out) <=> i \in Met(y, out)
    BY <1>5, <2>1, <2>2 DEF Met
  <2>4. Met(x, out) \subseteq DOMAIN x.conditions /\ Met(y, out) \subseteq DOMAIN x.conditions
    BY <2>2 DEF Met
  <2>5. QED BY <2>3, <2>4
<1>8. Arms(x, out) = Arms(y, out)
  BY <1>2, <1>3, <1>7 DEF Arms
<1>9. Tested(x, out) = Tested(y, out)
  <2> DEFINE n == IF Met(x, out) = {} THEN Len(x.conditions) ELSE Min(Met(x, out))
  <2>1. n \in 0..Len(x.conditions)
    <3>1. Met(x, out) \in SUBSET Nat /\ Met(x, out) \subseteq 1..Len(x.conditions)
      BY <1>2 DEF Met
    <3>2. Met(x, out) # {} => Min(Met(x, out)) \in Met(x, out)
      BY <3>1, LeastOf
    <3>3. QED BY <1>2, <3>1, <3>2
  <2>2. Tested(x, out) = [out EXCEPT !.drawn = @ + CallsIn(x.conditions, n)]
        /\ Tested(y, out) = [out EXCEPT !.drawn = @ + CallsIn(y.conditions, n)]
    BY <1>1, <1>7 DEF Tested
  <2>3. CallsIn(x.conditions, n) = CallsIn(y.conditions, n)
    <3> HIDE DEF n
    <3>1. QED BY <1>6, <2>1
  <2>4. QED BY <2>2, <2>3
<1>10. QED BY <1>1, <1>2, <1>3, <1>8, <1>9

(* If-statements whose arms do the same on their paths do the same.        *)
LEMMA IfSame ==
    ASSUME NEW x \in Statements, NEW y \in Statements, x.op = "if", NEW phi, Agree(x, y, phi),
           \A i \in DOMAIN x.blocks :
               Equiv(x.blocks[i], y.blocks[i], phi \cup Path(x.conditions, i))
    PROVE  \A out \in Runs(phi) : One(x, out) = One(y, out)
<1> SUFFICES ASSUME NEW out \in Runs(phi) PROVE One(x, out) = One(y, out)
  OBVIOUS
<1>1. /\ y.op = "if" /\ DOMAIN y.blocks = DOMAIN x.blocks
      /\ Arms(x, out) = Arms(y, out) /\ Tested(x, out) = Tested(y, out)
  BY SameTests
<1>2. out \in Outs
  BY RunsFacts
<1>3. CASE Arms(x, out) = {}
  BY <1>1, <1>2, <1>3, OneIf
<1>4. CASE Arms(x, out) # {}
  <2> DEFINE i == Min(Arms(x, out))
  <2>1. i \in DOMAIN x.blocks /\ i \in 1..Len(x.conditions) + 1
        /\ OnPath(x.conditions, i, out.state)
    BY <1>2, <1>4, TakenPath
  <2>2. One(x, out) = Exec[x.blocks[i]][Tested(x, out)]
        /\ One(y, out) = Exec[y.blocks[i]][Tested(x, out)]
    BY <1>1, <1>2, <1>4, OneIf
  <2> HIDE DEF i
  <2>3. Tested(x, out) \in Runs(phi \cup Path(x.conditions, i))
    BY <2>1, TestedRuns
  <2>4. QED BY <2>1, <2>2, <2>3 DEF Equiv
<1>5. QED BY <1>3, <1>4

(* Where a run goes on, no arm that stops was taken.                       *)
LEMMA ArmNotTaken ==
    ASSUME NEW x \in Statements, x.op = "if", NEW phi, NEW i \in DOMAIN x.blocks,
           ~CallsOnPath(x.conditions, i),
           Stops(x.blocks[i], phi \cup Path(x.conditions, i)),
           NEW out \in Runs(phi), One(x, out).end = "next"
    PROVE  World(out.state) \in NotAll(Path(x.conditions, i)).worlds
<1>1. out \in Outs /\ out.state \in States
  BY RunsFacts
<1>2. i \in 1..Len(x.conditions) + 1 /\ x.conditions \in Seq(Tests)
  BY IfShape
<1>3. Path(x.conditions, i) \in SUBSET Facts
      /\ (Sat(Path(x.conditions, i), out.state) <=> OnPath(x.conditions, i, out.state))
  BY <1>1, <1>2, PathFacts
<1>4. ~OnPath(x.conditions, i, out.state)
  <2> SUFFICES ASSUME OnPath(x.conditions, i, out.state) PROVE FALSE
    OBVIOUS
  <2>1. Arms(x, out) # {} /\ Min(Arms(x, out)) = i
    BY <1>1, PathTaken
  <2>2. One(x, out) = Exec[x.blocks[i]][Tested(x, out)]
    BY <1>1, <2>1, OneIf
  <2>3. Tested(x, out) \in Runs(phi \cup Path(x.conditions, i))
    BY <1>2, TestedRuns
  <2>4. QED BY <2>2, <2>3 DEF Stops
<1>5. QED BY <1>1, <1>3, <1>4, NotAllFacts

(* Loops whose bodies do the same under what their rounds cannot change.   *)
LEMMA ForSame ==
    ASSUME NEW x \in Statements, NEW y \in Statements, x.op = "for", y.op = "for",
           NEW phi \in SUBSET Facts, NEW names, x.assigned \subseteq names,
           Equiv(x.blocks[1], y.blocks[1], Kill(phi, names))
    PROVE  \A out \in Runs(phi) : One(x, out) = One(y, out)
<1> SUFFICES ASSUME NEW out \in Runs(phi) PROVE One(x, out) = One(y, out)
  OBVIOUS
<1> DEFINE a == x.blocks[1]
           b == y.blocks[1]
<1>1. out \in Outs /\ out.end = "next" /\ out.stop /\ out.state \in States
      /\ Sat(phi, out.state)
  BY RunsFacts
<1>2. /\ a \in Blocks /\ One(x, out) = Repeated(Exec[a], out) /\ 1 \in DOMAIN x.blocks
      /\ b \in Blocks /\ One(y, out) = Repeated(Exec[b], out)
  BY <1>1, OneFor
<1>3. Assigned(a) \subseteq names
  <2>1. Assigned(a) \subseteq x.assigned
    BY <1>2, StatementKinds
  <2>2. QED BY <2>1
<1> HIDE DEF a, b
<1>4. PICK t \in [0..Rounds -> Outs] :
          /\ t[0] = out
          /\ \A n \in 1..Rounds : t[n] = Exec[a][t[n - 1]]
          /\ Repeated(Exec[a], out) = t[Rounds]
  BY <1>1, <1>2, ExecSolves, RepeatedTurns
<1>5. PICK u \in [0..Rounds -> Outs] :
          /\ u[0] = out
          /\ \A n \in 1..Rounds : u[n] = Exec[b][u[n - 1]]
          /\ Repeated(Exec[b], out) = u[Rounds]
  BY <1>1, <1>2, ExecSolves, RepeatedTurns
<1>6. Rounds \in Nat
  BY StateAssumption
<1> DEFINE Q == {n \in 0..Rounds : t[n] = u[n] /\ t[n] \in Beside(out, names)}
<1>7. 0 \in Q
  <2>1. out \in Beside(out, names)
    BY <1>1 DEF Beside, Same
  <2>2. QED BY <1>4, <1>5, <1>6, <2>1
<1>8. ASSUME NEW n \in 0..Rounds, n < Rounds, n \in Q
      PROVE  n + 1 \in Q
  <2>1. n + 1 \in 1..Rounds /\ (n + 1) - 1 = n
    BY <1>6, <1>8
  <2>2. t[n + 1] = Exec[a][t[n]] /\ u[n + 1] = Exec[b][t[n]]
    BY <1>4, <1>5, <1>8, <2>1
  <2> DEFINE o == t[n]
  <2>3. o \in Beside(out, names)
    BY <1>8
  <2> HIDE DEF o
  <2>4. o \in Outs /\ o.stop = out.stop /\ Same(Names \ names, o.state, out.state)
        /\ o.state \in States
    BY <2>3, OutFields DEF Beside
  <2>5. Exec[a][o] \in Beside(out, names)
    BY <1>1, <1>2, <1>3, <2>3, ExecChanges
  <2>6. Exec[a][o] = Exec[b][o]
    <3>1. CASE o.end = "next"
      <4>1. Sat(Kill(phi, names), o.state)
        BY <1>1, <2>4, KillHolds
      <4>2. o \in Runs(Kill(phi, names))
        BY <1>1, <2>4, <3>1, <4>1 DEF Runs
      <4>3. QED BY <4>2 DEF Equiv, a, b
    <3>2. CASE o.end # "next"
      BY <1>2, <2>4, <3>2, ExecAt
    <3>3. QED BY <3>1, <3>2
  <2>7. QED BY <2>1, <2>2, <2>5, <2>6 DEF o
<1> HIDE DEF Q
<1>9. \A n \in 0..Rounds : n \in Q
  BY <1>6, <1>7, <1>8, RangeInduction
<1>10. Rounds \in Q
  BY <1>6, <1>9
<1>11. QED BY <1>2, <1>4, <1>5, <1>10 DEF Q

-------------------------------------------------------------------------------
(* The frames of the walk.                                                 *)

Frames ==
    [left : Blocks, right : Blocks, phi : SUBSET Facts, arm : Nat,
     candidates : SUBSET Facts]

Written(f) == Head(f.left).assigned \cup Head(f.right).assigned

(* The comparison that a waiting frame has called for.                     *)
Called(f) ==
    IF f.arm = 0
    THEN Frame(Head(f.left).blocks[1], Head(f.right).blocks[1], Kill(f.phi, Written(f)))
    ELSE ArmFrame(f, f.arm)

ArmEquiv(f, j) ==
    Equiv(Head(f.left).blocks[j], Head(f.right).blocks[j],
          f.phi \cup Path(Head(f.left).conditions, j))
ArmStops(f, j) ==
    Stops(Head(f.left).blocks[j], f.phi \cup Path(Head(f.left).conditions, j))

(* A candidate is the negation of the path to an earlier arm that stops.   *)
Excluded(f, fact, n) ==
    \E j \in 1..n :
        /\ fact = NotAll(Path(Head(f.left).conditions, j))
        /\ ~CallsOnPath(Head(f.left).conditions, j)
        /\ ArmStops(f, j)

(* A frame that waits for the call it made.                                *)
Waiting(f) ==
    /\ f.left # <<>> /\ f.right # <<>>
    /\ Agree(Head(f.left), Head(f.right), f.phi)
    /\ \/ Head(f.left).op = "for" /\ f.arm = 0
       \/ /\ Head(f.left).op = "if"
          /\ f.arm \in 1..Len(Head(f.left).blocks)
          /\ \A j \in 1..f.arm - 1 : ArmEquiv(f, j)
          /\ \A fact \in f.candidates : Excluded(f, fact, f.arm - 1)

NewCandidates(f, raised) ==
    IF /\ raised
       /\ ~CallsOnPath(Head(f.left).conditions, f.arm)
       /\ ~ReturnsBeforeRaise(Head(f.left).blocks[f.arm])
    THEN f.candidates \cup {NotAll(Path(Head(f.left).conditions, f.arm))}
    ELSE f.candidates

LEMMA FrameFacts ==
    ASSUME NEW l, NEW r, NEW phi
    PROVE  LET f == Frame(l, r, phi) IN
           /\ f.left = l /\ f.right = r /\ f.phi = phi /\ f.arm = 0 /\ f.candidates = {}
           /\ l \in Blocks /\ r \in Blocks /\ phi \in SUBSET Facts => f \in Frames
BY DEF Frame, Frames

LEMMA FrameParts ==
    ASSUME NEW f \in Frames
    PROVE  /\ f.left \in Blocks /\ f.right \in Blocks /\ f.phi \in SUBSET Facts
           /\ f.arm \in Nat /\ f.candidates \in SUBSET Facts
BY DEF Frames

LEMMA AfterFrame ==
    ASSUME NEW f \in Frames, f.left # <<>>, f.right # <<>>, NEW learned \in SUBSET Facts
    PROVE  LET g == After(f, learned) IN
           /\ g \in Frames /\ g.arm = 0 /\ g.candidates = {}
           /\ g.left = Tail(f.left) /\ g.right = Tail(f.right)
           /\ g.phi = Kill(f.phi, Written(f)) \cup learned
<1>1. Tail(f.left) \in Blocks /\ Tail(f.right) \in Blocks /\ f.phi \in SUBSET Facts
  BY FrameParts, BlockParts
<1>2. Kill(f.phi, Written(f)) \cup learned \in SUBSET Facts
  BY <1>1, KillFacts
<1>3. After(f, learned)
          = Frame(Tail(f.left), Tail(f.right), Kill(f.phi, Written(f)) \cup learned)
  BY DEF After, Written
<1>4. QED BY <1>1, <1>2, <1>3, FrameFacts

(* One comparison of the statements at the front.                          *)
LEMMA AfterCovers ==
    ASSUME NEW f \in Frames, f.left # <<>>, f.right # <<>>, NEW learned \in SUBSET Facts,
           Head(f.left).typed = Head(f.right).typed,
           Head(f.left).typed => Head(f.left).var = Head(f.right).var,
           \A out \in Runs(f.phi) :
               LET mid == One(Head(f.left), out) IN
               mid = One(Head(f.right), out) /\ (mid.end = "next" => Sat(learned, mid.state))
    PROVE  Covers(After(f, learned), f)
<1> DEFINE g == After(f, learned)
           x == Head(f.left)
           y == Head(f.right)
<1>1. /\ g.left = Tail(f.left) /\ g.right = Tail(f.right)
      /\ g.phi = Kill(f.phi, Written(f)) \cup learned
  BY AfterFrame
<1>2. f.left \in Blocks /\ f.right \in Blocks /\ f.phi \in SUBSET Facts
  BY FrameParts
<1>3. x \in Statements /\ y \in Statements
  BY <1>2, BlockParts
<1>4. x.assigned \subseteq Written(f)
  BY DEF Written
<1> HIDE DEF g
<1>5. ASSUME NEW out \in Runs(f.phi)
      PROVE  /\ One(x, out) = One(y, out)
             /\ One(x, out).end = "next" => Sat(g.phi, One(x, out).state)
  <2>1. One(x, out) = One(y, out)
        /\ (One(x, out).end = "next" => Sat(learned, One(x, out).state))
    OBVIOUS
  <2> DEFINE names == Written(f)
             phi == f.phi
  <2>2. x.assigned \subseteq names /\ phi \in SUBSET Facts /\ out \in Runs(phi)
    BY <1>2, <1>4
  <2> HIDE DEF x, y, names, phi
  <2>3. ASSUME One(x, out).end = "next"
        PROVE  Sat(Kill(phi, names) \cup learned, One(x, out).state)
    BY <1>3, <2>1, <2>2, <2>3, AfterHolds
  <2>4. g.phi = Kill(phi, names) \cup learned
    BY <1>1 DEF phi, names
  <2>5. QED BY <2>1, <2>3, <2>4
<1>6. /\ Equiv(Tail(f.left), Tail(f.right), g.phi) => Equiv(f.left, f.right, f.phi)
      /\ Stops(Tail(f.left), g.phi) => Stops(f.left, f.phi)
  BY <1>2, <1>5, StepCovers
<1>7. Covers(g, f)
  BY <1>1, <1>6 DEF Covers
<1>8. QED BY <1>7 DEF g

LEMMA SimpleCovers ==
    ASSUME NEW f \in Frames, f.left # <<>>, f.right # <<>>,
           Head(f.left).op \in {"return", "assign", "draw"},
           Agree(Head(f.left), Head(f.right), f.phi)
    PROVE  LET g == After(f, IF Head(f.left).op = "assign" THEN Learned(Head(f.left)) ELSE {})
           IN g \in Frames /\ g.arm = 0 /\ g.candidates = {} /\ Covers(g, f)
<1> DEFINE x == Head(f.left)
           y == Head(f.right)
           learned == IF x.op = "assign" THEN Learned(x) ELSE {}
<1>1. x \in Statements /\ y \in Statements
  BY FrameParts, BlockParts
<1>2. learned \in SUBSET Facts /\ \A out \in Outs : Sat(learned, One(x, out).state)
  BY <1>1, LearnedHolds DEF Sat
<1>3. /\ x.typed = y.typed /\ (x.typed => x.var = y.var)
      /\ \A out \in Runs(f.phi) : One(x, out) = One(y, out)
  BY <1>1, SimpleSame
<1> HIDE DEF learned
<1>4. \A out \in Runs(f.phi) :
          LET mid == One(x, out) IN
          mid = One(y, out) /\ (mid.end = "next" => Sat(learned, mid.state))
  BY <1>2, <1>3, RunsFacts
<1>5. Covers(After(f, learned), f)
  BY <1>2, <1>3, <1>4, AfterCovers
<1>6. After(f, learned) \in Frames /\ After(f, learned).arm = 0 /\ After(f, learned).candidates = {}
  BY <1>2, AfterFrame
<1>7. QED BY <1>5, <1>6 DEF learned

(* The body of a loop has been compared.                                   *)
LEMMA ForCovers ==
    ASSUME NEW f \in Frames, Waiting(f), f.arm = 0,
           Equiv(Called(f).left, Called(f).right, Called(f).phi)
    PROVE  Covers(After(f, {}), f)
<1> DEFINE x == Head(f.left)
           y == Head(f.right)
<1>1. f.left # <<>> /\ f.right # <<>> /\ Agree(x, y, f.phi) /\ x.op = "for"
  BY DEF Waiting
<1>2. x \in Statements /\ y \in Statements /\ y.op = "for" /\ f.phi \in SUBSET Facts
  BY <1>1, FrameParts, BlockParts DEF Agree
<1>3. Equiv(x.blocks[1], y.blocks[1], Kill(f.phi, Written(f)))
  BY FrameFacts DEF Called
<1>4. x.assigned \subseteq Written(f)
  BY DEF Written
<1>5. ~x.typed /\ ~y.typed /\ x.typed \in BOOLEAN /\ y.typed \in BOOLEAN
  BY <1>1, <1>2, StatementKinds, StatementAssumption
<1>6. \A out \in Runs(f.phi) : One(x, out) = One(y, out)
  BY <1>1, <1>2, <1>3, <1>4, ForSame
<1>7. \A out \in Runs(f.phi) :
          LET mid == One(x, out) IN
          mid = One(y, out) /\ (mid.end = "next" => Sat({}, mid.state))
  BY <1>6 DEF Sat
<1>8. {} \in SUBSET Facts
  OBVIOUS
<1>9. QED BY <1>1, <1>5, <1>7, <1>8, AfterCovers

LEMMA ArmFrameFacts ==
    ASSUME NEW f \in Frames, f.left # <<>>, f.right # <<>>, Head(f.left).op = "if",
           Agree(Head(f.left), Head(f.right), f.phi),
           NEW i \in 1..Len(Head(f.left).blocks)
    PROVE  LET g == ArmFrame(f, i) IN
           /\ g \in Frames /\ g.arm = 0 /\ g.candidates = {}
           /\ g.left = Head(f.left).blocks[i] /\ g.right = Head(f.right).blocks[i]
           /\ g.phi = f.phi \cup Path(Head(f.left).conditions, i)
<1> DEFINE x == Head(f.left)
           y == Head(f.right)
<1>1. x \in Statements /\ y \in Statements /\ f.phi \in SUBSET Facts
  BY FrameParts, BlockParts
<1>2. y.op = "if" /\ Len(y.blocks) = Len(x.blocks)
  BY DEF Agree
<1>3. x.blocks[i] \in Blocks /\ y.blocks[i] \in Blocks
  BY <1>1, <1>2, StatementParts
<1>4. x.conditions \in Seq(Tests) /\ i \in 1..Len(x.conditions) + 1
  BY <1>1, IfShape
<1>5. f.phi \cup Path(x.conditions, i) \in SUBSET Facts
  BY <1>1, <1>4, PathFacts
<1>6. ArmFrame(f, i) = Frame(x.blocks[i], y.blocks[i], f.phi \cup Path(x.conditions, i))
  BY DEF ArmFrame
<1> HIDE DEF x, y
<1>7. QED BY <1>3, <1>5, <1>6, FrameFacts DEF x, y

(* An arm has been compared.                                               *)
LEMMA ArmsKnown ==
    ASSUME NEW f \in Frames, Waiting(f), f.arm # 0, NEW raised \in BOOLEAN,
           Equiv(Called(f).left, Called(f).right, Called(f).phi),
           raised => Stops(Called(f).left, Called(f).phi)
    PROVE  /\ Head(f.left).op = "if" /\ f.arm \in 1..Len(Head(f.left).blocks)
           /\ \A j \in 1..f.arm : ArmEquiv(f, j)
           /\ NewCandidates(f, raised) \in SUBSET Facts
           /\ \A fact \in NewCandidates(f, raised) : Excluded(f, fact, f.arm)
<1> DEFINE x == Head(f.left)
           n == f.arm
           last == NotAll(Path(x.conditions, n))
<1>1. /\ f.left # <<>> /\ f.right # <<>> /\ x.op = "if" /\ n \in 1..Len(x.blocks)
      /\ Agree(x, Head(f.right), f.phi)
      /\ \A j \in 1..n - 1 : ArmEquiv(f, j)
      /\ \A fact \in f.candidates : Excluded(f, fact, n - 1)
  BY DEF Waiting
<1>2. x \in Statements /\ f.candidates \in SUBSET Facts /\ n \in Nat
  BY <1>1, FrameParts, BlockParts
<1>3. Called(f) = ArmFrame(f, n)
  BY DEF Called
<1>4. ArmEquiv(f, n) /\ (raised => ArmStops(f, n))
  <2>1. /\ ArmFrame(f, n).left = x.blocks[n]
        /\ ArmFrame(f, n).right = Head(f.right).blocks[n]
        /\ ArmFrame(f, n).phi = f.phi \cup Path(x.conditions, n)
    BY <1>1, ArmFrameFacts
  <2>2. /\ Equiv(Called(f).left, Called(f).right, Called(f).phi)
        /\ raised => Stops(Called(f).left, Called(f).phi)
    OBVIOUS
  <2>3. /\ Equiv(x.blocks[n], Head(f.right).blocks[n], f.phi \cup Path(x.conditions, n))
        /\ raised => Stops(x.blocks[n], f.phi \cup Path(x.conditions, n))
    BY <1>3, <2>1, <2>2
  <2>4. QED BY <2>3 DEF ArmEquiv, ArmStops
<1>5. \A j \in 1..n : ArmEquiv(f, j)
  <2> SUFFICES ASSUME NEW j \in 1..n PROVE ArmEquiv(f, j)
    OBVIOUS
  <2>1. j = n \/ j \in 1..n - 1
    BY <1>2
  <2>2. QED BY <1>1, <1>4, <2>1
<1>6. x.conditions \in Seq(Tests) /\ n \in 1..Len(x.conditions) + 1
  BY <1>1, <1>2, IfShape
<1>7. last \in Facts
  BY <1>6, PathFacts, NotAllFacts
<1>8. \A fact \in f.candidates : Excluded(f, fact, n)
  BY <1>1, <1>2 DEF Excluded
<1>9. raised /\ ~CallsOnPath(x.conditions, n) => Excluded(f, last, n)
  <2>1. n \in 1..n
    BY <1>1, <1>2
  <2>2. QED BY <1>4, <2>1 DEF Excluded
<1>10. /\ NewCandidates(f, raised) \subseteq f.candidates \cup {last}
       /\ last \notin f.candidates /\ last \in NewCandidates(f, raised) =>
             raised /\ ~CallsOnPath(x.conditions, n)
  BY DEF NewCandidates
<1> HIDE DEF last, n, x
<1>11. NewCandidates(f, raised) \in SUBSET Facts
  BY <1>2, <1>7, <1>10
<1>12. \A fact \in NewCandidates(f, raised) : Excluded(f, fact, n)
  BY <1>8, <1>9, <1>10
<1>13. QED BY <1>1, <1>5, <1>11, <1>12 DEF x, n

LEMMA EnterFacts ==
    ASSUME NEW f \in Frames, f.left # <<>>, f.right # <<>>, Head(f.left).op = "if",
           Agree(Head(f.left), Head(f.right), f.phi),
           NEW i \in 1..Len(Head(f.left).blocks), \A j \in 1..i - 1 : ArmEquiv(f, j),
           NEW known \in SUBSET Facts, \A fact \in known : Excluded(f, fact, i - 1)
    PROVE  LET g == [f EXCEPT !.candidates = known]
               h == [g EXCEPT !.arm = i]
               a == ArmFrame(g, i)
           IN /\ h \in Frames /\ Waiting(h) /\ Covers(h, f)
              /\ a \in Frames /\ a.arm = 0 /\ a.candidates = {} /\ Covers(a, Called(h))
<1> DEFINE g == [f EXCEPT !.candidates = known]
           h == [g EXCEPT !.arm = i]
           a == ArmFrame(g, i)
<1>1. i \in Nat /\ i # 0
  <2>1. Head(f.left) \in Statements
    BY FrameParts, BlockParts
  <2>2. Len(Head(f.left).blocks) \in Nat
    BY <2>1, StatementParts
  <2>3. QED BY <2>2
<1>2. g \in Frames /\ h \in Frames
  BY <1>1 DEF Frames
<1>3. /\ g.left = f.left /\ g.right = f.right /\ g.phi = f.phi
      /\ h.left = f.left /\ h.right = f.right /\ h.phi = f.phi
      /\ h.arm = i /\ h.candidates = known
  BY DEF Frames
<1> HIDE DEF g, h
<1>4. Waiting(h)
  BY <1>3 DEF Waiting, ArmEquiv, ArmStops, Excluded
<1>5. Covers(h, f)
  BY <1>3 DEF Covers
<1>6. a \in Frames /\ a.arm = 0 /\ a.candidates = {}
  BY <1>2, <1>3, ArmFrameFacts
<1>7. Called(h) = a
  BY <1>1, <1>3 DEF Called, ArmFrame
<1> HIDE DEF a
<1>8. Covers(a, Called(h))
  BY <1>7 DEF Covers
<1>9. QED BY <1>2, <1>4, <1>5, <1>6, <1>8 DEF a, g, h

(* All arms have been compared.                                            *)
LEMMA IfCovers ==
    ASSUME NEW f \in Frames, f.left # <<>>, f.right # <<>>, Head(f.left).op = "if",
           Agree(Head(f.left), Head(f.right), f.phi),
           \A j \in 1..Len(Head(f.left).blocks) : ArmEquiv(f, j),
           NEW known \in SUBSET Facts,
           \A fact \in known : Excluded(f, fact, Len(Head(f.left).blocks))
    PROVE  /\ Kill(known, Written(f)) \in SUBSET Facts
           /\ Covers(After(f, Kill(known, Written(f))), f)
<1> DEFINE x == Head(f.left)
           y == Head(f.right)
           names == Written(f)
           learned == Kill(known, names)
<1>1. x \in Statements /\ y \in Statements /\ f.phi \in SUBSET Facts
  BY FrameParts, BlockParts
<1>2. y.op = "if"
  BY DEF Agree
<1>3. DOMAIN x.blocks = 1..Len(x.blocks)
  BY <1>1, StatementParts
<1>4. \A out \in Runs(f.phi) : One(x, out) = One(y, out)
  BY <1>1, <1>3, IfSame DEF ArmEquiv
<1>5. x.assigned \subseteq names
  BY DEF Written
<1>6. ASSUME NEW out \in Runs(f.phi), One(x, out).end = "next"
      PROVE  Sat(learned, One(x, out).state)
  <2>1. out \in Outs /\ out.state \in States
    BY RunsFacts
  <2>2. One(x, out).state \in States
    BY <1>1, <2>1, OneOut, OutFields
  <2>3. Same(Names \ names, One(x, out).state, out.state)
    <3>1. Same(Names \ x.assigned, One(x, out).state, out.state)
      BY <1>1, <2>1, OneChanges
    <3>2. QED BY <1>5, <3>1 DEF Same
  <2>4. ASSUME NEW fact \in known
        PROVE  World(out.state) \in fact.worlds
    <3>1. PICK j \in 1..Len(x.blocks) :
              /\ fact = NotAll(Path(x.conditions, j))
              /\ ~CallsOnPath(x.conditions, j)
              /\ Stops(x.blocks[j], f.phi \cup Path(x.conditions, j))
      BY DEF Excluded, ArmStops
    <3>2. World(out.state) \in NotAll(Path(x.conditions, j)).worlds
      BY <1>1, <1>3, <1>6, <3>1, ArmNotTaken
    <3>3. QED BY <3>1, <3>2
  <2>5. Sat(known, out.state)
    BY <2>4 DEF Sat
  <2>6. QED BY <2>1, <2>2, <2>3, <2>5, KillHolds
<1>7. learned \in SUBSET Facts
  BY KillFacts
<1>8. ~x.typed /\ ~y.typed /\ x.typed \in BOOLEAN /\ y.typed \in BOOLEAN
  BY <1>1, <1>2, StatementKinds, StatementAssumption
<1> HIDE DEF learned
<1>9. \A out \in Runs(f.phi) :
          LET mid == One(x, out) IN
          mid = One(y, out) /\ (mid.end = "next" => Sat(learned, mid.state))
  BY <1>4, <1>6
<1>10. Covers(After(f, learned), f)
  BY <1>7, <1>8, <1>9, AfterCovers
<1>11. QED BY <1>7, <1>10 DEF learned

-------------------------------------------------------------------------------
(* The stack of frames: each covers what the one below it called for.      *)

Linked(fs, goal) ==
    /\ fs \in Seq(Frames)
    /\ fs # <<>> => Covers(fs[1], goal)
    /\ \A k \in 1..Len(fs) - 1 : Waiting(fs[k]) /\ Covers(fs[k + 1], Called(fs[k]))

LEMMA CoversTrans ==
    ASSUME NEW f, NEW g, NEW h, Covers(f, g), Covers(g, h)
    PROVE  Covers(f, h)
BY DEF Covers

LEMMA FrontFacts ==
    ASSUME NEW fs \in Seq(Frames), fs # <<>>
    PROVE  /\ Len(fs) \in Nat \ {0}
           /\ Front(fs) \in Seq(Frames) /\ Len(Front(fs)) = Len(fs) - 1
           /\ \A k \in 1..Len(fs) - 1 : Front(fs)[k] = fs[k]
           /\ Last(fs) = fs[Len(fs)] /\ Last(fs) \in Frames
           /\ \A k \in 1..Len(fs) : fs[k] \in Frames
<1>1. Len(fs) \in Nat \ {0} /\ \A k \in 1..Len(fs) : fs[k] \in Frames
  OBVIOUS
<1>2. Last(fs) = fs[Len(fs)] /\ Last(fs) \in Frames
  BY <1>1 DEF Last
<1>3. Front(fs) = [k \in 1..Len(fs) - 1 |-> fs[k]]
  BY <1>1 DEF Front
<1> DEFINE m == Len(fs) - 1
<1>4. m \in Nat /\ \A k \in 1..m : fs[k] \in Frames
  BY <1>1
<1> HIDE DEF m
<1>5. [k \in 1..m |-> fs[k]] \in Seq(Frames) /\ Len([k \in 1..m |-> fs[k]]) = m
  BY <1>4
<1>6. Front(fs) \in Seq(Frames) /\ Len(Front(fs)) = Len(fs) - 1
  BY <1>3, <1>5 DEF m
<1>7. QED BY <1>1, <1>2, <1>3, <1>6

LEMMA AppendFacts ==
    ASSUME NEW fs \in Seq(Frames), NEW g \in Frames
    PROVE  LET new == Append(fs, g) IN
           /\ new \in Seq(Frames) /\ new # <<>> /\ Len(new) = Len(fs) + 1
           /\ Len(fs) \in Nat
           /\ \A k \in 1..Len(fs) : new[k] = fs[k]
           /\ new[Len(fs) + 1] = g /\ Last(new) = g
BY DEF Last

LEMMA PushFrame ==
    ASSUME NEW fs, NEW goal, Linked(fs, goal), fs # <<>>, Waiting(Last(fs)),
           NEW g \in Frames, Covers(g, Called(Last(fs)))
    PROVE  /\ Linked(Append(fs, g), goal)
           /\ Append(fs, g) # <<>> /\ Last(Append(fs, g)) = g
<1> DEFINE new == Append(fs, g)
           n == Len(fs)
<1>1. /\ fs \in Seq(Frames) /\ Covers(fs[1], goal)
      /\ \A k \in 1..n - 1 : Waiting(fs[k]) /\ Covers(fs[k + 1], Called(fs[k]))
  BY DEF Linked
<1>2. n \in Nat \ {0} /\ Last(fs) = fs[n]
  BY <1>1, FrontFacts
<1>3. /\ new \in Seq(Frames) /\ new # <<>> /\ Len(new) = n + 1
      /\ \A k \in 1..n : new[k] = fs[k]
      /\ new[n + 1] = g /\ Last(new) = g
  BY <1>1, AppendFacts
<1> HIDE DEF new, n
<1>4. Covers(new[1], goal)
  BY <1>1, <1>2, <1>3
<1>5. ASSUME NEW k \in 1..Len(new) - 1
      PROVE  Waiting(new[k]) /\ Covers(new[k + 1], Called(new[k]))
  <2>1. CASE k = n
    BY <1>2, <1>3, <2>1
  <2>2. CASE k # n
    <3>1. k \in 1..n - 1 /\ k \in 1..n /\ k + 1 \in 1..n
      BY <1>2, <1>3, <2>2
    <3>2. new[k] = fs[k] /\ new[k + 1] = fs[k + 1]
      BY <1>3, <3>1
    <3>3. QED BY <1>1, <3>1, <3>2
  <2>3. QED BY <2>1, <2>2
<1>6. Linked(new, goal)
  BY <1>3, <1>4, <1>5 DEF Linked
<1>7. QED BY <1>3, <1>6 DEF new

LEMMA ReplaceFrame ==
    ASSUME NEW fs, NEW goal, Linked(fs, goal), fs # <<>>,
           NEW g \in Frames, Covers(g, Last(fs))
    PROVE  LET new == Append(Front(fs), g) IN
           Linked(new, goal) /\ new # <<>> /\ Last(new) = g
<1> DEFINE front == Front(fs)
           new == Append(front, g)
           n == Len(fs)
<1>1. /\ fs \in Seq(Frames) /\ Covers(fs[1], goal)
      /\ \A k \in 1..n - 1 : Waiting(fs[k]) /\ Covers(fs[k + 1], Called(fs[k]))
  BY DEF Linked
<1>2. /\ n \in Nat \ {0} /\ Last(fs) = fs[n]
      /\ front \in Seq(Frames) /\ Len(front) = n - 1
      /\ \A k \in 1..n - 1 : front[k] = fs[k]
  BY <1>1, FrontFacts
<1> HIDE DEF front
<1>3. /\ new \in Seq(Frames) /\ new # <<>> /\ Len(new) = n
      /\ \A k \in 1..n - 1 : new[k] = fs[k]
      /\ new[n] = g /\ Last(new) = g
  <2>1. /\ new \in Seq(Frames) /\ new # <<>> /\ Len(new) = Len(front) + 1
        /\ \A k \in 1..Len(front) : new[k] = front[k]
        /\ new[Len(front) + 1] = g /\ Last(new) = g
    BY <1>2, AppendFacts
  <2>2. Len(front) + 1 = n
    BY <1>2
  <2> HIDE DEF new
  <2>3. QED BY <1>2, <2>1, <2>2
<1> HIDE DEF new, n
<1>4. Covers(new[1], goal)
  <2>1. CASE n = 1
    BY <1>1, <1>2, <1>3, <2>1, CoversTrans
  <2>2. CASE n # 1
    <3>1. 1 \in 1..n - 1
      BY <1>2, <2>2
    <3>2. QED BY <1>1, <1>3, <3>1
  <2>3. QED BY <2>1, <2>2
<1>5. ASSUME NEW k \in 1..Len(new) - 1
      PROVE  Waiting(new[k]) /\ Covers(new[k + 1], Called(new[k]))
  <2>1. k \in 1..n - 1 /\ new[k] = fs[k]
    BY <1>3
  <2>2. Waiting(fs[k]) /\ Covers(fs[k + 1], Called(fs[k]))
    BY <1>1, <2>1
  <2>3. CASE k = n - 1
    <3>1. k + 1 = n
      BY <1>2, <2>3
    <3>2. Covers(g, Called(fs[k]))
      BY <1>2, <2>2, <3>1, CoversTrans
    <3>3. QED BY <1>3, <2>1, <2>2, <3>1, <3>2
  <2>4. CASE k # n - 1
    <3>1. k + 1 \in 1..n - 1
      BY <1>2, <2>1, <2>4
    <3>2. QED BY <1>3, <2>1, <2>2, <3>1
  <2>5. QED BY <2>3, <2>4
<1>6. Linked(new, goal)
  BY <1>3, <1>4, <1>5 DEF Linked
<1>7. QED BY <1>3, <1>6 DEF new, front

LEMMA PopFrame ==
    ASSUME NEW fs, NEW goal, Linked(fs, goal), Len(fs) > 1
    PROVE  LET c == fs[Len(fs) - 1] IN
           /\ fs # <<>> /\ Linked(Front(fs), goal) /\ Front(fs) # <<>> /\ Last(Front(fs)) = c
           /\ c \in Frames /\ Waiting(c) /\ Covers(Last(fs), Called(c))
<1> DEFINE front == Front(fs)
           n == Len(fs)
<1>1. /\ fs \in Seq(Frames) /\ (fs # <<>> => Covers(fs[1], goal))
      /\ \A k \in 1..n - 1 : Waiting(fs[k]) /\ Covers(fs[k + 1], Called(fs[k]))
  BY DEF Linked
<1>2. fs # <<>> /\ n > 1
  BY <1>1
<1>3. /\ n \in Nat \ {0} /\ Last(fs) = fs[n]
      /\ front \in Seq(Frames) /\ Len(front) = n - 1
      /\ \A k \in 1..n - 1 : front[k] = fs[k]
      /\ \A k \in 1..n : fs[k] \in Frames
  BY <1>1, <1>2, FrontFacts
<1> HIDE DEF front, n
<1>4. front # <<>>
  <2>1. Len(front) # 0
    BY <1>2, <1>3
  <2>2. QED BY <2>1
<1>5. Last(front) = fs[n - 1] /\ fs[n - 1] \in Frames
  <2>1. n - 1 \in 1..n - 1 /\ n - 1 \in 1..n
    BY <1>2, <1>3
  <2>2. Last(front) = front[n - 1]
    BY <1>3 DEF Last
  <2>3. QED BY <1>3, <2>1, <2>2
<1>6. Waiting(fs[n - 1]) /\ Covers(fs[n], Called(fs[n - 1]))
  <2>1. n - 1 \in 1..n - 1 /\ (n - 1) + 1 = n
    BY <1>2, <1>3
  <2>2. Waiting(fs[n - 1]) /\ Covers(fs[(n - 1) + 1], Called(fs[n - 1]))
    BY <1>1, <2>1
  <2>3. QED BY <2>1, <2>2
<1>7. Linked(front, goal)
  <2>1. Covers(front[1], goal)
    <3>1. 1 \in 1..n - 1
      BY <1>2, <1>3
    <3>2. QED BY <1>1, <1>2, <1>3, <3>1
  <2>2. ASSUME NEW k \in 1..Len(front) - 1
        PROVE  Waiting(front[k]) /\ Covers(front[k + 1], Called(front[k]))
    <3>1. k \in 1..n - 1 /\ k + 1 \in 1..n - 1
      BY <1>3
    <3>2. front[k] = fs[k] /\ front[k + 1] = fs[k + 1]
      BY <1>3, <3>1
    <3>3. QED BY <1>1, <3>1, <3>2
  <2>3. QED BY <1>3, <2>1, <2>2 DEF Linked
<1>8. QED BY <1>2, <1>3, <1>4, <1>5, <1>6, <1>7 DEF front, n

LEMMA FirstFrame ==
    ASSUME NEW g \in Frames
    PROVE  Linked(<<g>>, g) /\ <<g>> # <<>> /\ Last(<<g>>) = g
<1>1. <<g>> \in Seq(Frames) /\ Len(<<g>>) = 1 /\ <<g>>[1] = g
  OBVIOUS
<1>2. Covers(g, g)
  BY DEF Covers
<1>3. Linked(<<g>>, g)
  <2>1. \A k \in 1..Len(<<g>>) - 1 : FALSE
    BY <1>1
  <2>2. QED BY <1>1, <1>2, <2>1 DEF Linked
<1>4. QED BY <1>1, <1>3 DEF Last

-------------------------------------------------------------------------------
(* The invariant of the walk: as long as it goes on, each frame covers     *)
(* what it was called for, and methods it has left do the same.            *)

MethodGoal(m) == Frame(pair.left.methods[m], pair.right.methods[m], Phi0(m))
MethodSame(m) ==
    Equiv(pair.left.methods[m], pair.right.methods[m], Phi0(m))

GamesInv ==
    /\ IsGame(pair.left) /\ IsGame(pair.right)
    /\ pair.left.initialized = pair.right.initialized
StackInv ==
    /\ Linked(frames, MethodGoal(method))
    /\ frames # <<>> => Top.arm = 0 /\ Top.candidates = {}
StageInv ==
    /\ method \in 1..2
    /\ verdict \in {"start", "walking", "identical", "error"}
    /\ verdict = "start" => frames = <<>> /\ method = 1
    /\ verdict \in {"walking", "identical"} =>
          frames # <<>> /\ Disciplined(pair.left) /\ Disciplined(pair.right)
    /\ verdict = "error" =>
          (frames = <<>> <=> ~Disciplined(pair.left) \/ ~Disciplined(pair.right))
DoneInv ==
    /\ method = 2 => MethodSame(1)
    /\ verdict = "identical" => method = 2 /\ MethodSame(2)
WalkInv == GamesInv /\ StackInv /\ StageInv /\ DoneInv

LEMMA TopFacts ==
    ASSUME WalkInv, Walking
    PROVE  /\ frames # <<>> /\ Linked(frames, MethodGoal(method))
           /\ Top \in Frames /\ Top.arm = 0 /\ Top.candidates = {} /\ Top = Last(frames)
<1>1. frames # <<>> /\ Linked(frames, MethodGoal(method)) /\ Top.arm = 0 /\ Top.candidates = {}
  BY DEF WalkInv, StageInv, StackInv, Walking
<1>2. frames \in Seq(Frames)
  BY <1>1 DEF Linked
<1>3. QED BY <1>1, <1>2, FrontFacts DEF Top

(* The games do not change.                                                *)
LEMMA SameGames ==
    ASSUME pair' = pair
    PROVE  /\ \A m : MethodGoal(m)' = MethodGoal(m)
           /\ \A m : MethodSame(m)' <=> MethodSame(m)
           /\ GamesInv' <=> GamesInv
           /\ Disciplined(pair.left)' <=> Disciplined(pair.left)
           /\ Disciplined(pair.right)' <=> Disciplined(pair.right)
<1>1. \A m : Phi0(m)' = Phi0(m)
  BY DEF Phi0
<1>2. \A m : MethodGoal(m)' = MethodGoal(m)
  BY <1>1 DEF MethodGoal
<1>3. \A m : MethodSame(m)' <=> MethodSame(m)
  BY <1>1 DEF MethodSame
<1>4. GamesInv' <=> GamesInv
  BY DEF GamesInv
<1>5. /\ Disciplined(pair.left)' <=> Disciplined(pair.left)
      /\ Disciplined(pair.right)' <=> Disciplined(pair.right)
  OBVIOUS
<1>6. QED BY <1>2, <1>3, <1>4, <1>5

(* A step that changes the frames of a method and nothing else.            *)
LEMMA FramesStep ==
    ASSUME WalkInv, Walking, UNCHANGED <<pair, method, verdict>>,
           Linked(frames', MethodGoal(method)), frames' # <<>>,
           Last(frames').arm = 0 /\ Last(frames').candidates = {}
    PROVE  WalkInv'
<1>1. /\ MethodGoal(method)' = MethodGoal(method)
      /\ \A m : MethodSame(m)' <=> MethodSame(m)
      /\ GamesInv' <=> GamesInv
      /\ Disciplined(pair.left)' <=> Disciplined(pair.left)
      /\ Disciplined(pair.right)' <=> Disciplined(pair.right)
  <2>1. MethodGoal(method)' = MethodGoal(method)
    BY DEF MethodGoal, Phi0
  <2>2. QED BY <2>1, SameGames
<1>2. StackInv'
  BY <1>1 DEF StackInv, Top
<1>3. StageInv'
  BY <1>1 DEF WalkInv, StageInv, Walking
<1>4. DoneInv'
  BY <1>1 DEF WalkInv, DoneInv
<1>5. QED BY <1>1, <1>2, <1>3, <1>4 DEF WalkInv

LEMMA MethodGoalFacts ==
    ASSUME GamesInv, NEW m \in 1..2
    PROVE  /\ MethodGoal(m) \in Frames
           /\ MethodFrame(m) = <<MethodGoal(m)>>
           /\ MethodGoal(m).left = pair.left.methods[m]
           /\ MethodGoal(m).right = pair.right.methods[m]
           /\ MethodGoal(m).phi = Phi0(m) /\ MethodGoal(m).arm = 0 /\ MethodGoal(m).candidates = {}
           /\ pair.left.methods[m] \in Blocks /\ pair.right.methods[m] \in Blocks
<1>1. pair.left.methods[m] \in Blocks /\ pair.right.methods[m] \in Blocks
  BY DEF GamesInv, IsGame, Blocks
<1>2. Phi0(m) \in SUBSET Facts
  BY FlagDownFact DEF Phi0
<1>3. MethodFrame(m) = <<MethodGoal(m)>>
  BY DEF MethodFrame, MethodGoal
<1>4. QED BY <1>1, <1>2, <1>3, FrameFacts DEF MethodGoal

LEMMA WalkStarts ==
    Init => WalkInv
<1> SUFFICES ASSUME Init PROVE WalkInv
  OBVIOUS
<1>1. method = 1 /\ frames = <<>> /\ verdict = "start"
  BY DEF Init
<1>2. GamesInv
  BY GameAssumption DEF Init, GamesInv
<1>3. StackInv
  BY <1>1 DEF StackInv, Linked
<1>4. StageInv /\ DoneInv
  BY <1>1 DEF StageInv, DoneInv
<1>5. QED BY <1>2, <1>3, <1>4 DEF WalkInv

LEMMA StartStep ==
    ASSUME WalkInv, Start
    PROVE  WalkInv'
<1>1. /\ verdict = "start" /\ Disciplined(pair.left) /\ Disciplined(pair.right)
      /\ frames' = MethodFrame(1) /\ verdict' = "walking" /\ pair' = pair /\ method' = method
  BY DEF Start
<1>2. method = 1 /\ GamesInv
  BY <1>1 DEF WalkInv, StageInv
<1>3. /\ \A m : MethodGoal(m)' = MethodGoal(m)
      /\ \A m : MethodSame(m)' <=> MethodSame(m)
      /\ GamesInv'
      /\ Disciplined(pair.left)' /\ Disciplined(pair.right)'
  BY <1>1, <1>2, SameGames
<1> DEFINE g == MethodGoal(1)
<1>4. g \in Frames /\ g.arm = 0 /\ g.candidates = {} /\ frames' = <<g>>
  BY <1>1, <1>2, MethodGoalFacts
<1>5. MethodGoal(method)' = g
  BY <1>1, <1>2 DEF MethodGoal, Phi0
<1> HIDE DEF g
<1>6. Linked(frames', g) /\ frames' # <<>> /\ Last(frames') = g
  BY <1>4, FirstFrame
<1>7. StackInv'
  BY <1>4, <1>5, <1>6 DEF StackInv, Top
<1>8. StageInv' /\ DoneInv'
  BY <1>1, <1>2, <1>3, <1>6 DEF StageInv, DoneInv
<1>9. QED BY <1>3, <1>7, <1>8 DEF WalkInv

LEMMA UndisciplinedStep ==
    ASSUME WalkInv, Undisciplined
    PROVE  WalkInv'
<1>1. /\ verdict = "start" /\ ~(Disciplined(pair.left) /\ Disciplined(pair.right))
      /\ verdict' = "error" /\ pair' = pair /\ method' = method /\ frames' = frames
  BY DEF Undisciplined
<1>2. method = 1 /\ frames = <<>>
  BY <1>1 DEF WalkInv, StageInv
<1>3. /\ GamesInv' <=> GamesInv
      /\ Disciplined(pair.left)' <=> Disciplined(pair.left)
      /\ Disciplined(pair.right)' <=> Disciplined(pair.right)
  BY <1>1, SameGames
<1>4. StackInv'
  BY <1>1, <1>2 DEF StackInv, Linked
<1>5. StageInv' /\ DoneInv'
  BY <1>1, <1>2, <1>3 DEF StageInv, DoneInv
<1>6. QED BY <1>3, <1>4, <1>5 DEF WalkInv

LEMMA DifferStep ==
    ASSUME WalkInv, Differ
    PROVE  WalkInv'
<1>1. /\ verdict = "walking" /\ verdict' = "error"
      /\ pair' = pair /\ method' = method /\ frames' = frames
  BY DEF Differ, Ready, Walking
<1>2. /\ MethodGoal(method)' = MethodGoal(method)
      /\ \A m : MethodSame(m)' <=> MethodSame(m)
      /\ GamesInv' <=> GamesInv
      /\ Disciplined(pair.left)' <=> Disciplined(pair.left)
      /\ Disciplined(pair.right)' <=> Disciplined(pair.right)
  <2>1. MethodGoal(method)' = MethodGoal(method)
    BY <1>1 DEF MethodGoal, Phi0
  <2>2. QED BY <1>1, <2>1, SameGames
<1>3. StackInv'
  BY <1>1, <1>2 DEF WalkInv, StackInv, Top
<1>4. StageInv' /\ DoneInv'
  BY <1>1, <1>2 DEF WalkInv, StageInv, DoneInv
<1>5. QED BY <1>2, <1>3, <1>4 DEF WalkInv

LEMMA PruneLeftStep ==
    ASSUME WalkInv, PruneLeft
    PROVE  WalkInv'
<1> DEFINE g == [Top EXCEPT !.left = PruneStep(Top.left, Top.phi)]
<1>1. /\ Walking /\ Prunable(Top.left, Top.phi) /\ UNCHANGED <<pair, method, verdict>>
      /\ frames' = Append(Front(frames), g)
  BY DEF PruneLeft, SetTop, X, PruneStep
<1>2. /\ frames # <<>> /\ Linked(frames, MethodGoal(method))
      /\ Top \in Frames /\ Top.arm = 0 /\ Top.candidates = {} /\ Top = Last(frames)
  BY <1>1, TopFacts
<1>3. /\ PruneStep(Top.left, Top.phi) \in Blocks
      /\ Equiv(PruneStep(Top.left, Top.phi), Top.right, Top.phi)
             => Equiv(Top.left, Top.right, Top.phi)
      /\ Stops(PruneStep(Top.left, Top.phi), Top.phi) => Stops(Top.left, Top.phi)
  BY <1>1, <1>2, FrameParts, PruneRuns, PruneCovers
<1>4. /\ g \in Frames /\ g.arm = 0 /\ g.candidates = {} /\ g.right = Top.right /\ g.phi = Top.phi
      /\ g.left = PruneStep(Top.left, Top.phi)
  BY <1>2, <1>3 DEF Frames
<1> HIDE DEF g
<1>5. Covers(g, Last(frames))
  BY <1>2, <1>3, <1>4 DEF Covers
<1>6. Linked(frames', MethodGoal(method)) /\ frames' # <<>> /\ Last(frames') = g
  BY <1>1, <1>2, <1>4, <1>5, ReplaceFrame
<1>7. QED BY <1>1, <1>4, <1>6, FramesStep

LEMMA PruneRightStep ==
    ASSUME WalkInv, PruneRight
    PROVE  WalkInv'
<1> DEFINE g == [Top EXCEPT !.right = PruneStep(Top.right, Top.phi)]
<1>1. /\ Walking /\ Prunable(Top.right, Top.phi) /\ UNCHANGED <<pair, method, verdict>>
      /\ frames' = Append(Front(frames), g)
  BY DEF PruneRight, SetTop, Y, PruneStep
<1>2. /\ frames # <<>> /\ Linked(frames, MethodGoal(method))
      /\ Top \in Frames /\ Top.arm = 0 /\ Top.candidates = {} /\ Top = Last(frames)
  BY <1>1, TopFacts
<1>3. /\ PruneStep(Top.right, Top.phi) \in Blocks
      /\ Equiv(Top.left, PruneStep(Top.right, Top.phi), Top.phi)
             => Equiv(Top.left, Top.right, Top.phi)
  BY <1>1, <1>2, FrameParts, PruneRuns, PruneCovers
<1>4. /\ g \in Frames /\ g.arm = 0 /\ g.candidates = {} /\ g.left = Top.left /\ g.phi = Top.phi
      /\ g.right = PruneStep(Top.right, Top.phi)
  BY <1>2, <1>3 DEF Frames
<1> HIDE DEF g
<1>5. Covers(g, Last(frames))
  BY <1>2, <1>3, <1>4 DEF Covers
<1>6. Linked(frames', MethodGoal(method)) /\ frames' # <<>> /\ Last(frames') = g
  BY <1>1, <1>2, <1>4, <1>5, ReplaceFrame
<1>7. QED BY <1>1, <1>4, <1>6, FramesStep

LEMMA SimpleStep ==
    ASSUME WalkInv, Simple
    PROVE  WalkInv'
<1> DEFINE g == After(Top, IF X.op = "assign" THEN Learned(X) ELSE {})
<1>1. /\ Walking /\ UNCHANGED <<pair, method, verdict>>
      /\ Top.left # <<>> /\ Top.right # <<>>
      /\ X.op \in {"return", "assign", "draw"} /\ Agree(X, Y, Top.phi)
      /\ frames' = Append(Front(frames), g)
  BY DEF Simple, Both, Ready, SetTop
<1>2. /\ frames # <<>> /\ Linked(frames, MethodGoal(method))
      /\ Top \in Frames /\ Top = Last(frames)
  BY <1>1, TopFacts
<1>3. g \in Frames /\ g.arm = 0 /\ g.candidates = {} /\ Covers(g, Top)
  BY <1>1, <1>2, SimpleCovers DEF X, Y
<1> HIDE DEF g
<1>4. Linked(frames', MethodGoal(method)) /\ frames' # <<>> /\ Last(frames') = g
  BY <1>1, <1>2, <1>3, ReplaceFrame
<1>5. QED BY <1>1, <1>3, <1>4, FramesStep

(* A stack whose top waits in an arm and is called for the next.           *)
LEMMA EnterLinked ==
    ASSUME NEW fs, NEW goal, Linked(fs, goal), fs # <<>>, NEW h \in Frames, NEW a \in Frames,
           Waiting(h), Covers(h, Last(fs)), Covers(a, Called(h))
    PROVE  LET new == Front(fs) \o <<h, a>> IN
           Linked(new, goal) /\ new # <<>> /\ Last(new) = a
<1> DEFINE mid == Append(Front(fs), h)
           new == Front(fs) \o <<h, a>>
<1>1. fs \in Seq(Frames)
  BY DEF Linked
<1>2. Front(fs) \in Seq(Frames)
  BY <1>1, FrontFacts
<1>3. new = Append(mid, a)
  BY <1>2
<1>4. Linked(mid, goal) /\ mid # <<>> /\ Last(mid) = h
  BY ReplaceFrame
<1> HIDE DEF mid
<1>5. Linked(Append(mid, a), goal) /\ Append(mid, a) # <<>> /\ Last(Append(mid, a)) = a
  BY <1>4, PushFrame
<1>6. QED BY <1>3, <1>5

LEMMA EnterIfStep ==
    ASSUME WalkInv, EnterIf
    PROVE  WalkInv'
<1>1. /\ Walking /\ UNCHANGED <<pair, method, verdict>>
      /\ Top.left # <<>> /\ Top.right # <<>> /\ X.op = "if" /\ Agree(X, Y, Top.phi)
      /\ frames' = Front(frames) \o <<[Top EXCEPT !.arm = 1], ArmFrame(Top, 1)>>
  BY DEF EnterIf, Both, Ready, EnterArm
<1>2. /\ frames # <<>> /\ Linked(frames, MethodGoal(method))
      /\ Top \in Frames /\ Top.arm = 0 /\ Top.candidates = {} /\ Top = Last(frames)
  BY <1>1, TopFacts
<1>3. 1 \in 1..Len(X.blocks)
  <2>1. X \in Statements
    BY <1>1, <1>2, FrameParts, BlockParts DEF X
  <2>2. Len(X.blocks) \in Nat /\ Len(X.conditions) \in Nat /\ Len(X.conditions) # 0
        /\ (Len(X.blocks) = Len(X.conditions) \/ Len(X.blocks) = Len(X.conditions) + 1)
    <3>1. X.conditions # <<>> /\ X.conditions \in Seq(Tests)
      BY <1>1, <2>1, KindAssumption, IfShape
    <3>2. QED BY <1>1, <2>1, <3>1, IfShape
  <2>3. QED BY <2>2
<1> DEFINE g == [Top EXCEPT !.candidates = {}]
           h == [g EXCEPT !.arm = 1]
           a == ArmFrame(g, 1)
<1>4. g = Top
  BY <1>2 DEF Frames
<1>5. /\ h \in Frames /\ Waiting(h) /\ Covers(h, Top)
      /\ a \in Frames /\ a.arm = 0 /\ a.candidates = {} /\ Covers(a, Called(h))
  <2>1. \A j \in 1..1 - 1 : ArmEquiv(Top, j)
    OBVIOUS
  <2>2. {} \in SUBSET Facts /\ \A fact \in {} : Excluded(Top, fact, 1 - 1)
    OBVIOUS
  <2>3. QED BY <1>1, <1>2, <1>3, <2>1, <2>2, EnterFacts DEF X, Y
<1>6. frames' = Front(frames) \o <<h, a>>
  BY <1>1, <1>4
<1> HIDE DEF g, h, a
<1>7. Linked(frames', MethodGoal(method)) /\ frames' # <<>> /\ Last(frames') = a
  <2> DEFINE goal == MethodGoal(method)
             new == Front(frames) \o <<h, a>>
  <2>1. Linked(frames, goal) /\ Covers(h, Last(frames))
    BY <1>2, <1>5
  <2> HIDE DEF goal
  <2>2. Linked(new, goal) /\ new # <<>> /\ Last(new) = a
    BY <1>2, <1>5, <2>1, EnterLinked
  <2>3. QED BY <1>6, <2>2 DEF goal
<1>8. QED BY <1>1, <1>5, <1>7, FramesStep

LEMMA EnterForStep ==
    ASSUME WalkInv, EnterFor
    PROVE  WalkInv'
<1> DEFINE g == Called(Top)
<1>1. /\ Walking /\ UNCHANGED <<pair, method, verdict>>
      /\ Top.left # <<>> /\ Top.right # <<>> /\ X.op = "for" /\ Agree(X, Y, Top.phi)
      /\ frames' = Append(frames, Frame(X.blocks[1], Y.blocks[1],
                                        Kill(Top.phi, X.assigned \cup Y.assigned)))
  BY DEF EnterFor, Both, Ready
<1>2. /\ frames # <<>> /\ Linked(frames, MethodGoal(method))
      /\ Top \in Frames /\ Top.arm = 0 /\ Top = Last(frames)
  BY <1>1, TopFacts
<1>3. g = Frame(X.blocks[1], Y.blocks[1], Kill(Top.phi, X.assigned \cup Y.assigned))
  BY <1>2 DEF Called, X, Y, Written
<1>4. X \in Statements /\ Y \in Statements /\ Y.op = "for" /\ Top.phi \in SUBSET Facts
  BY <1>1, <1>2, FrameParts, BlockParts DEF Agree, X, Y
<1>5. X.blocks[1] \in Blocks /\ Y.blocks[1] \in Blocks
  <2>1. Len(X.blocks) = 1 /\ Len(Y.blocks) = 1
    BY <1>1, <1>4, KindAssumption
  <2>2. 1 \in DOMAIN X.blocks /\ 1 \in DOMAIN Y.blocks
    BY <1>4, <2>1, StatementParts
  <2>3. X.blocks[1] \in Blocks
    BY <1>4, <2>2, StatementParts
  <2>4. Y.blocks[1] \in Blocks
    BY <1>4, <2>2, StatementParts
  <2>5. QED BY <2>3, <2>4
<1>6. Kill(Top.phi, X.assigned \cup Y.assigned) \in SUBSET Facts
  BY <1>4, KillFacts
<1>7. g \in Frames /\ g.arm = 0 /\ g.candidates = {}
  <2> DEFINE l == X.blocks[1]
             r == Y.blocks[1]
             phi == Kill(Top.phi, X.assigned \cup Y.assigned)
  <2>1. l \in Blocks /\ r \in Blocks /\ phi \in SUBSET Facts /\ g = Frame(l, r, phi)
    BY <1>3, <1>5, <1>6
  <2> HIDE DEF l, r, phi, g
  <2>2. QED BY <2>1, FrameFacts
<1>8. Waiting(Top)
  BY <1>1, <1>2 DEF Waiting, X, Y
<1>9. Covers(g, Called(Last(frames)))
  BY <1>2 DEF Covers
<1>10. frames' = Append(frames, g)
  BY <1>1, <1>3
<1> HIDE DEF g
<1>11. Linked(frames', MethodGoal(method)) /\ frames' # <<>> /\ Last(frames') = g
  BY <1>2, <1>7, <1>8, <1>9, <1>10, PushFrame
<1>12. QED BY <1>1, <1>7, <1>11, FramesStep

(* The comparison of a block that is at its end has shown what it was      *)
(* called for.                                                             *)
LEMMA FinishedFacts ==
    ASSUME WalkInv, Raised \/ Ended
    PROVE  /\ Walking
           /\ Equiv(Top.left, Top.right, Top.phi)
           /\ Raised => Stops(Top.left, Top.phi)
<1>1. Walking
  BY DEF Raised, Ended, Both, Ready
<1>2. Top \in Frames
  BY <1>1, TopFacts
<1>3. CASE Raised
  <2>1. /\ Top.left # <<>> /\ Top.right # <<>>
        /\ Head(Top.left).op = "raise" /\ Head(Top.right).op = "raise"
    BY <1>3 DEF Raised, Both, X, Y
  <2>2. Top.left \in Blocks /\ Top.right \in Blocks
    BY <1>2, FrameParts
  <2>3. QED BY <1>1, <2>1, <2>2, RaiseCovers
<1>4. CASE Ended /\ ~Raised
  <2>1. Top.left = <<>> /\ Top.right = <<>>
    BY <1>4 DEF Ended
  <2>2. QED BY <1>1, <1>4, <2>1, EndCovers
<1>5. QED BY <1>3, <1>4

(* So the frame that waits for it has learned about the arm it is in.      *)
LEMMA CallerFacts ==
    ASSUME WalkInv, Raised \/ Ended, Len(frames) > 1
    PROVE  LET goal == MethodGoal(method)
               fs == Front(frames)
           IN /\ Walking /\ Linked(fs, goal) /\ fs # <<>> /\ Last(fs) = Caller
              /\ Caller \in Frames /\ Waiting(Caller)
              /\ Equiv(Called(Caller).left, Called(Caller).right, Called(Caller).phi)
              /\ Raised => Stops(Called(Caller).left, Called(Caller).phi)
<1>1. /\ Walking /\ Equiv(Top.left, Top.right, Top.phi)
      /\ Raised => Stops(Top.left, Top.phi)
  BY FinishedFacts
<1>2. frames # <<>> /\ Linked(frames, MethodGoal(method)) /\ Top = Last(frames)
  BY <1>1, TopFacts
<1> DEFINE goal == MethodGoal(method)
<1>3. Linked(frames, goal)
  BY <1>2
<1> HIDE DEF goal
<1>4. /\ Linked(Front(frames), goal) /\ Front(frames) # <<>>
      /\ Last(Front(frames)) = Caller
      /\ Caller \in Frames /\ Waiting(Caller) /\ Covers(Top, Called(Caller))
  BY <1>2, <1>3, PopFrame DEF Caller
<1>5. /\ Equiv(Called(Caller).left, Called(Caller).right, Called(Caller).phi)
      /\ Raised => Stops(Called(Caller).left, Called(Caller).phi)
  BY <1>1, <1>4 DEF Covers
<1>6. QED BY <1>1, <1>4, <1>5 DEF goal

LEMMA CandidatesAre ==
    Candidates = NewCandidates(Caller, Raised)
BY DEF Candidates, NewCandidates

LEMMA NextArmStep ==
    ASSUME WalkInv, NextArm
    PROVE  WalkInv'
<1> DEFINE fs == Front(frames)
           goal == MethodGoal(method)
           i == Caller.arm + 1
           g == [Caller EXCEPT !.candidates = Candidates]
           h == [g EXCEPT !.arm = i]
           a == ArmFrame(g, i)
<1>1. /\ (Raised \/ Ended) /\ Len(frames) > 1
      /\ Caller.arm # 0 /\ Caller.arm < Len(Head(Caller.left).blocks)
      /\ UNCHANGED <<pair, method, verdict>>
  BY DEF NextArm
<1>2. frames' = Front(fs) \o <<h, a>>
  BY DEF NextArm, EnterArm
<1>3. /\ Walking /\ Linked(fs, goal) /\ fs # <<>> /\ Last(fs) = Caller
      /\ Caller \in Frames /\ Waiting(Caller)
      /\ Equiv(Called(Caller).left, Called(Caller).right, Called(Caller).phi)
      /\ Raised => Stops(Called(Caller).left, Called(Caller).phi)
  BY <1>1, CallerFacts DEF NextArm
<1>4. Raised \in BOOLEAN
  BY DEF Raised
<1>5. /\ Head(Caller.left).op = "if" /\ Caller.arm \in 1..Len(Head(Caller.left).blocks)
      /\ \A j \in 1..Caller.arm : ArmEquiv(Caller, j)
      /\ Candidates \in SUBSET Facts
      /\ \A fact \in Candidates : Excluded(Caller, fact, Caller.arm)
  BY <1>1, <1>3, <1>4, ArmsKnown, CandidatesAre
<1>6. /\ Caller.left # <<>> /\ Caller.right # <<>>
      /\ Agree(Head(Caller.left), Head(Caller.right), Caller.phi)
  BY <1>3 DEF Waiting
<1>7. i \in 1..Len(Head(Caller.left).blocks) /\ i - 1 = Caller.arm
  <2>1. Head(Caller.left) \in Statements
    BY <1>3, <1>6, FrameParts, BlockParts
  <2>2. Len(Head(Caller.left).blocks) \in Nat
    BY <2>1, StatementParts
  <2>3. QED BY <1>1, <1>5, <2>2
<1> HIDE DEF i
<1>8. /\ \A j \in 1..i - 1 : ArmEquiv(Caller, j)
      /\ \A fact \in Candidates : Excluded(Caller, fact, i - 1)
  BY <1>5, <1>7
<1>9. /\ h \in Frames /\ Waiting(h) /\ Covers(h, Caller)
      /\ a \in Frames /\ a.arm = 0 /\ a.candidates = {} /\ Covers(a, Called(h))
  <2> DEFINE c == Caller
             known == Candidates
  <2>1. /\ c \in Frames /\ c.left # <<>> /\ c.right # <<>> /\ Head(c.left).op = "if"
        /\ Agree(Head(c.left), Head(c.right), c.phi)
        /\ i \in 1..Len(Head(c.left).blocks) /\ \A j \in 1..i - 1 : ArmEquiv(c, j)
        /\ known \in SUBSET Facts /\ \A fact \in known : Excluded(c, fact, i - 1)
    BY <1>3, <1>5, <1>6, <1>7, <1>8
  <2> HIDE DEF c, known
  <2>2. LET g1 == [c EXCEPT !.candidates = known]
            h1 == [g1 EXCEPT !.arm = i]
            a1 == ArmFrame(g1, i)
        IN /\ h1 \in Frames /\ Waiting(h1) /\ Covers(h1, c)
           /\ a1 \in Frames /\ a1.arm = 0 /\ a1.candidates = {} /\ Covers(a1, Called(h1))
    BY <2>1, EnterFacts
  <2>3. QED BY <2>2 DEF c, known
<1> HIDE DEF g, h, a, fs, goal
<1>10. LET new == Front(fs) \o <<h, a>> IN
       Linked(new, goal) /\ new # <<>> /\ Last(new) = a
  BY <1>3, <1>9, EnterLinked
<1>11. Linked(frames', goal) /\ frames' # <<>> /\ Last(frames') = a
  BY <1>2, <1>10
<1>12. QED BY <1>1, <1>3, <1>9, <1>11, FramesStep DEF goal

LEMMA JoinStep ==
    ASSUME WalkInv, Join
    PROVE  WalkInv'
<1> DEFINE fs == Front(frames)
           goal == MethodGoal(method)
           learned == Kill(Candidates, Written(Caller))
           g == After(Caller, learned)
<1>1. /\ Raised \/ Ended
      /\ Len(frames) > 1
      /\ Caller.arm = Len(Head(Caller.left).blocks)
      /\ UNCHANGED <<pair, method, verdict>>
  BY DEF Join
<1>2. frames' = Append(Front(fs), g)
  BY DEF Join, Written
<1>3. /\ Walking /\ Linked(fs, goal) /\ fs # <<>> /\ Last(fs) = Caller
      /\ Caller \in Frames /\ Waiting(Caller)
      /\ Equiv(Called(Caller).left, Called(Caller).right, Called(Caller).phi)
      /\ Raised => Stops(Called(Caller).left, Called(Caller).phi)
  BY <1>1, CallerFacts
<1>4. /\ Caller.left # <<>> /\ Caller.right # <<>>
      /\ Agree(Head(Caller.left), Head(Caller.right), Caller.phi)
  BY <1>3 DEF Waiting
<1>5. Caller.arm # 0
  <2>1. Head(Caller.left) \in Statements
    BY <1>3, <1>4, FrameParts, BlockParts
  <2>2. Head(Caller.left).op = "for" => Len(Head(Caller.left).blocks) = 1
    BY <2>1, KindAssumption
  <2>3. \/ Head(Caller.left).op = "for" /\ Caller.arm = 0
        \/ Caller.arm \in 1..Len(Head(Caller.left).blocks)
    BY <1>3 DEF Waiting
  <2>4. Len(Head(Caller.left).blocks) \in Nat
    BY <2>1, StatementParts
  <2>5. Caller.arm = Len(Head(Caller.left).blocks)
    BY <1>1
  <2> DEFINE n == Len(Head(Caller.left).blocks)
             isFor == Head(Caller.left).op = "for"
             arm == Caller.arm
  <2>6. /\ isFor => n = 1
        /\ (isFor /\ arm = 0) \/ arm \in 1..n
        /\ n \in Nat /\ arm = n
    BY <2>2, <2>3, <2>4, <2>5
  <2> HIDE DEF n, isFor, arm
  <2>7. arm # 0
    BY <2>6
  <2>8. QED BY <2>7 DEF arm
<1>6. /\ Head(Caller.left).op = "if"
      /\ \A j \in 1..Caller.arm : ArmEquiv(Caller, j)
      /\ Candidates \in SUBSET Facts
      /\ \A fact \in Candidates : Excluded(Caller, fact, Caller.arm)
  <2>1. Raised \in BOOLEAN
    BY DEF Raised
  <2>2. QED BY <1>3, <1>5, <2>1, ArmsKnown, CandidatesAre
<1>7. learned \in SUBSET Facts /\ Covers(g, Caller)
  <2> DEFINE c == Caller
             known == Candidates
  <2>1. /\ c \in Frames /\ c.left # <<>> /\ c.right # <<>> /\ Head(c.left).op = "if"
        /\ Agree(Head(c.left), Head(c.right), c.phi)
        /\ \A j \in 1..Len(Head(c.left).blocks) : ArmEquiv(c, j)
        /\ known \in SUBSET Facts
        /\ \A fact \in known : Excluded(c, fact, Len(Head(c.left).blocks))
    BY <1>1, <1>3, <1>4, <1>6
  <2> HIDE DEF c, known
  <2>2. /\ Kill(known, Written(c)) \in SUBSET Facts
        /\ Covers(After(c, Kill(known, Written(c))), c)
    BY <2>1, IfCovers
  <2>3. QED BY <2>2 DEF c, known
<1>8. g \in Frames /\ g.arm = 0 /\ g.candidates = {}
  BY <1>3, <1>4, <1>7, AfterFrame
<1> HIDE DEF g, fs, goal
<1>9. LET new == Append(Front(fs), g) IN
      Linked(new, goal) /\ new # <<>> /\ Last(new) = g
  BY <1>3, <1>7, <1>8, ReplaceFrame
<1>10. Linked(frames', goal) /\ frames' # <<>> /\ Last(frames') = g
  BY <1>2, <1>9
<1>11. QED BY <1>1, <1>3, <1>8, <1>10, FramesStep DEF goal

LEMMA LeaveForStep ==
    ASSUME WalkInv, LeaveFor
    PROVE  WalkInv'
<1> DEFINE fs == Front(frames)
           goal == MethodGoal(method)
           g == After(Caller, {})
<1>1. /\ Raised \/ Ended
      /\ Len(frames) > 1
      /\ Caller.arm = 0
      /\ UNCHANGED <<pair, method, verdict>>
  BY DEF LeaveFor
<1>2. frames' = Append(Front(fs), g)
  BY DEF LeaveFor
<1>3. /\ Walking /\ Linked(fs, goal) /\ fs # <<>> /\ Last(fs) = Caller
      /\ Caller \in Frames /\ Waiting(Caller)
      /\ Equiv(Called(Caller).left, Called(Caller).right, Called(Caller).phi)
  BY <1>1, CallerFacts
<1>4. Caller.left # <<>> /\ Caller.right # <<>> /\ {} \in SUBSET Facts
  BY <1>3 DEF Waiting
<1>5. Covers(g, Caller)
  BY <1>1, <1>3, ForCovers
<1>6. g \in Frames /\ g.arm = 0 /\ g.candidates = {}
  BY <1>3, <1>4, AfterFrame
<1> HIDE DEF g, fs, goal
<1>7. LET new == Append(Front(fs), g) IN
      Linked(new, goal) /\ new # <<>> /\ Last(new) = g
  BY <1>3, <1>5, <1>6, ReplaceFrame
<1>8. Linked(frames', goal) /\ frames' # <<>> /\ Last(frames') = g
  BY <1>2, <1>7
<1>9. QED BY <1>1, <1>3, <1>6, <1>8, FramesStep DEF goal

LEMMA NextMethodStep ==
    ASSUME WalkInv, NextMethod
    PROVE  WalkInv'
<1>1. (Raised \/ Ended) /\ Len(frames) = 1 /\ pair' = pair
  BY DEF NextMethod
<1>2. Walking /\ Equiv(Top.left, Top.right, Top.phi)
  BY <1>1, FinishedFacts DEF NextMethod
<1>3. /\ frames # <<>> /\ Linked(frames, MethodGoal(method)) /\ Top = Last(frames)
      /\ GamesInv /\ method \in 1..2 /\ verdict = "walking"
      /\ Disciplined(pair.left) /\ Disciplined(pair.right)
  BY <1>2, TopFacts DEF WalkInv, StageInv, Walking
<1>4. Top = frames[1] /\ Covers(Top, MethodGoal(method))
  <2>1. Len(frames) = 1
    BY DEF NextMethod
  <2>2. QED BY <1>3, <2>1 DEF Linked, Last
<1>5. MethodSame(method)
  <2>1. /\ MethodGoal(method).left = pair.left.methods[method]
        /\ MethodGoal(method).right = pair.right.methods[method]
        /\ MethodGoal(method).phi = Phi0(method)
    BY <1>3, MethodGoalFacts
  <2>2. Equiv(MethodGoal(method).left, MethodGoal(method).right, MethodGoal(method).phi)
    BY <1>2, <1>4 DEF Covers
  <2>3. QED BY <2>1, <2>2 DEF MethodSame
<1>6. /\ \A m : MethodGoal(m)' = MethodGoal(m)
      /\ \A m : MethodSame(m)' <=> MethodSame(m)
      /\ GamesInv'
      /\ Disciplined(pair.left)' /\ Disciplined(pair.right)'
  BY <1>1, <1>3, SameGames
<1>7. Len(pair.left.methods) = 2
  BY <1>3 DEF GamesInv, IsGame
<1>8. CASE method < 2
  <2>1. method = 1 /\ method' = 2 /\ frames' = MethodFrame(2) /\ verdict' = verdict
    BY <1>3, <1>7, <1>8 DEF NextMethod
  <2> DEFINE g == MethodGoal(2)
  <2>2. g \in Frames /\ g.arm = 0 /\ g.candidates = {} /\ frames' = <<g>>
    BY <1>3, <2>1, MethodGoalFacts
  <2>3. MethodGoal(method)' = g
    BY <1>1, <2>1 DEF MethodGoal, Phi0
  <2> HIDE DEF g
  <2>4. Linked(frames', g) /\ frames' # <<>> /\ Last(frames') = g
    BY <2>2, FirstFrame
  <2>5. StackInv'
    BY <2>2, <2>3, <2>4 DEF StackInv, Top
  <2>6. StageInv' /\ DoneInv'
    BY <1>3, <1>5, <1>6, <2>1, <2>4 DEF StageInv, DoneInv
  <2>7. QED BY <1>6, <2>5, <2>6 DEF WalkInv
<1>9. CASE ~(method < 2)
  <2>1. method = 2 /\ method' = 2 /\ frames' = frames /\ verdict' = "identical"
    BY <1>3, <1>7, <1>9 DEF NextMethod
  <2>2. MethodGoal(method)' = MethodGoal(method)
    BY <1>1, <2>1 DEF MethodGoal, Phi0
  <2>3. StackInv'
    BY <2>1, <2>2 DEF WalkInv, StackInv, Top
  <2>4. StageInv' /\ DoneInv'
    BY <1>3, <1>5, <1>6, <2>1 DEF WalkInv, StageInv, DoneInv
  <2>5. QED BY <1>6, <2>3, <2>4 DEF WalkInv
<1>10. QED BY <1>8, <1>9

LEMMA HaltedStep ==
    ASSUME WalkInv, UNCHANGED vars
    PROVE  WalkInv'
<1>1. pair' = pair /\ method' = method /\ frames' = frames /\ verdict' = verdict
  BY DEF vars
<1>2. /\ MethodGoal(method)' = MethodGoal(method)
      /\ \A m : MethodSame(m)' <=> MethodSame(m)
      /\ GamesInv' <=> GamesInv
      /\ Disciplined(pair.left)' <=> Disciplined(pair.left)
      /\ Disciplined(pair.right)' <=> Disciplined(pair.right)
  <2>1. MethodGoal(method)' = MethodGoal(method)
    BY <1>1 DEF MethodGoal, Phi0
  <2>2. QED BY <1>1, <2>1, SameGames
<1>3. StackInv'
  BY <1>1, <1>2 DEF WalkInv, StackInv, Top
<1>4. StageInv' /\ DoneInv'
  BY <1>1, <1>2 DEF WalkInv, StageInv, DoneInv
<1>5. QED BY <1>2, <1>3, <1>4 DEF WalkInv

(* The invariant of the walk: every frame covers what it was called for.   *)
THEOREM WalkKeeps == Spec => []WalkInv
<1>1. Init => WalkInv
  BY WalkStarts
<1>2. WalkInv /\ [Next]_vars => WalkInv'
  <2> SUFFICES ASSUME WalkInv, [Next]_vars PROVE WalkInv'
    OBVIOUS
  <2>1. CASE Start
    BY <2>1, StartStep
  <2>2. CASE Undisciplined
    BY <2>2, UndisciplinedStep
  <2>3. CASE PruneLeft
    BY <2>3, PruneLeftStep
  <2>4. CASE PruneRight
    BY <2>4, PruneRightStep
  <2>5. CASE Differ
    BY <2>5, DifferStep
  <2>6. CASE Simple
    BY <2>6, SimpleStep
  <2>7. CASE EnterIf
    BY <2>7, EnterIfStep
  <2>8. CASE EnterFor
    BY <2>8, EnterForStep
  <2>9. CASE NextArm
    BY <2>9, NextArmStep
  <2>10. CASE Join
    BY <2>10, JoinStep
  <2>11. CASE LeaveFor
    BY <2>11, LeaveForStep
  <2>12. CASE NextMethod
    BY <2>12, NextMethodStep
  <2>13. CASE Halted
    BY <2>13, HaltedStep DEF Halted
  <2>14. CASE UNCHANGED vars
    BY <2>14, HaltedStep
  <2>15. QED
    BY <2>1, <2>2, <2>3, <2>4, <2>5, <2>6, <2>7, <2>8, <2>9, <2>10, <2>11, <2>12, <2>13,
       <2>14 DEF Next
<1>3. QED BY <1>1, <1>2, PTL DEF Spec

LEMMA GoingFacts ==
    ASSUME NEW state \in States, NEW coins \in AllCoins, NEW stop \in BOOLEAN
    PROVE  LET out == Going(state, coins, stop) IN
           /\ out \in Outs /\ out.end = "next" /\ out.state = state
           /\ out.stop = stop /\ out.raised = FALSE
<1>1. Nothing \in Answers
  BY DEF Answers
<1>2. QED BY <1>1 DEF Going, Outs

(* upto.py, identical_until_bad: accepted games do the same until the flag *)
(* is raised.                                                              *)
THEOREM AcceptedAreIdentical == Spec => []IdenticalUntilBad
<1>1. WalkInv => IdenticalUntilBad
  <2> SUFFICES ASSUME WalkInv, verdict = "identical",
                      NEW m \in DOMAIN pair.left.methods,
                      NEW state \in EntryStates(m), NEW coins \in AllCoins
               PROVE  Observed(RunMethod(pair.left.methods[m], state, coins, TRUE))
                          = Observed(RunMethod(pair.right.methods[m], state, coins, TRUE))
    BY DEF IdenticalUntilBad
  <2> DEFINE out == Going(state, coins, TRUE)
  <2>1. m \in 1..2
    BY DEF WalkInv, GamesInv, IsGame
  <2>2. MethodSame(m)
    BY <2>1 DEF WalkInv, DoneInv
  <2>3. state \in States /\ state \in Entries
    BY StateAssumption DEF EntryStates
  <2>4. out \in Outs /\ out.end = "next" /\ out.state = state /\ out.stop
    BY <2>3, GoingFacts
  <2>5. Sat(Phi0(m), state)
    <3>1. CASE m = 1 /\ ~pair.left.initialized
      BY <3>1 DEF Phi0, Sat
    <3>2. CASE ~(m = 1 /\ ~pair.left.initialized)
      <4>1. ~state[Flag] /\ Phi0(m) = {FlagDown}
        BY <3>2 DEF EntryStates, Phi0
      <4>2. QED BY <2>3, <4>1, FlagDownFact DEF Sat
    <3>3. QED BY <3>1, <3>2
  <2> HIDE DEF out
  <2>6. out \in Runs(Phi0(m))
    BY <2>4, <2>5 DEF Runs
  <2>7. Exec[pair.left.methods[m]][out] = Exec[pair.right.methods[m]][out]
    BY <2>2, <2>6 DEF MethodSame, Equiv
  <2>8. QED BY <2>7 DEF RunMethod, out
<1>2. QED BY <1>1, WalkKeeps, PTL

(* The walk's stack and verdict, as UptoMeaning states them.               *)
THEOREM WalkTyped == Spec => []TypeOK
<1>1. WalkInv => TypeOK
  <2> SUFFICES ASSUME WalkInv PROVE TypeOK
    OBVIOUS
  <2>1. /\ verdict \in {"start", "walking", "identical", "error"}
        /\ method \in DOMAIN pair.left.methods
    BY DEF WalkInv, StageInv, GamesInv, IsGame
  <2>2. frames = <<>> <=> ~Disciplined(pair.left) \/ ~Disciplined(pair.right)
                              \/ verdict = "start"
    BY DEF WalkInv, StageInv
  <2>3. ASSUME NEW k \in 1..Len(frames) - 1
        PROVE  LET f == frames[k] IN
               /\ f.left # <<>> /\ f.right # <<>>
               /\ Head(f.left).op = Head(f.right).op
               /\ f.arm \in 0..Len(Head(f.left).blocks)
               /\ (f.arm = 0) <=> Head(f.left).op = "for"
               /\ Len(Head(f.left).blocks) = Len(Head(f.right).blocks)
    <3> DEFINE f == frames[k]
               x == Head(f.left)
               y == Head(f.right)
    <3>1. frames \in Seq(Frames) /\ Waiting(f)
      BY DEF WalkInv, StackInv, Linked
    <3>2. f \in Frames
      BY <3>1
    <3>3. f.left # <<>> /\ f.right # <<>> /\ Agree(x, y, f.phi) /\ x.op = y.op
      BY <3>1 DEF Waiting, Agree
    <3>4. x \in Statements /\ y \in Statements
      BY <3>2, <3>3, FrameParts, BlockParts
    <3>5. Len(x.blocks) \in Nat
      BY <3>4, StatementParts
    <3>6. \/ x.op = "for" /\ f.arm = 0
          \/ x.op = "if" /\ f.arm \in 1..Len(x.blocks)
      <4> HIDE DEF f
      <4>1. QED BY <3>1 DEF Waiting
    <3>7. Len(x.blocks) = Len(y.blocks)
      BY <3>3, <3>4, <3>6, KindAssumption DEF Agree
    <3> HIDE DEF f, x, y
    <3>8. f.arm \in 0..Len(x.blocks) /\ ((f.arm = 0) <=> x.op = "for")
      <4>1. CASE x.op = "for" /\ f.arm = 0
        BY <3>5, <4>1
      <4>2. CASE x.op = "if" /\ f.arm \in 1..Len(x.blocks)
        <5>1. f.arm \in 0..Len(x.blocks) /\ f.arm # 0
          BY <3>5, <4>2
        <5>2. x.op # "for"
          BY <4>2
        <5>3. QED BY <5>1, <5>2
      <4>3. QED BY <3>6, <4>1, <4>2
    <3>9. QED BY <3>3, <3>7, <3>8 DEF f, x, y
  <2>4. QED BY <2>1, <2>2, <2>3 DEF TypeOK
<1>2. QED BY <1>1, WalkKeeps, PTL

-------------------------------------------------------------------------------
(* The flag tells whether it was ever raised.                              *)

(* The outcomes where the flag is up if it was raised, or up at the start. *)
Telling(up) == {out \in Outs : out.state[Flag] <=> out.raised \/ up}

(* A statement that neither writes the flag nor returns goes on, and does  *)
(* not raise it.                                                           *)
Quiet == {s \in Statements : ~s.returns /\ Flag \notin s.assigned}
Unraised == {out \in Outs : out.end = "next" /\ out.raised = FALSE}

LEMMA FlagKept ==
    ASSUME NEW s1, NEW s2, NEW name, Same(Names \ {name}, s1, s2), name # Flag
    PROVE  s1[Flag] = s2[Flag]
BY StateAssumption DEF Same

LEMMA PutKeepsFlag ==
    ASSUME NEW s \in Statements, s.op \in {"assign", "draw"}, s.var # Flag,
           NEW out \in Outs
    PROVE  /\ One(s, out) \in Outs /\ One(s, out).end = out.end
           /\ One(s, out).raised = out.raised
           /\ One(s, out).state[Flag] = out.state[Flag]
<1>1. \E used \in Nat, value \in Given(s, out.state) : One(s, out) = Put(s, value, used, out)
  BY OneAssign, OneDraw
<1>2. PICK used \in Nat, value \in Given(s, out.state) : One(s, out) = Put(s, value, used, out)
  BY <1>1
<1>3. /\ One(s, out) \in Outs /\ One(s, out).end = out.end
      /\ One(s, out).raised = out.raised
      /\ Same(Names \ {s.var}, One(s, out).state, out.state)
  <2> DEFINE new == Put(s, value, used, out)
  <2>1. /\ new \in Outs /\ new.end = out.end /\ new.raised = out.raised
        /\ Same(Names \ {s.var}, new.state, out.state)
    BY PutFacts
  <2> HIDE DEF new
  <2>2. QED BY <1>2, <2>1 DEF new
<1>4. QED BY <1>3, FlagKept

LEMMA SimpleTells ==
    ASSUME NEW s \in Statements, s.op \in Simples, ~s.lowers, NEW up \in BOOLEAN,
           NEW out \in Telling(up)
    PROVE  One(s, out) \in Telling(up)
<1>1. out \in Outs /\ (out.state[Flag] <=> out.raised \/ up)
  BY DEF Telling
<1>2. One(s, out) \in Outs
  BY <1>1, OneOut
<1>3. CASE s.op \in {"assign", "draw"}
  <2>1. s.var # Flag
    BY <1>3, StatementKinds
  <2>2. QED BY <1>1, <1>2, <1>3, <2>1, PutKeepsFlag DEF Telling
<1>4. CASE s.op = "raise"
  <2>1. /\ One(s, out).state = Put(s, TRUE, 0, out).state
        /\ One(s, out).raised = TRUE /\ TRUE \in Given(s, out.state)
    BY <1>1, <1>4, OneRaise
  <2>2. s.var = Flag /\ s.index = <<>> /\ 0 \in Nat
    BY <1>4, KindAssumption
  <2>3. Put(s, TRUE, 0, out).state[s.var] = TRUE
    BY <1>1, <1>4, <2>1, <2>2, PutFacts
  <2>4. QED BY <1>2, <2>1, <2>2, <2>3 DEF Telling
<1>5. CASE s.op = "return"
  BY <1>1, <1>2, <1>5, OneReturn DEF Telling
<1>6. QED BY <1>3, <1>4, <1>5 DEF Simples

(* As long as nothing lowers it.                                           *)
LEMMA ExecTells ==
    ASSUME NEW b \in Blocks, ~Lowers(b), NEW up \in BOOLEAN, NEW out \in Telling(up)
    PROVE  Exec[b][out] \in Telling(up)
<1> DEFINE S == {s \in Statements : ~s.lowers}
           P == Telling(up)
<1>1. P \in SUBSET Outs /\ S \in SUBSET Statements
  BY DEF Telling
<1>2. ASSUME NEW c \in Blocks, ~Lowers(c)
      PROVE  c \in Seq(S)
  <2>1. \A k \in 1..Len(c) : c[k] \in S
    BY <1>2 DEF Lowers, Blocks
  <2> HIDE DEF S
  <2>2. QED BY <2>1 DEF Blocks
<1>3. ASSUME NEW s \in S, NEW i \in DOMAIN s.blocks
      PROVE  s.blocks[i] \in Seq(S)
  <2>1. s.blocks[i] \in Blocks /\ ~Lowers(s.blocks[i])
    BY HasBlocks, StatementKinds
  <2> HIDE DEF S
  <2>2. QED BY <1>2, <2>1
<1>4. ASSUME NEW s \in S, NEW o \in P, s.op \in Simples
      PROVE  One(s, o) \in P
  BY <1>4, SimpleTells
<1>5. ASSUME NEW s \in S, NEW o \in P, s.op = "if"
      PROVE  Tested(s, o) \in P
  BY <1>1, <1>5, TestedKeeps DEF Telling
<1>6. ASSUME NEW s \in S, NEW before \in P, NEW o \in P, s.typed
      PROVE  Leave(s, before, o) \in P
  <2>1. s \in Statements /\ before \in Outs /\ o \in Outs
    BY <1>1
  <2>2. s.var # Flag
    BY <1>6, <2>1, StatementKinds DEF Simples
  <2>3. Leave(s, before, o) \in Outs /\ Leave(s, before, o).raised = o.raised
        /\ Same(Names \ {s.var}, Leave(s, before, o).state, o.state)
    BY <2>1, LeaveFacts
  <2>4. QED BY <2>2, <2>3, FlagKept DEF Telling
<1>7. b \in Seq(S)
  BY <1>2
<1> HIDE DEF S, P
<1>8. \A c \in Seq(S), o \in P : Exec[c][o] \in P
  BY <1>1, <1>3, <1>4, <1>5, <1>6, ExecKeeps
<1>9. QED BY <1>7, <1>8 DEF P

LEMMA QuietBlocks ==
    ASSUME NEW s \in Quiet, NEW i \in DOMAIN s.blocks
    PROVE  s.blocks[i] \in Seq(Quiet)
<1>1. s.blocks[i] \in Blocks /\ s.op \in {"if", "for"} /\ s \in Statements
  BY HasBlocks DEF Quiet
<1>2. ~Returns(s.blocks[i]) /\ Assigned(s.blocks[i]) \subseteq s.assigned
  BY <1>1, StatementKinds DEF Quiet
<1>3. \A k \in 1..Len(s.blocks[i]) : s.blocks[i][k] \in Quiet
  BY <1>1, <1>2 DEF Returns, Assigned, Quiet, Blocks
<1>4. QED BY <1>1, <1>3 DEF Blocks

LEMMA QuietGoesOn ==
    ASSUME NEW s \in Quiet, NEW out \in Unraised
    PROVE  One(s, out) \in Unraised
<1> DEFINE P == Unraised
<1>1. s \in Statements /\ out \in Outs /\ out.end = "next" /\ out.raised = FALSE
  BY DEF Quiet, Unraised
<1>2. ASSUME NEW u \in Quiet, NEW o \in P, u.op \in Simples
      PROVE  One(u, o) \in P
  <2>1. u \in Statements /\ o \in Outs /\ ~u.returns /\ Flag \notin u.assigned
        /\ o.end = "next" /\ o.raised = FALSE
    BY DEF Quiet, Unraised
  <2>2. u.op # "return"
    BY <2>1, StatementKinds
  <2>3. u.op # "raise"
    BY <2>1, StatementKinds, KindAssumption
  <2>4. u.op \in {"assign", "draw"} /\ u.var # Flag
    BY <1>2, <2>1, <2>2, <2>3, StatementKinds DEF Simples
  <2>5. One(u, o) \in Outs /\ One(u, o).end = o.end /\ One(u, o).raised = o.raised
    BY <2>1, <2>4, PutKeepsFlag
  <2>6. QED BY <2>1, <2>5 DEF Unraised
<1>3. CASE s.op \in Simples
  BY <1>2, <1>3
<1>4. CASE s.op \in {"if", "for"}
  <2>1. Quiet \in SUBSET Statements /\ P \in SUBSET Outs
    BY DEF Quiet, Unraised
  <2>2. ASSUME NEW u \in Quiet, NEW o \in P, u.op = "if"
        PROVE  Tested(u, o) \in P
    BY <2>1, <2>2, TestedKeeps DEF Unraised
  <2>3. ASSUME NEW u \in Quiet, NEW before \in P, NEW o \in P, u.typed
        PROVE  Leave(u, before, o) \in P
    <3>1. u \in Statements /\ before \in Outs /\ o \in Outs
      BY <2>1
    <3>2. /\ Leave(u, before, o) \in Outs /\ Leave(u, before, o).end = o.end
          /\ Leave(u, before, o).raised = o.raised
      BY <3>1, LeaveFacts
    <3>3. QED BY <3>2 DEF Unraised
  <2>4. <<s>> \in Seq(Quiet)
    OBVIOUS
  <2> HIDE DEF P
  <2>5. \A c \in Seq(Quiet), o \in P : Exec[c][o] \in P
    BY <1>2, <2>1, <2>2, <2>3, QuietBlocks, ExecKeeps
  <2>6. Exec[<<s>>][out] \in P
    BY <2>4, <2>5 DEF P
  <2>7. ~s.typed /\ s.typed \in BOOLEAN
    BY <1>1, <1>4, StatementKinds, StatementAssumption
  <2>8. Exec[<<s>>][out] = One(s, out)
    BY <1>1, <2>7, ExecOne
  <2>9. QED BY <2>6, <2>8 DEF P
<1>5. QED BY <1>1, <1>3, <1>4, StatementKinds DEF Simples

(* A reset takes the flag down and goes on.                                *)
LEMMA ResetTells ==
    ASSUME NEW s \in Statements, IsReset(s), NEW out \in Unraised
    PROVE  /\ One(s, out) \in Unraised /\ ~s.typed
           /\ One(s, out) \in Telling(FALSE)
<1>1. /\ s.op = "assign" /\ s.var = Flag /\ s.index = <<>> /\ ~s.typed /\ s.value = "false"
      /\ out \in Outs /\ out.end = "next" /\ out.raised = FALSE
  BY DEF IsReset, Unraised
<1> DEFINE value == Value(s.value, Used(s), out)
           used == Used(s) + CallsIn(<<s.value>>, 1)
           new == Put(s, value, used, out)
<1>2. One(s, out) = new /\ value \in Given(s, out.state) /\ used \in Nat
  BY <1>1, OneAssign
<1>3. value = FALSE
  <2>1. out.state \in States
    BY <1>1, OutFields
  <2>2. QED BY <1>1, <2>1, ExpressionAssumption, EvalAssumption DEF Value
<1> HIDE DEF value, used
<1>4. /\ new \in Outs /\ new.end = out.end /\ new.raised = out.raised
      /\ new.state[s.var] = value
  BY <1>1, <1>2, PutFacts
<1> HIDE DEF new
<1>5. QED BY <1>1, <1>2, <1>3, <1>4 DEF Unraised, Telling

(* Sanctioned resets after the first statement of a method.                *)
LEMMA SanctionedTail ==
    ASSUME NEW b \in Blocks, b # <<>>, NEW k \in Sanctioned(b), k # 1
    PROVE  k - 1 \in Sanctioned(Tail(b))
<1>1. /\ Head(b) = b[1] /\ Len(b) \in Nat \ {0} /\ Len(Tail(b)) = Len(b) - 1
      /\ \A l \in 1..Len(b) - 1 : Tail(b)[l] = b[l + 1]
      /\ DOMAIN b = 1..Len(b) /\ DOMAIN Tail(b) = 1..Len(b) - 1
  BY BlockParts DEF Blocks
<1>2. /\ k \in DOMAIN b /\ IsReset(b[k])
      /\ \A l \in 1..k - 1 : IsReset(b[l]) \/ (~b[l].returns /\ Flag \notin b[l].assigned)
  BY DEF Sanctioned
<1>3. k - 1 \in DOMAIN Tail(b) /\ Tail(b)[k - 1] = b[k]
  <2>1. k - 1 \in 1..Len(b) - 1 /\ (k - 1) + 1 = k
    BY <1>1, <1>2
  <2>2. QED BY <1>1, <2>1
<1>4. ASSUME NEW l \in 1..(k - 1) - 1
      PROVE  IsReset(Tail(b)[l]) \/ (~Tail(b)[l].returns /\ Flag \notin Tail(b)[l].assigned)
  <2>1. l + 1 \in 1..k - 1 /\ l \in 1..Len(b) - 1
    BY <1>1, <1>2
  <2>2. QED BY <1>1, <1>2, <2>1
<1>5. IsReset(Tail(b)[k - 1])
  BY <1>2, <1>3
<1>6. QED BY <1>3, <1>4, <1>5 DEF Sanctioned

OnlySanctioned(b) == \A k \in DOMAIN b : b[k].lowers => k \in Sanctioned(b)

LEMMA OnlySanctionedTail ==
    ASSUME NEW b \in Blocks, b # <<>>, OnlySanctioned(b)
    PROVE  OnlySanctioned(Tail(b))
<1>1. /\ Len(b) \in Nat \ {0}
      /\ \A l \in 1..Len(b) - 1 : Tail(b)[l] = b[l + 1]
      /\ DOMAIN b = 1..Len(b) /\ DOMAIN Tail(b) = 1..Len(b) - 1
  BY BlockParts DEF Blocks
<1>2. ASSUME NEW k \in DOMAIN Tail(b), Tail(b)[k].lowers
      PROVE  k \in Sanctioned(Tail(b))
  <2>1. k \in 1..Len(b) - 1 /\ k + 1 \in DOMAIN b /\ b[k + 1].lowers
    BY <1>1, <1>2
  <2>2. k + 1 \in Sanctioned(b)
    BY <2>1 DEF OnlySanctioned
  <2>3. k + 1 # 1 /\ (k + 1) - 1 = k
    BY <1>1, <2>1
  <2>4. (k + 1) - 1 \in Sanctioned(Tail(b))
    BY <2>2, <2>3, SanctionedTail
  <2>5. QED BY <2>3, <2>4
<1>3. QED BY <1>2 DEF OnlySanctioned

(* A method that resets the flag before anything else touches it.          *)
LEMMA InitTells ==
    \A b \in Blocks : Sanctioned(b) # {} /\ OnlySanctioned(b) =>
        \A out \in Unraised : Exec[b][out] \in Telling(FALSE)
<1> DEFINE Q == {b \in Blocks : Sanctioned(b) # {} /\ OnlySanctioned(b) =>
                    \A out \in Unraised : Exec[b][out] \in Telling(FALSE)}
<1>1. ASSUME NEW b \in Blocks,
             b # <<>> => /\ Tail(b) \in Q
                         /\ \A i \in DOMAIN Head(b).blocks : Head(b).blocks[i] \in Q
      PROVE  b \in Q
  <2>1. SUFFICES ASSUME Sanctioned(b) # {}, OnlySanctioned(b), NEW out \in Unraised
                 PROVE  Exec[b][out] \in Telling(FALSE)
    OBVIOUS
  <2> DEFINE s == Head(b)
             t == Tail(b)
             mid == One(s, out)
  <2>2. b # <<>>
    BY <2>1 DEF Sanctioned
  <2>3. /\ s \in Statements /\ t \in Blocks /\ s = b[1] /\ 1 \in DOMAIN b
        /\ out \in Outs /\ out.end = "next"
    BY <2>2, BlockParts DEF Blocks, Unraised
  <2>4. Exec[b][out] = Leave(s, out, Exec[t][mid])
    BY <2>2, <2>3, ExecAt
  <2>5. /\ OnlySanctioned(t)
        /\ Sanctioned(t) # {} => \A o \in Unraised : Exec[t][o] \in Telling(FALSE)
        /\ Sanctioned(t) = {} => ~Lowers(t)
    BY <1>1, <2>1, <2>2, OnlySanctionedTail DEF OnlySanctioned, Lowers
  <2>6. mid \in Outs
    BY <2>3, OneOut
  <2>7. CASE IsReset(s)
    <3>1. mid \in Unraised /\ ~s.typed /\ mid \in Telling(FALSE)
      BY <2>3, <2>7, ResetTells
    <3> HIDE DEF s, t, mid
    <3>2. Exec[t][mid] \in Telling(FALSE)
      <4>1. CASE Sanctioned(t) # {}
        BY <2>5, <3>1, <4>1
      <4>2. CASE Sanctioned(t) = {}
        BY <2>3, <2>5, <3>1, <4>2, ExecTells
      <4>3. QED BY <4>1, <4>2
    <3>3. QED BY <2>4, <3>1, <3>2 DEF Leave
  <2>8. CASE ~IsReset(s)
    <3>1. PICK k \in Sanctioned(b) : TRUE
      BY <2>1
    <3>2. k \in 1..Len(b) /\ k # 1 /\ Len(b) \in Nat
      BY <2>3, <2>8 DEF Sanctioned, Blocks
    <3>3. k - 1 \in Sanctioned(t)
      BY <2>2, <3>2, SanctionedTail
    <3>4. ~s.returns /\ Flag \notin s.assigned
      <4>1. 1 \in 1..k - 1
        BY <3>2
      <4>2. QED BY <2>3, <2>8, <4>1 DEF Sanctioned
    <3>5. s \in Quiet
      BY <2>3, <3>4 DEF Quiet
    <3>6. mid \in Unraised
      BY <3>5, QuietGoesOn
    <3>7. s.typed => s.var # Flag
      BY <2>3, <3>4, StatementKinds
    <3> HIDE DEF s, t, mid
    <3>8. Exec[t][mid] \in Telling(FALSE)
      BY <2>5, <3>3, <3>6
    <3> DEFINE last == Exec[t][mid]
    <3>9. last \in Outs /\ (last.state[Flag] <=> last.raised \/ FALSE)
      BY <3>8 DEF Telling
    <3> HIDE DEF last
    <3>10. CASE ~s.typed
      BY <2>4, <3>8, <3>10 DEF Leave
    <3>11. CASE s.typed
      <4>1. /\ Leave(s, out, last) \in Outs /\ Leave(s, out, last).raised = last.raised
            /\ Same(Names \ {s.var}, Leave(s, out, last).state, last.state)
        BY <2>3, <3>9, LeaveFacts
      <4>2. Leave(s, out, last).state[Flag] = last.state[Flag]
        BY <3>7, <3>11, <4>1, FlagKept
      <4>3. Leave(s, out, last) \in Telling(FALSE)
        BY <3>9, <4>1, <4>2 DEF Telling
      <4>4. QED BY <2>4, <4>3 DEF last
    <3>12. QED BY <3>10, <3>11
  <2>9. QED BY <2>7, <2>8
<1>2. \A b \in Blocks : b \in Q
  BY <1>1, BlockInduction
<1>3. QED BY <1>2

(* upto.py, _check_discipline: the flag of an accepted game tells at the   *)
(* end whether it was raised.                                              *)
THEOREM FlagTells == Spec => []FlagTellsBad
<1>1. WalkInv => FlagTellsBad
  <2> SUFFICES ASSUME WalkInv, verdict = "identical", NEW game \in {pair.left, pair.right},
                      NEW m \in DOMAIN game.methods,
                      NEW state \in EntryStates(m) \cup (IF m = 1 THEN {} ELSE Entries),
                      NEW coins \in AllCoins
               PROVE  LET out == RunMethod(game.methods[m], state, coins, FALSE) IN
                      out.state[Flag] <=> out.raised \/ (m # 1 /\ state[Flag])
    BY DEF FlagTellsBad
  <2> DEFINE out == Going(state, coins, FALSE)
             b == game.methods[m]
             up == m # 1 /\ state[Flag]
  <2>1. /\ IsGame(game) /\ Disciplined(game)
        /\ game.initialized = pair.left.initialized
    BY DEF WalkInv, StageInv, GamesInv
  <2>2. m \in 1..2 /\ b \in Blocks
    BY <2>1 DEF IsGame, Blocks
  <2>3. state \in States /\ state[Flag] \in BOOLEAN
    BY StateAssumption DEF EntryStates
  <2>4. out \in Outs /\ out.end = "next" /\ out.state = state /\ out.raised = FALSE
    BY <2>3, GoingFacts
  <2>5. RunMethod(b, state, coins, FALSE) = Exec[b][out]
    BY DEF RunMethod
  <2>6. Exec[b][out] \in Telling(up)
    <3>1. CASE m = 2
      <4>1. ~Lowers(b)
        BY <2>1, <3>1 DEF Disciplined
      <4>2. up \in BOOLEAN /\ (up <=> state[Flag])
        BY <2>3, <3>1
      <4> HIDE DEF out, b, up
      <4>3. out \in Telling(up)
        BY <2>4, <4>2 DEF Telling
      <4>4. QED BY <2>2, <4>1, <4>2, <4>3, ExecTells
    <3>2. CASE m = 1
      <4>1. OnlySanctioned(b) /\ (Sanctioned(b) # {} \/ game.initialized)
        BY <2>1, <3>2 DEF Disciplined, OnlySanctioned
      <4>2. up = FALSE
        BY <3>2
      <4>3. game.initialized => ~state[Flag]
        BY <2>1, <3>2 DEF EntryStates
      <4> HIDE DEF out, b, up
      <4>4. CASE Sanctioned(b) # {}
        <5>1. out \in Unraised
          BY <2>4 DEF Unraised
        <5>2. QED BY <2>2, <4>1, <4>2, <4>4, <5>1, InitTells
      <4>5. CASE Sanctioned(b) = {}
        <5>1. ~Lowers(b)
          BY <4>1, <4>5 DEF OnlySanctioned, Lowers
        <5>2. out \in Telling(FALSE)
          BY <2>4, <4>1, <4>3, <4>5 DEF Telling
        <5>3. QED BY <2>2, <4>2, <5>1, <5>2, ExecTells
      <4>6. QED BY <4>4, <4>5
    <3>3. m = 1 \/ m = 2
      BY <2>2
    <3> HIDE DEF out, b, up
    <3>4. QED BY <3>1, <3>2, <3>3
  <2> HIDE DEF out
  <2>7. Exec[b][out].state[Flag] <=> Exec[b][out].raised \/ up
    BY <2>6 DEF Telling
  <2>8. QED BY <2>5, <2>7
<1>2. QED BY <1>1, WalkKeeps, PTL

-------------------------------------------------------------------------------
(* A game is identical to itself: wherever the walk compares, the two      *)
(* sides are the same, and in between one is being pruned to the other.    *)

(* Pruning takes l to r.                                                   *)
Reaches(l, r, phi) ==
    \E n \in Nat, p \in [Nat -> Blocks] :
        /\ p[0] = l /\ p[n] = r
        /\ \A k \in 0..n - 1 : Prunable(p[k], phi) /\ p[k + 1] = PruneStep(p[k], phi)

Even(f) == f.left = f.right
Near(f) == Reaches(f.left, f.right, f.phi) \/ Reaches(f.right, f.left, f.phi)
AllEven(fs) == \A k \in 1..Len(fs) : Even(fs[k])
Mirrored(fs) == AllEven(Front(fs)) /\ Near(Last(fs))

SelfPair == pair.left = pair.right /\ Disciplined(pair.left)
Selfsame == verdict # "error" /\ (frames # <<>> => Mirrored(frames))
SelfInv == SelfPair => Selfsame

LEMMA ReachesItself ==
    ASSUME NEW l \in Blocks, NEW phi
    PROVE  Reaches(l, l, phi)
<1> DEFINE p == [k \in Nat |-> l]
<1>1. p \in [Nat -> Blocks] /\ p[0] = l
  OBVIOUS
<1>2. \A k \in 0..0 - 1 : Prunable(p[k], phi) /\ p[k + 1] = PruneStep(p[k], phi)
  OBVIOUS
<1>3. 0 \in Nat
  OBVIOUS
<1> HIDE DEF p
<1>4. QED BY <1>1, <1>2, <1>3 DEF Reaches

LEMMA ReachesFrom ==
    ASSUME NEW l, NEW r, NEW phi, Reaches(l, r, phi)
    PROVE  l = r \/ (Prunable(l, phi) /\ Reaches(PruneStep(l, phi), r, phi))
<1>1. PICK n \in Nat, p \in [Nat -> Blocks] :
          /\ p[0] = l /\ p[n] = r
          /\ \A k \in 0..n - 1 : Prunable(p[k], phi) /\ p[k + 1] = PruneStep(p[k], phi)
  BY DEF Reaches
<1>2. CASE n = 0
  BY <1>1, <1>2
<1>3. CASE n # 0
  <2> DEFINE q == [k \in Nat |-> p[k + 1]]
             m == n - 1
  <2>1. 0 \in 0..n - 1 /\ 0 + 1 = 1
    BY <1>3
  <2>2. Prunable(l, phi) /\ p[1] = PruneStep(l, phi)
    BY <1>1, <2>1
  <2>3. q \in [Nat -> Blocks] /\ m \in Nat /\ m + 1 = n
    BY <1>3
  <2>4. q[0] = PruneStep(l, phi) /\ q[m] = r
    BY <1>1, <2>1, <2>2, <2>3
  <2>5. ASSUME NEW k \in 0..m - 1
        PROVE  Prunable(q[k], phi) /\ q[k + 1] = PruneStep(q[k], phi)
    <3>1. k + 1 \in 0..n - 1 /\ k \in Nat /\ k + 1 \in Nat
      BY <2>3
    <3>2. Prunable(p[k + 1], phi) /\ p[(k + 1) + 1] = PruneStep(p[k + 1], phi)
      BY <1>1, <3>1
    <3>3. q[k] = p[k + 1] /\ q[k + 1] = p[(k + 1) + 1]
      BY <3>1
    <3>4. QED BY <3>2, <3>3
  <2> HIDE DEF q, m
  <2>6. Reaches(PruneStep(l, phi), r, phi)
    BY <2>3, <2>4, <2>5 DEF Reaches
  <2>7. QED BY <2>2, <2>6
<1>4. QED BY <1>2, <1>3

LEMMA ReachesOn ==
    ASSUME NEW l, NEW r, NEW phi, Reaches(l, r, phi),
           Prunable(r, phi), PruneStep(r, phi) \in Blocks
    PROVE  Reaches(l, PruneStep(r, phi), phi)
<1>1. PICK n \in Nat, p \in [Nat -> Blocks] :
          /\ p[0] = l /\ p[n] = r
          /\ \A k \in 0..n - 1 : Prunable(p[k], phi) /\ p[k + 1] = PruneStep(p[k], phi)
  BY DEF Reaches
<1> DEFINE last == PruneStep(r, phi)
           q == [k \in Nat |-> IF k <= n THEN p[k] ELSE last]
           m == n + 1
<1>2. q \in [Nat -> Blocks] /\ m \in Nat /\ m - 1 = n
  OBVIOUS
<1>3. q[0] = l /\ q[m] = last
  BY <1>1
<1>4. ASSUME NEW k \in 0..m - 1
      PROVE  Prunable(q[k], phi) /\ q[k + 1] = PruneStep(q[k], phi)
  <2>1. k \in Nat /\ k + 1 \in Nat /\ k <= n /\ q[k] = p[k]
    BY <1>2
  <2>2. CASE k = n
    <3>1. q[k + 1] = last /\ q[k] = r
      BY <1>1, <2>1, <2>2
    <3> HIDE DEF q
    <3>2. QED BY <3>1
  <2>3. CASE k # n
    <3>1. k \in 0..n - 1 /\ k + 1 <= n
      BY <2>1, <2>3
    <3>2. q[k + 1] = p[k + 1]
      BY <2>1, <3>1
    <3> HIDE DEF q
    <3>3. QED BY <1>1, <2>1, <3>1, <3>2
  <2>4. QED BY <2>2, <2>3
<1> HIDE DEF q, m
<1>5. QED BY <1>2, <1>3, <1>4 DEF Reaches

(* One side is pruned once more.                                           *)
LEMMA NearPruned ==
    ASSUME NEW l \in Blocks, NEW r \in Blocks, NEW phi,
           Reaches(l, r, phi) \/ Reaches(r, l, phi),
           Prunable(l, phi), PruneStep(l, phi) \in Blocks
    PROVE  LET new == PruneStep(l, phi) IN Reaches(new, r, phi) \/ Reaches(r, new, phi)
<1>1. CASE l = r
  BY <1>1, ReachesItself, ReachesOn
<1>2. CASE l # r /\ Reaches(l, r, phi)
  BY <1>2, ReachesFrom
<1>3. CASE Reaches(r, l, phi)
  BY <1>3, ReachesOn
<1>4. QED BY <1>1, <1>2, <1>3

LEMMA NearReady ==
    ASSUME NEW f, Near(f), ~Prunable(f.left, f.phi), ~Prunable(f.right, f.phi)
    PROVE  Even(f)
BY ReachesFrom DEF Near, Even

LEMMA EvenNear ==
    ASSUME NEW f \in Frames, Even(f)
    PROVE  Near(f)
<1>1. f.left \in Blocks
  BY FrameParts
<1>2. QED BY <1>1, ReachesItself DEF Near, Even

LEMMA AgreesItself ==
    ASSUME NEW x, NEW phi
    PROVE  Agree(x, x, phi)
<1>1. \A a : LeafEqual(a, a, phi) /\ CondEqual(a, a, phi)
  BY DEF LeafEqual, CondEqual
<1>2. TargetEqual(x, x, phi)
  BY <1>1 DEF TargetEqual
<1>3. QED BY <1>1, <1>2 DEF Agree

(* Stacks.                                                                 *)
LEMMA PushMirrored ==
    ASSUME NEW fs \in Seq(Frames), AllEven(fs), NEW g, Append(fs, g) \in Seq(Frames), Near(g)
    PROVE  Mirrored(Append(fs, g))
<1> DEFINE new == Append(fs, g)
           n == Len(fs)
<1>1. n \in Nat /\ Len(new) = n + 1 /\ new # <<>>
  OBVIOUS
<1>2. new[n + 1] = g /\ \A k \in 1..n : new[k] = fs[k]
  OBVIOUS
<1> HIDE DEF new, n
<1>3. Last(new) = g
  BY <1>1, <1>2 DEF Last
<1>4. Len(Front(new)) = n /\ \A k \in 1..n : Front(new)[k] = new[k]
  <2>1. new \in Seq(Frames)
    BY DEF new
  <2>2. /\ Len(Front(new)) = Len(new) - 1
        /\ \A k \in 1..Len(new) - 1 : Front(new)[k] = new[k]
    BY <1>1, <2>1, FrontFacts
  <2>3. Len(new) - 1 = n
    BY <1>1
  <2>4. QED BY <2>2, <2>3
<1>5. AllEven(Front(new))
  BY <1>2, <1>4 DEF AllEven, n
<1>6. QED BY <1>3, <1>5 DEF Mirrored, new

LEMMA PushEven ==
    ASSUME NEW fs \in Seq(Frames), AllEven(fs), NEW g, Append(fs, g) \in Seq(Frames), Even(g)
    PROVE  Mirrored(Append(fs, g)) /\ AllEven(Append(fs, g))
<1> DEFINE new == Append(fs, g)
           n == Len(fs)
<1>1. n \in Nat /\ Len(new) = n + 1 /\ new \in Seq(Frames)
  OBVIOUS
<1>2. new[n + 1] = g /\ \A k \in 1..n : new[k] = fs[k]
  OBVIOUS
<1> HIDE DEF new, n
<1>3. g \in Frames
  <2>1. n + 1 \in 1..Len(new)
    BY <1>1
  <2>2. QED BY <1>1, <1>2, <2>1
<1>4. Mirrored(new)
  BY <1>3, EvenNear, PushMirrored DEF new
<1>5. ASSUME NEW k \in 1..Len(new)
      PROVE  Even(new[k])
  <2>1. k = n + 1 \/ k \in 1..n
    BY <1>1
  <2>2. \A l \in 1..n : Even(fs[l])
    BY DEF AllEven, n
  <2>3. QED BY <1>2, <2>1, <2>2
<1>6. QED BY <1>4, <1>5 DEF AllEven, new

LEMMA PushTwoEven ==
    ASSUME NEW fs \in Seq(Frames), AllEven(fs), NEW h, NEW a,
           fs \o <<h, a>> \in Seq(Frames), Even(h), Even(a)
    PROVE  Mirrored(fs \o <<h, a>>)
<1> DEFINE new == fs \o <<h, a>>
           n == Len(fs)
<1>1. n \in Nat /\ Len(new) = n + 2 /\ new[n + 1] = h /\ new[n + 2] = a
  OBVIOUS
<1>2. n + 1 \in 1..Len(new) /\ n + 2 \in 1..Len(new)
  BY <1>1
<1>3. h \in Frames /\ a \in Frames
  BY <1>1, <1>2
<1>4. Append(fs, h) \in Seq(Frames) /\ new = Append(Append(fs, h), a)
  BY <1>3
<1>5. AllEven(Append(fs, h))
  BY <1>4, PushEven
<1>6. Mirrored(Append(Append(fs, h), a))
  BY <1>3, <1>4, <1>5, PushEven
<1>7. QED BY <1>4, <1>6

LEMMA PopEven ==
    ASSUME NEW fs \in Seq(Frames), fs # <<>>, AllEven(fs)
    PROVE  AllEven(Front(fs)) /\ Even(Last(fs)) /\ Front(fs) \in Seq(Frames)
<1>1. /\ Len(fs) \in Nat \ {0}
      /\ Front(fs) \in Seq(Frames) /\ Len(Front(fs)) = Len(fs) - 1
      /\ \A k \in 1..Len(fs) - 1 : Front(fs)[k] = fs[k]
      /\ Last(fs) = fs[Len(fs)]
  BY FrontFacts
<1>2. Even(Last(fs))
  BY <1>1 DEF AllEven
<1>3. ASSUME NEW k \in 1..Len(Front(fs))
      PROVE  Even(Front(fs)[k])
  <2>1. k \in 1..Len(fs) - 1 /\ k \in 1..Len(fs)
    BY <1>1
  <2>2. QED BY <1>1, <2>1 DEF AllEven
<1>4. QED BY <1>1, <1>2, <1>3 DEF AllEven

(* What is known in a step of the walk.                                    *)
LEMMA SelfFacts ==
    ASSUME WalkInv, Selfsame, Walking
    PROVE  /\ frames \in Seq(Frames) /\ frames # <<>> /\ Top \in Frames
           /\ Front(frames) \in Seq(Frames) /\ AllEven(Front(frames))
           /\ Near(Top) /\ (Ready => Even(Top))
<1>1. frames # <<>> /\ Top \in Frames /\ Top = Last(frames) /\ frames \in Seq(Frames)
  BY TopFacts DEF Linked
<1>2. AllEven(Front(frames)) /\ Near(Top)
  BY <1>1 DEF Selfsame, Mirrored
<1>3. Front(frames) \in Seq(Frames)
  BY <1>1, FrontFacts
<1>4. Ready => Even(Top)
  BY <1>2, NearReady DEF Ready
<1>5. QED BY <1>1, <1>2, <1>3, <1>4

LEMMA FramesTyped ==
    WalkInv => frames \in Seq(Frames)
BY DEF WalkInv, StackInv, Linked

LEMMA SelfCaller ==
    ASSUME WalkInv, Selfsame, Raised \/ Ended, Len(frames) > 1
    PROVE  /\ Even(Caller) /\ Caller \in Frames
           /\ Front(Front(frames)) \in Seq(Frames) /\ AllEven(Front(Front(frames)))
<1>1. /\ Walking /\ Front(frames) # <<>> /\ Last(Front(frames)) = Caller /\ Caller \in Frames
  BY CallerFacts
<1>2. Front(frames) \in Seq(Frames) /\ AllEven(Front(frames))
  BY <1>1, SelfFacts
<1>3. QED BY <1>1, <1>2, PopEven

LEMMA EvenPieces ==
    ASSUME NEW f, Even(f)
    PROVE  /\ \A learned : Even(After(f, learned))
           /\ \A i : Even(ArmFrame(f, i))
BY DEF Even, After, ArmFrame, Frame

(* The games differ from themselves nowhere.                               *)
LEMMA SelfNeverDiffers ==
    ASSUME WalkInv, Selfsame, Differ
    PROVE  FALSE
<1>1. Ready
  BY DEF Differ
<1>2. Even(Top)
  BY <1>1, SelfFacts DEF Ready
<1>3. Top.left = Top.right /\ X = Y
  BY <1>2 DEF Even, X, Y
<1>4. Agree(X, Y, Top.phi)
  BY <1>3, AgreesItself
<1>5. QED BY <1>3, <1>4 DEF Differ

LEMMA SelfPrunes ==
    ASSUME WalkInv, WalkInv', Selfsame, PruneLeft \/ PruneRight
    PROVE  Selfsame'
<1>1. /\ Walking /\ verdict' = verdict
      /\ \/ /\ Prunable(Top.left, Top.phi)
            /\ frames' = Append(Front(frames),
                                [Top EXCEPT !.left = PruneStep(Top.left, Top.phi)])
         \/ /\ Prunable(Top.right, Top.phi)
            /\ frames' = Append(Front(frames),
                                [Top EXCEPT !.right = PruneStep(Top.right, Top.phi)])
  BY DEF PruneLeft, PruneRight, SetTop, X, Y, PruneStep
<1>2. /\ Top \in Frames /\ Near(Top)
      /\ Front(frames) \in Seq(Frames) /\ AllEven(Front(frames))
  BY <1>1, SelfFacts
<1>3. Top.left \in Blocks /\ Top.right \in Blocks /\ Top.phi \in SUBSET Facts
  BY <1>2, FrameParts
<1>4. PICK g : Near(g) /\ frames' = Append(Front(frames), g)
  <2>1. CASE /\ Prunable(Top.left, Top.phi)
             /\ frames' = Append(Front(frames),
                                 [Top EXCEPT !.left = PruneStep(Top.left, Top.phi)])
    <3> DEFINE new == PruneStep(Top.left, Top.phi)
               g == [Top EXCEPT !.left = new]
    <3>1. new \in Blocks
      BY <1>3, <2>1, PruneRuns
    <3>2. Reaches(new, Top.right, Top.phi) \/ Reaches(Top.right, new, Top.phi)
      BY <1>2, <1>3, <2>1, <3>1, NearPruned DEF Near
    <3>3. g.left = new /\ g.right = Top.right /\ g.phi = Top.phi
      BY <1>2 DEF Frames
    <3> HIDE DEF new, g
    <3>4. Near(g)
      BY <3>2, <3>3 DEF Near
    <3>5. QED BY <2>1, <3>4 DEF g, new
  <2>2. CASE /\ Prunable(Top.right, Top.phi)
             /\ frames' = Append(Front(frames),
                                 [Top EXCEPT !.right = PruneStep(Top.right, Top.phi)])
    <3> DEFINE new == PruneStep(Top.right, Top.phi)
               g == [Top EXCEPT !.right = new]
    <3>1. new \in Blocks
      BY <1>3, <2>2, PruneRuns
    <3>2. Reaches(new, Top.left, Top.phi) \/ Reaches(Top.left, new, Top.phi)
      BY <1>2, <1>3, <2>2, <3>1, NearPruned DEF Near
    <3>3. g.left = Top.left /\ g.right = new /\ g.phi = Top.phi
      BY <1>2 DEF Frames
    <3> HIDE DEF new, g
    <3>4. Near(g)
      BY <3>2, <3>3 DEF Near
    <3>5. QED BY <2>2, <3>4 DEF g, new
  <2>3. QED BY <1>1, <2>1, <2>2
<1>5. frames' \in Seq(Frames)
  BY DEF WalkInv, StackInv, Linked
<1>6. Mirrored(frames')
  BY <1>2, <1>4, <1>5, PushMirrored
<1>7. QED BY <1>1, <1>6 DEF Selfsame, Mirrored, AllEven, Near, Walking

(* A step that puts frames of equal sides on a stack of such frames.       *)
LEMMA SelfPushes ==
    ASSUME WalkInv', verdict' # "error", NEW fs \in Seq(Frames), AllEven(fs),
           \/ \E g : Even(g) /\ frames' = Append(fs, g)
           \/ \E h, a : Even(h) /\ Even(a) /\ frames' = fs \o <<h, a>>
    PROVE  Selfsame'
<1>1. frames' \in Seq(Frames)
  BY DEF WalkInv, StackInv, Linked
<1>2. Mirrored(frames')
  BY <1>1, PushEven, PushTwoEven
<1>3. QED BY <1>2 DEF Selfsame

LEMMA SelfCompares ==
    ASSUME WalkInv, WalkInv', Selfsame, Simple \/ EnterIf \/ EnterFor
    PROVE  Selfsame'
<1>1. Ready /\ Walking /\ verdict' # "error"
  BY DEF Simple, EnterIf, EnterFor, Both, Ready, Walking
<1>2. /\ frames \in Seq(Frames) /\ frames # <<>> /\ Top \in Frames /\ Even(Top)
      /\ Front(frames) \in Seq(Frames) /\ AllEven(Front(frames))
  BY <1>1, SelfFacts
<1>3. CASE Simple
  <2>1. PICK learned : frames' = Append(Front(frames), After(Top, learned))
    BY <1>3 DEF Simple, SetTop
  <2>2. Even(After(Top, learned))
    BY <1>2, EvenPieces
  <2>3. QED BY <1>1, <1>2, <2>1, <2>2, SelfPushes
<1>4. CASE EnterIf
  <2>1. frames' = Front(frames) \o <<[Top EXCEPT !.arm = 1], ArmFrame(Top, 1)>>
    BY <1>4 DEF EnterIf, EnterArm
  <2>2. Even([Top EXCEPT !.arm = 1])
    BY <1>2 DEF Even, Frames
  <2>3. Even(ArmFrame(Top, 1))
    BY <1>2, EvenPieces
  <2>4. QED BY <1>1, <1>2, <2>1, <2>2, <2>3, SelfPushes
<1>5. CASE EnterFor
  <2> DEFINE g == Frame(X.blocks[1], Y.blocks[1], Kill(Top.phi, X.assigned \cup Y.assigned))
  <2>1. frames' = Append(frames, g)
    BY <1>5 DEF EnterFor
  <2>2. X = Y
    BY <1>2 DEF Even, X, Y
  <2>3. Even(g)
    BY <2>2 DEF Even, Frame
  <2> HIDE DEF g
  <2>4. AllEven(frames)
    <3>1. frames = Append(Front(frames), Top)
      <4>1. /\ Len(frames) \in Nat \ {0} /\ Len(Front(frames)) = Len(frames) - 1
            /\ \A k \in 1..Len(frames) - 1 : Front(frames)[k] = frames[k]
            /\ Last(frames) = frames[Len(frames)]
        BY <1>2, FrontFacts
      <4> DEFINE front == Front(frames)
                 n == Len(frames)
      <4>2. Append(front, Top) \in Seq(Frames) /\ front \in Seq(Frames)
        BY <1>2
      <4>3. Len(Append(front, Top)) = n
        BY <4>1, <4>2
      <4>4. \A k \in 1..n : Append(front, Top)[k] = frames[k]
        BY <4>1, <4>2 DEF Top
      <4> HIDE DEF front
      <4>5. Append(front, Top) = frames
        BY <1>2, <4>2, <4>3, <4>4
      <4>6. QED BY <4>5 DEF front
    <3>2. Append(Front(frames), Top) \in Seq(Frames)
      BY <1>2
    <3>3. AllEven(Append(Front(frames), Top))
      BY <1>2, <3>2, PushEven
    <3>4. QED BY <3>1, <3>3
  <2>5. QED BY <1>1, <1>2, <2>1, <2>3, <2>4, SelfPushes
<1>6. QED BY <1>3, <1>4, <1>5

LEMMA SelfReturns ==
    ASSUME WalkInv, WalkInv', Selfsame, NextArm \/ Join \/ LeaveFor
    PROVE  Selfsame'
<1>1. (Raised \/ Ended) /\ Len(frames) > 1
  BY DEF NextArm, Join, LeaveFor
<1> DEFINE fs == Front(Front(frames))
<1>2. /\ Even(Caller) /\ Caller \in Frames
      /\ fs \in Seq(Frames) /\ AllEven(fs)
  BY <1>1, SelfCaller
<1>3. verdict' # "error"
  BY DEF NextArm, Join, LeaveFor, Selfsame
<1> HIDE DEF fs
<1>4. CASE NextArm
  <2> DEFINE g == [Caller EXCEPT !.candidates = Candidates]
             h == [g EXCEPT !.arm = Caller.arm + 1]
             a == ArmFrame(g, Caller.arm + 1)
  <2>1. frames' = fs \o <<h, a>>
    BY <1>4 DEF NextArm, EnterArm, fs
  <2>2. Even(g) /\ Even(h)
    BY <1>2 DEF Even, Frames
  <2> HIDE DEF g, h
  <2>3. Even(a)
    BY <2>2, EvenPieces
  <2> HIDE DEF a
  <2>4. QED BY <1>2, <1>3, <2>1, <2>2, <2>3, SelfPushes
<1>5. CASE Join \/ LeaveFor
  <2>1. PICK learned : frames' = Append(fs, After(Caller, learned))
    BY <1>5 DEF Join, LeaveFor, fs
  <2>2. Even(After(Caller, learned))
    BY <1>2, EvenPieces
  <2>3. QED BY <1>2, <1>3, <2>1, <2>2, SelfPushes
<1>6. QED BY <1>4, <1>5

LEMMA SelfMethods ==
    ASSUME WalkInv, WalkInv', SelfPair, Selfsame, Start \/ NextMethod
    PROVE  Selfsame'
<1>1. verdict' # "error"
  BY DEF Start, NextMethod, Selfsame
<1>2. CASE frames' = frames
  BY <1>1, <1>2 DEF Selfsame, Mirrored, AllEven, Near
<1>3. CASE \E m : frames' = MethodFrame(m)
  <2>1. PICK m : frames' = MethodFrame(m)
    BY <1>3
  <2> DEFINE g == Frame(pair.left.methods[m], pair.right.methods[m], Phi0(m))
  <2>2. Even(g)
    BY DEF SelfPair, Even, Frame
  <2>3. frames' = <<g>>
    BY <2>1 DEF MethodFrame
  <2> HIDE DEF g
  <2>4. <<>> \in Seq(Frames) /\ AllEven(<<>>) /\ <<g>> = Append(<<>>, g)
    BY DEF AllEven
  <2>5. QED BY <1>1, <2>2, <2>3, <2>4, SelfPushes
<1>4. QED BY <1>2, <1>3 DEF Start, NextMethod

(* upto.py: identical_until_bad accepts a game against itself.             *)
THEOREM SelfAccepted == Spec => []AcceptsItself
<1>1. Init => SelfInv
  BY DEF Init, SelfInv, Selfsame
<1>2. WalkInv /\ WalkInv' /\ SelfInv /\ [Next]_vars => SelfInv'
  <2> SUFFICES ASSUME WalkInv, WalkInv', SelfInv, [Next]_vars, SelfPair' PROVE Selfsame'
    BY DEF SelfInv
  <2>1. pair' = pair
    BY DEF Next, vars, Start, Undisciplined, PruneLeft, PruneRight, Differ, Simple, EnterIf,
           EnterFor, NextArm, Join, LeaveFor, NextMethod, Halted
  <2>2. SelfPair /\ Selfsame
    BY <2>1 DEF SelfPair, SelfInv
  <2>3. CASE Start \/ NextMethod
    BY <2>2, <2>3, SelfMethods
  <2>4. CASE Undisciplined
    BY <2>2, <2>4 DEF Undisciplined, SelfPair
  <2>5. CASE PruneLeft \/ PruneRight
    BY <2>2, <2>5, SelfPrunes
  <2>6. CASE Differ
    BY <2>2, <2>6, SelfNeverDiffers
  <2>7. CASE Simple \/ EnterIf \/ EnterFor
    BY <2>2, <2>7, SelfCompares
  <2>8. CASE NextArm \/ Join \/ LeaveFor
    BY <2>2, <2>8, SelfReturns
  <2>9. CASE UNCHANGED vars
    BY <2>2, <2>9 DEF vars, Selfsame, Mirrored, AllEven, Near
  <2>10. QED
    BY <2>3, <2>4, <2>5, <2>6, <2>7, <2>8, <2>9 DEF Next, Halted
<1>3. SelfInv => AcceptsItself
  BY DEF SelfInv, SelfPair, Selfsame, AcceptsItself
<1>4. QED BY <1>1, <1>2, <1>3, WalkKeeps, PTL DEF Spec
=============================================================================
