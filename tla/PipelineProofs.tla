----------------------------- MODULE PipelineProofs -----------------------------
(***************************************************************************)
(* run_pipeline computes what the plain loop computes, for every list of   *)
(* passes, every loose equality and every limit on the sweeps.             *)
(***************************************************************************)
EXTENDS Pipeline, RecursiveFunctions, FiniteSetTheorems

(* Objects are never changed: one identity, one tree.                      *)
SameObject(o, p) == o.id = p.id => o.tree = p.tree

(* A pass that declined an object would decline that tree again.           *)
DeclineSound(i, d) ==
    /\ SameObject(d.game, game) /\ SameObject(d.game, new_game)
    /\ Steps[i][<<d.game.tree, d.pinned>>] = <<d.game.tree, d.pinned>>

DeclinesSound ==
    /\ SameObject(game, new_game)
    /\ pc = "pass" =>
          \A i \in DOMAIN Steps :
              declined[i] # NotDeclined => DeclineSound(i, declined[i])

IInv == TypeOK /\ DeclinesSound

(* The list of passes of either side is as long as the other's.            *)
LEMMA StepsTypes ==
    ASSUME NEW h \in Hops, NEW s \in Sides
    PROVE  /\ PipelineOf(h, s) \in Seq([Inputs -> Inputs])
           /\ Len(PipelineOf(h, s)) = Len(h.core) + 1
           /\ DOMAIN PipelineOf(h, s) = 1..(Len(h.core) + 1)
           /\ Len(h.core) \in Nat
           /\ h.games[s] \in Trees
  BY HopsAssumption DEF PipelineOf, Sides

LEMMA StepsNow ==
    ASSUME TypeOK
    PROVE  /\ Steps \in Seq([Inputs -> Inputs])
           /\ Len(Steps) \in Nat
           /\ DOMAIN Steps = 1..Len(Steps)
           /\ Len(Steps) = Len(hop.core) + 1
  BY StepsTypes DEF TypeOK, Steps

(* A new object's identity is not that of any object still referred to:    *)
(* there are fewer of those than identities.                               *)
LEMMA NewIdentityFree ==
    ASSUME TypeOK
    PROVE  NewIdentity \in Nat \ {0} /\ NewIdentity \notin InUse
<1> DEFINE n == Len(Steps)
           ids == [i \in 1..(n + 2) |->
                     IF i = n + 1 THEN game.id
                     ELSE IF i = n + 2 \/ i \notin Held THEN new_game.id
                     ELSE declined[i].game.id]
<1>1. n \in Nat /\ DOMAIN declined = 1..n
  BY StepsNow DEF TypeOK
<1>2. ids \in Surjection(1..(n + 2), InUse)
  <2>1. Held \subseteq 1..n
    BY <1>1 DEF Held
  <2>2. \A i \in 1..(n + 2) : ids[i] \in InUse
    BY DEF InUse
  <2>3. ids[n + 1] = game.id /\ ids[n + 2] = new_game.id
    BY <1>1
  <2>4. \A i \in Held : ids[i] = declined[i].game.id /\ i \in 1..(n + 2)
    BY <1>1, <2>1
  <2>5. ASSUME NEW x \in InUse PROVE \E i \in 1..(n + 2) : ids[i] = x
    <3>1. CASE x = game.id
      BY <1>1, <2>3, <3>1
    <3>2. CASE x = new_game.id
      BY <1>1, <2>3, <3>2
    <3>3. CASE \E i \in Held : x = declined[i].game.id
      BY <2>4, <3>3
    <3>4. QED BY <2>5, <3>1, <3>2, <3>3 DEF InUse
  <2> HIDE DEF ids
  <2>6. ids \in [1..(n + 2) -> InUse]
    BY <2>2 DEF ids
  <2>7. QED BY <2>5, <2>6 DEF Surjection
<1>3. IsFiniteSet(InUse) /\ Cardinality(InUse) <= n + 2
  <2>1. IsFiniteSet(1..(n + 2)) /\ Cardinality(1..(n + 2)) = n + 2
    BY <1>1, FS_Interval
  <2> HIDE DEF ids
  <2>2. QED BY <1>2, <2>1, FS_Surjection
<1>4. IsFiniteSet(1..(n + 3)) /\ Cardinality(1..(n + 3)) = n + 3
  BY <1>1, FS_Interval
<1>5. ~(1..(n + 3) \subseteq InUse)
  <2>1. SUFFICES ASSUME 1..(n + 3) \subseteq InUse PROVE FALSE
    OBVIOUS
  <2>2. Cardinality(1..(n + 3)) <= Cardinality(InUse)
    BY <1>3, <2>1, FS_Subset
  <2>3. Cardinality(InUse) \in Nat
    BY <1>3, FS_CardinalityType
  <2>4. QED BY <1>1, <1>3, <1>4, <2>2, <2>3
<1>6. \E k \in 1..Len(Steps) + 3 : k \notin InUse
  BY <1>5
<1>7. NewIdentity \in 1..Len(Steps) + 3 /\ NewIdentity \notin InUse
  BY <1>6 DEF NewIdentity
<1>8. QED BY <1>1, <1>7

(* What a pass returns is a tree and a set of pinned fields.               *)
LEMMA ResultTypes ==
    ASSUME TypeOK, index \in DOMAIN Steps
    PROVE  Result[1] \in Trees /\ Result[2] \subseteq Fields
           /\ Result = <<Result[1], Result[2]>>
<1>1. <<new_game.tree, pinned_fields>> \in Inputs
  BY DEF TypeOK, Objects, Inputs
<1>2. Steps[index] \in [Inputs -> Inputs]
  <2>1. index \in 1..Len(Steps) /\ Steps \in Seq([Inputs -> Inputs])
    BY StepsNow
  <2> HIDE DEF Steps
  <2>2. QED BY <2>1
<1>3. Result \in Inputs
  BY <1>1, <1>2 DEF Result
<1>4. QED BY <1>3 DEF Inputs

-------------------------------------------------------------------------------
LEMMA InitInv == Init => IInv
<1> SUFFICES ASSUME Init PROVE IInv
  OBVIOUS
<1>1. hop \in Hops /\ side \in Sides /\ hop.games[1] \in Trees
  BY StepsTypes DEF Init, Sides
<1>2. Len(Steps) \in Nat /\ DOMAIN Steps = 1..Len(Steps)
  BY <1>1, StepsTypes DEF Steps
<1>3. declined \in [DOMAIN Steps -> Declines \cup {NotDeclined}]
  BY DEF Init, NoneDeclined
<1>4. game \in Objects /\ new_game \in Objects
  BY <1>1 DEF Init, Object, Objects
<1>5. TypeOK
  <2>1. iteration \in 1..MaxIterations /\ index \in 1..Len(Steps) + 1
    BY <1>2, LimitAssumption DEF Init
  <2>2. pc = "start"
    BY DEF Init
  <2>3. valid \in BOOLEAN
    BY Zenon DEF Init
  <2>4. pinned_fields \subseteq Fields
    BY DEF Init
  <2>5. {game, new_game} \subseteq Objects
    BY <1>4
  <2>6. QED BY <1>1, <1>3, <2>1, <2>2, <2>3, <2>4, <2>5 DEF TypeOK
<1>6. DeclinesSound
  BY DEF Init, DeclinesSound, Object, SameObject
<1>7. QED BY <1>5, <1>6 DEF IInv

LEMMA StartInv == ASSUME IInv, StartGame PROVE IInv'
<1>1. hop \in Hops /\ side \in Sides /\ hop.games[side] \in Trees
  BY StepsTypes DEF IInv, TypeOK
<1>2. UNCHANGED <<hop, side>> /\ Steps' = Steps
  BY DEF StartGame, Steps
<1>3. Len(Steps) \in Nat /\ DOMAIN Steps = 1..Len(Steps)
  BY StepsNow DEF IInv
<1>4. declined' = [i \in DOMAIN Steps |-> NotDeclined]
  BY DEF StartGame, NoneDeclined
<1>5. /\ game' = Object(1, hop.games[side]) /\ new_game' = game'
      /\ game' \in Objects
  BY <1>1 DEF StartGame, IInv, TypeOK, Object, Objects
<1>6. TypeOK'
  BY <1>1, <1>2, <1>3, <1>4, <1>5, LimitAssumption DEF StartGame, IInv, TypeOK
<1>7. DeclinesSound'
  BY <1>2, <1>4, <1>5 DEF DeclinesSound, SameObject, Object
<1>8. QED BY <1>6, <1>7 DEF IInv

LEMMA SkipInv == ASSUME IInv, Skip PROVE IInv'
<1>1. UNCHANGED <<hop, side, game, new_game, declined, pc>> /\ Steps' = Steps
  BY DEF Skip, Steps
<1>2. TypeOK'
  BY <1>1, StepsNow DEF Skip, IInv, TypeOK
<1>3. DeclinesSound'
  BY <1>1 DEF IInv, DeclinesSound, DeclineSound, SameObject
<1>4. QED BY <1>2, <1>3 DEF IInv

LEMMA UnchangedInv == ASSUME IInv, LeaveUnchanged PROVE IInv'
<1>1. /\ UNCHANGED <<hop, side, game, new_game, pc>> /\ Steps' = Steps
      /\ pc = "pass" /\ index \in DOMAIN Steps
  BY DEF LeaveUnchanged, Applies, Steps
<1>2. Result[1] \in Trees /\ Result[2] \subseteq Fields /\ Result = <<Result[1], Result[2]>>
  BY <1>1, ResultTypes DEF IInv
<1> DEFINE entry == IF Result[2] = pinned_fields
                    THEN [game |-> new_game, pinned |-> pinned_fields]
                    ELSE NotDeclined
<1>3. declined' = [declined EXCEPT ![index] = entry] /\ pinned_fields' = Result[2]
  BY DEF LeaveUnchanged
<1>4. entry \in Declines \cup {NotDeclined}
  BY DEF Declines, IInv, TypeOK
<1>5. declined' \in [DOMAIN Steps -> Declines \cup {NotDeclined}]
  BY <1>1, <1>3, <1>4 DEF IInv, TypeOK
<1>6. TypeOK'
  BY <1>1, <1>2, <1>3, <1>5, StepsNow DEF LeaveUnchanged, IInv, TypeOK
<1>7. ASSUME NEW i \in DOMAIN Steps, declined'[i] # NotDeclined
      PROVE  DeclineSound(i, declined[i])'
  <2>1. CASE i # index
    <3>1. declined'[i] = declined[i]
      BY <1>3, <2>1 DEF IInv, TypeOK
    <3>2. DeclineSound(i, declined[i])
      BY <1>1, <1>7, <3>1 DEF IInv, DeclinesSound
    <3>3. QED BY <1>1, <3>1, <3>2 DEF DeclineSound, SameObject
  <2>2. CASE i = index
    <3>1. declined'[i] = entry
      BY <1>1, <1>3, <2>2 DEF IInv, TypeOK
    <3>2. /\ Result[2] = pinned_fields
          /\ declined'[i] = [game |-> new_game, pinned |-> pinned_fields]
      BY <1>7, <3>1
    <3>3. Steps[i][<<new_game.tree, pinned_fields>>] = <<new_game.tree, pinned_fields>>
      BY <1>2, <2>2, <3>2 DEF LeaveUnchanged, Result
    <3>4. QED BY <1>1, <3>2, <3>3 DEF DeclineSound, SameObject, IInv, DeclinesSound
  <2>3. QED BY <2>1, <2>2
<1>8. DeclinesSound'
  BY <1>1, <1>7 DEF DeclinesSound, SameObject, IInv
<1>9. QED BY <1>6, <1>8 DEF IInv

LEMMA RewriteInv == ASSUME IInv, Rewrite PROVE IInv'
<1>1. /\ UNCHANGED <<hop, side, game, pc>> /\ Steps' = Steps
      /\ pc = "pass" /\ index \in DOMAIN Steps
  BY DEF Rewrite, Applies, Steps
<1>2. Result[1] \in Trees /\ Result[2] \subseteq Fields
  BY <1>1, ResultTypes DEF IInv
<1>3. /\ new_game' = [id |-> NewIdentity, tree |-> Result[1]]
      /\ declined' = [declined EXCEPT ![index] = NotDeclined]
      /\ pinned_fields' = Result[2]
      /\ NewIdentity \in Nat \ {0} /\ NewIdentity \notin InUse
  BY NewIdentityFree DEF Rewrite, Object, IInv
<1>4. TypeOK'
  <2>1. new_game' \in Objects
    BY <1>2, <1>3 DEF Objects
  <2>2. declined' \in [DOMAIN Steps -> Declines \cup {NotDeclined}]
    BY <1>1, <1>3 DEF IInv, TypeOK
  <2>3. QED BY <1>1, <1>2, <1>3, <2>1, <2>2, StepsNow DEF Rewrite, IInv, TypeOK
<1>5. ASSUME NEW i \in DOMAIN Steps, declined'[i] # NotDeclined
      PROVE  DeclineSound(i, declined[i])'
  <2>1. declined'[i] = declined[i] /\ declined[i] \in Declines
    BY <1>1, <1>3, <1>5 DEF IInv, TypeOK
  <2>2. DeclineSound(i, declined[i])
    BY <1>1, <1>5, <2>1 DEF IInv, DeclinesSound
  <2>3. declined[i].game.id # NewIdentity
    BY <1>1, <1>3, <1>5, <2>1 DEF InUse, Held, IInv, TypeOK
  <2>4. QED BY <1>1, <1>3, <2>1, <2>2, <2>3 DEF DeclineSound, SameObject
<1>6. game.id # NewIdentity
  BY <1>3 DEF InUse
<1>7. DeclinesSound'
  BY <1>1, <1>3, <1>5, <1>6 DEF DeclinesSound, SameObject, IInv
<1>8. QED BY <1>4, <1>7 DEF IInv

LEMMA SweepInv == ASSUME IInv, Converged \/ NextSweep PROVE IInv'
<1>1. /\ UNCHANGED <<hop, side, new_game, declined, pinned_fields>>
      /\ Steps' = Steps /\ pc = "pass" /\ game' \in {game, new_game}
      /\ pc' \in {"pass", "standardize"}
  BY DEF Converged, NextSweep, SweepDone, Steps
<1>2. TypeOK'
  <2>1. iteration' \in 1..MaxIterations /\ index' \in 1..Len(Steps) + 1
    BY StepsNow, LimitAssumption DEF Converged, NextSweep, IInv, TypeOK
  <2>2. valid' = valid
    BY DEF Converged, NextSweep
  <2>3. QED BY <1>1, <2>1, <2>2 DEF IInv, TypeOK
<1>3. DeclinesSound'
  BY <1>1 DEF IInv, DeclinesSound, DeclineSound, SameObject
<1>4. QED BY <1>2, <1>3 DEF IInv

LEMMA StandardizeInv == ASSUME IInv, Standardize \/ Compare PROVE IInv'
<1>1. /\ UNCHANGED <<hop, game, new_game, declined, pinned_fields,
                     iteration, index>>
      /\ side' \in Sides /\ pc' \in {"start", "compare", "done"}
      /\ valid' \in BOOLEAN
  BY DEF Standardize, Compare, IInv, TypeOK, Sides
<1>2. DOMAIN Steps' = DOMAIN Steps /\ Len(Steps') = Len(Steps)
  BY <1>1, StepsTypes DEF Steps, IInv, TypeOK
<1>3. TypeOK'
  BY <1>1, <1>2 DEF IInv, TypeOK
<1>4. DeclinesSound'
  BY <1>1 DEF IInv, DeclinesSound, SameObject
<1>5. QED BY <1>3, <1>4 DEF IInv

LEMMA StepInv == ASSUME IInv, [Next]_vars PROVE IInv'
<1>1. CASE StartGame
  BY <1>1, StartInv
<1>2. CASE Skip
  BY <1>2, SkipInv
<1>3. CASE LeaveUnchanged
  BY <1>3, UnchangedInv
<1>4. CASE Rewrite
  BY <1>4, RewriteInv
<1>5. CASE Converged \/ NextSweep
  BY <1>5, SweepInv
<1>6. CASE Standardize \/ Compare
  BY <1>6, StandardizeInv
<1>7. CASE UNCHANGED vars
  BY <1>7 DEF vars, IInv, TypeOK, DeclinesSound, DeclineSound, SameObject, Steps
<1>8. QED BY <1>1, <1>2, <1>3, <1>4, <1>5, <1>6, <1>7 DEF Next

(* IInv is inductive: it holds in every reachable state.                   *)
THEOREM Inductive == Spec => []IInv
<1>1. Init => IInv
  BY InitInv
<1>2. IInv /\ [Next]_vars => IInv'
  BY StepInv
<1>3. QED BY <1>1, <1>2, PTL DEF Spec

(* Every variable of check_equivalent and run_pipeline keeps its type, for *)
(* any passes and any number of sweeps.                                    *)
THEOREM TypeCorrect == Spec => []TypeOK
<1>1. IInv => TypeOK
  BY DEF IInv
<1>2. QED BY <1>1, Inductive, PTL

-------------------------------------------------------------------------------
(* The step that is new: passing over a pass is applying it in vain.       *)
LEMMA SkipIsApply == ASSUME IInv, Skip PROVE Naive!ApplyPass
<1>1. /\ index \in DOMAIN Steps /\ pc = "pass"
      /\ declined[index] # NotDeclined
      /\ declined[index].game.id = new_game.id
      /\ declined[index].pinned = pinned_fields
  BY DEF Skip, Declined
<1>2. DeclineSound(index, declined[index])
  BY <1>1 DEF IInv, DeclinesSound
<1>3. Steps[index][<<new_game.tree, pinned_fields>>] = <<new_game.tree, pinned_fields>>
  BY <1>1, <1>2 DEF DeclineSound, SameObject
<1>4. QED BY <1>3 DEF Skip, Steps, Naive!ApplyPass, Naive!Pipeline

LEMMA StepRefines == ASSUME IInv, [Next]_vars PROVE [Naive!Next]_Naive!vars
<1>1. CASE StartGame
  BY <1>1 DEF StartGame, Object, Naive!Next, Naive!StartGame
<1>2. CASE Skip
  BY <1>2, SkipIsApply DEF Naive!Next
<1>3. CASE LeaveUnchanged
  BY <1>3 DEF LeaveUnchanged, Applies, Result, Steps, Naive!Next, Naive!ApplyPass,
              Naive!Pipeline
<1>4. CASE Rewrite
  BY <1>4 DEF Rewrite, Applies, Result, Steps, Object, Naive!Next, Naive!ApplyPass,
              Naive!Pipeline
<1>5. CASE Converged
  BY <1>5 DEF Converged, SweepDone, Steps, Naive!Next, Naive!Converged, Naive!Pipeline
<1>6. CASE NextSweep
  BY <1>6 DEF NextSweep, SweepDone, Steps, Naive!Next, Naive!NextSweep, Naive!Pipeline
<1>7. CASE Standardize
  BY <1>7 DEF Standardize, Naive!Next, Naive!Standardize
<1>8. CASE Compare
  BY <1>8 DEF Compare, Naive!Next, Naive!Compare
<1>9. CASE UNCHANGED vars
  BY <1>9 DEF vars, Naive!vars
<1>10. QED BY <1>1, <1>2, <1>3, <1>4, <1>5, <1>6, <1>7, <1>8, <1>9 DEF Next

(* "A pass is not re-applied to a game it has already left unchanged"      *)
(* (run_pipeline): the check with skips implements the check without them, *)
(* so each game's canonical form, and the verdict, are the plain loop's.   *)
THEOREM SkipsCorrect == Spec => SkipsExact
<1>1. Init => Naive!Init
  BY DEF Init, Object, Naive!Init
<1>2. IInv /\ [Next]_vars => [Naive!Next]_Naive!vars
  BY StepRefines
<1>3. QED BY <1>1, <1>2, Inductive, PTL DEF Spec, SkipsExact, Naive!Spec

-------------------------------------------------------------------------------
(* A list of passes, applied one after the other.                          *)

(* u[k] is what the first k passes of the list make of x.                  *)
Traces(u, list, x) ==
    /\ u \in [0..Len(list) -> Inputs]
    /\ u[0] = x
    /\ \A k \in 1..Len(list) : u[k] = list[k][u[k - 1]]

(* run_standardization, and a sweep of run_pipeline that applies every     *)
(* pass, is the last entry of a trace.                                     *)
LEMMA RunOnceTrace ==
    ASSUME NEW list \in Seq([Inputs -> Inputs]), NEW x \in Inputs
    PROVE  \E u : Traces(u, list, x) /\ RunOnce(list, x) = u[Len(list)]
<1> DEFINE n == Len(list)
           S == SUBSET (1..n)
           E(f, s) == IF s = {} THEN x ELSE list[Max(s)][f[s \ {Max(s)}]]
           iter == CHOOSE f : f = [s \in S |-> E(f, s)]
<1>1. n \in Nat /\ DOMAIN list = 1..n /\ list \in [1..n -> [Inputs -> Inputs]]
  OBVIOUS
<1>2. PICK f \in [S -> Inputs] : \A s \in S : f[s] = E(f, s)
  <2>1. FoldSteps(n, Inputs, x, list)
    BY <1>1 DEF FoldSteps
  <2> HIDE DEF n
  <2>2. PICK f : f \in [S -> Inputs] /\ FoldsBy(f, n, Inputs, x, list)
    BY <2>1, FoldSolution
  <2>3. ASSUME NEW s \in S, s # {} PROVE f[s \ {Max(s)}] \in Inputs
    BY <2>2
  <2>4. \A s \in S : f[s] = E(f, s)
    BY <2>2, <2>3 DEF FoldsBy
  <2>5. QED BY <2>2, <2>4
<1>3. iter = [s \in S |-> E(iter, s)]
  <2> HIDE DEF E, S
  <2>1. f = [s \in S |-> E(f, s)]
    BY <1>2
  <2>2. QED BY <2>1
<1>4. RunOnce(list, x) = iter[1..n]
  <2>1. RunOnce(list, x) =
          (CHOOSE g : g = [s \in SUBSET DOMAIN list |-> E(g, s)])[DOMAIN list]
    BY DEF RunOnce, FoldLeft, MapThenFoldSet
  <2> HIDE DEF E
  <2>2. QED BY <1>1, <2>1, Zenon
<1>5. \A s \in S : iter[s] = E(iter, s)
  <2> HIDE DEF E, S, iter
  <2>1. QED BY <1>3
<1> HIDE DEF iter
<1>6. FoldsBy(iter, n, Inputs, x, list)
  BY <1>5 DEF FoldsBy
<1>7. PICK u : FoldTraces(u, n, Inputs, x, list) /\ u[n] = iter[1..n]
  <2>1. FoldSteps(n, Inputs, x, list)
    BY <1>1 DEF FoldSteps
  <2> HIDE DEF n
  <2>2. QED BY <1>6, <2>1, FoldTrace
<1>8. Traces(u, list, x)
  BY <1>7 DEF Traces, FoldTraces
<1>9. QED BY <1>4, <1>7, <1>8

(* What a list of passes makes of a tree is a tree.                        *)
LEMMA RunOnceTypes ==
    ASSUME NEW list \in Seq([Inputs -> Inputs]), NEW x \in Inputs
    PROVE  RunOnce(list, x) \in Inputs
<1>1. PICK u : Traces(u, list, x) /\ RunOnce(list, x) = u[Len(list)]
  BY RunOnceTrace
<1>2. Len(list) \in 0..Len(list)
  OBVIOUS
<1>3. QED BY <1>1, <1>2 DEF Traces

-------------------------------------------------------------------------------
(* The loop over the sweeps.                                               *)

Swept(h, s, x) == RunOnce(PipelineOf(h, s), x)

(* L[n][x] is what at most n sweeps make of x.                             *)
LoopOf(L, h, s) ==
    /\ L \in [0..MaxIterations -> [Inputs -> Inputs]]
    /\ \A x \in Inputs : L[0][x] = x
    /\ \A n \in 1..MaxIterations, x \in Inputs :
          L[n][x] = IF <<Swept(h, s, x)[1], x[1]>> \in LooselyEqual
                    THEN <<x[1], Swept(h, s, x)[2]>>
                    ELSE L[n - 1][Swept(h, s, x)]

LEMMA SweptTypes ==
    ASSUME NEW h \in Hops, NEW s \in Sides, NEW x \in Inputs
    PROVE  Swept(h, s, x) \in Inputs
<1>1. PipelineOf(h, s) \in Seq([Inputs -> Inputs])
  BY StepsTypes
<1>2. QED BY <1>1, RunOnceTypes DEF Swept

(* The loop of run_pipeline ends: at most MaxIterations sweeps make        *)
(* something of a game, and that is what its canonical form is made from.  *)
LEMMA LoopExists ==
    ASSUME NEW h \in Hops, NEW s \in Sides
    PROVE  \E L : /\ LoopOf(L, h, s)
                  /\ CanonicalForm(h, s) =
                        Standardized(h, L[MaxIterations][<<h.games[s], {}>>])
<1> DEFINE S == 0..MaxIterations
           V == [Inputs -> Inputs]
           Value(f, n, x) == IF n = 0 THEN x
                             ELSE IF <<Swept(h, s, x)[1], x[1]>> \in LooselyEqual
                                  THEN <<x[1], Swept(h, s, x)[2]>>
                                  ELSE f[n - 1][Swept(h, s, x)]
           E(f, n) == [x \in Inputs |-> Value(f, n, x)]
           D == [p \in [S -> V] \X S |-> E(p[1], p[2])]
           rank == [n \in S |-> n]
           loop == CHOOSE f : f = [n \in S |-> E(f, n)]
<1>1. MaxIterations \in Nat
  BY LimitAssumption
<1>2. ASSUME NEW f, NEW n \in S, NEW x \in Inputs, n # 0 => f[n - 1] \in V
      PROVE  Value(f, n, x) \in Inputs
  <2>1. Swept(h, s, x) \in Inputs
    BY SweptTypes
  <2>2. <<x[1], Swept(h, s, x)[2]>> \in Inputs
    BY <2>1 DEF Inputs
  <2>3. n # 0 => f[n - 1][Swept(h, s, x)] \in Inputs
    BY <1>2, <2>1
  <2>4. QED BY <2>2, <2>3
<1>3. ASSUME NEW f \in [S -> V], NEW n \in S
      PROVE  D[<<f, n>>] = E(f, n) /\ E(f, n) \in V
  <2>1. n # 0 => n - 1 \in S
    BY <1>1
  <2>2. n # 0 => f[n - 1] \in V
    <3> HIDE DEF S, V
    <3>1. QED BY <2>1
  <2>3. \A x \in Inputs : Value(f, n, x) \in Inputs
    <3> HIDE DEF Value, S, V
    <3>1. QED BY <1>2, <2>2
  <2>4. E(f, n) \in V
    <3> HIDE DEF Value
    <3>1. QED BY <2>3
  <2> HIDE DEF E, S, V
  <2>5. QED BY <2>4
<1>4. ASSUME NEW f \in [S -> V], NEW g \in [S -> V], NEW n \in S,
             \A c \in S : rank[c] < rank[n] => f[c] = g[c]
      PROVE  D[<<f, n>>] = D[<<g, n>>]
  <2>1. n # 0 => n - 1 \in S /\ rank[n - 1] < rank[n]
    BY <1>1
  <2>2. n # 0 => f[n - 1] = g[n - 1]
    <3> HIDE DEF S, rank
    <3>1. QED BY <1>4, <2>1
  <2>3. E(f, n) = E(g, n)
    BY <2>2
  <2> HIDE DEF D, E, S, V
  <2>4. QED BY <1>3, <2>3
<1>5. PICK f \in [S -> V] : f = [n \in S |-> D[<<f, n>>]]
  <2>1. V # {}
    <3>1. [x \in Inputs |-> x] \in V
      OBVIOUS
    <3>2. QED BY <3>1
  <2>2. D \in [[S -> V] \X S -> V]
    <3> HIDE DEF E, S, V
    <3>1. QED BY <1>3
  <2>3. \A g, k \in [S -> V] : \A n \in S :
            (\A c \in S : rank[c] < rank[n] => g[c] = k[c]) => D[<<g, n>>] = D[<<k, n>>]
    BY <1>4
  <2>4. rank \in [S -> 0..MaxIterations]
    BY <1>1
  <2> HIDE DEF S, V, D, rank
  <2>5. ByRank(S, V, MaxIterations, rank, D)
    BY <1>1, <2>1, <2>2, <2>3, <2>4 DEF ByRank
  <2>6. QED BY <2>5, RecursiveFunction DEF Solvable
<1>6. f = [n \in S |-> E(f, n)]
  <2> HIDE DEF D, E, S, V
  <2>1. QED BY <1>3, <1>5
<1>7. loop = [n \in S |-> E(loop, n)]
  <2> HIDE DEF E, S
  <2>1. QED BY <1>6
<1>8. CanonicalForm(h, s) = Standardized(h, loop[MaxIterations][<<h.games[s], {}>>])
  BY DEF CanonicalForm, Swept
<1> HIDE DEF loop
<1>9. ASSUME NEW n \in S, NEW x \in Inputs
      PROVE  loop[n][x] = Value(loop, n, x)
  <2>1. loop[n] = E(loop, n)
    <3> HIDE DEF E, S
    <3>1. QED BY <1>7
  <2> HIDE DEF Value
  <2>2. QED BY <2>1
<1> DEFINE P == {n \in S : loop[n] \in V}
<1>10. \A n \in S : n \in P
  <2>1. ASSUME NEW n \in S, n # 0 => loop[n - 1] \in V
        PROVE  loop[n] \in V
    <3>1. \A x \in Inputs : Value(loop, n, x) \in Inputs
      <4> HIDE DEF Value, S, V
      <4>1. QED BY <1>2, <2>1
    <3>2. E(loop, n) \in V
      <4> HIDE DEF Value
      <4>1. QED BY <3>1
    <3> HIDE DEF E, S, V
    <3>3. QED BY <1>7, <3>2
  <2>2. 0 \in P
    <3>1. 0 \in S
      BY <1>1
    <3> HIDE DEF S, V
    <3>2. QED BY <2>1, <3>1
  <2>3. ASSUME NEW k \in 0..MaxIterations, k < MaxIterations, k \in P
        PROVE  k + 1 \in P
    <3>1. k + 1 \in S /\ k + 1 - 1 = k
      BY <1>1, <2>3
    <3> HIDE DEF S, V
    <3>2. loop[k + 1 - 1] \in V
      BY <2>3, <3>1
    <3>3. QED BY <2>1, <3>1, <3>2
  <2> HIDE DEF P
  <2>4. QED BY <1>1, <2>2, <2>3, RangeInduction
<1>11. loop \in [S -> V]
  <2>1. \A n \in S : loop[n] \in V
    BY <1>10
  <2> HIDE DEF E, S, V
  <2>2. QED BY <1>7, <2>1
<1>12. ASSUME NEW x \in Inputs PROVE loop[0][x] = x
  <2>1. 0 \in S
    BY <1>1
  <2>2. loop[0][x] = Value(loop, 0, x)
    <3> HIDE DEF Value, S
    <3>1. QED BY <1>9, <2>1
  <2>3. QED BY <2>2
<1>13. ASSUME NEW n \in 1..MaxIterations, NEW x \in Inputs
       PROVE  loop[n][x] = IF <<Swept(h, s, x)[1], x[1]>> \in LooselyEqual
                           THEN <<x[1], Swept(h, s, x)[2]>>
                           ELSE loop[n - 1][Swept(h, s, x)]
  <2>1. n \in S /\ n # 0
    BY <1>1
  <2>2. QED BY <1>9, <2>1
<1>14. LoopOf(loop, h, s)
  BY <1>11, <1>12, <1>13 DEF LoopOf
<1>15. QED BY <1>8, <1>14

-------------------------------------------------------------------------------
(* Each game's canonical form is its own: what is made of the game so far, *)
(* is on the way to what the loop makes of it when it runs alone.          *)

(* The whole loop's result for this side is what the sweeps that are left  *)
(* make of the game the current sweep started from, with the fields pinned *)
(* then; and the passes before index made new_game of that.                *)
InSweep ==
    pc = "pass" =>
        \E p \in SUBSET Fields :
            /\ \A L : LoopOf(L, hop, side) =>
                  L[MaxIterations][<<hop.games[side], {}>>] =
                     L[MaxIterations + 1 - iteration][<<game.tree, p>>]
            /\ \A u : Traces(u, Steps, <<game.tree, p>>) =>
                  u[index - 1] = <<new_game.tree, pinned_fields>>

Looped ==
    pc = "standardize" =>
        \A L : LoopOf(L, hop, side) =>
            L[MaxIterations][<<hop.games[side], {}>>] = <<game.tree, pinned_fields>>

SidesDone ==
    /\ canonical \in Seq(Trees)
    /\ Len(canonical) = IF pc \in {"compare", "done"} THEN 2 ELSE side - 1

OwnInv == SidesDone /\ InSweep /\ Looped /\ OwnCanonicalForm

LEMMA OwnInit == Init => OwnInv
<1> SUFFICES ASSUME Init PROVE OwnInv
  OBVIOUS
<1>1. SidesDone
  BY DEF Init, SidesDone
<1>2. InSweep /\ Looped
  BY DEF Init, InSweep, Looped
<1>3. OwnCanonicalForm
  BY DEF Init, OwnCanonicalForm
<1>4. QED BY <1>1, <1>2, <1>3 DEF OwnInv

LEMMA OwnStart == ASSUME IInv, OwnInv, Naive!StartGame PROVE OwnInv'
<1>1. /\ UNCHANGED <<hop, side, canonical>> /\ Steps' = Steps
      /\ pc = "start" /\ pc' = "pass"
      /\ game'.tree = hop.games[side] /\ new_game'.tree = hop.games[side]
      /\ pinned_fields' = {} /\ iteration' = 1 /\ index' = 1
  BY DEF Naive!StartGame, Steps
<1>2. MaxIterations + 1 - 1 = MaxIterations /\ 1 - 1 = 0
  BY LimitAssumption
<1>3. InSweep'
  <2>1. {} \in SUBSET Fields
    OBVIOUS
  <2>2. \A u : Traces(u, Steps, <<hop.games[side], {}>>) => u[0] = <<hop.games[side], {}>>
    BY DEF Traces
  <2>3. \A L : LoopOf(L, hop, side) =>
              L[MaxIterations][<<hop.games[side], {}>>] =
                 L[MaxIterations + 1 - 1][<<hop.games[side], {}>>]
    BY <1>2
  <2>4. QED BY <1>1, <1>2, <2>1, <2>2, <2>3 DEF InSweep
<1>4. SidesDone' /\ Looped'
  BY <1>1 DEF OwnInv, SidesDone, Looped
<1>5. OwnCanonicalForm'
  BY <1>1 DEF OwnInv, OwnCanonicalForm
<1>6. QED BY <1>3, <1>4, <1>5 DEF OwnInv

LEMMA OwnApply == ASSUME IInv, OwnInv, Naive!ApplyPass PROVE OwnInv'
<1>1. /\ UNCHANGED <<hop, side, pc, iteration, canonical>> /\ Steps' = Steps
      /\ pc = "pass" /\ index \in DOMAIN Steps /\ index' = index + 1
      /\ game'.tree = game.tree
      /\ new_game'.tree = Steps[index][<<new_game.tree, pinned_fields>>][1]
      /\ pinned_fields' = Steps[index][<<new_game.tree, pinned_fields>>][2]
  BY DEF Naive!ApplyPass, Naive!Pipeline, Steps
<1>2. Result = <<new_game'.tree, pinned_fields'>>
  BY <1>1, ResultTypes DEF IInv, Result
<1>3. PICK p \in SUBSET Fields :
          /\ \A L : LoopOf(L, hop, side) =>
                L[MaxIterations][<<hop.games[side], {}>>] =
                   L[MaxIterations + 1 - iteration][<<game.tree, p>>]
          /\ \A u : Traces(u, Steps, <<game.tree, p>>) =>
                u[index - 1] = <<new_game.tree, pinned_fields>>
  BY <1>1 DEF OwnInv, InSweep
<1>4. ASSUME NEW u, Traces(u, Steps, <<game.tree, p>>)
      PROVE  u[index] = <<new_game'.tree, pinned_fields'>>
  <2>1. index \in 1..Len(Steps)
    BY <1>1, StepsNow DEF IInv
  <2>2. u[index] = Steps[index][u[index - 1]]
    BY <1>4, <2>1 DEF Traces
  <2>3. u[index - 1] = <<new_game.tree, pinned_fields>>
    BY <1>3, <1>4
  <2>4. QED BY <1>2, <2>2, <2>3 DEF Result
<1>5. index' - 1 = index
  BY <1>1 DEF IInv, TypeOK
<1>6. InSweep'
  BY <1>1, <1>3, <1>4, <1>5 DEF InSweep
<1>7. SidesDone' /\ Looped'
  BY <1>1 DEF OwnInv, SidesDone, Looped
<1>8. OwnCanonicalForm'
  BY <1>1 DEF OwnInv, OwnCanonicalForm
<1>9. QED BY <1>6, <1>7, <1>8 DEF OwnInv

(* The end of a sweep: it made new_game of game, and the loop goes on with *)
(* that or ends.                                                           *)
LEMMA SweepEnds ==
    ASSUME IInv, OwnInv, pc = "pass", index \notin DOMAIN Steps
    PROVE  \A L : LoopOf(L, hop, side) =>
              L[MaxIterations][<<hop.games[side], {}>>] =
                 IF <<new_game.tree, game.tree>> \in LooselyEqual
                 THEN <<game.tree, pinned_fields>>
                 ELSE L[MaxIterations - iteration][<<new_game.tree, pinned_fields>>]
<1>1. PICK p \in SUBSET Fields :
          /\ \A L : LoopOf(L, hop, side) =>
                L[MaxIterations][<<hop.games[side], {}>>] =
                   L[MaxIterations + 1 - iteration][<<game.tree, p>>]
          /\ \A u : Traces(u, Steps, <<game.tree, p>>) =>
                u[index - 1] = <<new_game.tree, pinned_fields>>
  BY DEF OwnInv, InSweep
<1> DEFINE x == <<game.tree, p>>
<1>2. x \in Inputs
  BY DEF IInv, TypeOK, Objects, Inputs
<1>3. index - 1 = Len(Steps)
  BY StepsNow DEF IInv, TypeOK
<1>4. Swept(hop, side, x) = <<new_game.tree, pinned_fields>>
  <2>1. PICK u : Traces(u, Steps, x) /\ RunOnce(Steps, x) = u[Len(Steps)]
    BY <1>2, StepsNow, RunOnceTrace DEF IInv
  <2>2. QED BY <1>1, <1>3, <2>1 DEF Swept, Steps
<1>5. /\ MaxIterations + 1 - iteration \in 1..MaxIterations
      /\ (MaxIterations + 1 - iteration) - 1 = MaxIterations - iteration
  BY LimitAssumption DEF IInv, TypeOK
<1>6. ASSUME NEW L, LoopOf(L, hop, side)
      PROVE  L[MaxIterations][<<hop.games[side], {}>>] =
                 IF <<new_game.tree, game.tree>> \in LooselyEqual
                 THEN <<game.tree, pinned_fields>>
                 ELSE L[MaxIterations - iteration][<<new_game.tree, pinned_fields>>]
  <2> DEFINE n == MaxIterations + 1 - iteration
  <2>1. L[MaxIterations][<<hop.games[side], {}>>] = L[n][x]
    BY <1>1, <1>6
  <2>2. L[n][x] = IF <<Swept(hop, side, x)[1], x[1]>> \in LooselyEqual
                  THEN <<x[1], Swept(hop, side, x)[2]>>
                  ELSE L[n - 1][Swept(hop, side, x)]
    <3> HIDE DEF n, x
    <3>1. n \in 1..MaxIterations
      BY <1>5 DEF n
    <3>2. QED BY <1>2, <1>6, <3>1 DEF LoopOf
  <2>3. /\ x[1] = game.tree
        /\ Swept(hop, side, x)[1] = new_game.tree
        /\ Swept(hop, side, x)[2] = pinned_fields
    BY <1>4
  <2>4. n - 1 = MaxIterations - iteration
    BY <1>5
  <2>5. L[n - 1][Swept(hop, side, x)] =
           L[MaxIterations - iteration][<<new_game.tree, pinned_fields>>]
    <3> HIDE DEF n, x
    <3>1. QED BY <1>4, <2>4
  <2> DEFINE y == Swept(hop, side, x)
             rest == L[n - 1][y]
  <2>6. L[n][x] = IF <<y[1], x[1]>> \in LooselyEqual THEN <<x[1], y[2]>> ELSE rest
    BY <2>2
  <2> HIDE DEF n, x, y, rest
  <2>7. L[n][x] = IF <<new_game.tree, game.tree>> \in LooselyEqual
                  THEN <<game.tree, pinned_fields>> ELSE rest
    BY <2>3, <2>6 DEF y
  <2>8. QED BY <2>1, <2>5, <2>7, Zenon DEF rest, y
<1>7. QED BY <1>6

LEMMA OwnConverged == ASSUME IInv, OwnInv, Naive!Converged PROVE OwnInv'
<1>1. /\ UNCHANGED <<hop, side, pinned_fields, canonical>>
      /\ pc = "pass" /\ index \notin DOMAIN Steps /\ pc' = "standardize"
      /\ <<new_game.tree, game.tree>> \in LooselyEqual
      /\ game'.tree = game.tree
  BY DEF Naive!Converged, Naive!Pipeline, Steps
<1>2. Looped'
  BY <1>1, SweepEnds DEF Looped
<1>3. SidesDone' /\ InSweep'
  BY <1>1 DEF OwnInv, SidesDone, InSweep
<1>4. OwnCanonicalForm'
  BY <1>1 DEF OwnInv, OwnCanonicalForm
<1>5. QED BY <1>2, <1>3, <1>4 DEF OwnInv

LEMMA OwnNextSweep == ASSUME IInv, OwnInv, Naive!NextSweep PROVE OwnInv'
<1>1. /\ UNCHANGED <<hop, side, pinned_fields, canonical>> /\ Steps' = Steps
      /\ pc = "pass" /\ index \notin DOMAIN Steps
      /\ <<new_game.tree, game.tree>> \notin LooselyEqual
      /\ game'.tree = new_game.tree /\ new_game'.tree = new_game.tree
      /\ IF iteration < MaxIterations
         THEN pc' = pc /\ iteration' = iteration + 1 /\ index' = 1
         ELSE pc' = "standardize"
  BY DEF Naive!NextSweep, Naive!Pipeline, Steps
<1>2. \A L : LoopOf(L, hop, side) =>
          L[MaxIterations][<<hop.games[side], {}>>] =
             L[MaxIterations - iteration][<<new_game.tree, pinned_fields>>]
  BY <1>1, SweepEnds
<1>3. pinned_fields \in SUBSET Fields /\ <<new_game.tree, pinned_fields>> \in Inputs
  BY DEF IInv, TypeOK, Objects, Inputs
<1>4. CASE iteration < MaxIterations
  <2>1. pc' = "pass" /\ iteration' = iteration + 1 /\ index' = 1
    BY <1>1, <1>4
  <2>2. MaxIterations + 1 - iteration' = MaxIterations - iteration /\ index' - 1 = 0
    BY <2>1, LimitAssumption DEF IInv, TypeOK
  <2>3. \A u : Traces(u, Steps, <<new_game.tree, pinned_fields>>) =>
                  u[0] = <<new_game.tree, pinned_fields>>
    BY DEF Traces
  <2>4. InSweep'
    BY <1>1, <1>2, <1>3, <2>2, <2>3 DEF InSweep
  <2>5. SidesDone' /\ Looped'
    BY <1>1, <2>1 DEF OwnInv, SidesDone, Looped
  <2>6. OwnCanonicalForm'
    BY <1>1 DEF OwnInv, OwnCanonicalForm
  <2>7. QED BY <2>4, <2>5, <2>6 DEF OwnInv
<1>5. CASE ~(iteration < MaxIterations)
  <2>1. pc' = "standardize"
    BY <1>1, <1>5
  <2>2. MaxIterations - iteration = 0
    BY <1>5, LimitAssumption DEF IInv, TypeOK
  <2>3. \A L : LoopOf(L, hop, side) =>
          L[MaxIterations][<<hop.games[side], {}>>] = <<new_game.tree, pinned_fields>>
    BY <1>2, <1>3, <2>2 DEF LoopOf
  <2>4. Looped'
    BY <1>1, <2>3 DEF Looped
  <2>5. SidesDone' /\ InSweep'
    BY <1>1, <2>1 DEF OwnInv, SidesDone, InSweep
  <2>6. OwnCanonicalForm'
    BY <1>1 DEF OwnInv, OwnCanonicalForm
  <2>7. QED BY <2>4, <2>5, <2>6 DEF OwnInv
<1>6. QED BY <1>4, <1>5

LEMMA OwnStandardize == ASSUME IInv, OwnInv, Naive!Standardize PROVE OwnInv'
<1> DEFINE form == Standardized(hop, <<game.tree, pinned_fields>>)
<1>1. /\ UNCHANGED hop /\ pc = "standardize" /\ canonical' = Append(canonical, form)
      /\ IF side = 1 THEN side' = 2 /\ pc' = "start" ELSE side' = side /\ pc' = "compare"
  BY DEF Naive!Standardize
<1>2. hop \in Hops /\ side \in Sides
  BY DEF IInv, TypeOK
<1>3. form = CanonicalForm(hop, side)
  <2>1. PICK L : /\ LoopOf(L, hop, side)
                 /\ CanonicalForm(hop, side) =
                       Standardized(hop, L[MaxIterations][<<hop.games[side], {}>>])
    BY <1>2, LoopExists
  <2>2. L[MaxIterations][<<hop.games[side], {}>>] = <<game.tree, pinned_fields>>
    BY <1>1, <2>1 DEF OwnInv, Looped
  <2>3. QED BY <2>1, <2>2
<1>4. form \in Trees
  <2>1. <<game.tree, pinned_fields>> \in Inputs
    BY DEF IInv, TypeOK, Objects, Inputs
  <2>2. hop.standardization \in Seq([Inputs -> Inputs])
    BY <1>2, HopsAssumption
  <2>3. RunOnce(hop.standardization, <<game.tree, pinned_fields>>) \in Inputs
    BY <2>1, <2>2, RunOnceTypes
  <2>4. QED BY <2>3 DEF Standardized, Inputs
<1>5. canonical \in Seq(Trees) /\ Len(canonical) = side - 1 /\ side \in {1, 2}
  BY <1>1, <1>2 DEF OwnInv, SidesDone, Sides
<1> HIDE DEF form
<1>6. /\ canonical' \in Seq(Trees) /\ Len(canonical') = side
      /\ canonical'[side] = form
      /\ \A s \in DOMAIN canonical' : s # side => s \in DOMAIN canonical
                                                  /\ canonical'[s] = canonical[s]
  <2>1. Len(canonical) + 1 = side
    BY <1>5
  <2>2. QED BY <1>1, <1>4, <1>5, <2>1
<1>7. SidesDone'
  BY <1>1, <1>5, <1>6 DEF SidesDone
<1>8. InSweep' /\ Looped'
  BY <1>1 DEF InSweep, Looped
<1>9. OwnCanonicalForm'
  BY <1>1, <1>3, <1>6 DEF OwnInv, OwnCanonicalForm
<1>10. QED BY <1>7, <1>8, <1>9 DEF OwnInv

LEMMA OwnStep == ASSUME IInv, OwnInv, [Naive!Next]_Naive!vars PROVE OwnInv'
<1>1. CASE Naive!StartGame
  BY <1>1, OwnStart
<1>2. CASE Naive!ApplyPass
  BY <1>2, OwnApply
<1>3. CASE Naive!Converged
  BY <1>3, OwnConverged
<1>4. CASE Naive!NextSweep
  BY <1>4, OwnNextSweep
<1>5. CASE Naive!Standardize
  BY <1>5, OwnStandardize
<1>6. CASE Naive!Compare
  <2>1. UNCHANGED <<hop, side, canonical>> /\ pc = "compare" /\ pc' = "done"
    BY <1>6 DEF Naive!Compare
  <2>2. SidesDone' /\ InSweep' /\ Looped'
    BY <2>1 DEF OwnInv, SidesDone, InSweep, Looped
  <2>3. OwnCanonicalForm'
    BY <2>1 DEF OwnInv, OwnCanonicalForm
  <2>4. QED BY <2>2, <2>3 DEF OwnInv
<1>7. CASE UNCHANGED Naive!vars
  <2>1. /\ UNCHANGED <<hop, side, pc, pinned_fields, iteration, index, canonical>>
        /\ Steps' = Steps
        /\ game'.tree = game.tree /\ new_game'.tree = new_game.tree
    BY <1>7 DEF Naive!vars, Steps
  <2>2. SidesDone'
    BY <2>1 DEF OwnInv, SidesDone
  <2>3. InSweep'
    BY <2>1 DEF OwnInv, InSweep
  <2>4. Looped'
    BY <2>1 DEF OwnInv, Looped
  <2>5. OwnCanonicalForm'
    BY <2>1 DEF OwnInv, OwnCanonicalForm
  <2>6. QED BY <2>2, <2>3, <2>4, <2>5 DEF OwnInv
<1>8. QED BY <1>1, <1>2, <1>3, <1>4, <1>5, <1>6, <1>7 DEF Naive!Next

(* "Each game is canonicalized on its own ... so that a game's canonical   *)
(* form does not depend on its hop partner" (check_equivalent): the form   *)
(* of either game is what the fixed-point loop, run on that game alone     *)
(* with nothing pinned, and the standardization make of it.                *)
THEOREM OwnFormCorrect == Spec => []OwnCanonicalForm
<1>1. Init => OwnInv
  BY OwnInit
<1>2. IInv /\ OwnInv /\ [Next]_vars => OwnInv'
  BY StepRefines, OwnStep
<1>3. OwnInv => OwnCanonicalForm
  BY DEF OwnInv
<1>4. QED BY <1>1, <1>2, <1>3, Inductive, PTL DEF Spec
=============================================================================
