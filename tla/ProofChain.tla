------------------------------ MODULE ProofChain ------------------------------
(***************************************************************************)
(* What a verified proof must mean, stated on the text of the proof: the   *)
(* games of the unrolled games list are linked, each check ran with the    *)
(* assumptions and types written around it, and every hop is reported.     *)
(***************************************************************************)
EXTENDS ProofEngine

Blocks == DOMAIN job.blocks
IsInduction(b, i) == Elements(b)[i].kind = "induction"
Inductions(b) == {i \in DOMAIN Elements(b) : IsInduction(b, i)}
Body(b, i) == Elements(b)[i].body

(* Where the body b stands.                                                *)
Parent(b) == CHOOSE a \in Blocks : \E i \in Inductions(a) : Body(a, i) = b
Position(b) == CHOOSE i \in Inductions(Parent(b)) : Body(Parent(b), i) = b

(* The inductions around the steps of a block.                             *)
Around ==
    LET around[b \in Blocks] == IF b = 1 THEN {} ELSE {b} \cup around[Parent(b)]
    IN around

-------------------------------------------------------------------------------
(* The order of the text.                                                  *)

Link(b, i) ==
    LET j == NextAnchor(b, i) IN
    [cur |-> IF IsStep(b, i) THEN Game(b, i, "free")
             ELSE Game(Body(b, i), LastStep(Body(b, i)), "end"),
     next |-> IF IsStep(b, j) THEN Game(b, j, "free")
              ELSE Game(Body(b, j), 1, "start")]

RolloverLink(b) ==
    [cur |-> Game(b, LastStep(b), "free"), next |-> Game(b, 1, "succ")]

(* The hops of a block: into an induction, through its body, around it.    *)
Scripts ==
    LET script[b \in Blocks] ==
            LET starts == InTextOrder(b)
                part(i) == LET j == NextAnchor(b, i) IN
                    IF IsInduction(b, j)
                    THEN <<Link(b, i)>> \o script[Body(b, j)]
                         \o <<RolloverLink(Body(b, j))>>
                    ELSE <<Link(b, i)>>
            IN FlattenSeq([k \in DOMAIN starts |-> part(starts[k])])
    IN script
Script == Scripts[1]

LinkOf(r) == [cur |-> r.cur, next |-> r.next]

Outcomes == {"succeeded", "failed", "crashed"}
Reports == INSTANCE HopReports WITH
    text <- job.blocks,
    script <- Script,
    reports <- [i \in DOMAIN hop_results |->
                   [hop |-> LinkOf(hop_results[i]), valid |-> hop_results[i].valid]],
    outcome <- IF pc \in Outcomes THEN pc ELSE "none"

-------------------------------------------------------------------------------
(* The unrolled games list.                                                *)

(* A game of the unrolled list: a step and the values of the induction     *)
(* variables around it.                                                    *)
Node(b, i, env) == [block |-> b, index |-> i, env |-> env]
With(env, b, v) == [c \in DOMAIN env \cup {b} |-> IF c = b THEN v ELSE env[c]]

Iterations(b) == job.blocks[b].start .. job.blocks[b].end
(* A check holds for any value of a variable; these are enough.            *)
Values(b) == (job.blocks[b].start - 1 .. job.blocks[b].end)
             \cup (job.blocks[b].end .. job.blocks[b].start - 1)

Bounds == UNION {Values(b) : b \in Blocks \ {1}}
Envs(b, range(_)) ==
    {e \in [Around[b] -> Bounds] : \A c \in Around[b] : e[c] \in range(c)}

(* The block whose variables are free in a reported hop.                   *)
Scope(r) == IF r.cur.at = "end" THEN Parent(r.cur.block) ELSE r.cur.block

Denotes(g, env) ==
    LET at == CASE g.at = "free" -> env
                [] g.at = "start" -> With(env, g.block, job.blocks[g.block].start)
                [] g.at = "end" -> With(env, g.block, job.blocks[g.block].end)
                [] g.at = "succ" -> With(env, g.block, env[g.block] + 1)
    IN Node(g.block, g.index, at)

(* Why a hop may be taken.                                                 *)
Proven == job.file.assume \cup proven
ReductionHop(c, n) ==
    /\ NoSide \notin {c.side, n.side}
    /\ c.game = n.game /\ c.game \in Proven
    /\ c.adv = n.adv
    /\ SameReduction(c, n)
UptoHop(c, n) ==
    /\ SideFlip(c, n)
    /\ c.game \in job.file.events \cap IdenticalUntilBad

Justified(r) ==
    \/ <<r.cur, r.next>> \in alike
    \/ ReductionHop(StepOf(r.cur), StepOf(r.next))
    \/ UptoHop(StepOf(r.cur), StepOf(r.next))

Edges ==
    UNION {{<<Denotes(r.cur, e), Denotes(r.next, e)>> : e \in Envs(Scope(r), Values)} :
           r \in {s \in ToSet(hop_results) : Justified(s)}}

(* The last game of a body, and the inductions whose end it is at.         *)
Finale ==
    LET finale[b \in Blocks] ==
            LET i == LastIndex(Anchors(b)) IN
            IF IsStep(b, i) THEN [block |-> b, index |-> i, ends |-> {}]
            ELSE [finale[Body(b, i)] EXCEPT !.ends = @ \cup {Body(b, i)}]
    IN finale

FirstGame(b, env) == Node(b, 1, env)
LastGame(b, env) ==
    LET f == Finale[b] IN
    Node(f.block, f.index,
         [c \in DOMAIN env \cup f.ends |->
             IF c \in f.ends THEN job.blocks[c].end ELSE env[c]])

Into(b, i, env) ==
    IF IsStep(b, i) THEN Node(b, i, env)
    ELSE FirstGame(Body(b, i), With(env, Body(b, i), job.blocks[Body(b, i)].start))
OutOf(b, i, env) ==
    IF IsStep(b, i) THEN Node(b, i, env)
    ELSE LastGame(Body(b, i), With(env, Body(b, i), job.blocks[Body(b, i)].end))

(* Neighbours in the unrolled list: along a block, and from one iteration  *)
(* to the next; an induction without iterations is passed through.         *)
Along(b, env) ==
    {<<OutOf(b, i, env), Into(b, NextAnchor(b, i), env)>> : i \in HopStarts(b)}
Around1(b, i, env) ==
    LET c == Body(b, i) IN
    IF Iterations(c) = {} THEN {<<Into(b, i, env), OutOf(b, i, env)>>}
    ELSE {<<LastGame(c, With(env, c, v)), FirstGame(c, With(env, c, v + 1))>> :
             v \in Iterations(c) \ {job.blocks[c].end}}

Neighbours ==
    UNION {UNION {Along(b, e) \cup UNION {Around1(b, i, e) : i \in Inductions(b)} :
                  e \in Envs(b, Iterations)} : b \in Blocks}

Ends(edges) == {e[1] : e \in edges} \cup {e[2] : e \in edges}

(* The games of the list that the hops taken connect with the first.       *)
Connected ==
    LET edges == Edges
        beside(S) == {e[2] : e \in {f \in edges : f[1] \in S}}
                     \cup {e[1] : e \in {f \in edges : f[2] \in S}}
        reach[n \in 0..Cardinality(edges)] ==
            IF n = 0 THEN {FirstGame(1, <<>>)}
            ELSE LET S == reach[n - 1] IN S \cup beside(S)
    IN reach[Cardinality(edges)]

(* No game of the unrolled list is left out of the chain.                  *)
Linked == Ends(Neighbours) \subseteq Connected

-------------------------------------------------------------------------------
(* Properties.                                                             *)

GameSet == [block : Nat, index : Nat, at : {"free", "start", "end", "succ"}]
Kinds == {"equivalent", "by_assumption", "by_lemma", "by_upto", "induction_rollover"}

(* Every variable keeps its type, and an inner prove_steps call is one     *)
(* that its caller's current hop has started.                              *)
TypeOK ==
    /\ pc \in {"start", "lemmas", "hops", "enter", "pool", "report", "conclude"}
              \cup Outcomes
    /\ todo \subseteq job.file.lemmas
    /\ assumed \subseteq job.file.assume \cup job.file.lemmas
    /\ lemma_games \cup proven \subseteq job.file.lemmas
    /\ \A d \in DOMAIN frames :
          /\ frames[d].block \in Blocks
          /\ frames[d].pos \in 1..Len(frames[d].hops) + 1
          /\ d > 1 => frames[d - 1].hops[frames[d - 1].pos].body = frames[d].block
    /\ \A i \in DOMAIN hop_results :
          /\ hop_results[i].kind \in Kinds
          /\ hop_results[i].valid \in BOOLEAN
          /\ {hop_results[i].cur, hop_results[i].next} \subseteq GameSet
    /\ current_step \in Nat

(* Sequentially or from the pool, whatever task completes first: the hops  *)
(* of the text are reported in its order, each once, and the proof only    *)
(* succeeds when all were reported valid.                                  *)
ReportsFollowText == Reports!Spec

(* The engine waits for nobody but its pool: it reaches a verdict, or a    *)
(* worker died and the exception ends the run.                             *)
EndsWithVerdict == <>(pc \in Outcomes)

(* A proof that succeeds, with no lemma skipped, links every game of the   *)
(* unrolled games list to the next one (FROGLANG_REFERENCE 8.2 and 8.6),   *)
(* by a chain of equivalences, assumptions and identical-until-bad hops.   *)
ChainLinked == pc = "succeeded" /\ ~job.skip_lemmas => Linked

(* The status line "Step i/n" counts the hops reported, and n is reached   *)
(* exactly when all are (_count_hops against what _prepare_hops makes).    *)
StepsCounted ==
    /\ current_step = Len(hop_results)
    /\ pc \in {"conclude", "succeeded"} => current_step = total_steps

(* A games pair is checked under the step assumptions written before the   *)
(* hop, and no others: not those of an earlier hop, nor of one prepared    *)
(* later (self.step_assumptions is shared by all of them).                 *)
WrittenConditions(r) ==
    IF r.kind = "induction_rollover"
    THEN {Elements(r.cur.block)[k].cond :
             k \in {k \in DOMAIN Elements(r.cur.block) \ Anchors(r.cur.block) :
                       k > r.cur.index}}
    ELSE Conditions(Scope(r), IF r.next.at = "start" THEN Position(r.next.block)
                              ELSE r.next.index)
Checked == {r \in ToSet(hop_results) : r.kind \in {"equivalent", "induction_rollover"}}
OwnAssumptions == \A r \in Checked : r.assuming = WrittenConditions(r)

(* An induction's variable has a type in its body and its rollover only.   *)
InductionNames(S) == {job.blocks[b].name : b \in S}
VariablesScoped ==
    \A r \in Checked :
        r.types \ job.file.lets = InductionNames(Around[Scope(r)]) \ job.file.lets

(* "with the same reduction (or none)": _is_by_indistinguishability.       *)
ByAssumptionSameReduction ==
    \A r \in ToSet(hop_results) :
        r.kind = "by_assumption" => SameReduction(StepOf(r.cur), StepOf(r.next))

(* "The first game must be Theorem.Side1 against Theorem.Adversary and the *)
(* last must be Theorem.Side2 against Theorem.Adversary."                  *)
EndsAtTheorem ==
    pc = "succeeded" /\ ~job.file.is_event =>
        \A s \in {FirstStep, FinalStep} :
            s.game = job.file.theorem /\ s.adv = job.file.theorem
            /\ s.red = NoReduction

(* The assertions of prove and _prepare_hops hold for every file: what     *)
(* crashes a proof is a broken pool, nothing else.                         *)
AssertionsHold == pc = "crashed" => \E k \in DOMAIN pool : pool[k] = "pending"
=============================================================================
