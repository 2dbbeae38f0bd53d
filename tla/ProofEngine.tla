------------------------------ MODULE ProofEngine ------------------------------
(***************************************************************************)
(* How `prove` turns the games list of a proof file into hops, checks them *)
(* one after the other or in a process pool, reports them and decides      *)
(* (ProofEngine.prove and what it calls in proof_frog/proof_engine.py).    *)
(*                                                                         *)
(* A games list is a block: a sequence of steps, step assumptions and      *)
(* inductions; the body of an induction is a block again.  Blocks are      *)
(* numbered, the games list is block 1, a body has a greater number than   *)
(* the block it stands in.  Whether two games canonicalize alike is left   *)
(* open: a check may find either.  The cache of verified hops is HopCache. *)
(***************************************************************************)
EXTENDS Integers, Sequences, FiniteSets, SequencesExt

CONSTANTS
    Files,              \* the proof files to verify
    NoSide,             \* the side of a helper game (ParameterizedGame)
    NoReduction,
    IdenticalUntilBad,  \* pairs that pass upto.identical_until_bad
    MinParallel,        \* prove_steps: fewer equivalence hops run in sequence
    PoolBreaks          \* may a pool worker die?

(* A games list as the grammar has it (gameList in Proof.g4): it starts    *)
(* with a step, and the body of an induction stands nowhere else; every    *)
(* block but the games list itself is a body.                              *)
ASSUME FilesAssumption ==
    \A f \in Files :
        /\ f.blocks \in Seq(ToSet(f.blocks)) \ {<<>>}
        /\ \A b \in DOMAIN f.blocks :
              LET s == f.blocks[b].steps IN
              /\ "steps" \in DOMAIN f.blocks[b]
              /\ s \in Seq(ToSet(s)) \ {<<>>}
              /\ s[1].kind = "step"
              /\ \A i \in DOMAIN s :
                    /\ "kind" \in DOMAIN s[i]
                    /\ s[i].kind \in {"step", "assume", "induction"}
                    /\ s[i].kind = "induction" =>
                          s[i].body \in DOMAIN f.blocks /\ s[i].body > b
        /\ \A c \in DOMAIN f.blocks \ {1} :
              \E b \in DOMAIN f.blocks : \E i \in DOMAIN f.blocks[b].steps :
                  f.blocks[b].steps[i].kind = "induction" /\ f.blocks[b].steps[i].body = c
        /\ \A a, b \in DOMAIN f.blocks :
              \A i \in DOMAIN f.blocks[a].steps, j \in DOMAIN f.blocks[b].steps :
                  /\ f.blocks[a].steps[i].kind = "induction"
                  /\ f.blocks[b].steps[j].kind = "induction"
                  /\ f.blocks[a].steps[i].body = f.blocks[b].steps[j].body
                  => a = b /\ i = j

(* An induction runs from a number to a number (Induction in Proof.g4).    *)
ASSUME RangesAssumption ==
    \A f \in Files : \A b \in DOMAIN f.blocks \ {1} :
        f.blocks[b].start \in Int /\ f.blocks[b].end \in Int

VARIABLES
    job,                \* the file, its blocks, the options
    alike,              \* pairs of games a check found alike
    pc,
    todo,               \* lemmas still to verify
    assumed,            \* effective_assumptions
    lemma_games,
    proven,             \* lemmas whose proof file was verified
    frames,             \* active prove_steps calls, the innermost last
    step_assumptions,
    proof_let_types,    \* the names with a type
    pool,               \* results of the pool's tasks, by hop
    hop_results, current_step, total_steps

lemmaVars == <<todo, assumed, lemma_games, proven>>
vars == <<job, alike, pc, todo, assumed, lemma_games, proven, frames, step_assumptions,
          proof_let_types, pool, hop_results, current_step, total_steps>>

-------------------------------------------------------------------------------
(* Games lists.                                                            *)

Elements(b) == job.blocks[b].steps
Anchors(b) == {i \in DOMAIN Elements(b) : Elements(b)[i].kind # "assume"}
IsStep(b, i) == Elements(b)[i].kind = "step"
LastIndex(S) == CHOOSE i \in S : \A j \in S : j <= i

(* The element a hop leads to: the next one that is no step assumption.    *)
Followers(b, i) == {j \in Anchors(b) : j > i}
NextAnchor(b, i) == CHOOSE j \in Followers(b, i) : \A k \in Followers(b, i) : j <= k
HopStarts(b) == {i \in Anchors(b) : Followers(b, i) # {}}
InTextOrder(b) ==
    [k \in 1..Cardinality(HopStarts(b)) |->
        CHOOSE i \in HopStarts(b) : Cardinality({j \in HopStarts(b) : j <= i}) = k]

(* The assumptions written directly before element j.                      *)
Conditions(b, j) ==
    {Elements(b)[k].cond : k \in {k \in DOMAIN Elements(b) \ Anchors(b) :
        k < j /\ \A l \in Anchors(b) : l < k \/ l >= j}}

LastStep(b) == LastIndex({i \in Anchors(b) : IsStep(b, i)})

(* The assumptions after the last step, as the rollover check collects     *)
(* them: whatever follows that step, in reverse, inductions passed over.   *)
Trailing(b) ==
    {Elements(b)[k].cond : k \in {k \in DOMAIN Elements(b) \ Anchors(b) :
                                    k > LastStep(b)}}

(* A game of the proof: a step, with the variable of the innermost         *)
(* induction around it free, or replaced by its start, end or successor.   *)
Game(b, i, at) == [block |-> b, index |-> i, at |-> at]
StepOf(g) == Elements(g.block)[g.index]

(* Mutant of CountHops: the rollover is not a hop.                         *)
CountHopsNoRollover ==
    LET count[b \in DOMAIN job.blocks] ==
            LET to(j) == IF IsStep(b, j) THEN 1 ELSE count[Elements(b)[j].body] + 1
                upto[i \in 0..Len(Elements(b))] ==
                    IF i = 0 THEN 0
                    ELSE upto[i - 1]
                         + (IF i \in HopStarts(b) THEN to(NextAnchor(b, i)) ELSE 0)
            IN upto[Len(Elements(b))]
    IN count[1]

(* _count_hops: a walk over the elements.  Each that has a next one, step  *)
(* assumptions aside, starts a hop; a hop into an induction adds the hops  *)
(* of its body and one rollover.                                           *)
CountHops ==
    LET count[b \in DOMAIN job.blocks] ==
            LET to(j) == IF IsStep(b, j) THEN 1 ELSE count[Elements(b)[j].body] + 2
                upto[i \in 0..Len(Elements(b))] ==
                    IF i = 0 THEN 0
                    ELSE upto[i - 1]
                         + (IF i \in HopStarts(b) THEN to(NextAnchor(b, i)) ELSE 0)
            IN upto[Len(Elements(b))]
    IN count[1]

(* _event_chain: an event theorem is proved from the flag game's Real side *)
(* to the last step again, with its flag silenced.                         *)
Terminal(f, last) ==
    IF last.red # NoReduction \/ last.side = NoSide
    THEN [last EXCEPT !.silenced = TRUE]
    ELSE [last EXCEPT !.game = f.theorem, !.side = "Ideal"]

EventChain(f) ==
    LET s == f.blocks[1].steps
        chain == [s EXCEPT ![1].game = f.theorem, ![1].side = "Real",
                           ![1].red = NoReduction]
        last == chain[LastIndex({i \in DOMAIN s : s[i].kind = "step"})]
    IN [f.blocks EXCEPT ![1].steps = Append(chain, Terminal(f, last))]

ProofBlocks(f) == IF f.is_event THEN EventChain(f) ELSE f.blocks

-------------------------------------------------------------------------------
(* Preparing hops (_prepare_hops).                                         *)

SameReduction(c, n) == c.red = n.red /\ c.silenced = n.silenced

(* _is_by_indistinguishability.                                            *)
ByIndistinguishability(c, n) ==
    /\ NoSide \notin {c.side, n.side}
    /\ c.game = n.game
    /\ c.adv = n.adv
    /\ c.game \in assumed
    /\ c.red = NoReduction \/ SameReduction(c, n)

(* advantage.side_flip_game.                                               *)
SideFlip(c, n) ==
    /\ NoSide \notin {c.side, n.side}
    /\ c.game = n.game
    /\ SameReduction(c, n)
    /\ c.side # n.side

(* _is_by_upto: an event of the pair is assumed or a lemma.                *)
ByUpto(c, n) == SideFlip(c, n) /\ c.adv = n.adv /\ c.game \in job.file.events

HopKind(c, n) ==
    CASE ByIndistinguishability(c, n) ->
            IF c.game \in lemma_games THEN "by_lemma" ELSE "by_assumption"
      [] ~ByIndistinguishability(c, n) /\ ByUpto(c, n) -> "by_upto"
      [] OTHER -> "equivalent"

(* An induction is left by its last step, with the variable at its end,    *)
(* and entered by its first, with the variable at its start.               *)
HopSource(b, i) ==
    IF IsStep(b, i) THEN Game(b, i, "free")
    ELSE Game(Elements(b)[i].body, LastStep(Elements(b)[i].body), "end")

HopTarget(b, j) ==
    IF IsStep(b, j) THEN Game(b, j, "free") ELSE Game(Elements(b)[j].body, 1, "start")

PrepareHop(b, i) ==
    LET j == NextAnchor(b, i)
        c == HopSource(b, i)
        n == HopTarget(b, j)
        kind == IF IsStep(b, i) /\ IsStep(b, j) THEN HopKind(StepOf(c), StepOf(n))
                ELSE "equivalent"
    IN [step_num |-> Cardinality({k \in Anchors(b) : k <= i}),
        kind |-> kind,
        cur |-> c, next |-> n,
        assuming |-> IF kind = "equivalent" THEN Conditions(b, j) ELSE {},
        valid |-> kind # "by_upto" \/ StepOf(c).game \in IdenticalUntilBad,
        body |-> IF IsStep(b, j) THEN 0 ELSE Elements(b)[j].body]

PrepareHops(b) ==
    LET starts == InTextOrder(b)
    IN [k \in DOMAIN starts |-> PrepareHop(b, starts[k])]

(* One of two neighbours must be a step, or an assertion fails.            *)
AssertionFails(b) ==
    \E i \in HopStarts(b) : ~IsStep(b, i) /\ ~IsStep(b, NextAnchor(b, i))

IsEquivalence(h) == h.kind = "equivalent"
EquivalenceHops(hops) == {k \in DOMAIN hops : IsEquivalence(hops[k])}

(* set_up_assumptions has run for every equivalence hop, the last one last. *)
PreparedAssumptions(hops) ==
    IF EquivalenceHops(hops) = {} THEN step_assumptions
    ELSE hops[LastIndex(EquivalenceHops(hops))].assuming

-------------------------------------------------------------------------------
Init ==
    /\ \E f \in Files, parallel \in BOOLEAN, skip \in BOOLEAN :
          job \in [file : {f}, blocks : {ProofBlocks(f)}, parallel : {parallel},
                   skip_lemmas : {skip}]
    /\ alike = {}
    /\ pc = "start"
    /\ todo = job.file.lemmas
    /\ assumed = job.file.assume
    /\ lemma_games = {}
    /\ proven = {}
    /\ frames = <<>>
    /\ step_assumptions = {}
    /\ proof_let_types = job.file.lets
    /\ pool = <<>>
    /\ hop_results = <<>>
    /\ current_step = 0
    /\ total_steps = 0

-------------------------------------------------------------------------------
(* prove, up to the hops.                                                  *)

FirstStep == Elements(1)[1]
FinalStep == Elements(1)[Len(Elements(1))]

(* Both ends must be steps that play a side of a pair, or an assertion     *)
(* fails.  That they play the theorem's game is not required: a mismatch   *)
(* is printed.                                                             *)
ReadFile ==
    /\ pc = "start"
    /\ pc' = IF FinalStep.kind = "step" /\ NoSide \notin {FirstStep.side, FinalStep.side}
             THEN "lemmas" ELSE "crashed"
    /\ UNCHANGED <<job, alike, lemmaVars, frames, step_assumptions, proof_let_types,
                   pool, hop_results, current_step, total_steps>>

UseLemma(l) ==
    /\ todo' = todo \ {l}
    /\ assumed' = assumed \cup {l}
    /\ lemma_games' = lemma_games \cup {l}

SkipLemma(l) ==
    /\ pc = "lemmas" /\ l \in todo
    /\ job.skip_lemmas
    /\ UseLemma(l)
    /\ UNCHANGED <<job, alike, pc, proven, frames, step_assumptions, proof_let_types,
                   pool, hop_results, current_step, total_steps>>

(* The lemma's file is verified by an engine of its own and proves what    *)
(* the entry says (_lemma_mismatch).                                       *)
VerifyLemma(l) ==
    /\ pc = "lemmas" /\ l \in todo
    /\ ~job.skip_lemmas
    /\ UseLemma(l)
    /\ proven' = proven \cup {l}
    /\ UNCHANGED <<job, alike, pc, frames, step_assumptions, proof_let_types,
                   pool, hop_results, current_step, total_steps>>

LemmaFails(l) ==
    /\ pc = "lemmas" /\ l \in todo
    /\ ~job.skip_lemmas
    /\ pc' = "failed"
    /\ UNCHANGED <<job, alike, lemmaVars, frames, step_assumptions, proof_let_types,
                   pool, hop_results, current_step, total_steps>>

(* prove_steps on block b: prepare its hops, then run them.                *)
EnterBlock(b) ==
    \E hops \in {PrepareHops(b)} :
    IF AssertionFails(b)
    THEN /\ pc' = "crashed"
         /\ UNCHANGED <<frames, step_assumptions, pool>>
    ELSE /\ frames' = Append(frames, [block |-> b, hops |-> hops, pos |-> 1])
         /\ step_assumptions' = PreparedAssumptions(hops)
         /\ IF /\ job.parallel
               /\ \A k \in DOMAIN hops : hops[k].body = 0
               /\ frames = <<>>
               /\ Cardinality(EquivalenceHops(hops)) >= MinParallel
            THEN /\ pc' = "pool"
                 /\ pool' = [k \in EquivalenceHops(hops) |-> "pending"]
            ELSE /\ pc' = "hops"
                 /\ UNCHANGED pool

Start ==
    /\ pc = "lemmas" /\ todo = {}
    /\ total_steps' = CountHops
    /\ EnterBlock(1)
    /\ UNCHANGED <<job, alike, lemmaVars, proof_let_types, hop_results, current_step>>

-------------------------------------------------------------------------------
(* Sequential proving (_prove_steps_sequential).                           *)

Depth == Len(frames)
Frame == frames[Depth]
HasHop == Depth > 0 /\ Frame.pos \in DOMAIN Frame.hops
CurrentHop == Frame.hops[Frame.pos]

(* Mutant of NextHop: every other hop is passed over.                      *)
NextHopSkips == [frames EXCEPT ![Depth].pos = @ + 2]

(* The hops of the innermost call are taken in turn.                       *)
NextHop == [frames EXCEPT ![Depth].pos = @ + 1]

(* check_equivalent on two games.                                          *)
Check(h, valid) ==
    alike' = IF valid THEN alike \cup {<<h.cur, h.next>>} ELSE alike

(* One entry of hop_results, and what the check went by: the assumptions   *)
(* and the types the engine held.                                          *)
Result(h, kind, valid) ==
    [step_num |-> h.step_num, kind |-> kind, valid |-> valid,
     depth |-> Depth - 1, cur |-> h.cur, next |-> h.next,
     assuming |-> IF IsEquivalence(h) THEN step_assumptions' ELSE {},
     types |-> proof_let_types]

Report(result) ==
    /\ hop_results' = Append(hop_results, result)
    /\ current_step' = current_step + 1

(* _report_assumption_hop.                                                 *)
ReportAssumptionHop ==
    /\ pc = "hops" /\ HasHop
    /\ ~IsEquivalence(CurrentHop)
    /\ UNCHANGED step_assumptions
    /\ Report(Result(CurrentHop, CurrentHop.kind, CurrentHop.valid))
    /\ frames' = NextHop
    /\ UNCHANGED <<job, alike, pc, lemmaVars, proof_let_types, pool, total_steps>>

(* Mutant of CheckHop: the assumptions last set up stay in force.          *)
CheckHopStale ==
    /\ pc = "hops" /\ HasHop
    /\ IsEquivalence(CurrentHop)
    /\ UNCHANGED step_assumptions
    /\ \E valid \in BOOLEAN :
          /\ Check(CurrentHop, valid)
          /\ Report(Result(CurrentHop, "equivalent", valid))
    /\ IF CurrentHop.body = 0
       THEN frames' = NextHop /\ pc' = pc
       ELSE frames' = frames /\ pc' = "enter"
    /\ UNCHANGED <<job, lemmaVars, proof_let_types, pool, total_steps>>

CheckHop ==
    /\ pc = "hops" /\ HasHop
    /\ IsEquivalence(CurrentHop)
    /\ step_assumptions' = CurrentHop.assuming
    /\ \E valid \in BOOLEAN :
          /\ Check(CurrentHop, valid)
          /\ Report(Result(CurrentHop, "equivalent", valid))
    /\ IF CurrentHop.body = 0
       THEN frames' = NextHop /\ pc' = pc
       ELSE frames' = frames /\ pc' = "enter"
    /\ UNCHANGED <<job, lemmaVars, proof_let_types, pool, total_steps>>

InductionName == job.blocks[CurrentHop.body].name

EnterInduction ==
    /\ pc = "enter"
    /\ proof_let_types' = proof_let_types \cup {InductionName}
    /\ EnterBlock(CurrentHop.body)
    /\ UNCHANGED <<job, alike, lemmaVars, hop_results, current_step, total_steps>>

(* Mutant of Rollover: the first step at i, not i + 1.                     *)
RolloverSameIndex(b, num) ==
    [step_num |-> num, kind |-> "equivalent", body |-> 0, valid |-> TRUE,
     cur |-> Game(b, LastStep(b), "free"), next |-> Game(b, 1, "free"),
     assuming |-> Trailing(b)]

(* The rollover: from the last step at i to the first step at i + 1.       *)
Rollover(b, num) ==
    [step_num |-> num, kind |-> "equivalent", body |-> 0, valid |-> TRUE,
     cur |-> Game(b, LastStep(b), "free"), next |-> Game(b, 1, "succ"),
     assuming |-> Trailing(b)]

OuterHop == frames[Depth - 1].hops[frames[Depth - 1].pos]

(* Mutant of LeaveInduction: the variable keeps its type.                  *)
LeaveInductionTyped ==
    /\ pc = "hops" /\ Depth > 1 /\ ~HasHop
    /\ LET h == Rollover(Frame.block, OuterHop.step_num) IN
          /\ step_assumptions' = h.assuming
          /\ \E valid \in BOOLEAN :
                /\ Check(h, valid)
                /\ Report([Result(h, "induction_rollover", valid)
                              EXCEPT !.depth = @ - 1])
    /\ frames' = [Front(frames) EXCEPT ![Depth - 1].pos = @ + 1]
    /\ UNCHANGED <<job, pc, lemmaVars, proof_let_types, pool, total_steps>>

LeaveInduction ==
    /\ pc = "hops" /\ Depth > 1 /\ ~HasHop
    /\ LET h == Rollover(Frame.block, OuterHop.step_num) IN
          /\ step_assumptions' = h.assuming
          /\ \E valid \in BOOLEAN :
                /\ Check(h, valid)
                /\ Report([Result(h, "induction_rollover", valid)
                              EXCEPT !.depth = @ - 1])
    /\ proof_let_types' = proof_let_types \ {job.blocks[Frame.block].name}
    /\ frames' = [Front(frames) EXCEPT ![Depth - 1].pos = @ + 1]
    /\ UNCHANGED <<job, pc, lemmaVars, pool, total_steps>>

HopsDone ==
    /\ pc = "hops" /\ Depth = 1 /\ ~HasHop
    /\ pc' = "conclude"
    /\ UNCHANGED <<job, alike, lemmaVars, frames, step_assumptions, proof_let_types,
                   pool, hop_results, current_step, total_steps>>

-------------------------------------------------------------------------------
(* Parallel proving (_prove_steps_parallel).                               *)

(* Tasks complete in any order.                                            *)
TaskDone(k) ==
    /\ pc = "pool"
    /\ pool[k] = "pending"
    /\ \E valid \in BOOLEAN :
          /\ Check(Frame.hops[k], valid)
          /\ pool' = [pool EXCEPT ![k] = IF valid THEN "valid" ELSE "invalid"]
    /\ UNCHANGED <<job, pc, lemmaVars, frames, step_assumptions, proof_let_types,
                   hop_results, current_step, total_steps>>

(* future.result() raises when a worker died.                              *)
PoolBroken ==
    /\ pc = "pool"
    /\ PoolBreaks
    /\ \E k \in DOMAIN pool : pool[k] = "pending"
    /\ pc' = "crashed"
    /\ UNCHANGED <<job, alike, lemmaVars, frames, step_assumptions, proof_let_types,
                   pool, hop_results, current_step, total_steps>>

(* Mutant of PoolDone: the pool waits until every hop is valid.            *)
PoolDoneAllValid ==
    /\ pc = "pool"
    /\ \A k \in DOMAIN pool : pool[k] = "valid"
    /\ pc' = "report"
    /\ UNCHANGED <<job, alike, lemmaVars, frames, step_assumptions, proof_let_types,
                   pool, hop_results, current_step, total_steps>>

PoolDone ==
    /\ pc = "pool"
    /\ \A k \in DOMAIN pool : pool[k] # "pending"
    /\ pc' = "report"
    /\ UNCHANGED <<job, alike, lemmaVars, frames, step_assumptions, proof_let_types,
                   pool, hop_results, current_step, total_steps>>

(* Mutant of ReportPooled: a result is printed as soon as it is there.     *)
ReportPooledEarly ==
    /\ pc \in {"pool", "report"} /\ HasHop
    /\ UNCHANGED step_assumptions
    /\ \E k \in DOMAIN pool :
          /\ pool[k] # "pending"
          /\ \A i \in DOMAIN hop_results : hop_results[i].cur # Frame.hops[k].cur
          /\ Report([Result(Frame.hops[k], "equivalent", pool[k] = "valid")
                        EXCEPT !.assuming = Frame.hops[k].assuming])
    /\ frames' = NextHop
    /\ UNCHANGED <<job, alike, pc, lemmaVars, proof_let_types, pool, total_steps>>

(* All hops are reported in order; a worker checked with the assumptions   *)
(* its task carried.                                                       *)
ReportPooled ==
    /\ pc = "report" /\ HasHop
    /\ UNCHANGED step_assumptions
    /\ LET h == CurrentHop IN
          IF IsEquivalence(h)
          THEN Report([Result(h, "equivalent", pool[Frame.pos] = "valid")
                          EXCEPT !.assuming = h.assuming])
          ELSE Report(Result(h, h.kind, h.valid))
    /\ frames' = NextHop
    /\ UNCHANGED <<job, alike, pc, lemmaVars, proof_let_types, pool, total_steps>>

ReportsDone ==
    /\ pc = "report" /\ ~HasHop
    /\ pc' = "conclude"
    /\ UNCHANGED <<job, alike, lemmaVars, frames, step_assumptions, proof_let_types,
                   pool, hop_results, current_step, total_steps>>

-------------------------------------------------------------------------------
(* The verdict, at the end of prove.                                       *)

SidesFlip ==
    /\ FirstStep.game = FinalStep.game
    /\ FirstStep.side # FinalStep.side
    /\ FirstStep.adv = FinalStep.adv

AllValid == \A i \in DOMAIN hop_results : hop_results[i].valid

(* The claimed bound, if any, may still fail the proof.                    *)
Succeed ==
    /\ pc = "conclude"
    /\ AllValid
    /\ job.file.is_event \/ SidesFlip
    /\ \E bound_ok \in {TRUE, ~job.file.claims_bound} :
          pc' = IF bound_ok THEN "succeeded" ELSE "failed"
    /\ UNCHANGED <<job, alike, lemmaVars, frames, step_assumptions, proof_let_types,
                   pool, hop_results, current_step, total_steps>>

Fail ==
    /\ pc = "conclude"
    /\ ~AllValid \/ ~(job.file.is_event \/ SidesFlip)
    /\ pc' = "failed"
    /\ UNCHANGED <<job, alike, lemmaVars, frames, step_assumptions, proof_let_types,
                   pool, hop_results, current_step, total_steps>>

Next ==
    \/ ReadFile
    \/ \E l \in todo : SkipLemma(l) \/ VerifyLemma(l) \/ LemmaFails(l)
    \/ Start
    \/ ReportAssumptionHop \/ CheckHop
    \/ EnterInduction \/ LeaveInduction \/ HopsDone
    \/ \E k \in DOMAIN pool : TaskDone(k)
    \/ PoolBroken \/ PoolDone \/ ReportPooled \/ ReportsDone
    \/ Succeed \/ Fail

Spec == Init /\ [][Next]_vars

(* The engine never waits for anything but its own pool.                   *)
FairSpec == Spec /\ WF_vars(Next)
=============================================================================
