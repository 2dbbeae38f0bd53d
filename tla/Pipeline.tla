------------------------------- MODULE Pipeline -------------------------------
(***************************************************************************)
(* check_equivalent with the fixed-point loop of run_pipeline, which does  *)
(* not re-apply a pass to a game it has already left unchanged             *)
(* (proof_engine.py, transforms/_base.py).                                 *)
(*                                                                         *)
(* Games are objects here: `is` compares identities, and the identity of   *)
(* an object that nothing refers to any more goes to the next one made.    *)
(***************************************************************************)
EXTENDS PassLists

CONSTANT NotDeclined    \* an entry of declined that is None

VARIABLES
    hop,            \* the two games and their passes
    side,           \* which game is being canonicalized
    pc,
    pinned_fields,  \* ctx.pinned_fields
    game,           \* the object at the start of the sweep
    new_game,       \* the object the passes have made of it so far
    declined,       \* per pass: the object it last left unchanged, and the
                    \* pinned fields it saw
    iteration, index,
    canonical,      \* the canonical forms of the sides done
    valid

vars == <<hop, side, pc, pinned_fields, game, new_game, declined,
          iteration, index, canonical, valid>>

Object(id, tree) == [id |-> id, tree |-> tree]

Steps == PipelineOf(hop, side)
(* "Holding the game keeps the identity test valid": the identities of the *)
(* games that run_pipeline refers to are taken.                            *)
Held == {i \in DOMAIN declined : declined[i] # NotDeclined}
InUse == {game.id, new_game.id} \cup {declined[i].game.id : i \in Held}
NewIdentity == CHOOSE n \in 1..Len(Steps) + 3 : n \notin InUse

(* Mutant of NoneDeclined: sized before the step assumptions' pass is added. *)
NoneDeclinedCore == [i \in DOMAIN hop.core |-> NotDeclined]

NoneDeclined == [i \in DOMAIN Steps |-> NotDeclined]

Init ==
    /\ hop \in Hops
    /\ side = 1
    /\ pc = "start"
    /\ pinned_fields = {}
    /\ game = Object(1, hop.games[1])
    /\ new_game = Object(1, hop.games[1])
    /\ declined = NoneDeclined
    /\ iteration = 1
    /\ index = 1
    /\ canonical = <<>>
    /\ valid = FALSE

-------------------------------------------------------------------------------
(* Mutant of StartGame: fields pinned for the first game stay pinned.      *)
StartGamePinned ==
    /\ pc = "start"
    /\ pc' = "pass"
    /\ game' = Object(1, hop.games[side])
    /\ new_game' = game'
    /\ declined' = NoneDeclined
    /\ iteration' = 1
    /\ index' = 1
    /\ UNCHANGED <<hop, side, pinned_fields, canonical, valid>>

(* Each game starts with nothing pinned and nothing declined.              *)
StartGame ==
    /\ pc = "start"
    /\ pc' = "pass"
    /\ pinned_fields' = {}
    /\ game' = Object(1, hop.games[side])
    /\ new_game' = game'
    /\ declined' = NoneDeclined
    /\ iteration' = 1
    /\ index' = 1
    /\ UNCHANGED <<hop, side, canonical, valid>>

(* Mutant of Declined: the pinned fields are not compared.                 *)
DeclinedWhateverPinned(i) ==
    declined[i] # NotDeclined /\ declined[i].game.id = new_game.id

Declined(i) ==
    /\ declined[i] # NotDeclined
    /\ declined[i].game.id = new_game.id
    /\ declined[i].pinned = pinned_fields

Skip ==
    /\ pc = "pass"
    /\ index \in DOMAIN Steps
    /\ Declined(index)
    /\ index' = index + 1
    /\ UNCHANGED <<hop, side, pc, pinned_fields, game, new_game, declined,
                   iteration, canonical, valid>>

Result == Steps[index][<<new_game.tree, pinned_fields>>]

Applies ==
    /\ pc = "pass"
    /\ index \in DOMAIN Steps
    /\ ~Declined(index)

(* The game keeps its structure: the input object is kept, and the pass    *)
(* has declined it unless it pinned a field meanwhile.                     *)
LeaveUnchanged ==
    /\ Applies
    /\ Result[1] = new_game.tree
    /\ pinned_fields' = Result[2]
    /\ declined' = [declined EXCEPT ![index] =
                       IF Result[2] = pinned_fields
                       THEN [game |-> new_game, pinned |-> pinned_fields]
                       ELSE NotDeclined]
    /\ index' = index + 1
    /\ UNCHANGED <<hop, side, pc, game, new_game, iteration, canonical, valid>>

Rewrite ==
    /\ Applies
    /\ Result[1] # new_game.tree
    /\ pinned_fields' = Result[2]
    /\ new_game' = Object(NewIdentity, Result[1])
    /\ declined' = [declined EXCEPT ![index] = NotDeclined]
    /\ index' = index + 1
    /\ UNCHANGED <<hop, side, pc, game, iteration, canonical, valid>>

-------------------------------------------------------------------------------
SweepDone == pc = "pass" /\ index \notin DOMAIN Steps

(* A sweep that changed nothing `==` can see ends the loop, and the game   *)
(* is the one the sweep started from.                                      *)
Converged ==
    /\ SweepDone
    /\ <<new_game.tree, game.tree>> \in LooselyEqual
    /\ pc' = "standardize"
    /\ UNCHANGED <<hop, side, pinned_fields, game, new_game, declined,
                   iteration, index, canonical, valid>>

(* Mutant of NextSweep: the loop has no limit.                             *)
NextSweepUnlimited ==
    /\ SweepDone
    /\ <<new_game.tree, game.tree>> \notin LooselyEqual
    /\ game' = new_game
    /\ iteration' = iteration
    /\ index' = 1
    /\ UNCHANGED <<hop, side, pc, pinned_fields, new_game, declined,
                   canonical, valid>>

(* After MaxIterations sweeps the loop gives up with a warning.            *)
NextSweep ==
    /\ SweepDone
    /\ <<new_game.tree, game.tree>> \notin LooselyEqual
    /\ game' = new_game
    /\ IF iteration < MaxIterations
       THEN pc' = pc /\ iteration' = iteration + 1 /\ index' = 1
       ELSE pc' = "standardize" /\ UNCHANGED <<iteration, index>>
    /\ UNCHANGED <<hop, side, pinned_fields, new_game, declined, canonical, valid>>

Standardize ==
    /\ pc = "standardize"
    /\ canonical' = Append(canonical, Standardized(hop, <<game.tree, pinned_fields>>))
    /\ IF side = 1 THEN side' = 2 /\ pc' = "start" ELSE side' = side /\ pc' = "compare"
    /\ UNCHANGED <<hop, pinned_fields, game, new_game, declined,
                   iteration, index, valid>>

(* _z3_residual_equivalence may find forms equivalent that are not equal.  *)
Compare ==
    /\ pc = "compare"
    /\ valid' \in IF <<canonical[1], canonical[2]>> \in LooselyEqual THEN {TRUE}
                  ELSE BOOLEAN
    /\ pc' = "done"
    /\ UNCHANGED <<hop, side, pinned_fields, game, new_game, declined,
                   iteration, index, canonical>>

Next == StartGame \/ Skip \/ LeaveUnchanged \/ Rewrite \/ Converged \/ NextSweep
        \/ Standardize \/ Compare

Spec == Init /\ [][Next]_vars

(* One thread that waits for nothing.                                      *)
FairSpec == Spec /\ WF_vars(Next)

-------------------------------------------------------------------------------
(* Properties.                                                             *)

Objects == [id : Nat \ {0}, tree : Trees]
Declines == [game : Objects, pinned : SUBSET Fields]

(* Every variable keeps its type; in particular `declined` has one entry   *)
(* for each pass of the side's pipeline.                                   *)
TypeOK ==
    /\ hop \in Hops
    /\ side \in Sides
    /\ pc \in {"start", "pass", "standardize", "compare", "done"}
    /\ pinned_fields \subseteq Fields
    /\ {game, new_game} \subseteq Objects
    /\ declined \in [DOMAIN Steps -> Declines \cup {NotDeclined}]
    /\ iteration \in 1..MaxIterations
    /\ index \in 1..Len(Steps) + 1
    /\ valid \in BOOLEAN

(* Passing over a pass that declined the game loses nothing: run_pipeline  *)
(* computes, sweep by sweep, what the loop that applies every pass does.   *)
Naive == INSTANCE NaivePipeline WITH game <- game.tree, new_game <- new_game.tree
SkipsExact == Naive!Spec

(* "Each game is canonicalized on its own ... so that a game's canonical   *)
(* form does not depend on its hop partner" (check_equivalent): it is the  *)
(* result of the loop on the game alone, as a function of it.              *)
CanonicalForm(h, s) ==
    LET Sweep(x) == RunOnce(PipelineOf(h, s), x)
        loop[n \in 0..MaxIterations] ==    \* what at most n sweeps make of x
            [x \in Inputs |->
                IF n = 0 THEN x
                ELSE IF <<Sweep(x)[1], x[1]>> \in LooselyEqual THEN <<x[1], Sweep(x)[2]>>
                ELSE loop[n - 1][Sweep(x)]]
    IN Standardized(h, loop[MaxIterations][<<h.games[s], {}>>])
OwnCanonicalForm ==
    \A s \in DOMAIN canonical : canonical[s] = CanonicalForm(hop, s)

(* "for _ in range(max_iterations)": passes that undo one another cannot   *)
(* keep the check from ending.                                             *)
AlwaysAnswers == <>(pc = "done")
=============================================================================
