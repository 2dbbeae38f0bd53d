------------------------------ MODULE NaivePipeline ------------------------------
(***************************************************************************)
(* The check of a hop with the plain fixed-point loop: every sweep applies *)
(* every pass, as run_pipeline_with_trace does (transforms/_base.py).      *)
(* Each game is canonicalized on its own, starting with nothing pinned.    *)
(***************************************************************************)
EXTENDS Naturals, Sequences

CONSTANTS
    Hops,               \* the checks to run: two games and their passes
    LooselyEqual,       \* the pairs of trees that are `==`
    MaxIterations,
    PipelineOf(_, _),   \* the passes for one side of a hop
    Standardized(_, _)  \* what run_standardization makes of a tree

VARIABLES
    hop,            \* the two games and their passes
    side,           \* which game is being canonicalized
    pc,
    pinned_fields,
    game,           \* the tree at the start of the sweep
    new_game,       \* the tree the passes have made of it so far
    iteration, index,
    canonical,      \* the canonical forms of the sides done
    valid

vars == <<hop, side, pc, pinned_fields, game, new_game, iteration, index,
          canonical, valid>>

Init ==
    /\ hop \in Hops
    /\ side = 1
    /\ pc = "start"
    /\ pinned_fields = {}
    /\ game = hop.games[1]
    /\ new_game = hop.games[1]
    /\ iteration = 1
    /\ index = 1
    /\ canonical = <<>>
    /\ valid = FALSE

StartGame ==
    /\ pc = "start"
    /\ pc' = "pass"
    /\ pinned_fields' = {}
    /\ game' = hop.games[side]
    /\ new_game' = hop.games[side]
    /\ iteration' = 1
    /\ index' = 1
    /\ UNCHANGED <<hop, side, canonical, valid>>

Pipeline == PipelineOf(hop, side)

ApplyPass ==
    /\ pc = "pass"
    /\ index \in DOMAIN Pipeline
    /\ LET result == Pipeline[index][<<new_game, pinned_fields>>] IN
          new_game' = result[1] /\ pinned_fields' = result[2]
    /\ index' = index + 1
    /\ UNCHANGED <<hop, side, pc, game, iteration, canonical, valid>>

Converged ==
    /\ pc = "pass"
    /\ index \notin DOMAIN Pipeline
    /\ <<new_game, game>> \in LooselyEqual
    /\ pc' = "standardize"
    /\ UNCHANGED <<hop, side, pinned_fields, game, new_game, iteration, index,
                   canonical, valid>>

NextSweep ==
    /\ pc = "pass"
    /\ index \notin DOMAIN Pipeline
    /\ <<new_game, game>> \notin LooselyEqual
    /\ game' = new_game
    /\ IF iteration < MaxIterations
       THEN pc' = pc /\ iteration' = iteration + 1 /\ index' = 1
       ELSE pc' = "standardize" /\ UNCHANGED <<iteration, index>>
    /\ UNCHANGED <<hop, side, pinned_fields, new_game, canonical, valid>>

Standardize ==
    /\ pc = "standardize"
    /\ canonical' = Append(canonical, Standardized(hop, <<game, pinned_fields>>))
    /\ IF side = 1 THEN side' = 2 /\ pc' = "start" ELSE side' = side /\ pc' = "compare"
    /\ UNCHANGED <<hop, pinned_fields, game, new_game, iteration, index, valid>>

(* Canonical forms that differ may still be equivalent to Z3.              *)
Compare ==
    /\ pc = "compare"
    /\ valid' \in IF <<canonical[1], canonical[2]>> \in LooselyEqual THEN {TRUE}
                  ELSE BOOLEAN
    /\ pc' = "done"
    /\ UNCHANGED <<hop, side, pinned_fields, game, new_game, iteration, index, canonical>>

Next == StartGame \/ ApplyPass \/ Converged \/ NextSweep \/ Standardize \/ Compare

Spec == Init /\ [][Next]_vars
=============================================================================
