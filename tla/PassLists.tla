------------------------------- MODULE PassLists -------------------------------
(***************************************************************************)
(* The data of canonicalization (transforms/_base.py, pipelines.py): games *)
(* as syntax trees, and passes that rewrite one tree into another.         *)
(*                                                                         *)
(* A tree stands for all games of the same_structure; `==` on games is     *)
(* looser.  A pass is a function of the tree and of the only part of its   *)
(* context that changes while it runs, the set of pinned fields.           *)
(***************************************************************************)
EXTENDS Naturals, Sequences, SequencesExt

CONSTANTS
    Trees,          \* games up to same_structure
    Fields,         \* names a pass may pin
    LooselyEqual,   \* the pairs of trees that are `==` (ASTNode.__eq__)
    Hops,           \* the checks to run: two games and the lists of passes
    MaxIterations   \* _MAX_FIXED_POINT_ITERATIONS

Inputs == Trees \X SUBSET Fields
Passes == {p \in [Inputs -> Inputs] : \A x \in Inputs : x[2] \subseteq p[x][2]}

Sides == {1, 2}

ASSUME TreesAssumption ==
    /\ LooselyEqual \subseteq Trees \X Trees
    /\ \A t \in Trees : <<t, t>> \in LooselyEqual
ASSUME HopsAssumption ==
    \A h \in Hops :
        /\ h.games \in [Sides -> Trees]
        /\ h.core \in Seq([Inputs -> Inputs])
        /\ h.assumptions \in [Sides -> [Inputs -> Inputs]]
        /\ h.standardization \in Seq([Inputs -> Inputs])
ASSUME LimitAssumption == MaxIterations \in Nat \ {0}

(* CORE_PIPELINE, then the step assumptions of this side.                  *)
PipelineOf(h, side) == Append(h.core, h.assumptions[side])

(* The passes of a list applied in turn, each once (run_standardization).  *)
RunOnce(list, input) == FoldLeft(LAMBDA x, pass : pass[x], input, list)

Standardized(h, input) == RunOnce(h.standardization, input)[1]
=============================================================================
