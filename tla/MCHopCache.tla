----------------------------- MODULE MCHopCache -----------------------------
(* Small instances of HopCache: one set of constants per question.         *)
EXTENDS HopCache, TLC

CONSTANTS a, b, c,      \* engine versions
          r1, r2,       \* runs
          w1, w2,       \* pool workers
          k1, k2,       \* contexts
          g1, g2, g3    \* games

H(k, g) == [ctx |-> k, games |-> g]

(* Engine b rejects what a accepts and the other way round; c accepts all  *)
(* hops of k1.                                                             *)
MCAccepts == [e \in Engines |->
    CASE e = a -> {H(k1, g1), H(k1, g2), H(k1, g3)}
      [] e = b -> {H(k2, g1), H(k1, g2)}
      [] OTHER -> {H(k1, g1), H(k1, g3)}]

(* The same games occur under both contexts; one run repeats a hop.        *)
TwoProofs == r1 :> <<H(k1, g1), H(k2, g1)>> @@ r2 :> <<H(k1, g1), H(k1, g3)>>
(* r1 has enough hops for a pool; r2 checks one of them again later.       *)
(* In the pool's run the digest cannot serialize the other one.            *)
PoolProofs == r1 :> <<H(k1, g1), H(k2, g1)>> @@ r2 :> <<H(k1, g1)>>
MCUncacheable == {H(k2, g1)}
WorkerSymmetry == Permutations(Workers)

Dig(e, h) == [engine |-> e, ctx |-> h.ctx, games |-> h.games]

EmptyDir == [present |-> {}, content |-> [e \in Engines |-> <<>>],
             torn |-> {}, newer |-> {}]
(* Earlier runs of engine a verified g2 and g3 and, racing one another,    *)
(* recorded g2 twice; or one of them was killed in the middle of a line.   *)
UsedDir == [EmptyDir EXCEPT !.present = {a},
                !.content[a] = <<Dig(a, H(k1, g2)), Dig(a, H(k1, g3)), Dig(a, H(k1, g2))>>]
TornDir == [EmptyDir EXCEPT !.present = {a}, !.torn = {a},
                !.content[a] = <<Dig(a, H(k1, g2)), Dig(a, H(k1, g3)), Garbled>>]
(* One file more than the limit.                                           *)
UsedTwice == [EmptyDir EXCEPT !.present = {a, b}, !.newer = {<<b, a>>},
                !.content[a] = <<Dig(a, H(k1, g2))>>, !.content[b] = <<Dig(b, H(k1, g2))>>]
TwoFileDirs == {UsedTwice}
MCPriorDirs == {EmptyDir, UsedDir, TornDir}
=============================================================================
