------------------------------ MODULE Dependencies ------------------------------
(***************************************************************************)
(* The dependency graph of a block of statements (dependencies.py).  Of a  *)
(* statement it sees: the names it mentions, in order of appearance; the   *)
(* names it may write at any depth (declaring is writing); whether it is,  *)
(* or contains, a return; and whether it holds a draw from a domain that   *)
(* may be empty, so that it may not complete.                              *)
(***************************************************************************)
EXTENDS Naturals, Sequences, SequencesExt

CONSTANT Fields     \* the names of the game's fields

MutatesField(s) == s.writes \cap Fields # {}

(* A statement whose order relative to the returns is observable.          *)
Effect(s) == MutatesField(s) \/ s.may_not_complete

(* The entries of a list that are in S, each one once (add_neighbour).     *)
Among(list, S) ==
    FoldLeft(LAMBDA seen, j : IF j \in S \ ToSet(seen) THEN Append(seen, j) ELSE seen,
             <<>>, list)

Earlier(i, S) == Among([j \in 1..i - 1 |-> j], S)

(* Write after read or write: below every earlier mention, nearest first.  *)
Mentioning(b, i, x) ==
    Reverse(Earlier(i, {j \in DOMAIN b : x \in ToSet(b[j].mentions)}))

(* Read after write: below the nearest earlier writer.                     *)
NearestWriter(b, i, x) ==
    LET writers == {j \in 1..i - 1 : x \in b[j].writes} IN
    IF writers = {} THEN <<>> ELSE <<Max(writers)>>

NameNeighbours(b, i, x) ==
    IF x \in b[i].writes THEN Mentioning(b, i, x) ELSE NearestWriter(b, i, x)

(* generate_dependency_graph: in_neighbours of statement i, each one once. *)
InNeighbours(b, i) ==
    LET s == b[i]
        returning == {j \in DOMAIN b : b[j].returns}
        observable == {j \in DOMAIN b : Effect(b[j])}
        returns == IF s.returns THEN Earlier(i, observable \cup returning) ELSE <<>>
        effects == IF Effect(s) THEN Earlier(i, returning) ELSE <<>>
        names == FlattenSeq([k \in DOMAIN s.mentions |->
                                NameNeighbours(b, i, s.mentions[k])])
    IN Among(returns \o effects \o names, DOMAIN b)

DependencyGraph(b) == [i \in DOMAIN b |-> InNeighbours(b, i)]
=============================================================================
