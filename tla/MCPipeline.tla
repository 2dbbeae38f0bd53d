------------------------------ MODULE MCPipeline ------------------------------
(* Three trees, the first two of them `==`, and one field to pin.  A pass  *)
(* is a rule: it rewrites one tree, perhaps only while the field is (not)  *)
(* pinned, and may pin it.                                                 *)
EXTENDS Pipeline

CONSTANT f
MCTrees == 1..3
MCLooselyEqual == {<<t, t>> : t \in MCTrees} \cup {<<1, 2>>, <<2, 1>>}
MCInputs == MCTrees \X SUBSET {f}

Enabled(when, pinned) ==
    \/ when = "always"
    \/ when = "pinned" /\ f \in pinned
    \/ when = "unpinned" /\ f \notin pinned
Rule(from, to, when, pins) ==
    [x \in MCInputs |->
        IF x[1] = from /\ Enabled(when, x[2])
        THEN <<to, IF pins THEN {f} ELSE x[2]>> ELSE x]

Nothing == Rule(1, 1, "always", FALSE)

(* A producer pins the field it creates, or one that is there already; a   *)
(* consumer looks at the pinned fields.                                    *)
Producers == {Rule(from, to, "always", TRUE) : from \in MCTrees, to \in MCTrees}
Consumers == {Rule(from, to, when, FALSE) :
                from \in MCTrees, to \in MCTrees, when \in {"always", "pinned", "unpinned"}}
Rewriters == {Rule(1, 3, "always", FALSE), Rule(3, 2, "always", FALSE)}
Core == {<<p, c>> : p \in Producers, c \in Consumers}
        \cup {<<c, p>> : p \in Producers, c \in Consumers}
        \cup {<<r, c, p>> : r \in Rewriters, c \in Consumers, p \in Producers}
Assumptions == {<<Nothing, Nothing>>, <<Nothing, Rule(3, 1, "always", FALSE)>>,
                <<Rule(2, 3, "always", FALSE), Nothing>>}

(* The standardization tells apart what `==` does not.                     *)
MCHops == [games : [1..2 -> MCTrees], core : Core, assumptions : Assumptions,
           standardization : {<<Rule(2, 3, "unpinned", FALSE)>>}]
=============================================================================
