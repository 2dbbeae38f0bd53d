------------------------------ MODULE BlockMeaning ------------------------------
(***************************************************************************)
(* What sorting a block must preserve: the meaning of the block, given by  *)
(* running it, and the order its dependency graph asks for.                *)
(***************************************************************************)
EXTENDS SortBlock

CONSTANTS
    Names,          \* of fields, parameters and locals
    Values,
    Entries,        \* the states an oracle call may start from
    Coins,          \* the outcomes of one draw
    Does(_, _, _)   \* what a statement makes of a state and its coin

States == [Names -> Values]

(* A statement does something to a state, with the coin that is its own    *)
(* wherever it stands: it goes on, returns a value or never completes.     *)
Going(state) == [end |-> "next", state |-> state, value |-> 0]
Stopped(out) == out.end # "next"

(* A statement writes only, and looks only at, what was collected of it;   *)
(* only one that contains a return returns, and only one that may not      *)
(* complete does not (_StatementAccess).                                   *)
ASSUME AccessAssumption ==
    /\ Fields \subseteq Names /\ Entries \subseteq States
    /\ \A s \in UNION {Range(b) : b \in Blocks} :
          /\ s.mentions \in Seq(Names) /\ s.writes \subseteq Range(s.mentions)
          /\ s.returns \in BOOLEAN /\ s.may_not_complete \in BOOLEAN
          /\ \A state \in States, coin \in Coins :
                LET out == Does(s.text, state, coin) IN
                /\ out.state \in States
                /\ \A x \in Names \ s.writes : out.state[x] = state[x]
                /\ \/ out = Going(out.state)
                   \/ out.end = "return" /\ s.returns
                   \/ out.end = "stuck" /\ s.may_not_complete
                /\ \A same \in {t \in States :
                                   \A x \in Range(s.mentions) : t[x] = state[x]} :
                      LET o == Does(s.text, same, coin) IN
                      /\ o.end = out.end /\ o.value = out.value
                      /\ \A x \in s.writes : o.state[x] = out.state[x]

(* Statement j depends on i, directly or through a chain: i is in whatever *)
(* holds j and all that its members depend on.                             *)
Requires(graph, j, i) ==
    \A D \in SUBSET DOMAIN graph :
        j \in D /\ (\A k \in D : Range(graph[k]) \subseteq D) => i \in D

(* One writes or rebinds a name that the other mentions.                   *)
Conflict(s, t) ==
    Range(s.mentions) \cap t.writes # {} \/ s.writes \cap Range(t.mentions) # {}

(* What the adversary may see happen.                                      *)
Observable(s) == s.returns \/ s.may_not_complete \/ s.writes \cap Fields # {}

(* "The graph must connect, directly or through a chain, every conflicting *)
(* pair", and every return with what is observable (dependencies.py).      *)
Connects(graph, b) ==
    \A j \in 1..Len(b) : \A i \in 1..j - 1 :
        \/ Conflict(b[i], b[j])
        \/ Observable(b[i]) /\ Observable(b[j]) /\ (b[i].returns \/ b[j].returns)
        => Requires(graph, j, i)

ASSUME GraphConnects == \A b \in Blocks : Connects(Graph(b), b)

Step(out, i, coins) ==
    IF Stopped(out) THEN out ELSE Does(block[i].text, out.state, coins[i])

Run(order, state, coins) ==
    FoldLeft(LAMBDA out, i : Step(out, i, coins), Going(state), order)

(* The adversary sees whether a call completes, what it returns, and the   *)
(* fields through later calls.                                             *)
Observed(out) ==
    IF out.end = "stuck" THEN <<"stuck">>
    ELSE <<out.end, out.value, [x \in Fields |-> out.state[x]]>>

Original == [i \in Statements |-> i]
DrawsOf == [Statements -> Coins]

-------------------------------------------------------------------------------
(* Properties.                                                             *)

(* Every statement is placed once at most, and only statements that wait   *)
(* for nothing are about to be placed.                                     *)
TypeOK ==
    /\ phase \in Phases
    /\ visited \subseteq Statements
    /\ Range(found) = visited /\ Len(found) = Cardinality(visited)
    /\ Range(dfs_stack) \subseteq Statements
    /\ \A i \in Statements : Range(in_neighbours[i]) \subseteq Range(Graph(block)[i])
    /\ Cardinality(Range(sorted \o queue)) = Len(sorted \o queue)
    /\ \A k \in DOMAIN queue : in_neighbours[queue[k]] = <<>>

(* A statement is placed below every statement it depends on, although a   *)
(* node equal to the one placed may be taken out instead of it.            *)
KeepsOrder ==
    \A k \in DOMAIN sorted :
        Range(Graph(block)[sorted[k]]) \subseteq {sorted[l] : l \in 1..k - 1}

(* Whatever was found is placed: no statement waits for ever for one that  *)
(* was left out.                                                           *)
PlacesFound == phase = "done" => Range(found) \subseteq Range(sorted)

(* The sorted block is the block: from every state and with every outcome  *)
(* of its draws it completes if the original does, returns the same value  *)
(* and leaves the same fields ("Every reordering consumer keeps a          *)
(* statement below its in-neighbours", dependencies.py).                   *)
SameBehaviour ==
    phase = "done" =>
        \A state \in Entries, coins \in DrawsOf :
            Observed(Run(sorted, state, coins)) = Observed(Run(Original, state, coins))

(* The sort ends.                                                          *)
SortEnds == <>(phase = "done")
=============================================================================
