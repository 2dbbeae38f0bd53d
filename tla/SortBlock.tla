------------------------------- MODULE SortBlock -------------------------------
(***************************************************************************)
(* sort_block (proof_engine.py): puts the statements of a block into an    *)
(* order that depends on the dependency graph only as far as possible, and *)
(* leaves out what nothing observable depends on.  Statements are numbered *)
(* by their place in the block; a number stands for the node of the graph  *)
(* and for the identity of the statement.                                  *)
(***************************************************************************)
EXTENDS Naturals, Sequences, SequencesExt

CONSTANTS
    Blocks,         \* the blocks to sort
    Fields,         \* the names of the game's fields
    Graph(_)        \* in_neighbours of each statement of a block

ASSUME GraphAssumption ==
    \A b \in Blocks :
        /\ b \in Seq(Range(b))
        /\ Graph(b) \in [1..Len(b) -> Seq(Nat)]
        /\ \A i \in 1..Len(b) : Range(Graph(b)[i]) \subseteq 1..i - 1
        /\ \A i \in 1..Len(b) : IsInjective(Graph(b)[i])

(* When something depends on a statement that depends on nothing itself and *)
(* mentions no field, a copy of it comes later and is below it: it writes  *)
(* or returns.                                                             *)
ASSUME CopiesAssumption ==
    \A b \in Blocks : \A i \in 1..Len(b) : \A j \in Range(Graph(b)[i]) :
        Graph(b)[j] = <<>> /\ Range(b[j].mentions) \cap Fields = {} =>
            \A k \in 1..Len(b) \ {j} :
                b[k].text = b[j].text => j \in Range(Graph(b)[k])

VARIABLES
    block,
    phase,          \* which statements are looked for
    dfs_stack,
    visited,        \* dfs_visited_ids
    found,          \* dfs_sorted_statements
    in_neighbours,
    queue,          \* `stack`: filled at the front, emptied at the back
    sorted,         \* sorted_statements
    next            \* place in the loop over what was found, then over the
                    \* nodes (0 between two rounds of it)

vars == <<block, phase, dfs_stack, visited, found, in_neighbours, queue, sorted, next>>

Statements == 1..Len(block)
First(i, is) == i \in is /\ \A j \in is : i <= j

(* Following the graph from what is observable.                            *)
Seeks == <<"return", "fields", "rescue", "draws">>
Phases == Range(Seeks) \cup {"sources", "sort", "done"}

TopReturns == {i \in Statements : block[i].is_return}

(* Mutant of Wanted: a return inside a branch is not looked for.           *)
WantedTopOnly(i) ==
    \/ phase = "return" /\ First(i, TopReturns)
    \/ phase = "fields" /\ Range(block[i].mentions) \cap Fields # {}
    \/ phase = "draws" /\ block[i].may_not_complete

(* The first return of the block itself; statements that mention a field;  *)
(* those with a return inside; those that may not complete.                *)
Wanted(i) ==
    \/ phase = "return" /\ First(i, TopReturns)
    \/ phase = "fields" /\ Range(block[i].mentions) \cap Fields # {}
    \/ phase = "rescue" /\ block[i].returns
    \/ phase = "draws" /\ block[i].may_not_complete

Seeds == {i \in Statements \ visited : Wanted(i)}

Init ==
    /\ block \in Blocks
    /\ phase = "return"
    /\ dfs_stack = <<>>
    /\ visited = {}
    /\ found = <<>>
    /\ in_neighbours = Graph(block)
    /\ queue = <<>>
    /\ sorted = <<>>
    /\ next = 1

Seed ==
    /\ phase \in Range(Seeks)
    /\ dfs_stack = <<>>
    /\ \E i \in Seeds : First(i, Seeds) /\ dfs_stack' = <<i>>
    /\ UNCHANGED <<block, phase, visited, found, in_neighbours, queue, sorted, next>>

(* Mutant of Visit: a node reached along two paths is taken twice.         *)
VisitAgain ==
    /\ dfs_stack # <<>>
    /\ LET node == Last(dfs_stack) IN
          /\ found' = Append(found, node)
          /\ visited' = visited \cup {node}
          /\ dfs_stack' = Front(dfs_stack) \o in_neighbours[node]
    /\ UNCHANGED <<block, phase, in_neighbours, queue, sorted, next>>

(* Mutant of Visit: only the first neighbour is followed.                  *)
VisitFirst ==
    /\ dfs_stack # <<>>
    /\ Last(dfs_stack) \notin visited
    /\ LET node == Last(dfs_stack)
           in == in_neighbours[node]
       IN /\ found' = Append(found, node)
          /\ visited' = visited \cup {node}
          /\ dfs_stack' = Front(dfs_stack) \o (IF in = <<>> THEN <<>> ELSE <<Head(in)>>)
    /\ UNCHANGED <<block, phase, in_neighbours, queue, sorted, next>>

(* do_dfs takes the node on top.                                           *)
Visit ==
    /\ dfs_stack # <<>>
    /\ Last(dfs_stack) \notin visited
    /\ LET node == Last(dfs_stack) IN
          /\ found' = Append(found, node)
          /\ visited' = visited \cup {node}
          /\ dfs_stack' = Front(dfs_stack) \o in_neighbours[node]
    /\ UNCHANGED <<block, phase, in_neighbours, queue, sorted, next>>

PopVisited ==
    /\ dfs_stack # <<>>
    /\ Last(dfs_stack) \in visited
    /\ dfs_stack' = Front(dfs_stack)
    /\ UNCHANGED <<block, phase, visited, found, in_neighbours, queue, sorted, next>>

(* What the return needs is put in reverse, the rest is appended.          *)
NextSeek ==
    /\ phase \in Range(Seeks)
    /\ dfs_stack = <<>>
    /\ Seeds = {}
    /\ phase' = IF phase = "draws" THEN "sources"
                ELSE Seeks[(CHOOSE k \in DOMAIN Seeks : Seeks[k] = phase) + 1]
    /\ found' = IF phase = "return" THEN Reverse(found) ELSE found
    /\ UNCHANGED <<block, dfs_stack, visited, in_neighbours, queue, sorted, next>>

-------------------------------------------------------------------------------
(* Sorting what was found.  The loop over it starts the queue.             *)

Source ==
    /\ phase = "sources"
    /\ next <= Len(found)
    /\ queue' = IF in_neighbours[found[next]] = <<>> THEN Append(queue, found[next]) ELSE queue
    /\ next' = next + 1
    /\ UNCHANGED <<block, phase, dfs_stack, visited, found, in_neighbours, sorted>>

SourcesDone ==
    /\ phase = "sources"
    /\ next > Len(found)
    /\ phase' = "sort"
    /\ next' = 0
    /\ UNCHANGED <<block, dfs_stack, visited, found, in_neighbours, queue, sorted>>

Place ==
    /\ phase = "sort"
    /\ next = 0
    /\ queue # <<>>
    /\ sorted' = Append(sorted, Head(queue))
    /\ queue' = Tail(queue)
    /\ next' = 1
    /\ UNCHANGED <<block, phase, dfs_stack, visited, found, in_neighbours>>

Placed == Last(sorted)
NextNode == IF next = Len(block) THEN 0 ELSE next + 1

(* Mutant of SameNode: nodes are compared by their statements alone.       *)
SameNodeByText(i) == block[i].text = block[Placed].text

(* Node.__eq__ with the node placed, which has no in_neighbours left:      *)
(* statements are compared as trees, so another node may be taken for it.  *)
SameNode(i) == block[i].text = block[Placed].text /\ in_neighbours[i] = <<>>

Same == {k \in DOMAIN in_neighbours[next] : SameNode(in_neighbours[next][k])}

(* The loop over all nodes takes the one placed out of the in_neighbours.  *)
(* A statement that was not found is a node too, and follows when the last *)
(* one it waits for is placed.                                             *)
TakeOut ==
    /\ phase = "sort"
    /\ next # 0
    /\ \E k \in Same :
          /\ First(k, Same)
          /\ in_neighbours' = [in_neighbours EXCEPT ![next] = RemoveAt(@, k)]
    /\ queue' = IF in_neighbours'[next] = <<>> THEN Append(queue, next) ELSE queue
    /\ next' = NextNode
    /\ UNCHANGED <<block, phase, dfs_stack, visited, found, sorted>>

LeaveNode ==
    /\ phase = "sort"
    /\ next # 0
    /\ Same = {}
    /\ next' = NextNode
    /\ UNCHANGED <<block, phase, dfs_stack, visited, found, in_neighbours, queue, sorted>>

(* Mutant of Done: the loop waits until every statement is placed.         *)
DoneWhenAllPlaced ==
    /\ phase = "sort" /\ next = 0 /\ queue = <<>>
    /\ Range(sorted) = Statements
    /\ phase' = "done"
    /\ UNCHANGED <<block, dfs_stack, visited, found, in_neighbours, queue, sorted, next>>

Done ==
    /\ phase = "sort"
    /\ next = 0
    /\ queue = <<>>
    /\ phase' = "done"
    /\ UNCHANGED <<block, dfs_stack, visited, found, in_neighbours, queue, sorted, next>>

Next ==
    \/ Seed \/ Visit \/ PopVisited \/ NextSeek
    \/ Source \/ SourcesDone \/ Place \/ TakeOut \/ LeaveNode \/ Done

Spec == Init /\ [][Next]_vars

(* A loop that runs in one thread and waits for nothing.                   *)
FairSpec == Spec /\ WF_vars(Next)
=============================================================================
