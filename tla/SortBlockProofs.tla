---------------------------- MODULE SortBlockProofs ----------------------------
(***************************************************************************)
(* sort_block keeps the order the dependency graph asks for, places what   *)
(* it finds and keeps what the block does, for every block and every graph *)
(* that connects what conflicts and tells copies apart as assumed; and the *)
(* graph of generate_dependency_graph does so.                             *)
(***************************************************************************)
EXTENDS BlockMeaning, RecursiveFunctions, FiniteSetTheorems

Order == sorted \o queue
Before(k) == {Order[l] : l \in 1..k - 1}

Typed ==
    /\ block \in Blocks
    /\ phase \in Phases
    /\ dfs_stack \in Seq(Statements)
    /\ found \in Seq(Statements)
    /\ queue \in Seq(Statements)
    /\ sorted \in Seq(Statements)
    /\ in_neighbours \in [Statements -> Seq(Nat)]
    /\ next \in Nat

Searching == phase \in Range(Seeks)

Staged ==
    /\ Searching => queue = <<>> /\ next = 1
    /\ ~Searching => dfs_stack = <<>>
    /\ Searching \/ phase = "sources" => in_neighbours = Graph(block) /\ sorted = <<>>
    /\ phase = "sources" =>
          /\ next # 0
          /\ \A k \in DOMAIN queue : \E l \in 1..Len(found) : l < next /\ queue[k] = found[l]
    /\ phase = "sort" => next <= Len(block) /\ (next # 0 => sorted # <<>>)

(* No statement is found or queued twice, and no neighbour is added.       *)
Counted ==
    /\ visited = Range(found)
    /\ IsInjective(found)
    /\ IsInjective(Order)
    /\ \A i \in Statements : Range(in_neighbours[i]) \subseteq Range(Graph(block)[i])

(* A neighbour that was taken out is queued, whichever node it was taken   *)
(* for; a queued statement comes after all its neighbours; and a statement *)
(* is queued as soon as nothing is left.                                   *)
OrderKept ==
    /\ \A k \in DOMAIN Order : in_neighbours[Order[k]] = <<>>
    /\ \A i \in Statements :
          Range(Graph(block)[i]) \subseteq Range(in_neighbours[i]) \cup Range(Order)
    /\ \A k \in DOMAIN Order : Range(Graph(block)[Order[k]]) \subseteq Before(k)
    /\ \A i \in Statements :
          in_neighbours[i] = <<>> /\ Graph(block)[i] # <<>> => i \in Range(Order)

(* Statements that mention a field are found, and what is found and waits  *)
(* for nothing is queued from the start.                                   *)
Sought ==
    /\ phase \in {"rescue", "draws", "sources", "sort", "done"} =>
          \A i \in Statements : Range(block[i].mentions) \cap Fields # {} => i \in visited
    /\ phase = "sources" =>
          \A l \in 1..Len(found) :
              l < next /\ Graph(block)[found[l]] = <<>> => found[l] \in Range(queue)
    /\ phase \in {"sort", "done"} =>
          \A i \in visited : Graph(block)[i] = <<>> => i \in Range(Order)

IInv == Typed /\ Staged /\ Counted /\ OrderKept /\ Sought

-------------------------------------------------------------------------------
(* Sequences.                                                              *)

LEMMA InRange ==
    ASSUME NEW S, NEW s \in Seq(S)
    PROVE  /\ DOMAIN s = 1..Len(s) /\ Len(s) \in Nat
           /\ \A k \in 1..Len(s) : s[k] \in Range(s) /\ s[k] \in S
           /\ \A x \in Range(s) : \E k \in 1..Len(s) : s[k] = x
  BY DEF Range

LEMMA JoinFacts ==
    ASSUME NEW S, NEW s \in Seq(S), NEW t \in Seq(S)
    PROVE  /\ s \o t \in Seq(S)
           /\ Len(s \o t) = Len(s) + Len(t)
           /\ \A k \in 1..Len(s) : (s \o t)[k] = s[k]
           /\ \A k \in 1..Len(t) : (s \o t)[Len(s) + k] = t[k]
           /\ Range(s \o t) = Range(s) \cup Range(t)
<1>1. /\ s \o t \in Seq(S)
      /\ Len(s \o t) = Len(s) + Len(t)
      /\ \A k \in 1..Len(s) : (s \o t)[k] = s[k]
      /\ \A k \in 1..Len(t) : (s \o t)[Len(s) + k] = t[k]
  OBVIOUS
<1>2. \A k \in 1..Len(s \o t) : k \in 1..Len(s) \/ \E l \in 1..Len(t) : k = Len(s) + l
  <2> TAKE k \in 1..Len(s \o t)
  <2>1. CASE k <= Len(s)
    BY <2>1
  <2>2. CASE k > Len(s)
    <3>1. k - Len(s) \in 1..Len(t) /\ k = Len(s) + (k - Len(s))
      BY <2>2, <1>1
    <3>2. QED BY <3>1
  <2>3. QED BY <2>1, <2>2
<1>3. Range(s \o t) \subseteq Range(s) \cup Range(t)
  BY <1>1, <1>2 DEF Range
<1>4. Range(s) \cup Range(t) \subseteq Range(s \o t)
  <2>1. \A k \in 1..Len(s \o t) : (s \o t)[k] \in Range(s \o t)
    BY <1>1, InRange
  <2>2. \A k \in 1..Len(s) : k \in 1..Len(s \o t)
    BY <1>1
  <2>3. \A k \in 1..Len(t) : Len(s) + k \in 1..Len(s \o t)
    BY <1>1
  <2>4. \A x \in Range(s) : x \in Range(s \o t)
    BY <1>1, <2>1, <2>2, InRange
  <2>5. \A x \in Range(t) : x \in Range(s \o t)
    <3> TAKE x \in Range(t)
    <3>1. PICK k \in 1..Len(t) : t[k] = x
      BY InRange
    <3>2. QED BY <1>1, <2>1, <2>3, <3>1
  <2>6. QED BY <2>4, <2>5
<1>5. QED BY <1>1, <1>3, <1>4

LEMMA AppendFacts ==
    ASSUME NEW S, NEW s \in Seq(S), NEW x \in S
    PROVE  /\ Append(s, x) \in Seq(S)
           /\ Len(Append(s, x)) = Len(s) + 1
           /\ \A k \in 1..Len(s) : Append(s, x)[k] = s[k]
           /\ Append(s, x)[Len(s) + 1] = x
           /\ Range(Append(s, x)) = Range(s) \cup {x}
<1>1. /\ Append(s, x) \in Seq(S)
      /\ Len(Append(s, x)) = Len(s) + 1
      /\ \A k \in 1..Len(s) : Append(s, x)[k] = s[k]
      /\ Append(s, x)[Len(s) + 1] = x
  OBVIOUS
<1>2. Range(Append(s, x)) = {Append(s, x)[k] : k \in 1..Len(s) + 1}
  BY <1>1 DEF Range
<1>3. QED BY <1>1, <1>2 DEF Range

(* A new element keeps a sequence free of repetitions.                     *)
LEMMA StaysInjective ==
    ASSUME NEW S, NEW s \in Seq(S), NEW x \in S, IsInjective(s), x \notin Range(s)
    PROVE  IsInjective(Append(s, x))
<1>1. /\ DOMAIN Append(s, x) = 1..Len(s) + 1
      /\ \A k \in 1..Len(s) : Append(s, x)[k] = s[k] /\ s[k] # x
      /\ Append(s, x)[Len(s) + 1] = x
  BY AppendFacts, InRange
<1>2. ASSUME NEW k \in 1..Len(s) + 1, NEW l \in 1..Len(s) + 1,
             Append(s, x)[k] = Append(s, x)[l]
      PROVE  k = l
  <2>1. CASE k = Len(s) + 1
    BY <1>1, <1>2, <2>1
  <2>2. CASE l = Len(s) + 1
    BY <1>1, <1>2, <2>2
  <2>3. CASE k # Len(s) + 1 /\ l # Len(s) + 1
    BY <1>1, <1>2, <2>3 DEF IsInjective
  <2>4. QED BY <2>1, <2>2, <2>3
<1>3. QED BY <1>1, <1>2 DEF IsInjective

(* Moving the head of one sequence to the end of another.                  *)
LEMMA MoveHead ==
    ASSUME NEW S, NEW s \in Seq(S), NEW t \in Seq(S), t # <<>>
    PROVE  /\ Append(s, Head(t)) \in Seq(S)
           /\ Tail(t) \in Seq(S)
           /\ Append(s, Head(t)) # <<>>
           /\ Append(s, Head(t)) \o Tail(t) = s \o t
  OBVIOUS

LEMMA AppendConcat ==
    ASSUME NEW S, NEW s \in Seq(S), NEW t \in Seq(S), NEW x \in S
    PROVE  s \o Append(t, x) = Append(s \o t, x)
  OBVIOUS

(* Taking one element out of a sequence leaves the others.                 *)
LEMMA RemoveAtFacts ==
    ASSUME NEW S, NEW s \in Seq(S), NEW k \in 1..Len(s)
    PROVE  /\ RemoveAt(s, k) \in Seq(S)
           /\ Range(RemoveAt(s, k)) \subseteq Range(s)
           /\ Range(s) \subseteq Range(RemoveAt(s, k)) \cup {s[k]}
<1> DEFINE a == SubSeq(s, 1, k - 1)
           b == SubSeq(s, k + 1, Len(s))
<1>1. /\ a \in Seq(S) /\ Len(a) = k - 1
      /\ \A l \in 1..k - 1 : a[l] = s[l]
  OBVIOUS
<1>2. /\ b \in Seq(S) /\ Len(b) = Len(s) - k
      /\ \A l \in 1..Len(s) - k : b[l] = s[k + l]
  OBVIOUS
<1>3. RemoveAt(s, k) = a \o b
  BY DEF RemoveAt
<1>4. Range(RemoveAt(s, k)) = Range(a) \cup Range(b) /\ RemoveAt(s, k) \in Seq(S)
  <2> HIDE DEF a, b
  <2>1. QED BY <1>1, <1>2, <1>3, JoinFacts
<1>5. Range(a) \subseteq Range(s)
  BY <1>1 DEF Range
<1>6. Range(b) \subseteq Range(s)
  BY <1>2 DEF Range
<1>7. \A l \in 1..Len(s) : s[l] \in Range(a) \cup Range(b) \cup {s[k]}
  <2> HIDE DEF a, b
  <2> TAKE l \in 1..Len(s)
  <2>1. CASE l < k
    <3>1. l \in 1..Len(a) /\ a[l] = s[l]
      BY <1>1, <2>1
    <3>2. QED BY <3>1, <1>1, InRange
  <2>2. CASE l = k
    BY <2>2
  <2>3. CASE l > k
    <3>1. l - k \in 1..Len(b) /\ b[l - k] = s[l]
      BY <1>2, <2>3
    <3>2. QED BY <3>1, <1>2, InRange
  <2>4. QED BY <2>1, <2>2, <2>3
<1> HIDE DEF a, b
<1>8. \A x \in Range(s) : x \in Range(RemoveAt(s, k)) \cup {s[k]}
  BY <1>4, <1>7, InRange
<1>9. QED BY <1>4, <1>5, <1>6, <1>8

LEMMA ReverseFacts ==
    ASSUME NEW S, NEW s \in Seq(S)
    PROVE  /\ Reverse(s) \in Seq(S)
           /\ Range(Reverse(s)) = Range(s)
           /\ IsInjective(s) => IsInjective(Reverse(s))
<1>1. Reverse(s) \in Seq(S) /\ DOMAIN Reverse(s) = 1..Len(s)
  BY DEF Reverse
<1>2. \A k \in 1..Len(s) : Reverse(s)[k] = s[Len(s) - k + 1] /\ Len(s) - k + 1 \in 1..Len(s)
  BY DEF Reverse
<1>3. Range(Reverse(s)) \subseteq Range(s)
  BY <1>1, <1>2 DEF Range
<1>4. Range(s) \subseteq Range(Reverse(s))
  <2>1. \A k \in 1..Len(s) : Reverse(s)[Len(s) - k + 1] = s[k] /\ Len(s) - k + 1 \in 1..Len(s)
    BY DEF Reverse
  <2>2. \A k \in 1..Len(s) : Reverse(s)[k] \in Range(Reverse(s))
    BY <1>1 DEF Range
  <2>3. QED BY <2>1, <2>2, InRange
<1>5. IsInjective(s) => IsInjective(Reverse(s))
  BY <1>1, <1>2 DEF IsInjective
<1>6. QED BY <1>1, <1>3, <1>4, <1>5

LEMMA InjectiveCount ==
    ASSUME NEW S, NEW s \in Seq(S), IsInjective(s)
    PROVE  Cardinality(Range(s)) = Len(s)
<1>1. s \in Bijection(1..Len(s), Range(s))
  BY DEF Bijection, Injection, Surjection, IsInjective, Range
<1>2. IsFiniteSet(1..Len(s)) /\ Cardinality(1..Len(s)) = Len(s)
  <2>1. Len(s) \in Nat
    OBVIOUS
  <2>2. QED BY <2>1, FS_Interval
<1>3. QED BY <1>1, <1>2, FS_Bijection DEF ExistsBijection

-------------------------------------------------------------------------------
(* The invariant.                                                          *)

LEMMA GraphFacts ==
    ASSUME block \in Blocks
    PROVE  /\ Len(block) \in Nat
           /\ Graph(block) \in [Statements -> Seq(Nat)]
           /\ \A i \in Statements : Range(Graph(block)[i]) \subseteq 1..i - 1
           /\ \A i \in Statements : Range(Graph(block)[i]) \subseteq Statements
<1>1. block \in Seq(Range(block))
  BY GraphAssumption
<1>2. Len(block) \in Nat
  BY <1>1
<1>3. /\ Graph(block) \in [1..Len(block) -> Seq(Nat)]
      /\ \A i \in 1..Len(block) : Range(Graph(block)[i]) \subseteq 1..i - 1
  BY GraphAssumption
<1>4. QED BY <1>2, <1>3 DEF Statements

LEMMA EmptyRange ==
    ASSUME NEW s, s = <<>> PROVE Range(s) = {}
  BY DEF Range

LEMMA OrderFacts ==
    ASSUME Typed
    PROVE  /\ Order \in Seq(Statements)
           /\ Len(Order) = Len(sorted) + Len(queue)
           /\ Range(Order) = Range(sorted) \cup Range(queue)
  BY JoinFacts DEF Typed, Order

(* Nothing changes for the order unless the order or the graph does.       *)
LEMMA OrderUnchanged ==
    ASSUME IInv, UNCHANGED <<block, in_neighbours>>, Order' = Order
    PROVE  OrderKept' /\ IsInjective(Order')
           /\ \A i \in Statements' :
                  Range(in_neighbours'[i]) \subseteq Range(Graph(block')[i])
<1>1. Statements' = Statements /\ \A k : Before(k)' = Before(k)
  BY DEF Statements, Before
<1>2. OrderKept /\ IsInjective(Order)
      /\ \A i \in Statements : Range(in_neighbours[i]) \subseteq Range(Graph(block)[i])
  BY DEF IInv, Counted
<1>3. OrderKept'
  BY <1>1, <1>2 DEF OrderKept
<1>4. QED BY <1>1, <1>2, <1>3

(* What was sought stays found and queued outside the loop over it.        *)
LEMMA SoughtKept ==
    ASSUME IInv, UNCHANGED <<block, found, visited>>, phase # "sources",
           phase' = phase \/ (phase = "sort" /\ phase' = "done"),
           Range(Order) \subseteq Range(Order')
    PROVE  Sought'
  BY DEF IInv, Sought, Statements

LEMMA SoughtUnchanged ==
    ASSUME IInv, UNCHANGED <<block, found, visited, phase>>, phase # "sources",
           Order' = Order
    PROVE  Sought'
  BY SoughtKept

LEMMA InitIInv == Init => IInv
<1> SUFFICES ASSUME Init PROVE IInv
  OBVIOUS
<1>1. Typed
  BY GraphFacts DEF Init, Typed, Phases, Seeks, Range
<1>2. Staged
  <2>1. phase = "return" /\ queue = <<>> /\ next = 1 /\ sorted = <<>>
        /\ in_neighbours = Graph(block)
    BY DEF Init
  <2>2. Searching
    BY <2>1 DEF Searching, Seeks, Range
  <2>3. QED BY <2>1, <2>2 DEF Staged
<1>3. Order = <<>> /\ Range(Order) = {} /\ DOMAIN Order = {}
  BY DEF Init, Order, Range
<1>4. Counted
  BY <1>3 DEF Init, Counted, IsInjective, Range
<1>5. OrderKept
  BY <1>3 DEF Init, OrderKept
<1>6. Sought
  BY DEF Init, Sought
<1>7. QED BY <1>1, <1>2, <1>4, <1>5, <1>6 DEF IInv

LEMMA PhaseFacts ==
    /\ phase = "sources" => ~Searching
    /\ phase = "sort" => ~Searching
    /\ phase = "done" => ~Searching
  BY DEF Searching, Seeks, Range

LEMMA SeedStep == IInv /\ Seed => IInv'
<1> SUFFICES ASSUME IInv, Seed PROVE IInv'
  OBVIOUS
<1>1. Typed'
  BY DEF IInv, Typed, Seed, Seeds, Statements, First
<1>2. Staged'
  BY DEF IInv, Staged, Searching, Seed
<1>3. Counted' /\ OrderKept'
  BY OrderUnchanged DEF Order, Seed, IInv, Counted
<1>4. Sought'
  <2>1. phase # "sources" /\ Order' = Order /\ UNCHANGED <<block, found, visited, phase>>
    BY PhaseFacts DEF Seed, Searching, Order
  <2>2. QED BY <2>1, SoughtUnchanged
<1>5. QED BY <1>1, <1>2, <1>3, <1>4 DEF IInv

LEMMA StackFacts ==
    ASSUME IInv, dfs_stack # <<>>
    PROVE  /\ Searching
           /\ Last(dfs_stack) \in Statements
           /\ Front(dfs_stack) \in Seq(Statements)
  BY DEF IInv, Staged, Typed, Last, Front

LEMMA VisitStep == IInv /\ Visit => IInv'
<1> SUFFICES ASSUME IInv, Visit PROVE IInv'
  OBVIOUS
<1> DEFINE node == Last(dfs_stack)
<1>1. /\ node \in Statements /\ node \notin visited
      /\ Searching /\ in_neighbours = Graph(block)
      /\ Front(dfs_stack) \in Seq(Statements)
  BY StackFacts DEF Visit, IInv, Staged
<1>2. in_neighbours[node] \in Seq(Statements)
  <2>1. /\ in_neighbours[node] \in Seq(Nat)
        /\ Range(in_neighbours[node]) \subseteq Statements
    BY <1>1, GraphFacts DEF IInv, Typed
  <2> HIDE DEF node
  <2>2. \A k \in 1..Len(in_neighbours[node]) : in_neighbours[node][k] \in Statements
    BY <2>1, InRange
  <2>3. QED BY <2>1, <2>2
<1>3. /\ found' = Append(found, node) /\ visited' = visited \cup {node}
      /\ dfs_stack' = Front(dfs_stack) \o in_neighbours[node]
      /\ UNCHANGED <<block, phase, in_neighbours, queue, sorted, next>>
  BY DEF Visit
<1> HIDE DEF node
<1>4. found \in Seq(Statements) /\ visited = Range(found) /\ IsInjective(found)
  BY DEF IInv, Typed, Counted
<1>5. /\ found' \in Seq(Statements) /\ visited' = Range(found') /\ IsInjective(found')
      /\ dfs_stack' \in Seq(Statements)
  BY <1>1, <1>2, <1>3, <1>4, AppendFacts, StaysInjective, JoinFacts
<1>6. Typed'
  BY <1>3, <1>5 DEF IInv, Typed, Statements
<1>7. Staged'
  BY <1>1, <1>3 DEF IInv, Staged, Searching, Seeks, Range
<1>8. Counted' /\ OrderKept'
  BY <1>3, <1>5, OrderUnchanged DEF Order, Counted
<1>9. Sought'
  <2>1. phase' \notin {"sources", "sort", "done"}
    BY <1>1, <1>3, PhaseFacts
  <2>2. QED BY <1>3, <2>1 DEF IInv, Sought, Statements
<1>10. QED BY <1>6, <1>7, <1>8, <1>9 DEF IInv

LEMMA PopVisitedStep == IInv /\ PopVisited => IInv'
<1> SUFFICES ASSUME IInv, PopVisited PROVE IInv'
  OBVIOUS
<1>1. Searching /\ dfs_stack' \in Seq(Statements)
  BY StackFacts DEF PopVisited
<1>2. Typed'
  BY <1>1 DEF IInv, Typed, PopVisited, Statements
<1>3. Staged'
  BY <1>1 DEF IInv, Staged, Searching, PopVisited
<1>4. Counted' /\ OrderKept'
  BY OrderUnchanged DEF Order, PopVisited, IInv, Counted
<1>5. Sought'
  <2>1. phase # "sources" /\ Order' = Order /\ UNCHANGED <<block, found, visited, phase>>
    BY <1>1, PhaseFacts DEF PopVisited, Order
  <2>2. QED BY <2>1, SoughtUnchanged
<1>6. QED BY <1>2, <1>3, <1>4, <1>5 DEF IInv

LEMMA SeeksInOrder ==
    ASSUME NextSeek, phase' \in {"rescue", "draws", "sources"}
    PROVE  phase \in {"fields", "rescue", "draws"}
<1>1. Seeks[1] = "return" /\ Seeks[2] = "fields" /\ DOMAIN Seeks = 1..4
      /\ Seeks[3] = "rescue" /\ Seeks[4] = "draws"
  BY DEF Seeks
<1>2. CASE phase = "return"
  <2> DEFINE c == CHOOSE l \in DOMAIN Seeks : Seeks[l] = phase
  <2>1. c \in DOMAIN Seeks /\ Seeks[c] = "return"
    BY <1>1, <1>2
  <2> HIDE DEF c
  <2>2. c = 1
    BY <1>1, <2>1
  <2>3. phase' = Seeks[c + 1]
    BY <1>2 DEF NextSeek, c
  <2>4. QED BY <1>1, <2>2, <2>3
<1>3. CASE phase # "return"
  BY <1>1, <1>3 DEF NextSeek, Range
<1>4. QED BY <1>2, <1>3

LEMMA NextSeekStep == IInv /\ NextSeek => IInv'
<1> SUFFICES ASSUME IInv, NextSeek PROVE IInv'
  OBVIOUS
<1>1. phase' \in Range(Seeks) \cup {"sources"}
  <2>1. CASE phase = "draws"
    BY <2>1 DEF NextSeek
  <2>2. CASE phase # "draws"
    <3>1. PICK k \in 1..3 : Seeks[k] = phase
      BY <2>2 DEF NextSeek, Seeks, Range
    <3>2. DOMAIN Seeks = 1..4
      BY DEF Seeks
    <3> DEFINE c == CHOOSE l \in DOMAIN Seeks : Seeks[l] = phase
    <3>3. c \in 1..4 /\ Seeks[c] = phase
      BY <3>1, <3>2
    <3> HIDE DEF c
    <3>4. c # 4
      BY <2>2, <3>3 DEF Seeks
    <3>5. phase' = Seeks[c + 1]
      BY <2>2 DEF NextSeek, c
    <3>6. c + 1 \in DOMAIN Seeks
      BY <3>2, <3>3, <3>4
    <3>7. QED BY <3>5, <3>6 DEF Range
  <2>3. QED BY <2>1, <2>2
<1>2. found' \in Seq(Statements) /\ visited' = Range(found') /\ IsInjective(found')
  BY ReverseFacts DEF NextSeek, IInv, Typed, Counted
<1>3. /\ Searching /\ dfs_stack = <<>>
      /\ UNCHANGED <<block, dfs_stack, in_neighbours, queue, sorted, next>>
  BY DEF NextSeek, Searching
<1>4. Typed'
  BY <1>1, <1>2, <1>3 DEF IInv, Typed, Phases, Statements
<1>5. Staged'
  <2>1. queue = <<>> /\ next = 1 /\ in_neighbours = Graph(block) /\ sorted = <<>>
    BY <1>3 DEF IInv, Staged
  <2>2. phase' # "sort"
    BY <1>1 DEF Seeks, Range
  <2>3. QED BY <1>3, <2>1, <2>2 DEF Staged
<1>6. Counted' /\ OrderKept'
  BY <1>2, <1>3, OrderUnchanged DEF Order, Counted
<1>7. Sought'
  <2>1. phase' \notin {"sort", "done"} /\ next = 1 /\ next' = 1
    BY <1>1, <1>3 DEF Seeks, Range, IInv, Staged
  <2>2. phase' \in {"rescue", "draws", "sources"} => phase \in {"fields", "rescue", "draws"}
    BY SeeksInOrder DEF NextSeek
  <2>3. phase = "fields" =>
          \A i \in Statements : Range(block[i].mentions) \cap Fields # {} => i \in visited
    BY DEF NextSeek, Seeds, Wanted
  <2>4. UNCHANGED <<block, visited>>
    BY DEF NextSeek
  <2>5. \A l \in 1..Len(found') : ~(l < next')
    BY <2>1
  <2>6. QED BY <2>1, <2>2, <2>3, <2>4, <2>5 DEF IInv, Sought, Statements
<1>8. QED BY <1>4, <1>5, <1>6, <1>7 DEF IInv

LEMMA SourcesDoneStep == IInv /\ SourcesDone => IInv'
<1> SUFFICES ASSUME IInv, SourcesDone PROVE IInv'
  OBVIOUS
<1>1. Typed'
  BY DEF IInv, Typed, SourcesDone, Statements, Phases
<1>2. Staged'
  BY PhaseFacts, GraphFacts DEF IInv, Typed, Staged, SourcesDone, Searching, Seeks, Range
<1>3. Counted' /\ OrderKept'
  BY OrderUnchanged DEF Order, SourcesDone, IInv, Counted
<1>4. Sought'
  <2>1. phase = "sources" /\ next > Len(found) /\ phase' = "sort"
        /\ UNCHANGED <<block, found, visited, queue, sorted>>
    BY DEF SourcesDone
  <2>2. \A l \in 1..Len(found) : Graph(block)[found[l]] = <<>> => found[l] \in Range(queue)
    BY <2>1 DEF IInv, Typed, Sought
  <2>3. \A i \in visited : \E l \in 1..Len(found) : found[l] = i
    BY InRange DEF IInv, Typed, Counted
  <2>4. Range(queue) \subseteq Range(Order) /\ Order' = Order
    BY <2>1, OrderFacts DEF IInv, Order
  <2>5. QED BY <2>1, <2>2, <2>3, <2>4 DEF IInv, Sought, Statements
<1>5. QED BY <1>1, <1>2, <1>3, <1>4 DEF IInv

LEMMA DoneStep == IInv /\ Done => IInv'
<1> SUFFICES ASSUME IInv, Done PROVE IInv'
  OBVIOUS
<1>1. Typed'
  BY DEF IInv, Typed, Done, Statements, Phases
<1>2. Staged'
  BY PhaseFacts DEF IInv, Staged, Done, Searching, Seeks, Range
<1>3. Counted' /\ OrderKept'
  BY OrderUnchanged DEF Order, Done, IInv, Counted
<1>4. Sought'
  BY SoughtKept DEF Done, Order
<1>5. QED BY <1>1, <1>2, <1>3, <1>4 DEF IInv

LEMMA LeaveNodeStep == IInv /\ LeaveNode => IInv'
<1> SUFFICES ASSUME IInv, LeaveNode PROVE IInv'
  OBVIOUS
<1>1. NextNode \in Nat /\ NextNode <= Len(block)
  BY GraphFacts DEF IInv, Typed, Staged, LeaveNode, NextNode
<1>2. Typed'
  BY <1>1 DEF IInv, Typed, LeaveNode, Statements
<1>3. Staged'
  BY <1>1, PhaseFacts DEF IInv, Staged, LeaveNode, Searching
<1>4. Counted' /\ OrderKept'
  BY OrderUnchanged DEF Order, LeaveNode, IInv, Counted
<1>5. Sought'
  <2>1. phase # "sources" /\ Order' = Order /\ UNCHANGED <<block, found, visited, phase>>
    BY DEF LeaveNode, Order
  <2>2. QED BY <2>1, SoughtUnchanged
<1>6. QED BY <1>2, <1>3, <1>4, <1>5 DEF IInv

LEMMA PlaceStep == IInv /\ Place => IInv'
<1> SUFFICES ASSUME IInv, Place PROVE IInv'
  OBVIOUS
<1>1. /\ sorted' \in Seq(Statements) /\ queue' \in Seq(Statements)
      /\ sorted' # <<>> /\ Order' = Order
  <2>1. sorted \in Seq(Statements) /\ queue \in Seq(Statements) /\ queue # <<>>
    BY DEF IInv, Typed, Place
  <2>2. sorted' = Append(sorted, Head(queue)) /\ queue' = Tail(queue)
    BY DEF Place
  <2>3. Order' = sorted' \o queue' /\ Order = sorted \o queue
    BY DEF Order
  <2>4. Append(sorted, Head(queue)) \o Tail(queue) = sorted \o queue
        /\ Append(sorted, Head(queue)) \in Seq(Statements)
        /\ Tail(queue) \in Seq(Statements)
        /\ Append(sorted, Head(queue)) # <<>>
    BY <2>1, MoveHead
  <2>5. QED BY <2>2, <2>3, <2>4
<1>2. Typed'
  BY <1>1 DEF IInv, Typed, Place, Statements
<1>3. Staged'
  <2>1. Len(block) # 0
    <3>1. queue # <<>> /\ queue \in Seq(Statements)
      BY DEF IInv, Typed, Place
    <3>2. Head(queue) \in Statements
      BY <3>1
    <3>3. Len(block) \in Nat
      BY GraphFacts DEF IInv, Typed
    <3>4. \E i \in 1..Len(block) : TRUE
      BY <3>2 DEF Statements
    <3>5. QED BY <3>3, <3>4
  <2>2. phase' = "sort" /\ next' = 1 /\ ~Searching /\ ~Searching' /\ dfs_stack' = <<>>
    BY PhaseFacts DEF IInv, Staged, Place, Searching
  <2>3. next' <= Len(block')
    BY <2>1, <2>2, GraphFacts DEF IInv, Typed, Place
  <2>4. QED BY <1>1, <2>2, <2>3 DEF Staged
<1>4. Counted' /\ OrderKept'
  BY <1>1, OrderUnchanged DEF IInv, Counted, Place
<1>5. Sought'
  <2>1. phase # "sources" /\ Order' = Order /\ UNCHANGED <<block, found, visited, phase>>
    BY <1>1 DEF Place
  <2>2. QED BY <2>1, SoughtUnchanged
<1>6. QED BY <1>2, <1>3, <1>4, <1>5 DEF IInv

LEMMA SourceStep == IInv /\ Source => IInv'
<1> SUFFICES ASSUME IInv, Source PROVE IInv'
  OBVIOUS
<1> DEFINE i == found[next]
<1>1. /\ phase = "sources" /\ next \in 1..Len(found) /\ next' = next + 1
      /\ sorted = <<>> /\ in_neighbours = Graph(block)
      /\ found \in Seq(Statements) /\ queue \in Seq(Statements) /\ next \in Nat
      /\ UNCHANGED <<block, phase, dfs_stack, visited, found, in_neighbours, sorted>>
  <2>1. next # 0 /\ next \in Nat /\ found \in Seq(Statements)
    BY DEF IInv, Typed, Staged, Source
  <2>2. QED BY <2>1 DEF IInv, Typed, Staged, Source
<1>2. i \in Statements
  BY <1>1
<1>3. Order = queue /\ Order' = queue' /\ IsInjective(queue)
  <2>1. Order = queue /\ (queue' \in Seq(Statements) => Order' = queue')
    BY <1>1 DEF Order
  <2>2. queue' \in Seq(Statements)
    BY <1>1, <1>2 DEF Source
  <2>3. QED BY <2>1, <2>2 DEF IInv, Counted
<1>4. \A k \in DOMAIN queue : \E l \in 1..Len(found) : l < next /\ queue[k] = found[l]
  BY <1>1 DEF IInv, Staged
<1>11. Statements' = Statements /\ phase' = "sources"
       /\ (\A j \in Statements : Range(block[j].mentions) \cap Fields # {} => j \in visited)
       /\ \A l \in 1..Len(found) :
              l < next /\ Graph(block)[found[l]] = <<>> => found[l] \in Range(queue)
  BY <1>1 DEF IInv, Sought, Statements
<1>12. ASSUME Range(queue) \subseteq Range(queue'),
              Graph(block)[i] = <<>> => i \in Range(queue')
       PROVE  Sought'
  <2>1. \A l \in 1..Len(found) : l < next + 1 => l < next \/ l = next
    BY <1>1
  <2>2. \A l \in 1..Len(found) :
            l < next + 1 /\ Graph(block)[found[l]] = <<>> => found[l] \in Range(queue')
    BY <1>11, <1>12, <2>1
  <2>3. QED BY <1>1, <1>11, <2>2 DEF Sought
<1>5. CASE in_neighbours[i] # <<>>
  <2>1. queue' = queue
    BY <1>5 DEF Source
  <2>2. Typed'
    BY <1>1, <2>1 DEF IInv, Typed, Statements
  <2>3. Staged'
    BY <1>1, <1>4, <2>1, PhaseFacts DEF IInv, Staged, Searching
  <2>4. Counted' /\ OrderKept'
    BY <1>1, <1>3, <2>1, OrderUnchanged DEF IInv, Counted
  <2>5. Sought'
    BY <1>1, <1>5, <1>12, <2>1
  <2>6. QED BY <2>2, <2>3, <2>4, <2>5 DEF IInv
<1>6. CASE in_neighbours[i] = <<>>
  <2>1. queue' = Append(queue, i)
    BY <1>6 DEF Source
  <2> HIDE DEF i
  <2>2. /\ queue' \in Seq(Statements) /\ Len(queue') = Len(queue) + 1
        /\ \A k \in 1..Len(queue) : queue'[k] = queue[k]
        /\ queue'[Len(queue) + 1] = i
        /\ Range(queue') = Range(queue) \cup {i}
        /\ DOMAIN queue' = 1..Len(queue) + 1 /\ Len(queue) \in Nat /\ DOMAIN queue = 1..Len(queue)
    BY <1>1, <1>2, <2>1, AppendFacts
  <2>3. Typed'
    BY <1>1, <2>2 DEF IInv, Typed, Statements
  <2>4. Staged'
    <3>1. \A k \in DOMAIN queue' : \E l \in 1..Len(found) : l < next + 1 /\ queue'[k] = found[l]
      <4> TAKE k \in DOMAIN queue'
      <4>1. CASE k \in DOMAIN queue
        BY <1>1, <1>4, <2>2, <4>1
      <4>2. CASE k = Len(queue) + 1
        BY <1>1, <2>2, <4>2 DEF i
      <4>3. QED BY <2>2, <4>1, <4>2
    <3>2. QED BY <1>1, <3>1, PhaseFacts DEF IInv, Staged, Searching
  <2>5. i \notin Range(queue)
    <3>1. ASSUME NEW k \in 1..Len(queue), queue[k] = i PROVE FALSE
      <4>1. PICK l \in 1..Len(found) : l < next /\ queue[k] = found[l]
        BY <1>4, <2>2
      <4>2. l = next
        <5>1. found[l] = found[next]
          BY <3>1, <4>1 DEF i
        <5>2. IsInjective(found) /\ l \in DOMAIN found /\ next \in DOMAIN found
          BY <1>1, <4>1 DEF IInv, Counted
        <5>3. QED BY <5>1, <5>2 DEF IsInjective
      <4>3. QED BY <1>1, <4>1, <4>2
    <3>2. QED BY <1>1, <3>1, InRange
  <2>6. IsInjective(queue')
    BY <1>1, <1>2, <1>3, <2>1, <2>5, StaysInjective
  <2>7. Statements' = Statements
    BY <1>1 DEF Statements
  <2>8. Counted'
    BY <1>1, <1>3, <2>6, <2>7 DEF IInv, Counted
  <2>9. OrderKept'
    <3>1. \A k \in DOMAIN queue' : in_neighbours[queue'[k]] = <<>>
      <4>1. \A k \in DOMAIN queue : in_neighbours[queue[k]] = <<>>
        BY <1>3 DEF IInv, OrderKept
      <4>2. QED BY <1>6, <2>2, <4>1
    <3>2. \A k \in DOMAIN queue' : Range(Graph(block)[queue'[k]]) = {}
      BY <1>1, <3>1, EmptyRange
    <3>3. \A j \in Statements : in_neighbours[j] = Graph(block)[j]
      BY <1>1
    <3>4. QED BY <1>1, <1>3, <2>7, <3>1, <3>2, <3>3 DEF OrderKept
  <2>10. Sought'
    BY <1>12, <2>2 DEF i
  <2>11. QED BY <2>3, <2>4, <2>8, <2>9, <2>10 DEF IInv
<1>7. QED BY <1>5, <1>6

(* Taking a neighbour out: it is the node placed or a copy of it, and      *)
(* either way it is in the order already.                                  *)
LEMMA TakenOutIsQueued ==
    ASSUME IInv, phase = "sort", next # 0, NEW k \in Same
    PROVE  in_neighbours[next][k] \in Range(Order)
<1> DEFINE in == in_neighbours[next]
           j == in[k]
<1>1. /\ next \in Statements /\ block \in Blocks /\ sorted \in Seq(Statements) /\ sorted # <<>>
  BY GraphFacts DEF IInv, Typed, Staged, Statements
<1>2. Placed \in Range(sorted) /\ Placed \in Statements
  <2>1. Len(sorted) \in 1..Len(sorted)
    BY <1>1
  <2>2. QED BY <1>1, <2>1, InRange DEF Last, Placed
<1>3. in \in Seq(Nat) /\ k \in DOMAIN in /\ SameNode(j)
  BY <1>1 DEF IInv, Typed, Same
<1>4. j \in Range(Graph(block)[next])
  <2>1. j \in Range(in)
    BY <1>3 DEF Range
  <2>2. QED BY <1>1, <2>1 DEF IInv, Counted
<1>5. j \in Statements
  BY <1>1, <1>4, GraphFacts
<1> HIDE DEF in, j
<1>6. block[j].text = block[Placed].text /\ in_neighbours[j] = <<>>
  BY <1>3 DEF SameNode
<1>7. PICK l \in DOMAIN Order : Order[l] = Placed
  <2>1. Placed \in Range(Order)
    BY <1>2, OrderFacts DEF IInv
  <2>2. QED BY <2>1 DEF Range
<1>8. CASE j = Placed
  BY <1>2, <1>8, OrderFacts DEF IInv, j, in
<1>9. CASE Graph(block)[j] # <<>>
  BY <1>5, <1>6, <1>9 DEF IInv, OrderKept, j, in
<1>10. CASE Graph(block)[j] = <<>> /\ Range(block[j].mentions) \cap Fields # {}
  BY <1>5, <1>10 DEF IInv, Sought, j, in
<1>11. CASE /\ j # Placed
            /\ Graph(block)[j] = <<>> /\ Range(block[j].mentions) \cap Fields = {}
  <2>1. j \in Range(Graph(block)[Placed])
    BY <1>1, <1>2, <1>4, <1>6, <1>11, CopiesAssumption DEF Statements
  <2>2. j \in Before(l)
    BY <1>7, <2>1 DEF IInv, OrderKept
  <2>3. \A m \in 1..l - 1 : m \in DOMAIN Order
    BY <1>7, OrderFacts DEF IInv
  <2>4. QED BY <2>2, <2>3 DEF Before, Range, j, in
<1>12. QED BY <1>8, <1>9, <1>10, <1>11

LEMMA TakeOutStep == IInv /\ TakeOut => IInv'
<1> SUFFICES ASSUME IInv, TakeOut PROVE IInv'
  OBVIOUS
<1>1. /\ phase = "sort" /\ next # 0 /\ next' = NextNode
      /\ UNCHANGED <<block, phase, dfs_stack, visited, found, sorted>>
      /\ queue' = IF in_neighbours'[next] = <<>> THEN Append(queue, next) ELSE queue
  BY DEF TakeOut
<1>2. PICK k \in Same : in_neighbours' = [in_neighbours EXCEPT ![next] = RemoveAt(@, k)]
  BY DEF TakeOut
<1>3. /\ block \in Blocks /\ next \in Statements /\ sorted # <<>>
      /\ sorted \in Seq(Statements) /\ queue \in Seq(Statements)
      /\ in_neighbours \in [Statements -> Seq(Nat)]
  BY <1>1, GraphFacts DEF IInv, Typed, Staged, Statements
<1> DEFINE in == in_neighbours[next]
           out == RemoveAt(in, k)
<1>4. /\ in \in Seq(Nat) /\ k \in 1..Len(in) /\ in[k] \in Range(Order)
      /\ in_neighbours' = [in_neighbours EXCEPT ![next] = out]
  BY <1>1, <1>2, <1>3, TakenOutIsQueued DEF Same
<1> HIDE DEF in, out
<1>5. /\ out \in Seq(Nat) /\ Range(out) \subseteq Range(in)
      /\ Range(in) \subseteq Range(out) \cup {in[k]}
  BY <1>4, RemoveAtFacts DEF out
<1>6. /\ in_neighbours' \in [Statements -> Seq(Nat)]
      /\ in_neighbours'[next] = out
      /\ \A i \in Statements \ {next} : in_neighbours'[i] = in_neighbours[i]
  BY <1>3, <1>4, <1>5
<1>7. /\ Order \in Seq(Statements) /\ Len(Order) \in Nat /\ DOMAIN Order = 1..Len(Order)
      /\ Range(Order) = Range(sorted) \cup Range(queue)
  BY OrderFacts DEF IInv
<1>8. \A l \in DOMAIN Order : Order[l] \in Statements \ {next}
  <2>1. in # <<>>
    BY <1>4
  <2>2. QED BY <1>7, <2>1 DEF IInv, OrderKept, in
<1>9. next \notin Range(Order)
  BY <1>8 DEF Range
<1>10. /\ Statements' = Statements
       /\ Order' = IF out = <<>> THEN Append(Order, next) ELSE Order
  <2>1. CASE out = <<>>
    <3>1. sorted \o Append(queue, next) = Append(sorted \o queue, next)
      BY <1>3, AppendConcat
    <3>2. sorted' = sorted /\ queue' = Append(queue, next)
      BY <1>1, <1>6, <2>1
    <3>3. QED BY <1>1, <2>1, <3>1, <3>2 DEF Order, Statements
  <2>2. CASE out # <<>>
    BY <1>1, <1>6, <2>2 DEF Order, Statements
  <2>3. QED BY <2>1, <2>2
<1>11. Typed'
  <2>1. NextNode \in Nat
    BY <1>3, GraphFacts DEF IInv, Typed, NextNode
  <2>2. queue' \in Seq(Statements)
    BY <1>1, <1>3
  <2>3. QED BY <1>1, <1>6, <1>10, <2>1, <2>2 DEF IInv, Typed
<1>12. Staged'
  <2>1. NextNode <= Len(block)
    BY <1>3, GraphFacts DEF IInv, Typed, NextNode, Statements
  <2>2. ~Searching /\ ~Searching' /\ dfs_stack' = <<>> /\ sorted' # <<>>
    BY <1>1, <1>3, PhaseFacts DEF IInv, Staged, Searching
  <2>3. QED BY <1>1, <2>1, <2>2 DEF Staged
<1>13. \A i \in Statements :
          /\ Range(in_neighbours'[i]) \subseteq Range(in_neighbours[i])
          /\ Range(in_neighbours[i]) \subseteq Range(in_neighbours'[i]) \cup Range(Order)
  <2> TAKE i \in Statements
  <2>1. CASE i = next
    BY <1>4, <1>5, <1>6, <2>1 DEF in
  <2>2. CASE i # next
    BY <1>6, <2>2
  <2>3. QED BY <2>1, <2>2
<1>14. \A i \in Statements : Range(in_neighbours'[i]) \subseteq Range(Graph(block)[i])
  BY <1>13 DEF IInv, Counted
<1>15. \A i \in Statements :
          Range(Graph(block)[i]) \subseteq Range(in_neighbours'[i]) \cup Range(Order)
  <2> TAKE i \in Statements
  <2>1. Range(Graph(block)[i]) \subseteq Range(in_neighbours[i]) \cup Range(Order)
    BY DEF IInv, OrderKept
  <2>2. QED BY <1>13, <2>1
<1>16. \A l \in DOMAIN Order : in_neighbours'[Order[l]] = <<>>
  BY <1>6, <1>8 DEF IInv, OrderKept
<1>17. \A l \in DOMAIN Order : Range(Graph(block)[Order[l]]) \subseteq Before(l)
  BY DEF IInv, OrderKept
<1>18. \A i \in Statements \ {next} :
          in_neighbours'[i] = <<>> /\ Graph(block)[i] # <<>> => i \in Range(Order)
  BY <1>6 DEF IInv, OrderKept
<1>19. CASE out # <<>>
  <2>1. Order' = Order /\ \A l : Before(l)' = Before(l)
    BY <1>10, <1>19 DEF Before
  <2>2. Counted'
    BY <1>1, <1>10, <1>14, <2>1 DEF IInv, Counted
  <2>3. OrderKept'
    BY <1>1, <1>6, <1>10, <1>15, <1>16, <1>17, <1>18, <1>19, <2>1 DEF OrderKept
  <2>4. Sought'
    BY <1>1, <2>1, SoughtUnchanged
  <2>5. QED BY <1>11, <1>12, <2>2, <2>3, <2>4 DEF IInv
<1>20. CASE out = <<>>
  <2>1. /\ Order' = Append(Order, next) /\ Len(Order') = Len(Order) + 1
        /\ DOMAIN Order' = 1..Len(Order) + 1
        /\ \A l \in 1..Len(Order) : Order'[l] = Order[l]
        /\ Order'[Len(Order) + 1] = next
        /\ Range(Order') = Range(Order) \cup {next}
    BY <1>3, <1>7, <1>10, <1>20, AppendFacts
  <2>2. IsInjective(Order')
    BY <1>3, <1>7, <1>9, <2>1, StaysInjective DEF IInv, Counted
  <2>3. Counted'
    BY <1>1, <1>10, <1>14, <2>2 DEF IInv, Counted
  <2>4. \A l \in 1..Len(Order) : Before(l)' = Before(l)
    BY <1>7, <2>1 DEF Before
  <2>5. \A l \in DOMAIN Order' : in_neighbours'[Order'[l]] = <<>>
    BY <1>6, <1>7, <1>16, <1>20, <2>1
  <2>6. \A l \in DOMAIN Order' : Range(Graph(block)[Order'[l]]) \subseteq {Order'[m] : m \in 1..l - 1}
    <3> TAKE l \in DOMAIN Order'
    <3>1. CASE l \in 1..Len(Order)
      BY <1>7, <1>17, <2>1, <3>1 DEF Before
    <3>2. CASE l = Len(Order) + 1
      <4>1. Range(Graph(block)[next]) \subseteq Range(Order)
        BY <1>3, <1>6, <1>15, <1>20, EmptyRange
      <4>2. Range(Order) \subseteq {Order'[m] : m \in 1..l - 1}
        BY <1>7, <2>1, <3>2 DEF Range
      <4>3. QED BY <2>1, <3>2, <4>1, <4>2
    <3>3. l \in 1..Len(Order) \/ l = Len(Order) + 1
      <4>1. l \in 1..Len(Order) + 1
        BY <2>1
      <4>2. QED BY <1>7, <4>1
    <3>4. QED BY <3>1, <3>2, <3>3
  <2>7. OrderKept'
    <3>1. (\A l \in DOMAIN Order : Range(Graph(block)[Order[l]]) \subseteq Before(l))'
      BY <1>1, <2>6 DEF Before
    <3>2. QED BY <1>1, <1>10, <1>15, <1>18, <2>1, <2>5, <3>1 DEF OrderKept
  <2>8. Sought'
    <3>1. Range(Order) \subseteq Range(Order')
      BY <2>1
    <3>2. phase # "sources" /\ phase' = phase /\ UNCHANGED <<block, found, visited>>
      BY <1>1
    <3>3. QED BY <3>1, <3>2, SoughtKept
  <2>9. QED BY <1>11, <1>12, <2>3, <2>7, <2>8 DEF IInv
<1>21. QED BY <1>19, <1>20

LEMMA NextIInv == IInv /\ [Next]_vars => IInv'
<1> SUFFICES ASSUME IInv, [Next]_vars PROVE IInv'
  OBVIOUS
<1>1. CASE Next
  BY <1>1, SeedStep, VisitStep, PopVisitedStep, NextSeekStep, SourceStep, SourcesDoneStep,
     PlaceStep, TakeOutStep, LeaveNodeStep, DoneStep DEF Next
<1>2. CASE UNCHANGED vars
  <2>1. Counted' /\ OrderKept'
    BY <1>2, OrderUnchanged DEF vars, Order, IInv, Counted
  <2>2. QED BY <1>2, <2>1 DEF vars, IInv, Typed, Staged, Searching, Statements, Sought, Order
<1>3. QED BY <1>1, <1>2

-------------------------------------------------------------------------------
(* Theorems.                                                               *)

LEMMA IInvTypeOK == IInv => TypeOK
<1> SUFFICES ASSUME IInv PROVE TypeOK
  OBVIOUS
<1>1. found \in Seq(Statements) /\ dfs_stack \in Seq(Statements)
      /\ sorted \in Seq(Statements) /\ queue \in Seq(Statements)
  BY DEF IInv, Typed
<1>2. Range(found) \subseteq Statements /\ Range(dfs_stack) \subseteq Statements
  <2>1. \A k \in 1..Len(found) : found[k] \in Statements
    BY <1>1
  <2>2. \A k \in 1..Len(dfs_stack) : dfs_stack[k] \in Statements
    BY <1>1
  <2>3. QED BY <1>1, <2>1, <2>2 DEF Range
<1>3. Len(found) = Cardinality(visited) /\ visited = Range(found)
  BY <1>1, InjectiveCount DEF IInv, Counted
<1>4. Cardinality(Range(sorted \o queue)) = Len(sorted \o queue)
  BY OrderFacts, InjectiveCount DEF IInv, Counted, Order
<1>5. \A k \in DOMAIN queue : in_neighbours[queue[k]] = <<>>
  <2>1. \A k \in 1..Len(queue) : Len(sorted) + k \in DOMAIN Order /\ Order[Len(sorted) + k] = queue[k]
    BY <1>1, JoinFacts DEF Order
  <2>2. QED BY <1>1, <2>1 DEF IInv, OrderKept
<1>6. QED BY <1>2, <1>3, <1>4, <1>5 DEF IInv, Typed, Counted, TypeOK

LEMMA IInvKeepsOrder == IInv => KeepsOrder
<1> SUFFICES ASSUME IInv, NEW k \in DOMAIN sorted
             PROVE  Range(Graph(block)[sorted[k]]) \subseteq {sorted[l] : l \in 1..k - 1}
  BY DEF KeepsOrder
<1>1. sorted \in Seq(Statements) /\ queue \in Seq(Statements)
  BY DEF IInv, Typed
<1>2. k \in DOMAIN Order /\ \A l \in 1..k : Order[l] = sorted[l]
  BY <1>1, JoinFacts DEF Order
<1>3. Range(Graph(block)[Order[k]]) \subseteq Before(k)
  BY <1>2 DEF IInv, OrderKept
<1>4. Before(k) = {sorted[l] : l \in 1..k - 1} /\ Order[k] = sorted[k]
  BY <1>1, <1>2 DEF Before
<1>5. QED BY <1>3, <1>4

(* The variables of sort_block are typed: no statement is found or queued  *)
(* twice, whatever the block and its graph.                                *)
THEOREM TypeCorrect == Spec => []TypeOK
<1>1. Init => IInv
  BY InitIInv
<1>2. IInv /\ [Next]_vars => IInv'
  BY NextIInv
<1>3. IInv => TypeOK
  BY IInvTypeOK
<1>4. QED BY <1>1, <1>2, <1>3, PTL DEF Spec

(* sort_block places a statement below everything it depends on, although  *)
(* it compares nodes as trees and may take out a copy of the node placed.  *)
THEOREM OrderCorrect == Spec => []KeepsOrder
<1>1. Init => IInv
  BY InitIInv
<1>2. IInv /\ [Next]_vars => IInv'
  BY NextIInv
<1>3. IInv => KeepsOrder
  BY IInvKeepsOrder
<1>4. QED BY <1>1, <1>2, <1>3, PTL DEF Spec

-------------------------------------------------------------------------------
(* What is found is placed.                                                *)

(* The neighbours of i that are in the order already and that a node with  *)
(* text t may still be taken for; and the statements i depends on that are *)
(* still to be compared with them.                                         *)
ReadyLeft(i, t) ==
    {j \in Range(in_neighbours[i]) : j \in Range(Order) /\ block[j].text = t}
ToPlace(i) == Range(queue) \cup (IF next # 0 /\ next <= i THEN {Placed} ELSE {})
RoundsLeft(i, t) ==
    {j \in Range(Graph(block)[i]) : j \in ToPlace(i) /\ block[j].text = t}

(* A placed node takes one neighbour out, perhaps a copy of itself: enough *)
(* of them are still to come for all that is left.                         *)
RoundsSuffice ==
    phase \in {"sort", "done"} =>
        \A i, j \in Statements :
            Cardinality(ReadyLeft(i, block[j].text)) <= Cardinality(RoundsLeft(i, block[j].text))

(* What a found statement depends on is found.                             *)
Closed == \A i \in visited : Range(Graph(block)[i]) \subseteq visited \cup Range(dfs_stack)

Distinct == \A i \in Statements : IsInjective(in_neighbours[i])

Finished == phase = "done" => queue = <<>> /\ next = 0

PlacedInv == IInv /\ Closed /\ Distinct /\ Finished /\ RoundsSuffice

(* Counting.                                                               *)
LEMMA CountSubset ==
    ASSUME NEW S, IsFiniteSet(S), NEW T, T \subseteq S
    PROVE  IsFiniteSet(T) /\ Cardinality(T) \in Nat /\ Cardinality(T) <= Cardinality(S)
<1>1. IsFiniteSet(T) /\ Cardinality(T) <= Cardinality(S)
  BY FS_Subset
<1>2. QED BY <1>1, FS_CardinalityType

LEMMA CountSame ==
    \A A, B, A1, B1 :
        /\ IsFiniteSet(A) /\ IsFiniteSet(B1) /\ Cardinality(A) <= Cardinality(B)
        /\ A1 \subseteq A /\ B \subseteq B1
        => Cardinality(A1) <= Cardinality(B1)
<1> SUFFICES ASSUME NEW A, NEW B, NEW A1, NEW B1,
                    IsFiniteSet(A), IsFiniteSet(B1), Cardinality(A) <= Cardinality(B),
                    A1 \subseteq A, B \subseteq B1
             PROVE  Cardinality(A1) <= Cardinality(B1)
  OBVIOUS
<1>1. Cardinality(A1) \in Nat /\ Cardinality(A1) <= Cardinality(A)
  BY CountSubset
<1>2. Cardinality(B) \in Nat /\ Cardinality(B) <= Cardinality(B1)
  BY CountSubset
<1>3. Cardinality(A) \in Nat /\ Cardinality(B1) \in Nat
  BY FS_CardinalityType
<1>4. QED BY <1>1, <1>2, <1>3

LEMMA CountLess ==
    \A A, B, A1, B1, e, p :
        /\ IsFiniteSet(A) /\ IsFiniteSet(B) /\ IsFiniteSet(B1)
        /\ Cardinality(A) <= Cardinality(B)
        /\ e \in A /\ A1 \subseteq A \ {e} /\ B \ {p} \subseteq B1
        => Cardinality(A1) <= Cardinality(B1)
<1> SUFFICES ASSUME NEW A, NEW B, NEW A1, NEW B1, NEW e, NEW p,
                    IsFiniteSet(A), IsFiniteSet(B), IsFiniteSet(B1),
                    Cardinality(A) <= Cardinality(B),
                    e \in A, A1 \subseteq A \ {e}, B \ {p} \subseteq B1
             PROVE  Cardinality(A1) <= Cardinality(B1)
  OBVIOUS
<1>1. IsFiniteSet(A \ {e}) /\ Cardinality(A \ {e}) = Cardinality(A) - 1
  BY FS_RemoveElement
<1>2. /\ IsFiniteSet(B \ {p}) /\ Cardinality(B) \in Nat
      /\ Cardinality(B \ {p}) = IF p \in B THEN Cardinality(B) - 1 ELSE Cardinality(B)
  BY FS_RemoveElement, FS_CardinalityType
<1>3. Cardinality(A) \in Nat
  BY FS_CardinalityType
<1>4. Cardinality(A \ {e}) <= Cardinality(B \ {p})
  BY <1>1, <1>2, <1>3
<1>5. QED BY <1>1, <1>4, CountSame

LEMMA CountMore ==
    \A A, B, A1, B1, n :
        /\ IsFiniteSet(A) /\ IsFiniteSet(B) /\ IsFiniteSet(B1)
        /\ Cardinality(A) <= Cardinality(B)
        /\ A1 \subseteq A \cup {n} /\ n \notin B /\ B \cup {n} \subseteq B1
        => Cardinality(A1) <= Cardinality(B1)
<1> SUFFICES ASSUME NEW A, NEW B, NEW A1, NEW B1, NEW n,
                    IsFiniteSet(A), IsFiniteSet(B), IsFiniteSet(B1),
                    Cardinality(A) <= Cardinality(B),
                    A1 \subseteq A \cup {n}, n \notin B, B \cup {n} \subseteq B1
             PROVE  Cardinality(A1) <= Cardinality(B1)
  OBVIOUS
<1>1. /\ IsFiniteSet(A \cup {n}) /\ Cardinality(A) \in Nat
      /\ Cardinality(A \cup {n}) = IF n \in A THEN Cardinality(A) ELSE Cardinality(A) + 1
  BY FS_AddElement, FS_CardinalityType
<1>2. Cardinality(B \cup {n}) = Cardinality(B) + 1 /\ Cardinality(B) \in Nat
  BY FS_AddElement, FS_CardinalityType
<1>3. Cardinality(A \cup {n}) <= Cardinality(B \cup {n})
  BY <1>1, <1>2
<1>4. QED BY <1>1, <1>3, CountSame

LEMMA RemovedIsGone ==
    ASSUME NEW S, NEW s \in Seq(S), NEW k \in 1..Len(s), IsInjective(s)
    PROVE  IsInjective(RemoveAt(s, k)) /\ s[k] \notin Range(RemoveAt(s, k))
<1> DEFINE r == RemoveAt(s, k)
           place(l) == IF l < k THEN l ELSE l + 1
           a == SubSeq(s, 1, k - 1)
           b == SubSeq(s, k + 1, Len(s))
<1>1. /\ a \in Seq(S) /\ Len(a) = k - 1
      /\ \A l \in 1..k - 1 : a[l] = s[l]
  OBVIOUS
<1>2. /\ b \in Seq(S) /\ Len(b) = Len(s) - k
      /\ \A l \in 1..Len(s) - k : b[l] = s[k + l]
  OBVIOUS
<1>3. r = a \o b
  BY DEF RemoveAt
<1>4. /\ DOMAIN r = 1..Len(s) - 1
      /\ \A l \in DOMAIN r : r[l] = s[place(l)]
  <2> HIDE DEF a, b, r
  <2>1. r \in Seq(S) /\ Len(r) = Len(s) - 1
    BY <1>1, <1>2, <1>3, ConcatFacts
  <2>2. ASSUME NEW l \in 1..Len(s) - 1 PROVE r[l] = s[place(l)]
    <3>1. CASE l < k
      <4>1. l \in 1..Len(a) /\ l \in 1..k - 1
        BY <1>1, <3>1
      <4>2. r[l] = a[l] /\ a[l] = s[l]
        BY <1>1, <1>2, <1>3, <4>1, ConcatFacts
      <4>3. QED BY <3>1, <4>2
    <3>2. CASE ~(l < k)
      <4> DEFINE m == l - (k - 1)
      <4>1. /\ m \in 1..Len(b) /\ m \in 1..Len(s) - k
            /\ Len(a) + m = l /\ k + m = l + 1
        BY <1>1, <1>2, <3>2
      <4>2. r[l] = b[m] /\ b[m] = s[l + 1]
        <5> HIDE DEF m
        <5>1. QED BY <1>1, <1>2, <1>3, <4>1, ConcatFacts
      <4>3. QED BY <3>2, <4>2
    <3>3. QED BY <3>1, <3>2
  <2>3. QED BY <2>1, <2>2
<1>5. \A l \in 1..Len(s) - 1 : place(l) \in DOMAIN s /\ place(l) # k
  OBVIOUS
<1>6. \A l, m \in 1..Len(s) - 1 : place(l) = place(m) => l = m
  OBVIOUS
<1>7. k \in DOMAIN s /\ \A l, m \in DOMAIN s : s[l] = s[m] => l = m
  BY DEF IsInjective
<1> HIDE DEF r, place
<1>8. IsInjective(r)
  BY <1>4, <1>5, <1>6, <1>7 DEF IsInjective
<1>9. s[k] \notin Range(r)
  BY <1>4, <1>5, <1>7 DEF Range
<1>10. QED BY <1>8, <1>9 DEF r

LEMMA FrontAndLast ==
    ASSUME NEW S, NEW s \in Seq(S), s # <<>>
    PROVE  Range(s) = Range(Front(s)) \cup {Last(s)}
<1>1. Len(s) \in Nat \ {0} /\ Last(s) = s[Len(s)]
  BY DEF Last
<1>2. /\ Front(s) \in Seq(S) /\ Len(Front(s)) = Len(s) - 1
      /\ \A l \in 1..Len(s) - 1 : Front(s)[l] = s[l]
  <2>1. PICK k \in 1..Len(s) : k = Len(s)
    BY <1>1
  <2> DEFINE a == SubSeq(s, 1, k - 1)
  <2>2. /\ a \in Seq(S) /\ Len(a) = k - 1
        /\ \A l \in 1..k - 1 : a[l] = s[l]
    OBVIOUS
  <2>3. Front(s) = a
    BY <2>1 DEF Front
  <2> HIDE DEF a
  <2>4. QED BY <2>1, <2>2, <2>3
<1>3. ASSUME NEW x \in Range(s) PROVE x \in Range(Front(s)) \cup {Last(s)}
  <2>1. PICK l \in 1..Len(s) : s[l] = x
    BY InRange
  <2>2. CASE l = Len(s)
    BY <1>1, <2>1, <2>2
  <2>3. CASE l # Len(s)
    <3>1. l \in 1..Len(s) - 1 /\ l \in 1..Len(Front(s))
      BY <1>1, <1>2, <2>3
    <3>2. Front(s)[l] = x
      BY <1>2, <2>1, <3>1
    <3>3. QED BY <1>2, <3>1, <3>2, InRange
  <2>4. QED BY <2>2, <2>3
<1>4. ASSUME NEW x \in Range(Front(s)) PROVE x \in Range(s)
  <2>1. PICK l \in 1..Len(Front(s)) : Front(s)[l] = x
    BY <1>2, InRange
  <2>2. l \in 1..Len(s) - 1 /\ l \in 1..Len(s)
    BY <1>1, <1>2
  <2>3. s[l] = x
    BY <1>2, <2>1, <2>2
  <2>4. QED BY <2>2, <2>3, InRange
<1>5. Last(s) \in Range(s)
  BY <1>1, InRange
<1>6. QED BY <1>3, <1>4, <1>5

(* The search.                                                             *)
LEMMA ClosedStep == ASSUME IInv, Closed, [Next]_vars PROVE Closed'
<1>1. CASE Visit
  <2> DEFINE node == Last(dfs_stack)
             stack == Front(dfs_stack)
  <2>1. /\ node \in Statements /\ stack \in Seq(Statements)
        /\ in_neighbours = Graph(block)
    BY <1>1, StackFacts DEF Visit, IInv, Staged
  <2>2. in_neighbours[node] \in Seq(Nat) /\ stack \in Seq(Nat)
    <3>1. in_neighbours[node] \in Seq(Nat)
      BY <2>1 DEF IInv, Typed
    <3>2. \A l \in 1..Len(stack) : stack[l] \in Nat
      BY <2>1 DEF Statements
    <3> HIDE DEF stack
    <3>3. QED BY <2>1, <3>1, <3>2
  <2>3. Range(dfs_stack) = Range(stack) \cup {node}
    BY <1>1, FrontAndLast DEF Visit, IInv, Typed
  <2>4. /\ visited' = visited \cup {node} /\ dfs_stack' = stack \o in_neighbours[node]
        /\ block' = block
    BY <1>1 DEF Visit
  <2> HIDE DEF node, stack
  <2>5. Range(dfs_stack') = Range(stack) \cup Range(Graph(block)[node])
    BY <2>1, <2>2, <2>4, JoinFacts
  <2>6. QED BY <2>3, <2>4, <2>5 DEF Closed
<1>2. CASE PopVisited
  <2>1. Range(dfs_stack) = Range(Front(dfs_stack)) \cup {Last(dfs_stack)}
    BY <1>2, FrontAndLast DEF PopVisited, IInv, Typed
  <2>2. QED BY <1>2, <2>1 DEF PopVisited, Closed
<1>3. CASE Seed
  <2>1. Range(dfs_stack) = {}
    BY <1>3, EmptyRange DEF Seed
  <2>2. QED BY <1>3, <2>1 DEF Seed, Closed
<1>4. CASE /\ NextSeek \/ Source \/ SourcesDone \/ Place \/ TakeOut \/ LeaveNode \/ Done
  <2>1. UNCHANGED <<block, visited, dfs_stack>>
    BY <1>4 DEF NextSeek, Source, SourcesDone, Place, TakeOut, LeaveNode, Done
  <2>2. QED BY <2>1 DEF Closed
<1>5. CASE UNCHANGED vars
  BY <1>5 DEF vars, Closed
<1>6. QED BY <1>1, <1>2, <1>3, <1>4, <1>5 DEF Next

LEMMA DistinctStep == ASSUME IInv, Distinct, [Next]_vars PROVE Distinct'
<1>1. CASE TakeOut
  <2>1. PICK k \in Same : in_neighbours' = [in_neighbours EXCEPT ![next] = RemoveAt(@, k)]
    BY <1>1 DEF TakeOut
  <2>2. next \in Statements
    BY <1>1, GraphFacts DEF IInv, Typed, Staged, Statements, TakeOut
  <2>3. in_neighbours[next] \in Seq(Nat) /\ k \in 1..Len(in_neighbours[next])
        /\ IsInjective(in_neighbours[next])
    BY <2>2 DEF IInv, Typed, Same, Distinct
  <2>4. IsInjective(RemoveAt(in_neighbours[next], k))
    BY <2>3, RemovedIsGone
  <2>5. ASSUME NEW i \in Statements PROVE IsInjective(in_neighbours'[i])
    <3>1. CASE i = next
      <4>1. in_neighbours'[i] = RemoveAt(in_neighbours[next], k)
        BY <2>1, <2>2, <3>1 DEF IInv, Typed
      <4>2. QED BY <2>4, <4>1
    <3>2. CASE i # next
      <4>1. in_neighbours'[i] = in_neighbours[i]
        BY <2>1, <2>2, <3>2 DEF IInv, Typed
      <4>2. QED BY <4>1 DEF Distinct
    <3>3. QED BY <3>1, <3>2
  <2>6. Statements' = Statements
    BY <1>1 DEF TakeOut, Statements
  <2>7. QED BY <2>5, <2>6 DEF Distinct
<1>2. CASE \/ Seed \/ Visit \/ PopVisited \/ NextSeek \/ Source \/ SourcesDone
           \/ Place \/ LeaveNode \/ Done \/ UNCHANGED vars
  <2>1. UNCHANGED <<block, in_neighbours>>
    BY <1>2 DEF Seed, Visit, PopVisited, NextSeek, Source, SourcesDone, Place, LeaveNode,
                Done, vars
  <2>2. QED BY <2>1 DEF Distinct, Statements
<1>3. QED BY <1>1, <1>2 DEF Next

(* The rounds.                                                             *)
LEMMA FiniteCounts ==
    ASSUME IInv, NEW i \in Statements, NEW t
    PROVE  IsFiniteSet(ReadyLeft(i, t)) /\ IsFiniteSet(RoundsLeft(i, t))
<1>1. IsFiniteSet(Statements)
  BY GraphFacts, FS_Interval DEF IInv, Typed, Statements
<1>2. ReadyLeft(i, t) \subseteq Statements /\ RoundsLeft(i, t) \subseteq Statements
  BY GraphFacts DEF IInv, Typed, Counted, ReadyLeft, RoundsLeft
<1>3. QED BY <1>1, <1>2, CountSubset

LEMMA PlacedFacts ==
    ASSUME IInv, phase = "sort", next # 0
    PROVE  /\ next \in Statements /\ Placed \in Range(sorted)
           /\ sorted \in Seq(Statements) /\ sorted # <<>>
<1>1. /\ next \in Statements /\ sorted \in Seq(Statements) /\ sorted # <<>>
  BY GraphFacts DEF IInv, Typed, Staged, Statements
<1>2. Len(sorted) \in 1..Len(sorted)
  BY <1>1
<1>3. Placed \in Range(sorted)
  BY <1>1, <1>2, InRange DEF Last, Placed
<1>4. QED BY <1>1, <1>3

(* The node after the one looked at: what was placed is compared with it.  *)
LEMMA OthersWait ==
    ASSUME IInv, phase = "sort", next # 0, NEW i \in Statements, i # next, next <= i
    PROVE  NextNode # 0 /\ NextNode <= i
<1>1. next \in Statements /\ Len(block) \in Nat
  BY PlacedFacts, GraphFacts DEF IInv, Typed
<1>2. QED BY <1>1 DEF NextNode, Statements

LEMMA SourcesDoneRounds ==
    ASSUME IInv, SourcesDone PROVE RoundsSuffice'
<1>1. /\ block' = block /\ in_neighbours' = Graph(block) /\ next' = 0
      /\ sorted' = <<>> /\ queue' = queue /\ queue \in Seq(Statements)
      /\ Order' = queue
  <2>1. phase = "sources" /\ UNCHANGED <<block, in_neighbours, queue, sorted>> /\ next' = 0
    BY DEF SourcesDone
  <2>2. in_neighbours = Graph(block) /\ sorted = <<>> /\ queue \in Seq(Statements)
    BY <2>1 DEF IInv, Typed, Staged
  <2>3. <<>> \o queue = queue
    BY <2>2
  <2>4. QED BY <2>1, <2>2, <2>3 DEF Order
<1>2. block \in Blocks
  BY DEF IInv, Typed
<1>3. ASSUME NEW i \in Statements, NEW j \in Statements
      PROVE  Cardinality(ReadyLeft(i, block[j].text)') <= Cardinality(RoundsLeft(i, block[j].text)')
  <2>1. ReadyLeft(i, block[j].text)' = RoundsLeft(i, block[j].text)'
    BY <1>1 DEF ReadyLeft, RoundsLeft, ToPlace
  <2>2. IsFiniteSet(RoundsLeft(i, block[j].text)')
    <3>1. IsFiniteSet(Statements)
      BY <1>2, GraphFacts, FS_Interval DEF Statements
    <3>2. RoundsLeft(i, block[j].text)' \subseteq Statements
      BY <1>1, <1>2, GraphFacts DEF RoundsLeft
    <3>3. QED BY <3>1, <3>2, CountSubset
  <2>3. Cardinality(RoundsLeft(i, block[j].text)') \in Nat
    BY <2>2, FS_CardinalityType
  <2>4. QED BY <2>1, <2>3
<1>4. Statements' = Statements
  BY <1>1 DEF Statements
<1>5. QED BY <1>1, <1>3, <1>4 DEF RoundsSuffice

(* Neither side of the count changes.                                      *)
LEMMA SameRounds ==
    ASSUME IInv, RoundsSuffice, phase \in {"sort", "done"},
           UNCHANGED <<block, in_neighbours>>, Range(Order') = Range(Order),
           \A i \in Statements : ToPlace(i)' = ToPlace(i)
    PROVE  RoundsSuffice'
<1>1. Statements' = Statements
  BY DEF Statements
<1>2. QED BY <1>1 DEF RoundsSuffice, ReadyLeft, RoundsLeft

LEMMA PlaceRounds ==
    ASSUME IInv, RoundsSuffice, Place PROVE RoundsSuffice'
<1>1. /\ phase = "sort" /\ next = 0 /\ next' = 1
      /\ UNCHANGED <<block, in_neighbours>>
      /\ sorted' = Append(sorted, Head(queue)) /\ queue' = Tail(queue)
      /\ sorted \in Seq(Statements) /\ queue \in Seq(Statements) /\ queue # <<>>
  BY DEF Place, IInv, Typed
<1>2. Order' = Order
  <2>1. Append(sorted, Head(queue)) \o Tail(queue) = sorted \o queue
    BY <1>1, MoveHead
  <2>2. QED BY <1>1, <2>1 DEF Order
<1>3. Placed' = Head(queue)
  <2>1. Last(Append(sorted, Head(queue))) = Head(queue)
    <3>1. Head(queue) \in Statements
      BY <1>1
    <3>2. /\ Append(sorted, Head(queue)) \in Seq(Statements)
          /\ Len(Append(sorted, Head(queue))) = Len(sorted) + 1
          /\ Append(sorted, Head(queue))[Len(sorted) + 1] = Head(queue)
      BY <1>1, <3>1, AppendFacts
    <3>3. QED BY <3>2 DEF Last
  <2>2. QED BY <1>1, <2>1 DEF Placed
<1>4. Range(queue) = Range(Tail(queue)) \cup {Head(queue)}
  <2>1. /\ Tail(queue) \in Seq(Statements) /\ Len(Tail(queue)) = Len(queue) - 1
        /\ Len(queue) \in Nat \ {0} /\ Head(queue) = queue[1]
        /\ \A k \in 1..Len(queue) - 1 : Tail(queue)[k] = queue[k + 1]
    BY <1>1
  <2>2. ASSUME NEW x \in Range(queue) PROVE x \in Range(Tail(queue)) \cup {Head(queue)}
    <3>1. PICK k \in 1..Len(queue) : queue[k] = x
      BY <1>1, InRange
    <3>2. CASE k # 1
      <4>1. k - 1 \in 1..Len(Tail(queue)) /\ Tail(queue)[k - 1] = x
        BY <2>1, <3>1, <3>2
      <4>2. QED BY <2>1, <4>1, InRange
    <3>3. QED BY <2>1, <3>1, <3>2
  <2>3. ASSUME NEW x \in Range(Tail(queue)) PROVE x \in Range(queue)
    <3>1. PICK k \in 1..Len(Tail(queue)) : Tail(queue)[k] = x
      BY <2>1, InRange
    <3>2. k + 1 \in 1..Len(queue) /\ queue[k + 1] = x
      BY <2>1, <3>1
    <3>3. QED BY <1>1, <3>2, InRange
  <2>4. Head(queue) \in Range(queue)
    BY <1>1, <2>1, InRange
  <2>5. QED BY <2>2, <2>3, <2>4
<1>5. ASSUME NEW i \in Statements PROVE ToPlace(i)' = ToPlace(i)
  <2>1. 1 <= i
    BY GraphFacts DEF Statements, IInv, Typed
  <2>2. QED BY <1>1, <1>3, <1>4, <2>1 DEF ToPlace
<1>6. QED BY <1>1, <1>2, <1>5, SameRounds

LEMMA LeaveNodeRounds ==
    ASSUME IInv, RoundsSuffice, LeaveNode PROVE RoundsSuffice'
<1>1. /\ phase = "sort" /\ phase' = "sort" /\ next # 0 /\ Same = {} /\ next' = NextNode
      /\ UNCHANGED <<block, in_neighbours, queue, sorted>>
  BY DEF LeaveNode
<1>2. Order' = Order /\ Statements' = Statements /\ Placed' = Placed
  BY <1>1 DEF Order, Statements, Placed
<1>3. \A i \in Statements : i # next => ToPlace(i) \subseteq ToPlace(i)'
  BY <1>1, <1>2, OthersWait DEF ToPlace
<1>4. ASSUME NEW i \in Statements, NEW j \in Statements
      PROVE  Cardinality(ReadyLeft(i, block[j].text)') <= Cardinality(RoundsLeft(i, block[j].text)')
  <2> DEFINE t == block[j].text
  <2>1. Cardinality(ReadyLeft(i, t)) <= Cardinality(RoundsLeft(i, t))
    BY <1>1 DEF RoundsSuffice
  <2>2. /\ IsFiniteSet(ReadyLeft(i, t)) /\ IsFiniteSet(RoundsLeft(i, t))
        /\ IsFiniteSet(RoundsLeft(i, t)')
    <3>1. IsFiniteSet(Statements)
      BY GraphFacts, FS_Interval DEF Statements, IInv, Typed
    <3>2. RoundsLeft(i, t)' \subseteq Statements
      BY <1>1, GraphFacts DEF RoundsLeft, IInv, Typed
    <3>3. IsFiniteSet(RoundsLeft(i, t)')
      BY <3>1, <3>2, CountSubset
    <3>4. QED BY <3>3, FiniteCounts
  <2>3. ReadyLeft(i, t)' = ReadyLeft(i, t)
    BY <1>1, <1>2 DEF ReadyLeft
  <2>4. CASE i = next /\ t = block[Placed].text
    <3>1. ASSUME NEW x \in ReadyLeft(i, t) PROVE FALSE
      <4>1. /\ in_neighbours[next] \in Seq(Nat)
            /\ x \in Range(in_neighbours[next]) /\ x \in Range(Order)
            /\ block[x].text = block[Placed].text
        BY <2>4 DEF ReadyLeft, IInv, Typed
      <4>2. in_neighbours[x] = <<>>
        BY <4>1 DEF IInv, OrderKept, Range
      <4>3. PICK k \in 1..Len(in_neighbours[next]) : in_neighbours[next][k] = x
        BY <4>1, InRange
      <4>4. k \in Same
        BY <4>1, <4>2, <4>3 DEF Same, SameNode
      <4>5. QED BY <1>1, <4>4
    <3>2. QED BY <2>2, <2>3, <3>1, FS_EmptySet, FS_CardinalityType
  <2>5. CASE i # next \/ t # block[Placed].text
    <3>1. RoundsLeft(i, t) \subseteq RoundsLeft(i, t)'
      BY <1>1, <1>2, <1>3, <2>5 DEF RoundsLeft, ToPlace
    <3>2. QED BY <2>1, <2>2, <2>3, <3>1, CountSame
  <2>6. QED BY <2>4, <2>5
<1>5. QED BY <1>1, <1>2, <1>4 DEF RoundsSuffice

LEMMA TakeOutRounds ==
    ASSUME IInv, Distinct, RoundsSuffice, TakeOut PROVE RoundsSuffice'
<1>1. PICK k \in Same :
          /\ in_neighbours' = [in_neighbours EXCEPT ![next] = RemoveAt(@, k)]
          /\ phase = "sort" /\ next # 0 /\ next' = NextNode
          /\ UNCHANGED <<block, sorted>>
          /\ queue' = IF in_neighbours'[next] = <<>> THEN Append(queue, next) ELSE queue
  BY DEF TakeOut
<1> DEFINE in == in_neighbours[next]
           e == in[k]
<1>2. /\ next \in Statements /\ Placed \in Range(sorted)
      /\ sorted \in Seq(Statements) /\ queue \in Seq(Statements)
      /\ in_neighbours \in [Statements -> Seq(Nat)]
  BY <1>1, PlacedFacts DEF IInv, Typed
<1>3. /\ in \in Seq(Nat) /\ k \in 1..Len(in) /\ IsInjective(in)
      /\ e \in Range(Order) /\ e \in Range(in)
      /\ block[e].text = block[Placed].text
  <2>1. in \in Seq(Nat) /\ k \in 1..Len(in) /\ IsInjective(in) /\ SameNode(e)
    BY <1>2 DEF Same, Distinct
  <2>2. e \in Range(in)
    BY <2>1, InRange
  <2>3. e \in Range(Order)
    BY <1>1, TakenOutIsQueued
  <2>4. QED BY <2>1, <2>2, <2>3 DEF SameNode
<1>4. /\ \A i \in Statements : i # next => in_neighbours'[i] = in_neighbours[i]
      /\ Range(in_neighbours'[next]) \subseteq Range(in) \ {e}
  <2>1. in_neighbours'[next] = RemoveAt(in, k)
    BY <1>1, <1>2
  <2>2. Range(RemoveAt(in, k)) \subseteq Range(in) /\ e \notin Range(RemoveAt(in, k))
    BY <1>3, RemoveAtFacts, RemovedIsGone
  <2>3. QED BY <1>1, <1>2, <2>1, <2>2
<1>5. next \notin Range(Order) /\ next \notin Range(in)
  <2>1. in # <<>>
    BY <1>3
  <2>2. next \notin Range(Order)
    BY <2>1 DEF IInv, OrderKept, Range
  <2>3. Range(in) \subseteq 1..next - 1
    BY <1>2, GraphFacts DEF IInv, Typed, Counted
  <2>4. next \in Nat
    BY <1>2 DEF Statements
  <2>5. QED BY <2>2, <2>3, <2>4
<1>6. /\ Range(Order) = Range(sorted) \cup Range(queue)
      /\ Range(queue) \subseteq Range(queue')
      /\ Range(Order') \subseteq Range(Order) \cup {next}
      /\ next \in Range(Order') => next \in Range(queue')
  <2>1. Range(Order) = Range(sorted) \cup Range(queue)
    BY OrderFacts DEF IInv
  <2>2. Range(queue') = Range(queue) \/ Range(queue') = Range(queue) \cup {next}
    BY <1>1, <1>2, AppendFacts
  <2>3. queue' \in Seq(Statements)
    BY <1>1, <1>2
  <2>4. Range(Order') = Range(sorted) \cup Range(queue')
    <3>1. PICK q \in Seq(Statements) : q = queue'
      BY <2>3
    <3>2. Range(sorted \o q) = Range(sorted) \cup Range(q)
      BY <1>2, JoinFacts
    <3>3. Order' = sorted \o q
      BY <1>1, <3>1 DEF Order
    <3>4. QED BY <3>1, <3>2, <3>3
  <2>5. QED BY <1>5, <2>1, <2>2, <2>4
<1>7. Statements' = Statements /\ Placed' = Placed
  BY <1>1 DEF Statements, Placed
<1> HIDE DEF e, in
<1>8. \A i \in Statements : i # next => ToPlace(i) \subseteq ToPlace(i)'
  BY <1>1, <1>6, <1>7, OthersWait DEF ToPlace
<1>9. ASSUME NEW i \in Statements, NEW j \in Statements
      PROVE  Cardinality(ReadyLeft(i, block[j].text)') <= Cardinality(RoundsLeft(i, block[j].text)')
  <2> DEFINE t == block[j].text
  <2>1. Cardinality(ReadyLeft(i, t)) <= Cardinality(RoundsLeft(i, t))
    BY <1>1 DEF RoundsSuffice
  <2>2. /\ IsFiniteSet(ReadyLeft(i, t)) /\ IsFiniteSet(RoundsLeft(i, t))
        /\ IsFiniteSet(RoundsLeft(i, t)')
    <3>1. IsFiniteSet(Statements)
      BY GraphFacts, FS_Interval DEF Statements, IInv, Typed
    <3>2. RoundsLeft(i, t)' \subseteq Statements
      BY <1>1, GraphFacts DEF RoundsLeft, IInv, Typed
    <3>3. IsFiniteSet(RoundsLeft(i, t)')
      BY <3>1, <3>2, CountSubset
    <3>4. QED BY <3>3, FiniteCounts
  <2>3. CASE i = next /\ t = block[Placed].text
    <3>1. e \in ReadyLeft(i, t)
      BY <1>3, <2>3 DEF ReadyLeft, in
    <3>2. ReadyLeft(i, t)' \subseteq ReadyLeft(i, t) \ {e}
      BY <1>1, <1>4, <1>5, <1>6, <2>3 DEF ReadyLeft, in
    <3>3. RoundsLeft(i, t) \ {Placed} \subseteq RoundsLeft(i, t)'
      BY <1>1, <1>6 DEF RoundsLeft, ToPlace
    <3>4. PICK A, B, A1, B1 : /\ A = ReadyLeft(i, t) /\ A1 = ReadyLeft(i, t)'
                              /\ B = RoundsLeft(i, t) /\ B1 = RoundsLeft(i, t)'
      OBVIOUS
    <3>5. Cardinality(A1) <= Cardinality(B1)
      <4>1. /\ IsFiniteSet(A) /\ IsFiniteSet(B) /\ IsFiniteSet(B1)
            /\ Cardinality(A) <= Cardinality(B)
            /\ e \in A /\ A1 \subseteq A \ {e} /\ B \ {Placed} \subseteq B1
        BY <2>1, <2>2, <3>1, <3>2, <3>3, <3>4
      <4>2. QED BY <4>1, CountLess
    <3>6. QED BY <3>4, <3>5
  <2>4. CASE i = next /\ t # block[Placed].text
    <3>1. ReadyLeft(i, t)' \subseteq ReadyLeft(i, t)
      BY <1>1, <1>4, <1>5, <1>6, <2>4 DEF ReadyLeft, in
    <3>2. RoundsLeft(i, t) \subseteq RoundsLeft(i, t)'
      BY <1>1, <1>6, <2>4 DEF RoundsLeft, ToPlace
    <3>3. QED BY <2>1, <2>2, <3>1, <3>2, CountSame
  <2>5. CASE i # next
    <3>1. RoundsLeft(i, t) \subseteq RoundsLeft(i, t)'
      BY <1>1, <1>8, <2>5 DEF RoundsLeft
    <3>2. ReadyLeft(i, t)' \subseteq ReadyLeft(i, t) \cup {next}
      BY <1>1, <1>4, <1>6, <2>5 DEF ReadyLeft
    <3>3. CASE next \notin ReadyLeft(i, t)'
      <4>1. ReadyLeft(i, t)' \subseteq ReadyLeft(i, t)
        BY <3>2, <3>3
      <4>2. QED BY <2>1, <2>2, <3>1, <4>1, CountSame
    <3>4. CASE next \in ReadyLeft(i, t)'
      <4>1. next \in Range(queue') /\ block[next].text = t /\ next \in Range(in_neighbours[i])
        BY <1>1, <1>4, <1>6, <2>5, <3>4 DEF ReadyLeft
      <4>2. next \in Range(Graph(block)[i])
        BY <4>1 DEF IInv, Counted
      <4>3. next \in RoundsLeft(i, t)'
        BY <1>1, <4>1, <4>2 DEF RoundsLeft, ToPlace
      <4>4. next \notin RoundsLeft(i, t)
        BY <1>2, <1>5, <1>6 DEF RoundsLeft, ToPlace
      <4>5. QED BY <2>1, <2>2, <3>1, <3>2, <4>3, <4>4, CountMore
    <3>5. QED BY <3>3, <3>4
  <2>6. QED BY <2>3, <2>4, <2>5
<1>10. QED BY <1>1, <1>7, <1>9 DEF RoundsSuffice

(* The end.                                                                *)
LEMMA PlacedInit == Init => PlacedInv
<1> SUFFICES ASSUME Init PROVE PlacedInv
  OBVIOUS
<1>1. IInv
  BY InitIInv
<1>2. Closed /\ Finished /\ RoundsSuffice
  BY DEF Init, Closed, Finished, RoundsSuffice
<1>3. Distinct
  BY <1>1, GraphAssumption DEF Init, Distinct, Statements, IInv, Typed
<1>4. QED BY <1>1, <1>2, <1>3 DEF PlacedInv

LEMMA PlacedStep == PlacedInv /\ [Next]_vars => PlacedInv'
<1> SUFFICES ASSUME PlacedInv, [Next]_vars PROVE PlacedInv'
  OBVIOUS
<1> USE DEF PlacedInv
<1>1. IInv' /\ Closed' /\ Distinct'
  BY NextIInv, ClosedStep, DistinctStep
<1>2. CASE Seed \/ Visit \/ PopVisited \/ NextSeek \/ Source
  <2>1. phase' \notin {"sort", "done"}
    <3>1. CASE Visit \/ PopVisited
      <4>1. Searching /\ phase' = phase
        BY <3>1, StackFacts DEF Visit, PopVisited
      <4>2. QED BY <4>1, PhaseFacts
    <3>2. CASE Seed
      BY <3>2, PhaseFacts DEF Seed, Searching
    <3>3. CASE Source
      BY <3>3 DEF Source
    <3>4. CASE NextSeek
      <4>1. CASE phase = "draws"
        BY <3>4, <4>1 DEF NextSeek
      <4>2. CASE phase # "draws"
        <5>1. PICK l \in 1..4 : Seeks[l] = phase
          BY <3>4 DEF NextSeek, Seeks, Range
        <5> DEFINE c == CHOOSE k \in DOMAIN Seeks : Seeks[k] = phase
        <5>2. DOMAIN Seeks = 1..4 /\ Seeks[4] = "draws"
          BY DEF Seeks
        <5>3. c \in 1..4 /\ Seeks[c] = phase
          BY <5>1, <5>2
        <5>4. phase' = Seeks[c + 1]
          BY <3>4, <4>2 DEF NextSeek
        <5> HIDE DEF c
        <5>5. c \in 1..3
          BY <4>2, <5>2, <5>3
        <5>6. c + 1 \in {2, 3, 4}
          BY <5>5
        <5>7. QED BY <5>4, <5>6 DEF Seeks
      <4>3. QED BY <4>1, <4>2
    <3>5. QED BY <1>2, <3>1, <3>2, <3>3, <3>4
  <2>2. Finished' /\ RoundsSuffice'
    BY <2>1 DEF Finished, RoundsSuffice
  <2>3. QED BY <1>1, <2>2
<1>3. CASE SourcesDone
  <2>1. Finished'
    BY <1>3 DEF SourcesDone, Finished
  <2>2. QED BY <1>1, <1>3, <2>1, SourcesDoneRounds
<1>4. CASE Place
  <2>1. Finished'
    BY <1>4 DEF Place, Finished
  <2>2. QED BY <1>1, <1>4, <2>1, PlaceRounds
<1>5. CASE TakeOut
  <2>1. Finished'
    BY <1>5 DEF TakeOut, Finished
  <2>2. QED BY <1>1, <1>5, <2>1, TakeOutRounds
<1>6. CASE LeaveNode
  <2>1. Finished'
    BY <1>6 DEF LeaveNode, Finished
  <2>2. QED BY <1>1, <1>6, <2>1, LeaveNodeRounds
<1>7. CASE Done \/ UNCHANGED vars
  <2>1. /\ UNCHANGED <<block, in_neighbours, queue, sorted, next>>
        /\ (phase' = "done" /\ phase = "sort" /\ queue = <<>> /\ next = 0) \/ phase' = phase
    BY <1>7 DEF Done, vars
  <2>2. Finished'
    BY <2>1 DEF Finished
  <2>3. RoundsSuffice'
    <3>1. CASE phase \in {"sort", "done"}
      <4>1. Order' = Order /\ Placed' = Placed
        BY <2>1 DEF Order, Placed
      <4>2. \A i \in Statements : ToPlace(i)' = ToPlace(i)
        BY <2>1, <4>1 DEF ToPlace
      <4>3. QED BY <2>1, <3>1, <4>1, <4>2, SameRounds
    <3>2. CASE phase \notin {"sort", "done"}
      BY <2>1, <3>2 DEF RoundsSuffice
    <3>3. QED BY <3>1, <3>2
  <2>4. QED BY <1>1, <2>2, <2>3
<1>8. QED BY <1>2, <1>3, <1>4, <1>5, <1>6, <1>7 DEF Next

(* Nothing is left to place: of the statements found but not placed, the   *)
(* first one would wait for statements that are placed, each with a round  *)
(* to come, and there are no more rounds.                                  *)
LEMMA PlacedInvPlacesFound == PlacedInv => PlacesFound
<1> SUFFICES ASSUME PlacedInv, phase = "done" PROVE Range(found) \subseteq Range(sorted)
  BY DEF PlacesFound
<1> USE DEF PlacedInv
<1>1. /\ queue = <<>> /\ next = 0 /\ dfs_stack = <<>>
      /\ sorted \in Seq(Statements) /\ found \in Seq(Statements) /\ visited = Range(found)
  BY PhaseFacts DEF Finished, IInv, Typed, Staged, Counted
<1>2. Range(queue) = {} /\ Range(dfs_stack) = {}
  BY <1>1, EmptyRange
<1>3. Range(Order) = Range(sorted)
  BY <1>2, OrderFacts DEF IInv
<1> DEFINE Lost == {i \in Statements : i \in visited /\ i \notin Range(sorted)}
<1>4. SUFFICES ASSUME Lost # {} PROVE FALSE
  <2>1. visited \subseteq Statements
    BY <1>1, InRange
  <2>2. QED BY <1>1, <1>4, <2>1
<1>5. PICK i \in Lost : \A j \in Lost : i <= j
  <2>1. Lost \in SUBSET Nat
    BY DEF Statements
  <2> HIDE DEF Lost
  <2>2. PICK i \in Lost : \A j \in Lost : i <= j
    BY <1>4, <2>1, LeastElement
  <2>3. QED BY <2>2
<1>6. ASSUME NEW j \in Range(Graph(block)[i])
      PROVE  j \in Range(sorted) /\ j \in Statements
  <2>1. j \in Statements /\ j \in 1..i - 1 /\ i \in Nat
    BY <1>6, GraphFacts DEF IInv, Typed, Statements
  <2>2. j \in visited
    BY <1>2, <1>6 DEF Closed
  <2>3. ~(i <= j)
    BY <2>1
  <2>4. QED BY <1>5, <2>1, <2>2, <2>3
<1>7. ASSUME NEW j \in Range(in_neighbours[i]) PROVE FALSE
  <2> DEFINE t == block[j].text
  <2>1. j \in Range(Graph(block)[i])
    BY <1>7 DEF IInv, Counted
  <2>2. j \in ReadyLeft(i, t) /\ j \in Statements
    BY <1>3, <1>6, <1>7, <2>1 DEF ReadyLeft
  <2>3. RoundsLeft(i, t) = {}
    BY <1>1, <1>2 DEF RoundsLeft, ToPlace
  <2>4. Cardinality(ReadyLeft(i, t)) <= 0
    BY <2>2, <2>3, FS_EmptySet DEF RoundsSuffice
  <2>5. IsFiniteSet(ReadyLeft(i, t)) /\ Cardinality(ReadyLeft(i, t)) \in Nat
    BY FiniteCounts, FS_CardinalityType
  <2>6. Cardinality(ReadyLeft(i, t)) = 0
    BY <2>4, <2>5
  <2>7. QED BY <2>2, <2>5, <2>6, FS_EmptySet
<1>8. in_neighbours[i] = <<>>
  <2>1. in_neighbours[i] \in Seq(Nat)
    BY DEF IInv, Typed
  <2>2. Range(in_neighbours[i]) = {}
    BY <1>7
  <2>3. 1 \notin 1..Len(in_neighbours[i])
    BY <2>1, <2>2, InRange
  <2>4. QED BY <2>1, <2>3
<1>9. i \in Range(Order)
  <2>1. CASE Graph(block)[i] = <<>>
    BY <2>1 DEF IInv, Sought
  <2>2. CASE Graph(block)[i] # <<>>
    BY <1>8, <2>2 DEF IInv, OrderKept
  <2>3. QED BY <2>1, <2>2
<1>10. QED BY <1>3, <1>9

(* Every statement that was found, that is, every one something observable *)
(* depends on, is in the sorted block, although a placed node may take a   *)
(* copy of itself out of what a statement waits for: no block makes        *)
(* sort_block wait for a statement for ever and leave it out.              *)
THEOREM FoundPlaced == Spec => []PlacesFound
<1>1. Init => PlacedInv
  BY PlacedInit
<1>2. PlacedInv /\ [Next]_vars => PlacedInv'
  BY PlacedStep
<1>3. PlacedInv => PlacesFound
  BY PlacedInvPlacesFound
<1>4. QED BY <1>1, <1>2, <1>3, PTL DEF Spec

-------------------------------------------------------------------------------
(* The meaning of a block: two orders that keep what depends on each other *)
(* in order, and leave out nothing observable, do the same.                *)

Good(order) ==
    /\ order \in Seq(Statements) /\ IsInjective(order)
    /\ \A k \in 1..Len(order) :
          Range(Graph(block)[order[k]]) \subseteq {order[l] : l \in 1..k - 1}
    /\ \A i \in Statements : Observable(block[i]) => i \in Range(order)

(* The states in which the statements begin, when none of them stops.      *)
Result(order, coins, t, k) == Does(block[order[k]].text, t[k - 1], coins[order[k]])
Traced(order, state, coins, t) ==
    /\ t \in [0..Len(order) -> States]
    /\ t[0] = state
    /\ \A k \in 1..Len(order) : t[k] = Result(order, coins, t, k).state

Writes(i, x) == x \in block[i].writes
Mentions(i, x) == x \in Range(block[i].mentions)

LEMMA BlockFacts ==
    ASSUME block \in Blocks
    PROVE  /\ Len(block) \in Nat
           /\ \A i \in Statements :
                 /\ i \in Nat /\ block[i] \in Range(block)
                 /\ block[i] \in UNION {Range(b) : b \in Blocks}
                 /\ \A x : Writes(i, x) => Mentions(i, x)
                 /\ \A x : Mentions(i, x) => x \in Names
<1>1. block \in Seq(Range(block)) /\ Len(block) \in Nat
  BY GraphAssumption
<1>2. ASSUME NEW i \in Statements
      PROVE  /\ i \in Nat /\ block[i] \in Range(block)
             /\ block[i] \in UNION {Range(b) : b \in Blocks}
  <2>1. i \in 1..Len(block)
    BY DEF Statements
  <2>2. QED BY <1>1, <2>1, InRange
<1>3. ASSUME NEW i \in Statements
      PROVE  /\ \A x : Writes(i, x) => Mentions(i, x)
             /\ \A x : Mentions(i, x) => x \in Names
  <2>1. block[i].mentions \in Seq(Names) /\ block[i].writes \subseteq Range(block[i].mentions)
    BY <1>2, AccessAssumption
  <2>2. QED BY <2>1, InRange DEF Writes, Mentions, Range
<1>4. QED BY <1>1, <1>2, <1>3

(* What a statement does.                                                  *)
LEMMA DoesFacts ==
    ASSUME block \in Blocks, NEW i \in Statements, NEW state \in States, NEW coin \in Coins
    PROVE  LET out == Does(block[i].text, state, coin) IN
           /\ out.state \in States
           /\ \A x \in Names : ~Writes(i, x) => out.state[x] = state[x]
           /\ Stopped(out) => Observable(block[i])
           /\ ~Stopped(out) => out = Going(out.state)
           /\ Stopped(out) /\ out.end # "stuck" => block[i].returns /\ out.end = "return"
<1> DEFINE out == Does(block[i].text, state, coin)
<1>1. block[i] \in UNION {Range(b) : b \in Blocks}
  BY BlockFacts
<1>2. /\ out.state \in States
      /\ \A x \in Names \ block[i].writes : out.state[x] = state[x]
      /\ \/ out = Going(out.state)
         \/ out.end = "return" /\ block[i].returns
         \/ out.end = "stuck" /\ block[i].may_not_complete
  BY <1>1, AccessAssumption
<1> HIDE DEF out
<1>3. out = Going(out.state) => out.end = "next"
  <2>1. Going(out.state).end = "next"
    BY DEF Going
  <2>2. QED BY <2>1
<1>4. QED BY <1>2, <1>3 DEF Stopped, Observable, Writes, out

LEMMA SameDoing ==
    ASSUME block \in Blocks, NEW i \in Statements, NEW state \in States, NEW same \in States,
           NEW coin \in Coins, \A x : Mentions(i, x) => same[x] = state[x]
    PROVE  LET out == Does(block[i].text, state, coin)
               o == Does(block[i].text, same, coin) IN
           /\ o.end = out.end /\ o.value = out.value
           /\ \A x : Writes(i, x) => o.state[x] = out.state[x]
<1>1. block[i] \in UNION {Range(b) : b \in Blocks}
  BY BlockFacts
<1>2. same \in {t \in States : \A x \in Range(block[i].mentions) : t[x] = state[x]}
  BY DEF Mentions
<1>3. \A u \in {t \in States : \A x \in Range(block[i].mentions) : t[x] = state[x]} :
          LET out == Does(block[i].text, state, coin)
              o == Does(block[i].text, u, coin) IN
          /\ o.end = out.end /\ o.value = out.value
          /\ \A x \in block[i].writes : o.state[x] = out.state[x]
  BY <1>1, AccessAssumption
<1>4. QED BY <1>2, <1>3 DEF Writes

(* What must stay in order is.                                             *)
MustFollow(i, j) ==
    \/ Conflict(block[i], block[j])
    \/ /\ Observable(block[i]) /\ Observable(block[j])
       /\ block[i].returns \/ block[j].returns

LEMMA InOrder ==
    ASSUME block \in Blocks, NEW order, Good(order), NEW k \in 1..Len(order),
           NEW i \in Statements, i < order[k], MustFollow(i, order[k])
    PROVE  \E l \in 1..k - 1 : order[l] = i
<1> DEFINE j == order[k]
           D == {order[l] : l \in 1..k}
<1>1. Len(order) \in Nat /\ \A l \in 1..Len(order) : order[l] \in Statements
  BY InRange DEF Good
<1>2. k \in 1..Len(order) /\ \A l \in 1..k : l \in 1..Len(order)
  BY <1>1
<1>3. Graph(block) \in [Statements -> Seq(Nat)] /\ DOMAIN Graph(block) = Statements
  BY GraphFacts
<1>4. D \in SUBSET DOMAIN Graph(block) /\ j \in D
  BY <1>1, <1>2, <1>3
<1>5. \A m \in D : Range(Graph(block)[m]) \subseteq D
  <2> TAKE m \in D
  <2>1. PICK l \in 1..k : m = order[l]
    OBVIOUS
  <2>2. Range(Graph(block)[m]) \subseteq {order[q] : q \in 1..l - 1}
    BY <1>2, <2>1 DEF Good
  <2>3. \A q \in 1..l - 1 : q \in 1..k
    BY <1>1
  <2>4. QED BY <2>2, <2>3
<1>6. j \in 1..Len(block) /\ i \in 1..j - 1
  <2>1. j \in 1..Len(block) /\ i \in 1..Len(block) /\ i < j
    BY <1>1, <1>2 DEF Statements
  <2> HIDE DEF j
  <2>2. QED BY <2>1
<1>7. Requires(Graph(block), j, i)
  <2>1. Connects(Graph(block), block)
    BY GraphConnects
  <2>2. QED BY <1>6, <2>1 DEF Connects, MustFollow
<1>8. i \in D
  <2> HIDE DEF D, j
  <2>1. QED BY <1>4, <1>5, <1>7 DEF Requires
<1>9. PICK l \in 1..k : order[l] = i
  BY <1>8
<1>10. l # k
  <2>1. i \in Nat /\ j \in Nat /\ i < j
    BY <1>1, BlockFacts
  <2>2. order[k] = j
    OBVIOUS
  <2> HIDE DEF j
  <2>3. QED BY <1>9, <2>1, <2>2
<1>11. QED BY <1>9, <1>10

LEMMA Twice ==
    ASSUME NEW order, Good(order), NEW k \in 1..Len(order), NEW l \in 1..Len(order),
           order[k] = order[l]
    PROVE  k = l
<1>1. DOMAIN order = 1..Len(order)
  BY InRange DEF Good
<1>2. QED BY <1>1 DEF Good, IsInjective

(* Which statements come before a given one.                               *)
LEMMA InOrderOnly ==
    ASSUME block \in Blocks, NEW order, Good(order), NEW k \in 1..Len(order),
           NEW l \in 1..Len(order), MustFollow(order[k], order[l])
    PROVE  order[k] < order[l] <=> k < l
<1>1. Len(order) \in Nat /\ order[k] \in Statements /\ order[l] \in Statements
  BY InRange DEF Good
<1>2. order[k] \in Nat /\ order[l] \in Nat
  BY <1>1, BlockFacts
<1>3. ASSUME order[k] < order[l] PROVE k < l
  <2>1. PICK m \in 1..l - 1 : order[m] = order[k]
    BY <1>1, <1>3, InOrder
  <2>2. m \in 1..Len(order)
    BY <1>1
  <2>3. m = k
    BY <2>1, <2>2, Twice
  <2>4. QED BY <2>3
<1>4. ASSUME order[l] < order[k] PROVE l < k
  <2>1. MustFollow(order[l], order[k])
    BY DEF MustFollow, Conflict
  <2>2. PICK m \in 1..k - 1 : order[m] = order[l]
    BY <1>1, <1>4, <2>1, InOrder
  <2>3. m \in 1..Len(order)
    BY <1>1
  <2>4. m = l
    BY <2>2, <2>3, Twice
  <2>5. QED BY <2>4
<1>5. order[k] = order[l] => k = l
  BY Twice
<1>6. QED BY <1>2, <1>3, <1>4, <1>5

-------------------------------------------------------------------------------
(* Running an order.                                                       *)

Runs(u, order, state, coins) ==
    /\ u[0] = Going(state)
    /\ \A k \in 1..Len(order) : u[k] = Step(u[k - 1], order[k], coins)

LEMMA TraceExists ==
    ASSUME block \in Blocks, NEW order \in Seq(Statements), NEW state \in States,
           NEW coins \in DrawsOf
    PROVE  \E t : Traced(order, state, coins, t)
<1> DEFINE n == Len(order)
           step == [k \in 1..n |-> [s \in States |->
                       Does(block[order[k]].text, s, coins[order[k]]).state]]
<1>1. n \in Nat /\ \A k \in 1..n : order[k] \in Statements /\ coins[order[k]] \in Coins
  BY InRange DEF DrawsOf
<1>2. \A k \in 1..n : \A s \in States :
          Does(block[order[k]].text, s, coins[order[k]]).state \in States
  BY <1>1, DoesFacts
<1>3. FoldSteps(n, States, state, step)
  <2> HIDE DEF n
  <2>1. QED BY <1>1, <1>2 DEF FoldSteps
<1>4. PICK u : FoldTraces(u, n, States, state, step)
  <2> HIDE DEF n, step
  <2>1. PICK f : FoldsBy(f, n, States, state, step)
    BY <1>3, FoldSolution
  <2>2. QED BY <1>3, <2>1, FoldTrace
<1>5. \A k \in 1..n : u[k - 1] \in States
  BY <1>1, <1>4 DEF FoldTraces
<1>6. \A k \in 1..n : u[k] = Result(order, coins, u, k).state
  BY <1>4, <1>5 DEF FoldTraces, Result
<1>7. Traced(order, state, coins, u)
  BY <1>4, <1>6 DEF FoldTraces, Traced
<1>8. QED BY <1>7

LEMMA RunTrace ==
    ASSUME block \in Blocks, NEW order \in Seq(Statements), NEW state \in States,
           NEW coins \in DrawsOf
    PROVE  \E u : Runs(u, order, state, coins) /\ Run(order, state, coins) = u[Len(order)]
<1> DEFINE n == Len(order)
           S == SUBSET (1..n)
           V == {Going(s) : s \in States}
                \cup {Does(block[i].text, s, c) : i \in Statements, s \in States, c \in Coins}
           base == Going(state)
           step == [k \in 1..n |-> [o \in V |-> Step(o, order[k], coins)]]
           E(f, s) == IF s = {} THEN base ELSE Step(f[s \ {Max(s)}], order[Max(s)], coins)
           iter == CHOOSE f : f = [s \in S |-> E(f, s)]
<1>1. /\ n \in Nat /\ DOMAIN order = 1..n
      /\ \A k \in 1..n : order[k] \in Statements /\ coins[order[k]] \in Coins
  BY InRange DEF DrawsOf
<1>2. \A o \in V : o.state \in States
  <2>1. \A s \in States : Going(s).state = s
    BY DEF Going
  <2>2. \A i \in Statements, s \in States, c \in Coins :
            Does(block[i].text, s, c).state \in States
    BY DoesFacts
  <2>3. QED BY <2>1, <2>2
<1>3. \A k \in 1..n, o \in V : Step(o, order[k], coins) \in V
  <2> TAKE k \in 1..n, o \in V
  <2>1. Does(block[order[k]].text, o.state, coins[order[k]]) \in V
    BY <1>1, <1>2
  <2> HIDE DEF V
  <2>2. QED BY <2>1 DEF Step
<1>4. FoldSteps(n, V, base, step)
  <2>1. base \in V
    OBVIOUS
  <2> HIDE DEF n, V
  <2>2. QED BY <1>1, <1>3, <2>1 DEF FoldSteps
<1>5. \A s \in S : s # {} => Max(s) \in 1..n
  <2> TAKE s \in S
  <2>1. s # {} => Max(s) \in s
    <3> HIDE DEF n
    <3>1. QED BY <1>1, GreatestOf
  <2>2. QED BY <2>1
<1>6. PICK f : f \in [S -> V] /\ FoldsBy(f, n, V, base, step)
  <2> HIDE DEF n, V, base, step
  <2>1. QED BY <1>4, FoldSolution
<1>7. ASSUME NEW g, NEW s \in S, s # {}, g[s \ {Max(s)}] \in V
      PROVE  step[Max(s)][g[s \ {Max(s)}]] = E(g, s)
  <2>1. PICK k \in 1..n : k = Max(s)
    BY <1>5, <1>7
  <2> HIDE DEF V, n, S
  <2>2. PICK o \in V : o = g[s \ {Max(s)}]
    BY <1>7
  <2>3. step[k][o] = Step(o, order[k], coins)
    OBVIOUS
  <2>4. E(g, s) = Step(o, order[k], coins)
    <3>1. E(g, s) = Step(g[s \ {Max(s)}], order[Max(s)], coins)
      BY <1>7
    <3> HIDE DEF E
    <3>2. QED BY <2>1, <2>2, <3>1
  <2> HIDE DEF E, step
  <2>5. QED BY <2>1, <2>2, <2>3, <2>4
<1>8. \A s \in S : f[s] = E(f, s)
  <2> TAKE s \in S
  <2>1. CASE s = {}
    BY <1>6, <2>1 DEF FoldsBy
  <2>2. CASE s # {}
    <3>1. f[s \ {Max(s)}] \in V
      <4> HIDE DEF V
      <4>1. QED BY <1>6
    <3>2. f[s] = step[Max(s)][f[s \ {Max(s)}]]
      <4> HIDE DEF V, step, base
      <4>1. QED BY <1>6, <2>2, <3>1 DEF FoldsBy
    <3> HIDE DEF E, step, V, S
    <3>3. QED BY <1>7, <2>2, <3>1, <3>2
  <2>3. QED BY <2>1, <2>2
<1>9. iter = [s \in S |-> E(iter, s)]
  <2>1. f = [s \in S |-> E(f, s)]
    <3> HIDE DEF E, S, V
    <3>1. QED BY <1>6, <1>8
  <2> HIDE DEF E, S
  <2>2. QED BY <2>1
<1>10. Run(order, state, coins) = iter[1..n]
  <2>1. Run(order, state, coins) =
          (CHOOSE g : g = [s \in SUBSET DOMAIN order |-> E(g, s)])[DOMAIN order]
    BY DEF Run, FoldLeft, MapThenFoldSet
  <2> HIDE DEF E
  <2>2. QED BY <1>1, <2>1, Zenon
<1>11. \A s \in S : iter[s] = E(iter, s)
  <2> HIDE DEF E, S, iter
  <2>1. QED BY <1>9
<1> HIDE DEF iter
<1>12. FoldsBy(iter, n, V, base, step)
  <2>1. iter[{}] = base
    BY <1>11
  <2>2. ASSUME NEW s \in S, s # {}, iter[s \ {Max(s)}] \in V
        PROVE  iter[s] = step[Max(s)][iter[s \ {Max(s)}]]
    <3> HIDE DEF E, step, V, S
    <3>1. QED BY <1>7, <1>11, <2>2
  <2> HIDE DEF E, step, V, base
  <2>3. QED BY <2>1, <2>2 DEF FoldsBy
<1>13. PICK u : FoldTraces(u, n, V, base, step) /\ u[n] = iter[1..n]
  <2> HIDE DEF n, V, base, step
  <2>1. QED BY <1>4, <1>12, FoldTrace
<1>14. \A k \in 1..n : u[k] = Step(u[k - 1], order[k], coins)
  <2> TAKE k \in 1..n
  <2>1. k - 1 \in 0..n
    BY <1>1
  <2>2. u[k - 1] \in V /\ u[k] = step[k][u[k - 1]]
    <3> HIDE DEF V, step
    <3>1. QED BY <1>13, <2>1 DEF FoldTraces
  <2> HIDE DEF V, n
  <2>3. QED BY <2>2
<1>15. Runs(u, order, state, coins)
  BY <1>13, <1>14 DEF Runs, FoldTraces
<1>16. QED BY <1>10, <1>13, <1>15

(* Until a statement stops it, the run is in the traced states.            *)
LEMMA RunFollows ==
    ASSUME block \in Blocks, NEW order \in Seq(Statements), NEW state \in States,
           NEW coins \in DrawsOf, NEW t, Traced(order, state, coins, t),
           NEW u, Runs(u, order, state, coins), NEW m \in 0..Len(order),
           \A k \in 1..m : ~Stopped(Result(order, coins, t, k))
    PROVE  u[m] = Going(t[m])
<1>1. /\ m \in Nat /\ Len(order) \in Nat
      /\ \A k \in 1..Len(order) : order[k] \in Statements /\ coins[order[k]] \in Coins
  BY InRange DEF DrawsOf
<1> DEFINE P == {k \in 0..m : u[k] = Going(t[k])}
<1>2. 0 \in P
  BY <1>1 DEF Traced, Runs
<1>3. ASSUME NEW k \in 0..m, k < m, k \in P PROVE k + 1 \in P
  <2> DEFINE l == k + 1
             out == Result(order, coins, t, l)
  <2>1. l \in 1..m /\ l \in 1..Len(order) /\ l - 1 = k /\ k \in 0..Len(order)
    BY <1>1, <1>3
  <2>2. t[k] \in States /\ t[l] = out.state /\ out = Does(block[order[l]].text, t[k], coins[order[l]])
    BY <2>1 DEF Traced, Result
  <2>3. out = Going(out.state)
    BY <1>1, <2>1, <2>2, DoesFacts
  <2>4. u[l] = Step(Going(t[k]), order[l], coins)
    BY <1>3, <2>1 DEF Runs
  <2>5. Going(t[k]).end = "next" /\ Going(t[k]).state = t[k]
    BY DEF Going
  <2>6. u[l] = out
    <3> HIDE DEF out
    <3>1. QED BY <2>2, <2>4, <2>5 DEF Step, Stopped
  <2> HIDE DEF out
  <2>7. QED BY <2>1, <2>2, <2>3, <2>6
<1> HIDE DEF P
<1>4. \A k \in 0..m : k \in P
  BY <1>1, <1>2, <1>3, RangeInduction
<1>5. QED BY <1>1, <1>4 DEF P

(* A statement that stops it is the last one.                              *)
LEMMA RunStops ==
    ASSUME block \in Blocks, NEW order \in Seq(Statements), NEW state \in States,
           NEW coins \in DrawsOf, NEW t, Traced(order, state, coins, t),
           NEW k \in 1..Len(order), Stopped(Result(order, coins, t, k)),
           \A l \in 1..k - 1 : ~Stopped(Result(order, coins, t, l))
    PROVE  Run(order, state, coins) = Result(order, coins, t, k)
<1> DEFINE n == Len(order)
           out == Result(order, coins, t, k)
<1>1. PICK u : Runs(u, order, state, coins) /\ Run(order, state, coins) = u[n]
  BY RunTrace
<1>2. n \in Nat /\ k - 1 \in 0..n /\ k \in 1..n
  OBVIOUS
<1>3. u[k - 1] = Going(t[k - 1])
  BY <1>1, <1>2, RunFollows
<1>4. u[k] = out
  <2>1. u[k] = Step(Going(t[k - 1]), order[k], coins)
    BY <1>1, <1>3 DEF Runs
  <2>2. Going(t[k - 1]).end = "next" /\ Going(t[k - 1]).state = t[k - 1]
    BY DEF Going
  <2>3. QED BY <2>1, <2>2 DEF Step, Stopped, Result
<1> DEFINE P == {m \in 0..n : m >= k => u[m] = out}
<1>5. 0 \in P
  BY <1>2
<1>6. ASSUME NEW m \in 0..n, m < n, m \in P PROVE m + 1 \in P
  <2>1. m + 1 \in 1..n /\ m + 1 - 1 = m
    BY <1>2, <1>6
  <2> HIDE DEF out
  <2>2. CASE m + 1 = k
    BY <1>4, <2>1, <2>2
  <2>3. CASE m >= k
    <3>1. u[m] = out
      BY <1>6, <2>3
    <3>2. u[m + 1] = Step(u[m], order[m + 1], coins)
      BY <1>1, <2>1 DEF Runs
    <3>3. Stopped(out)
      BY DEF out
    <3>4. QED BY <2>1, <3>1, <3>2, <3>3 DEF Step
  <2>4. m + 1 >= k => m + 1 = k \/ m >= k
    BY <1>2
  <2>5. QED BY <2>1, <2>2, <2>3, <2>4
<1> HIDE DEF P
<1>7. \A m \in 0..n : m \in P
  <2> HIDE DEF n
  <2>1. QED BY <1>2, <1>5, <1>6, RangeInduction
<1>8. n \in 0..n /\ n >= k
  BY <1>2
<1>9. QED BY <1>1, <1>7, <1>8 DEF P

-------------------------------------------------------------------------------
(* What a name holds in two orders.                                        *)

(* The statements up to place m that write x.                              *)
Writers(order, m, x) == {order[l] : l \in {k \in 1..m : Writes(order[k], x)}}

(* x holds what its last writer left, which is the last in the block, too. *)
LEMMA LastWriter ==
    ASSUME block \in Blocks, NEW order, Good(order), NEW state \in States,
           NEW coins \in DrawsOf, NEW t, Traced(order, state, coins, t),
           NEW x \in Names, NEW m \in 0..Len(order)
    PROVE  \/ Writers(order, m, x) = {} /\ t[m][x] = state[x]
           \/ \E l \in 1..m : /\ Writes(order[l], x) /\ t[m][x] = t[l][x]
                              /\ \A i \in Writers(order, m, x) : i <= order[l]
<1> DEFINE Never(k) == Writers(order, k, x) = {} /\ t[k][x] = state[x]
           LastAt(k, l) == /\ Writes(order[l], x) /\ t[k][x] = t[l][x]
                           /\ \A i \in Writers(order, k, x) : i <= order[l]
           P == {k \in 0..m : Never(k) \/ \E l \in 1..k : LastAt(k, l)}
<1>1. /\ m \in Nat /\ Len(order) \in Nat
      /\ \A k \in 1..Len(order) :
            order[k] \in Statements /\ order[k] \in Nat /\ coins[order[k]] \in Coins
  <2>1. /\ m \in Nat /\ Len(order) \in Nat
        /\ \A k \in 1..Len(order) : order[k] \in Statements
    BY InRange DEF Good
  <2>2. QED BY <2>1, BlockFacts DEF DrawsOf
<1>2. 0 \in P
  <2>1. 1..0 = {} /\ t[0] = state
    BY DEF Traced
  <2>2. Never(0)
    BY <2>1 DEF Writers
  <2>3. QED BY <1>1, <2>2
<1>3. ASSUME NEW k \in 0..m, k < m, k \in P PROVE k + 1 \in P
  <2> DEFINE n == k + 1
  <2>1. n \in 1..m /\ n \in 1..Len(order) /\ n - 1 = k /\ k \in 0..Len(order) /\ k \in Nat
        /\ 1..n = 1..k \cup {n}
    BY <1>1, <1>3
  <2>2. /\ t[k] \in States
        /\ t[n] = Does(block[order[n]].text, t[k], coins[order[n]]).state
    BY <2>1 DEF Traced, Result
  <2>3. CASE ~Writes(order[n], x)
    <3>1. t[n][x] = t[k][x]
      BY <1>1, <2>1, <2>2, <2>3, DoesFacts
    <3>2. Writers(order, n, x) = Writers(order, k, x)
      BY <2>1, <2>3 DEF Writers
    <3> HIDE DEF n
    <3>3. CASE Never(k)
      <4>1. Never(n)
        BY <3>1, <3>2, <3>3
      <4>2. QED BY <2>1, <4>1 DEF n
    <3>4. CASE \E l \in 1..k : LastAt(k, l)
      <4>1. PICK l \in 1..k : LastAt(k, l)
        BY <3>4
      <4>2. l \in 1..n /\ LastAt(n, l)
        BY <2>1, <3>1, <3>2, <4>1
      <4>3. QED BY <2>1, <4>2 DEF n
    <3>5. QED BY <1>3, <3>3, <3>4
  <2>4. CASE Writes(order[n], x)
    <3>1. ASSUME NEW i \in Writers(order, n, x) PROVE i <= order[n]
      <4>1. PICK l \in 1..n : i = order[l] /\ Writes(order[l], x)
        BY DEF Writers
      <4>2. l \in 1..Len(order)
        BY <1>1, <2>1
      <4>3. MustFollow(order[l], order[n])
        BY <1>1, <2>1, <2>4, <4>1, <4>2, BlockFacts DEF MustFollow, Conflict, Writes, Mentions
      <4>4. order[n] < order[l] => n < l
        <5>1. MustFollow(order[n], order[l])
          BY <4>3 DEF MustFollow, Conflict
        <5> HIDE DEF n
        <5>2. QED BY <2>1, <4>2, <5>1, InOrderOnly
      <4>5. ~(n < l)
        BY <2>1
      <4> HIDE DEF n
      <4>6. QED BY <1>1, <2>1, <4>1, <4>2, <4>4, <4>5
    <3> HIDE DEF n
    <3>2. n \in 1..n /\ LastAt(n, n)
      BY <2>1, <2>4, <3>1
    <3>3. QED BY <2>1, <3>2 DEF n
  <2>5. QED BY <2>3, <2>4
<1>4. m \in P
  <2> HIDE DEF P
  <2>1. \A k \in 0..m : k \in P
    BY <1>1, <1>2, <1>3, RangeInduction
  <2>2. QED BY <1>1, <2>1
<1>5. QED BY <1>4

(* Two orders, run from the same state with the same coins.                *)
Paired(p, t, q, s, state, coins) ==
    /\ block \in Blocks /\ state \in States /\ coins \in DrawsOf
    /\ Good(p) /\ Traced(p, state, coins, t)
    /\ Good(q) /\ Traced(q, state, coins, s)

(* Statement i meets the same values in both.                              *)
Alike(p, t, q, s, i) ==
    \A k \in 1..Len(p), l \in 1..Len(q) :
        p[k] = i /\ q[l] = i => \A x : Mentions(i, x) => t[k - 1][x] = s[l - 1][x]

(* ... and then does the same.                                             *)
LEMMA SameResult ==
    ASSUME NEW p, NEW t, NEW q, NEW s, NEW state, NEW coins, Paired(p, t, q, s, state, coins),
           NEW k \in 1..Len(p), NEW l \in 1..Len(q), p[k] = q[l], Alike(p, t, q, s, p[k])
    PROVE  LET a == Result(p, coins, t, k)
               b == Result(q, coins, s, l) IN
           /\ a.end = b.end /\ a.value = b.value
           /\ \A x : Writes(p[k], x) => t[k][x] = s[l][x]
<1>1. /\ Len(p) \in Nat /\ p[k] \in Statements /\ coins[p[k]] \in Coins
      /\ Len(q) \in Nat
  BY InRange DEF Paired, Good, DrawsOf
<1>2. t[k - 1] \in States /\ s[l - 1] \in States
  <2>1. k - 1 \in 0..Len(p) /\ l - 1 \in 0..Len(q)
    BY <1>1
  <2>2. t \in [0..Len(p) -> States] /\ s \in [0..Len(q) -> States]
    BY DEF Paired, Traced
  <2>3. QED BY <2>1, <2>2
<1>3. \A x : Mentions(p[k], x) => t[k - 1][x] = s[l - 1][x]
  BY DEF Alike
<1>4. /\ Result(p, coins, t, k) = Does(block[p[k]].text, t[k - 1], coins[p[k]])
      /\ Result(q, coins, s, l) = Does(block[p[k]].text, s[l - 1], coins[p[k]])
  BY DEF Result
<1>5. t[k] = Result(p, coins, t, k).state /\ s[l] = Result(q, coins, s, l).state
  BY DEF Paired, Traced
<1>6. block \in Blocks
  BY DEF Paired
<1>7. LET a == Does(block[p[k]].text, t[k - 1], coins[p[k]])
          b == Does(block[p[k]].text, s[l - 1], coins[p[k]]) IN
      /\ a.end = b.end /\ a.value = b.value
      /\ \A x : Writes(p[k], x) => a.state[x] = b.state[x]
  BY <1>1, <1>2, <1>3, <1>6, SameDoing
<1>8. QED BY <1>4, <1>5, <1>7

(* A name holds the same where the same statements have written it.        *)
LEMMA SameValue ==
    ASSUME NEW p, NEW t, NEW q, NEW s, NEW state, NEW coins, Paired(p, t, q, s, state, coins),
           NEW x \in Names, NEW m \in 0..Len(p), NEW n \in 0..Len(q),
           Writers(p, m, x) = Writers(q, n, x),
           \A i \in Writers(p, m, x) : Alike(p, t, q, s, i)
    PROVE  t[m][x] = s[n][x]
<1>1. /\ Len(p) \in Nat /\ \A k \in 1..Len(p) : p[k] \in Nat
      /\ Len(q) \in Nat /\ \A k \in 1..Len(q) : q[k] \in Nat
  BY InRange, BlockFacts DEF Paired, Good
<1>2. \/ Writers(p, m, x) = {} /\ t[m][x] = state[x]
      \/ \E l \in 1..m : /\ Writes(p[l], x) /\ t[m][x] = t[l][x]
                         /\ \A i \in Writers(p, m, x) : i <= p[l]
  BY LastWriter DEF Paired
<1>3. \/ Writers(q, n, x) = {} /\ s[n][x] = state[x]
      \/ \E l \in 1..n : /\ Writes(q[l], x) /\ s[n][x] = s[l][x]
                         /\ \A i \in Writers(q, n, x) : i <= q[l]
  BY LastWriter DEF Paired
<1>4. CASE Writers(p, m, x) = {}
  <2>1. \A l \in 1..m : ~Writes(p[l], x)
    BY <1>4 DEF Writers
  <2>2. \A l \in 1..n : ~Writes(q[l], x)
    BY <1>4 DEF Writers
  <2>3. QED BY <1>2, <1>3, <2>1, <2>2
<1>5. CASE Writers(p, m, x) # {}
  <2>1. PICK k \in 1..m : /\ Writes(p[k], x) /\ t[m][x] = t[k][x]
                          /\ \A i \in Writers(p, m, x) : i <= p[k]
    BY <1>2, <1>5
  <2>2. PICK l \in 1..n : /\ Writes(q[l], x) /\ s[n][x] = s[l][x]
                          /\ \A i \in Writers(q, n, x) : i <= q[l]
    BY <1>3, <1>5
  <2>3. p[k] \in Writers(p, m, x) /\ q[l] \in Writers(q, n, x)
    BY <2>1, <2>2 DEF Writers
  <2>4. k \in 1..Len(p) /\ l \in 1..Len(q)
    BY <1>1
  <2>5. p[k] = q[l]
    BY <1>1, <2>1, <2>2, <2>3, <2>4
  <2>6. t[k][x] = s[l][x]
    BY <2>1, <2>3, <2>4, <2>5, SameResult
  <2>7. QED BY <2>1, <2>2, <2>6
<1>6. QED BY <1>4, <1>5

(* Who has written a name that a statement mentions: all earlier writers,  *)
(* in any order.                                                           *)
LEMMA WritersBefore ==
    ASSUME block \in Blocks, NEW order, Good(order), NEW k \in 1..Len(order),
           NEW x, Mentions(order[k], x)
    PROVE  Writers(order, k - 1, x) = {i \in Statements : i < order[k] /\ Writes(i, x)}
<1> DEFINE j == order[k]
<1>1. /\ Len(order) \in Nat
      /\ \A l \in 1..Len(order) : order[l] \in Statements /\ order[l] \in Nat
  BY InRange, BlockFacts DEF Good
<1>2. \A i \in Statements : Writes(i, x) => MustFollow(i, j)
  BY DEF MustFollow, Conflict, Writes, Mentions
<1>3. ASSUME NEW i \in Writers(order, k - 1, x)
      PROVE  i \in Statements /\ i < j /\ Writes(i, x)
  <2>1. PICK l \in 1..k - 1 : i = order[l] /\ Writes(order[l], x)
    BY DEF Writers
  <2>2. l \in 1..Len(order) /\ l < k
    BY <1>1
  <2>3. order[l] < order[k]
    BY <1>1, <1>2, <2>1, <2>2, InOrderOnly
  <2>4. QED BY <1>1, <2>1, <2>2, <2>3
<1>4. ASSUME NEW i \in Statements, i < j, Writes(i, x)
      PROVE  i \in Writers(order, k - 1, x)
  <2>1. PICK l \in 1..k - 1 : order[l] = i
    BY <1>2, <1>4, InOrder
  <2>2. QED BY <1>4, <2>1 DEF Writers
<1> HIDE DEF j
<1>5. QED BY <1>3, <1>4 DEF j

LEMMA AllAlike ==
    ASSUME NEW p, NEW t, NEW q, NEW s, NEW state, NEW coins, Paired(p, t, q, s, state, coins)
    PROVE  \A i \in Statements : Alike(p, t, q, s, i)
<1> DEFINE P == {i \in Statements : Alike(p, t, q, s, i)}
           rank == [i \in Statements |-> i]
<1>1. block \in Blocks /\ \A i \in Statements : rank[i] \in Nat /\ i \in Nat
  BY BlockFacts DEF Paired
<1>2. ASSUME NEW i \in Statements, \A j \in Statements : rank[j] < rank[i] => j \in P
      PROVE  i \in P
  <2>1. SUFFICES ASSUME NEW k \in 1..Len(p), NEW l \in 1..Len(q), p[k] = i, q[l] = i,
                        NEW x, Mentions(i, x)
                 PROVE  t[k - 1][x] = s[l - 1][x]
    BY DEF Alike
  <2>2. x \in Names
    BY <1>1, <2>1, BlockFacts
  <2> DEFINE W == {j \in Statements : j < i /\ Writes(j, x)}
  <2>3. Writers(p, k - 1, x) = W /\ Writers(q, l - 1, x) = W
    BY <1>1, <2>1, WritersBefore DEF Paired
  <2>4. \A j \in W : Alike(p, t, q, s, j)
    BY <1>2
  <2>5. k - 1 \in 0..Len(p) /\ l - 1 \in 0..Len(q)
    <3>1. Len(p) \in Nat /\ Len(q) \in Nat
      BY InRange DEF Paired, Good
    <3>2. QED BY <3>1
  <2> HIDE DEF W
  <2>6. QED BY <2>2, <2>3, <2>4, <2>5, SameValue
<1> HIDE DEF P, rank
<1>3. \A i \in Statements : i \in P
  BY <1>1, <1>2, RankInduction
<1>4. QED BY <1>3 DEF P

-------------------------------------------------------------------------------
(* What is observed.                                                       *)

(* All writers of a field are in the order, so it ends as the last of them *)
(* leaves it; and at a return the writers before it in the block, and the  *)
(* returning statement itself, have written it.                            *)
LEMMA FieldWriters ==
    ASSUME block \in Blocks, NEW order, Good(order), NEW x \in Fields
    PROVE  /\ Writers(order, Len(order), x) = {i \in Statements : Writes(i, x)}
           /\ \A k \in 1..Len(order) : block[order[k]].returns =>
                 Writers(order, k, x) = {i \in Statements : i <= order[k] /\ Writes(i, x)}
<1>1. /\ Len(order) \in Nat
      /\ \A l \in 1..Len(order) : order[l] \in Statements /\ order[l] \in Nat
      /\ \A i \in Statements : i \in Nat
  BY InRange, BlockFacts DEF Good
<1>2. ASSUME NEW i \in Statements, Writes(i, x) PROVE Observable(block[i])
  BY <1>2 DEF Observable, Writes
<1>3. ASSUME NEW i \in Statements, Writes(i, x)
      PROVE  \E l \in 1..Len(order) : order[l] = i
  BY <1>2, <1>3, InRange DEF Good
<1>4. ASSUME NEW k \in 1..Len(order), block[order[k]].returns
      PROVE  Writers(order, k, x) = {i \in Statements : i <= order[k] /\ Writes(i, x)}
  <2>1. ASSUME NEW i \in Statements, Writes(i, x)
        PROVE  MustFollow(i, order[k]) /\ MustFollow(order[k], i)
    BY <1>2, <1>4, <2>1 DEF MustFollow, Observable
  <2>2. ASSUME NEW i \in Writers(order, k, x)
        PROVE  i \in Statements /\ i <= order[k] /\ Writes(i, x)
    <3>1. PICK l \in 1..k : i = order[l] /\ Writes(order[l], x)
      BY DEF Writers
    <3>2. l \in 1..Len(order) /\ ~(k < l)
      BY <1>1
    <3>3. ~(order[k] < order[l])
      BY <1>1, <2>1, <3>1, <3>2, InOrderOnly
    <3>4. QED BY <1>1, <3>1, <3>2, <3>3
  <2>3. ASSUME NEW i \in Statements, i <= order[k], Writes(i, x)
        PROVE  i \in Writers(order, k, x)
    <3>1. PICK l \in 1..Len(order) : order[l] = i
      BY <1>3, <2>3
    <3>2. ~(order[k] < order[l])
      BY <1>1, <2>3, <3>1
    <3>3. ~(k < l)
      BY <1>1, <2>1, <2>3, <3>1, <3>2, InOrderOnly
    <3>4. l \in 1..k
      BY <1>1, <3>3
    <3>5. QED BY <2>3, <3>1, <3>4 DEF Writers
  <2>4. QED BY <2>2, <2>3
<1>5. Writers(order, Len(order), x) = {i \in Statements : Writes(i, x)}
  <2>1. ASSUME NEW i \in Writers(order, Len(order), x)
        PROVE  i \in Statements /\ Writes(i, x)
    BY <1>1 DEF Writers
  <2>2. ASSUME NEW i \in Statements, Writes(i, x)
        PROVE  i \in Writers(order, Len(order), x)
    BY <1>3, <2>2 DEF Writers
  <2>3. QED BY <2>1, <2>2
<1>6. QED BY <1>4, <1>5

(* A statement that stops one order stops the other one.                   *)
LEMMA StopsInBoth ==
    ASSUME NEW p, NEW t, NEW q, NEW s, NEW state, NEW coins, Paired(p, t, q, s, state, coins),
           NEW k \in 1..Len(p), Stopped(Result(p, coins, t, k))
    PROVE  /\ Observable(block[p[k]])
           /\ \E l \in 1..Len(q) : q[l] = p[k] /\ Stopped(Result(q, coins, s, l))
<1>1. /\ Len(p) \in Nat /\ p[k] \in Statements /\ coins[p[k]] \in Coins
  BY InRange DEF Paired, Good, DrawsOf
<1>2. t[k - 1] \in States
  <2>1. k - 1 \in 0..Len(p)
    BY <1>1
  <2>2. t \in [0..Len(p) -> States]
    BY DEF Paired, Traced
  <2>3. QED BY <2>1, <2>2
<1>3. Observable(block[p[k]])
  <2>1. block \in Blocks /\ Stopped(Does(block[p[k]].text, t[k - 1], coins[p[k]]))
    BY DEF Paired, Result
  <2>2. QED BY <1>1, <1>2, <2>1, DoesFacts
<1>4. PICK l \in 1..Len(q) : q[l] = p[k]
  <2>1. p[k] \in Range(q) /\ q \in Seq(Statements)
    BY <1>1, <1>3 DEF Paired, Good
  <2>2. QED BY <2>1, InRange
<1>5. Result(q, coins, s, l).end = Result(p, coins, t, k).end
  BY <1>1, <1>4, AllAlike, SameResult
<1>6. QED BY <1>3, <1>4, <1>5 DEF Stopped

FirstStop(order, coins, t, k) ==
    /\ k \in 1..Len(order) /\ Stopped(Result(order, coins, t, k))
    /\ \A l \in 1..k - 1 : ~Stopped(Result(order, coins, t, l))

LEMMA FirstStopExists ==
    ASSUME NEW order, NEW coins, NEW t, Len(order) \in Nat,
           NEW m \in 1..Len(order), Stopped(Result(order, coins, t, m))
    PROVE  \E k : FirstStop(order, coins, t, k)
<1> DEFINE S == {k \in 1..Len(order) : Stopped(Result(order, coins, t, k))}
<1>1. S \in SUBSET Nat /\ S # {}
  OBVIOUS
<1>2. PICK k \in S : \A l \in S : k <= l
  <2> HIDE DEF S
  <2>1. QED BY <1>1, LeastElement
<1>3. \A l \in 1..k - 1 : l \in 1..Len(order) /\ ~(k <= l)
  OBVIOUS
<1>4. \A l \in 1..k - 1 : l \notin S
  <2> HIDE DEF S
  <2>1. QED BY <1>2, <1>3
<1>5. QED BY <1>2, <1>3, <1>4 DEF FirstStop

(* Two orders stop at different statements only if neither returns.        *)
LEMMA NoRace ==
    ASSUME NEW p, NEW t, NEW q, NEW s, NEW state, NEW coins, Paired(p, t, q, s, state, coins),
           NEW k, FirstStop(p, coins, t, k), NEW l, FirstStop(q, coins, s, l), p[k] < q[l]
    PROVE  ~block[p[k]].returns /\ ~block[q[l]].returns
<1>1. /\ k \in 1..Len(p) /\ Stopped(Result(p, coins, t, k))
      /\ l \in 1..Len(q) /\ Stopped(Result(q, coins, s, l))
      /\ \A m \in 1..l - 1 : ~Stopped(Result(q, coins, s, m))
  BY DEF FirstStop
<1>2. /\ Len(q) \in Nat /\ p[k] \in Statements /\ block \in Blocks /\ Good(q)
      /\ Paired(q, s, p, t, state, coins)
  BY <1>1, InRange DEF Paired, Good
<1>3. Observable(block[p[k]]) /\ Observable(block[q[l]])
  BY <1>1, <1>2, StopsInBoth
<1>4. PICK m \in 1..Len(q) : q[m] = p[k] /\ Stopped(Result(q, coins, s, m))
  BY <1>1, StopsInBoth
<1>5. SUFFICES ASSUME block[p[k]].returns \/ block[q[l]].returns PROVE FALSE
  OBVIOUS
<1>6. MustFollow(p[k], q[l])
  BY <1>3, <1>5 DEF MustFollow
<1>7. PICK n \in 1..l - 1 : q[n] = p[k]
  BY <1>1, <1>2, <1>6, InOrder
<1>8. n \in 1..Len(q)
  BY <1>1, <1>2
<1>9. n = m
  BY <1>2, <1>4, <1>7, <1>8, Twice
<1>10. QED BY <1>1, <1>4, <1>7, <1>9

LEMMA SameRun ==
    ASSUME NEW p, NEW t, NEW q, NEW s, NEW state, NEW coins, Paired(p, t, q, s, state, coins)
    PROVE  Observed(Run(p, state, coins)) = Observed(Run(q, state, coins))
<1>1. /\ block \in Blocks /\ state \in States /\ coins \in DrawsOf
      /\ Good(p) /\ Traced(p, state, coins, t) /\ p \in Seq(Statements) /\ Len(p) \in Nat
      /\ Good(q) /\ Traced(q, state, coins, s) /\ q \in Seq(Statements) /\ Len(q) \in Nat
      /\ Paired(q, s, p, t, state, coins)
  <2>1. /\ block \in Blocks /\ state \in States /\ coins \in DrawsOf
        /\ Good(p) /\ Traced(p, state, coins, t) /\ Good(q) /\ Traced(q, state, coins, s)
    BY DEF Paired
  <2>2. Paired(q, s, p, t, state, coins)
    BY <2>1 DEF Paired
  <2>3. p \in Seq(Statements) /\ q \in Seq(Statements)
    BY <2>1 DEF Good
  <2>4. QED BY <2>1, <2>2, <2>3
<1>2. Fields \subseteq Names
  BY AccessAssumption
<1>3. \A i \in Statements : Alike(p, t, q, s, i)
  BY AllAlike
<1>4. CASE \A k \in 1..Len(p) : ~Stopped(Result(p, coins, t, k))
  <2>1. \A l \in 1..Len(q) : ~Stopped(Result(q, coins, s, l))
    BY <1>1, <1>4, StopsInBoth
  <2>2. Len(p) \in 0..Len(p) /\ Len(q) \in 0..Len(q)
    BY <1>1
  <2>3. Run(p, state, coins) = Going(t[Len(p)])
    <3>1. PICK u : Runs(u, p, state, coins) /\ Run(p, state, coins) = u[Len(p)]
      BY <1>1, RunTrace
    <3>2. QED BY <1>1, <1>4, <2>2, <3>1, RunFollows
  <2>4. Run(q, state, coins) = Going(s[Len(q)])
    <3>1. PICK u : Runs(u, q, state, coins) /\ Run(q, state, coins) = u[Len(q)]
      BY <1>1, RunTrace
    <3>2. QED BY <1>1, <2>1, <2>2, <3>1, RunFollows
  <2>5. ASSUME NEW x \in Fields PROVE t[Len(p)][x] = s[Len(q)][x]
    <3> DEFINE W == {i \in Statements : Writes(i, x)}
    <3>1. Writers(p, Len(p), x) = W /\ Writers(q, Len(q), x) = W
      BY <1>1, FieldWriters
    <3>2. x \in Names /\ \A i \in W : Alike(p, t, q, s, i)
      BY <1>2, <1>3
    <3> HIDE DEF W
    <3>3. QED BY <2>2, <3>1, <3>2, SameValue
  <2>6. [x \in Fields |-> t[Len(p)][x]] = [x \in Fields |-> s[Len(q)][x]]
    BY <2>5
  <2>7. QED BY <2>3, <2>4, <2>6 DEF Observed, Going
<1>5. CASE \E m \in 1..Len(p) : Stopped(Result(p, coins, t, m))
  <2>1. PICK k : FirstStop(p, coins, t, k)
    BY <1>1, <1>5, FirstStopExists
  <2>2. k \in 1..Len(p) /\ Stopped(Result(p, coins, t, k))
    BY <2>1 DEF FirstStop
  <2>3. PICK n \in 1..Len(q) : Stopped(Result(q, coins, s, n))
    BY <2>2, StopsInBoth
  <2>4. PICK l : FirstStop(q, coins, s, l)
    BY <1>1, <2>3, FirstStopExists
  <2>5. l \in 1..Len(q) /\ Stopped(Result(q, coins, s, l))
    BY <2>4 DEF FirstStop
  <2> DEFINE a == Result(p, coins, t, k)
             b == Result(q, coins, s, l)
  <2>6. Run(p, state, coins) = a /\ Run(q, state, coins) = b
    BY <1>1, <2>1, <2>4, RunStops DEF FirstStop
  <2>7. /\ p[k] \in Statements /\ p[k] \in Nat /\ coins[p[k]] \in Coins
        /\ q[l] \in Statements /\ q[l] \in Nat /\ coins[q[l]] \in Coins
    BY <1>1, <2>2, <2>5, InRange, BlockFacts DEF DrawsOf
  <2>8. t[k - 1] \in States /\ s[l - 1] \in States
    <3>1. k - 1 \in 0..Len(p) /\ l - 1 \in 0..Len(q)
      BY <1>1, <2>2, <2>5
    <3>2. t \in [0..Len(p) -> States] /\ s \in [0..Len(q) -> States]
      BY <1>1 DEF Traced
    <3>3. QED BY <3>1, <3>2
  <2>9. /\ a.end # "stuck" => block[p[k]].returns /\ a.end = "return"
        /\ b.end # "stuck" => block[q[l]].returns /\ b.end = "return"
    BY <1>1, <2>2, <2>5, <2>7, <2>8, DoesFacts DEF Result
  <2>10. CASE p[k] # q[l]
    <3>1. p[k] < q[l] \/ q[l] < p[k]
      BY <2>7, <2>10
    <3>2. ~block[p[k]].returns /\ ~block[q[l]].returns
      BY <1>1, <2>1, <2>4, <3>1, NoRace
    <3>3. a.end = "stuck" /\ b.end = "stuck"
      BY <2>9, <3>2
    <3> HIDE DEF a, b
    <3>4. QED BY <2>6, <3>3 DEF Observed
  <2>11. CASE p[k] = q[l]
    <3>1. a.end = b.end /\ a.value = b.value
      BY <1>3, <2>2, <2>5, <2>7, <2>11, SameResult
    <3>2. CASE a.end = "stuck"
      <4> HIDE DEF a, b
      <4>1. QED BY <2>6, <3>1, <3>2 DEF Observed
    <3>3. CASE a.end # "stuck"
      <4>1. block[p[k]].returns /\ block[q[l]].returns
        BY <2>9, <2>11, <3>3
      <4>2. a.state = t[k] /\ b.state = s[l]
        BY <1>1, <2>2, <2>5 DEF Traced
      <4>3. ASSUME NEW x \in Fields PROVE t[k][x] = s[l][x]
        <5> DEFINE W == {i \in Statements : i <= p[k] /\ Writes(i, x)}
        <5>1. Writers(p, k, x) = W /\ Writers(q, l, x) = W
          BY <1>1, <2>2, <2>5, <2>11, <4>1, FieldWriters
        <5>2. x \in Names /\ \A i \in W : Alike(p, t, q, s, i)
          BY <1>2, <1>3
        <5>3. k \in 0..Len(p) /\ l \in 0..Len(q)
          BY <1>1, <2>2, <2>5
        <5> HIDE DEF W
        <5>4. QED BY <5>1, <5>2, <5>3, SameValue
      <4>4. [x \in Fields |-> t[k][x]] = [x \in Fields |-> s[l][x]]
        BY <4>3
      <4> HIDE DEF a, b
      <4>5. QED BY <2>6, <3>1, <3>3, <4>2, <4>4 DEF Observed
    <3>4. QED BY <3>2, <3>3
  <2>12. QED BY <2>10, <2>11
<1>6. QED BY <1>4, <1>5

-------------------------------------------------------------------------------
(* The sorted block.                                                       *)

(* Once it was sought, what contains a return is found, and so is what may *)
(* not complete.                                                           *)
ObservedFound ==
    /\ phase \in {"draws", "sources", "sort", "done"} =>
          \A i \in Statements : block[i].returns => i \in visited
    /\ phase \in {"sources", "sort", "done"} =>
          \A i \in Statements : block[i].may_not_complete => i \in visited

LEMMA LastSeeks ==
    ASSUME NextSeek
    PROVE  /\ phase' = "draws" => phase = "rescue"
           /\ phase' = "sources" => phase = "draws"
           /\ phase' \notin {"sort", "done"}
<1>1. DOMAIN Seeks = 1..4 /\ Seeks[1] = "return" /\ Seeks[2] = "fields"
      /\ Seeks[3] = "rescue" /\ Seeks[4] = "draws"
  BY DEF Seeks
<1>2. CASE phase = "draws"
  BY <1>2 DEF NextSeek
<1>3. CASE phase # "draws"
  <2> DEFINE c == CHOOSE l \in DOMAIN Seeks : Seeks[l] = phase
  <2>1. PICK l \in 1..4 : Seeks[l] = phase
    BY <1>1 DEF NextSeek, Range
  <2>2. c \in 1..4 /\ Seeks[c] = phase
    BY <1>1, <2>1
  <2>3. phase' = Seeks[c + 1]
    BY <1>3 DEF NextSeek
  <2> HIDE DEF c
  <2>4. c \in {1, 2, 3}
    BY <1>1, <1>3, <2>2
  <2>5. CASE c = 1
    BY <1>1, <2>3, <2>5
  <2>6. CASE c = 2
    BY <1>1, <2>3, <2>6
  <2>7. CASE c = 3
    BY <1>1, <2>2, <2>3, <2>7
  <2>8. QED BY <2>4, <2>5, <2>6, <2>7
<1>4. QED BY <1>2, <1>3

LEMMA ObservedStep ==
    ASSUME IInv, ObservedFound, [Next]_vars
    PROVE  ObservedFound'
<1>1. CASE NextSeek
  <2>1. UNCHANGED <<block, visited>> /\ Statements' = Statements
    BY <1>1 DEF NextSeek, Statements
  <2>2. \A i \in Statements : Wanted(i) => i \in visited
    BY <1>1 DEF NextSeek, Seeds
  <2>3. phase = "rescue" => \A i \in Statements : block[i].returns => i \in visited
    BY <2>2 DEF Wanted
  <2>4. phase = "draws" => \A i \in Statements : block[i].may_not_complete => i \in visited
    BY <2>2 DEF Wanted
  <2>5. /\ phase' = "draws" => phase = "rescue"
        /\ phase' = "sources" => phase = "draws"
        /\ phase' \notin {"sort", "done"}
    BY <1>1, LastSeeks
  <2>6. QED BY <2>1, <2>3, <2>4, <2>5 DEF ObservedFound
<1>2. CASE Seed \/ PopVisited \/ Visit \/ Source \/ Place \/ TakeOut \/ LeaveNode \/ UNCHANGED vars
  <2>1. UNCHANGED <<block, phase>> /\ visited \subseteq visited' /\ Statements' = Statements
    BY <1>2 DEF Seed, PopVisited, Visit, Source, Place, TakeOut, LeaveNode, vars, Statements
  <2>2. QED BY <2>1 DEF ObservedFound
<1>3. CASE SourcesDone \/ Done
  <2>1. UNCHANGED <<block, visited>> /\ phase \in {"sources", "sort"} /\ Statements' = Statements
    BY <1>3 DEF SourcesDone, Done, Statements
  <2>2. QED BY <2>1 DEF ObservedFound
<1>4. QED BY <1>1, <1>2, <1>3 DEF Next

LEMMA OriginalGood ==
    ASSUME block \in Blocks PROVE Good(Original)
<1>1. Len(block) \in Nat /\ Statements = 1..Len(block)
  BY GraphFacts DEF Statements
<1>2. Original \in Seq(Statements) /\ Len(Original) = Len(block) /\ DOMAIN Original = Statements
  BY <1>1 DEF Original
<1>3. \A i \in Statements : Original[i] = i
  BY DEF Original
<1>4. IsInjective(Original)
  BY <1>2, <1>3 DEF IsInjective
<1>5. ASSUME NEW k \in 1..Len(Original)
      PROVE  Range(Graph(block)[Original[k]]) \subseteq {Original[l] : l \in 1..k - 1}
  <2>1. k \in Statements /\ Original[k] = k
    BY <1>1, <1>2, <1>3
  <2>2. Range(Graph(block)[k]) \subseteq 1..k - 1 /\ Range(Graph(block)[k]) \subseteq Statements
    BY <2>1, GraphFacts
  <2>3. QED BY <1>3, <2>1, <2>2
<1>6. \A i \in Statements : i \in Range(Original)
  BY <1>2, <1>3 DEF Range
<1>7. QED BY <1>2, <1>4, <1>5, <1>6 DEF Good

LEMMA SortedGood ==
    ASSUME PlacedInv, ObservedFound, phase = "done" PROVE Good(sorted)
<1>1. IInv /\ Finished /\ PlacesFound /\ KeepsOrder
  BY PlacedInvPlacesFound, IInvKeepsOrder DEF PlacedInv
<1>2. sorted \in Seq(Statements) /\ block \in Blocks /\ queue = <<>>
  BY <1>1 DEF IInv, Typed, Finished
<1>3. IsInjective(sorted)
  <2>1. Order = sorted
    BY <1>2 DEF Order
  <2>2. QED BY <1>1, <2>1 DEF IInv, Counted
<1>4. \A k \in 1..Len(sorted) :
          Range(Graph(block)[sorted[k]]) \subseteq {sorted[l] : l \in 1..k - 1}
  <2>1. DOMAIN sorted = 1..Len(sorted)
    BY <1>2
  <2>2. QED BY <1>1, <2>1 DEF KeepsOrder
<1>5. ASSUME NEW i \in Statements, Observable(block[i]) PROVE i \in Range(sorted)
  <2>1. visited \subseteq Range(sorted)
    BY <1>1 DEF PlacesFound, IInv, Counted
  <2>2. CASE block[i].returns \/ block[i].may_not_complete
    BY <2>1, <2>2 DEF ObservedFound
  <2>3. CASE block[i].writes \cap Fields # {}
    <3>1. PICK x \in Fields : x \in block[i].writes
      BY <2>3
    <3>2. x \in Range(block[i].mentions)
      BY <1>2, <3>1, BlockFacts DEF Writes, Mentions
    <3>3. QED BY <1>1, <2>1, <3>1, <3>2 DEF IInv, Sought
  <2>4. QED BY <1>5, <2>2, <2>3 DEF Observable
<1>6. QED BY <1>2, <1>3, <1>4, <1>5 DEF Good

LEMMA DoneSameBehaviour == PlacedInv /\ ObservedFound => SameBehaviour
<1> SUFFICES ASSUME PlacedInv, ObservedFound, phase = "done",
                    NEW state \in Entries, NEW coins \in DrawsOf
             PROVE  Observed(Run(sorted, state, coins)) = Observed(Run(Original, state, coins))
  BY DEF SameBehaviour
<1>1. block \in Blocks
  BY DEF PlacedInv, IInv, Typed
<1>2. Good(sorted) /\ Good(Original) /\ state \in States
  BY <1>1, SortedGood, OriginalGood, AccessAssumption
<1>3. sorted \in Seq(Statements) /\ Original \in Seq(Statements)
  BY <1>2 DEF Good
<1>4. PICK t : Traced(sorted, state, coins, t)
  BY <1>1, <1>2, <1>3, TraceExists
<1>5. PICK s : Traced(Original, state, coins, s)
  BY <1>1, <1>2, <1>3, TraceExists
<1>6. Paired(sorted, t, Original, s, state, coins)
  BY <1>1, <1>2, <1>4, <1>5 DEF Paired
<1>7. QED BY <1>6, SameRun

(* Sorting a block does not change what it does: run from any state, with  *)
(* any outcomes of its draws, the sorted block completes if the block does,*)
(* returns the same value and leaves the same fields, for every block      *)
(* whose graph connects what conflicts (dependencies.py).                  *)
THEOREM BehaviourKept == Spec => []SameBehaviour
<1>1. Init => PlacedInv /\ ObservedFound
  BY PlacedInit DEF Init, ObservedFound
<1>2. PlacedInv /\ ObservedFound /\ [Next]_vars => PlacedInv' /\ ObservedFound'
  BY PlacedStep, ObservedStep DEF PlacedInv
<1>3. PlacedInv /\ ObservedFound => SameBehaviour
  BY DoneSameBehaviour
<1>4. QED BY <1>1, <1>2, <1>3, PTL DEF Spec

-------------------------------------------------------------------------------
(* The dependency graph.                                                   *)

Deps == INSTANCE Dependencies

(* What add_neighbour makes of the neighbours seen so far.                 *)
Added(seen, j, S) == IF j \in S \ ToSet(seen) THEN Append(seen, j) ELSE seen

Adds(u, list, S) ==
    /\ u \in [0..Len(list) -> Seq(Nat)]
    /\ u[0] = <<>>
    /\ \A k \in 1..Len(list) : u[k] = Added(u[k - 1], list[k], S)

LEMMA AmongTrace ==
    ASSUME NEW list \in Seq(Nat), NEW C
    PROVE  \E u : Adds(u, list, C) /\ Deps!Among(list, C) = u[Len(list)]
<1> DEFINE n == Len(list)
           S == SUBSET (1..n)
           V == Seq(Nat)
           base == <<>>
           step == [k \in 1..n |-> [o \in V |-> Added(o, list[k], C)]]
           E(f, s) == IF s = {} THEN base ELSE Added(f[s \ {Max(s)}], list[Max(s)], C)
           iter == CHOOSE f : f = [s \in S |-> E(f, s)]
<1>1. n \in Nat /\ DOMAIN list = 1..n /\ \A k \in 1..n : list[k] \in Nat
  BY InRange
<1>2. \A k \in 1..n, o \in V : Added(o, list[k], C) \in V
  BY <1>1 DEF Added
<1>3. FoldSteps(n, V, base, step)
  <2>1. base \in V
    OBVIOUS
  <2> HIDE DEF n, V
  <2>2. QED BY <1>1, <1>2, <2>1 DEF FoldSteps
<1>4. \A s \in S : s # {} => Max(s) \in 1..n
  <2> TAKE s \in S
  <2>1. s # {} => Max(s) \in s
    <3> HIDE DEF n
    <3>1. QED BY <1>1, GreatestOf
  <2>2. QED BY <2>1
<1>5. PICK f : f \in [S -> V] /\ FoldsBy(f, n, V, base, step)
  <2> HIDE DEF n, V, base, step
  <2>1. QED BY <1>3, FoldSolution
<1>6. ASSUME NEW g, NEW s \in S, s # {}, g[s \ {Max(s)}] \in V
      PROVE  step[Max(s)][g[s \ {Max(s)}]] = E(g, s)
  <2>1. PICK k \in 1..n : k = Max(s)
    BY <1>4, <1>6
  <2> HIDE DEF V, n, S
  <2>2. PICK o \in V : o = g[s \ {Max(s)}]
    BY <1>6
  <2>3. step[k][o] = Added(o, list[k], C)
    OBVIOUS
  <2>4. E(g, s) = Added(o, list[k], C)
    <3>1. E(g, s) = Added(g[s \ {Max(s)}], list[Max(s)], C)
      BY <1>6
    <3> HIDE DEF E
    <3>2. QED BY <2>1, <2>2, <3>1
  <2> HIDE DEF E, step
  <2>5. QED BY <2>1, <2>2, <2>3, <2>4
<1>7. \A s \in S : f[s] = E(f, s)
  <2> TAKE s \in S
  <2>1. CASE s = {}
    BY <1>5, <2>1 DEF FoldsBy
  <2>2. CASE s # {}
    <3>1. f[s \ {Max(s)}] \in V
      <4> HIDE DEF V
      <4>1. QED BY <1>5
    <3>2. f[s] = step[Max(s)][f[s \ {Max(s)}]]
      <4> HIDE DEF V, step, base
      <4>1. QED BY <1>5, <2>2, <3>1 DEF FoldsBy
    <3> HIDE DEF E, step, V, S
    <3>3. QED BY <1>6, <2>2, <3>1, <3>2
  <2>3. QED BY <2>1, <2>2
<1>8. iter = [s \in S |-> E(iter, s)]
  <2>1. f = [s \in S |-> E(f, s)]
    <3> HIDE DEF E, S, V
    <3>1. QED BY <1>5, <1>7
  <2> HIDE DEF E, S
  <2>2. QED BY <2>1
<1>9. Deps!Among(list, C) = iter[1..n]
  <2>1. Deps!Among(list, C) =
          (CHOOSE g : g = [s \in SUBSET DOMAIN list |-> E(g, s)])[DOMAIN list]
    BY DEF Deps!Among, Deps!FoldLeft, Deps!MapThenFoldSet, Deps!ToSet, Deps!Max,
          Added, ToSet, Max
  <2> HIDE DEF E
  <2>2. QED BY <1>1, <2>1, Zenon
<1>10. \A s \in S : iter[s] = E(iter, s)
  <2> HIDE DEF E, S, iter
  <2>1. QED BY <1>8
<1> HIDE DEF iter
<1>11. FoldsBy(iter, n, V, base, step)
  <2>1. iter[{}] = base
    BY <1>10
  <2>2. ASSUME NEW s \in S, s # {}, iter[s \ {Max(s)}] \in V
        PROVE  iter[s] = step[Max(s)][iter[s \ {Max(s)}]]
    <3> HIDE DEF E, step, V, S
    <3>1. QED BY <1>6, <1>10, <2>2
  <2> HIDE DEF E, step, V, base
  <2>3. QED BY <2>1, <2>2 DEF FoldsBy
<1>12. PICK u : FoldTraces(u, n, V, base, step) /\ u[n] = iter[1..n]
  <2> HIDE DEF n, V, base, step
  <2>1. QED BY <1>3, <1>11, FoldTrace
<1>13. \A k \in 1..n : u[k] = Added(u[k - 1], list[k], C)
  <2> TAKE k \in 1..n
  <2>1. k - 1 \in 0..n
    BY <1>1
  <2>2. u[k - 1] \in V /\ u[k] = step[k][u[k - 1]]
    <3> HIDE DEF V, step
    <3>1. QED BY <1>12, <2>1 DEF FoldTraces
  <2> HIDE DEF V, n
  <2>3. QED BY <2>2
<1>14. Adds(u, list, C)
  BY <1>12, <1>13 DEF Adds, FoldTraces
<1>15. QED BY <1>9, <1>12, <1>14

(* add_neighbour keeps the neighbours of the list, each one once.          *)
LEMMA AmongFacts ==
    ASSUME NEW list \in Seq(Nat), NEW S
    PROVE  /\ Deps!Among(list, S) \in Seq(Nat)
           /\ IsInjective(Deps!Among(list, S))
           /\ Range(Deps!Among(list, S)) = Range(list) \cap S
<1> DEFINE n == Len(list)
<1>1. PICK u : Adds(u, list, S) /\ Deps!Among(list, S) = u[n]
  BY AmongTrace
<1>2. n \in Nat /\ \A k \in 1..n : list[k] \in Nat
  BY InRange
<1> DEFINE Q(k) == /\ IsInjective(u[k])
                   /\ Range(u[k]) = {list[l] : l \in 1..k} \cap S
           P == {k \in 0..n : Q(k)}
<1>3. 0 \in P
  <2>1. u[0] = <<>> /\ 1..0 = {}
    BY <1>1 DEF Adds
  <2>2. IsInjective(u[0]) /\ Range(u[0]) = {}
    BY <2>1, EmptyRange DEF IsInjective
  <2>3. {list[l] : l \in 1..0} = {}
    BY <2>1
  <2>4. QED BY <1>2, <2>2, <2>3
<1>4. ASSUME NEW k \in 0..n, k < n, k \in P PROVE k + 1 \in P
  <2> DEFINE m == k + 1
  <2>1. m \in 1..n /\ m \in 0..n /\ m - 1 = k /\ 1..m = 1..k \cup {m}
    BY <1>2, <1>4
  <2>2. u[k] \in Seq(Nat) /\ u[m] = Added(u[k], list[m], S) /\ list[m] \in Nat
    <3> HIDE DEF m
    <3>1. QED BY <1>1, <1>2, <2>1 DEF Adds
  <2>3. {list[l] : l \in 1..m} = {list[l] : l \in 1..k} \cup {list[m]}
    <3> HIDE DEF m
    <3>1. QED BY <2>1
  <2>4. ToSet(u[k]) = Range(u[k])
    BY DEF ToSet, Range
  <2> HIDE DEF m
  <2>5. CASE list[m] \in S \ Range(u[k])
    <3>1. u[m] = Append(u[k], list[m])
      BY <2>2, <2>4, <2>5 DEF Added
    <3>2. Range(u[m]) = Range(u[k]) \cup {list[m]} /\ IsInjective(u[m])
      BY <1>4, <2>2, <2>5, <3>1, AppendFacts, StaysInjective
    <3>3. QED BY <1>4, <2>1, <2>3, <2>5, <3>2 DEF m
  <2>6. CASE list[m] \notin S \ Range(u[k])
    <3>1. u[m] = u[k]
      BY <2>2, <2>4, <2>6 DEF Added
    <3>2. QED BY <1>4, <2>1, <2>3, <2>6, <3>1 DEF m
  <2>7. QED BY <2>5, <2>6
<1>5. n \in P
  <2>1. n \in Nat /\ n \in 0..n
    BY <1>2
  <2> HIDE DEF P, n
  <2>2. \A k \in 0..n : k \in P
    BY <1>3, <1>4, <2>1, RangeInduction
  <2>3. QED BY <2>1, <2>2
<1>6. Range(list) = {list[l] : l \in 1..n}
  BY <1>2 DEF Range
<1>7. u[n] \in Seq(Nat)
  BY <1>1, <1>2 DEF Adds
<1>8. QED BY <1>1, <1>5, <1>6, <1>7

LEMMA EarlierFacts ==
    ASSUME NEW i \in Nat \ {0}, NEW S
    PROVE  /\ Deps!Earlier(i, S) \in Seq(Nat)
           /\ Range(Deps!Earlier(i, S)) = (1..i - 1) \cap S
<1> DEFINE list == [j \in 1..i - 1 |-> j]
<1>1. list \in Seq(Nat) /\ Range(list) = 1..i - 1
  <2>1. i - 1 \in Nat
    OBVIOUS
  <2>2. list \in [1..i - 1 -> Nat] /\ DOMAIN list = 1..i - 1
    OBVIOUS
  <2>3. list \in Seq(Nat)
    BY <2>1, <2>2
  <2>4. Range(list) = 1..i - 1
    BY <2>2 DEF Range
  <2>5. QED BY <2>3, <2>4
<1>2. Deps!Earlier(i, S) = Deps!Among(list, S)
  BY DEF Deps!Earlier
<1> HIDE DEF list
<1>3. QED BY <1>1, <1>2, AmongFacts

(* For a name it writes, a statement is below all who mentioned it; for    *)
(* one it only reads, below the last who wrote it.                         *)
LEMMA NameNeighboursFacts ==
    ASSUME NEW b, Len(b) \in Nat, DOMAIN b = 1..Len(b), NEW i \in 1..Len(b), NEW x
    PROVE  LET near == Deps!NameNeighbours(b, i, x) IN
           /\ near \in Seq(Nat) /\ Range(near) \subseteq 1..i - 1
           /\ x \in b[i].writes =>
                  \A j \in 1..i - 1 : x \in Range(b[j].mentions) => j \in Range(near)
           /\ x \notin b[i].writes =>
                  \A j \in 1..i - 1 : x \in b[j].writes =>
                      \E w \in Range(near) : j <= w /\ x \in b[w].writes
<1> DEFINE near == Deps!NameNeighbours(b, i, x)
<1>1. i \in Nat \ {0} /\ i - 1 \in Nat /\ \A j \in 1..i - 1 : j \in DOMAIN b
  OBVIOUS
<1>2. CASE x \in b[i].writes
  <2> DEFINE S == {j \in DOMAIN b : x \in Deps!ToSet(b[j].mentions)}
             list == Deps!Earlier(i, S)
  <2>1. near = Deps!Reverse(list)
    BY <1>2 DEF Deps!NameNeighbours, Deps!Mentioning
  <2>2. list \in Seq(Nat) /\ Range(list) = (1..i - 1) \cap S
    BY <1>1, EarlierFacts
  <2>3. near = Reverse(list)
    BY <2>1 DEF Deps!Reverse, Reverse
  <2> HIDE DEF list
  <2>4. near \in Seq(Nat) /\ Range(near) = (1..i - 1) \cap S
    BY <2>2, <2>3, ReverseFacts
  <2>5. \A j \in DOMAIN b : Range(b[j].mentions) = Deps!ToSet(b[j].mentions)
    BY DEF Range, Deps!ToSet
  <2>6. QED BY <1>1, <1>2, <2>4, <2>5
<1>3. CASE x \notin b[i].writes
  <2> DEFINE W == {j \in 1..i - 1 : x \in b[j].writes}
  <2>1. near = IF W = {} THEN <<>> ELSE <<Max(W)>>
    BY <1>3 DEF Deps!NameNeighbours, Deps!NearestWriter, Deps!Max, Max
  <2>2. CASE W = {}
    BY <1>3, <2>1, <2>2, EmptyRange
  <2>3. CASE W # {}
    <3>1. W \in SUBSET (1..i - 1)
      OBVIOUS
    <3> HIDE DEF W
    <3>2. Max(W) \in W /\ \A k \in W : k <= Max(W)
      BY <1>1, <2>3, <3>1, GreatestOf
    <3>3. near = <<Max(W)>> /\ Max(W) \in Nat
      <4>1. Max(W) \in 1..i - 1
        BY <3>1, <3>2
      <4> HIDE DEF near
      <4>2. QED BY <1>1, <2>1, <2>3, <4>1
    <3>4. near \in Seq(Nat) /\ Range(near) = {Max(W)}
      <4> HIDE DEF near
      <4>1. QED BY <3>3 DEF Range
    <3> HIDE DEF near
    <3>5. Range(near) \subseteq 1..i - 1
      BY <3>1, <3>2, <3>4
    <3>6. \A j \in 1..i - 1 : x \in b[j].writes => j \in W
      BY DEF W
    <3>7. x \in b[Max(W)].writes
      BY <3>2 DEF W
    <3>8. QED BY <1>3, <3>2, <3>4, <3>5, <3>6, <3>7 DEF near
  <2>4. QED BY <2>2, <2>3
<1>4. QED BY <1>2, <1>3

(* The neighbours of a statement.                                          *)
LEMMA InNeighboursFacts ==
    ASSUME NEW b, Len(b) \in Nat, DOMAIN b = 1..Len(b), NEW i \in 1..Len(b),
           b[i].mentions \in Seq(Names)
    PROVE  LET in == Deps!InNeighbours(b, i) IN
           /\ in \in Seq(Nat) /\ Range(in) \subseteq 1..i - 1 /\ IsInjective(in)
           /\ \A x \in Range(b[i].mentions) :
                  Range(Deps!NameNeighbours(b, i, x)) \subseteq Range(in)
           /\ \A j \in 1..i - 1 :
                  Observable(b[i]) /\ Observable(b[j]) /\ (b[i].returns \/ b[j].returns) =>
                      j \in Range(in)
<1> DEFINE s == b[i]
           returning == {j \in DOMAIN b : b[j].returns}
           observable == {j \in DOMAIN b : Deps!Effect(b[j])}
           returns == IF s.returns THEN Deps!Earlier(i, observable \cup returning) ELSE <<>>
           effects == IF Deps!Effect(s) THEN Deps!Earlier(i, returning) ELSE <<>>
           n == Len(s.mentions)
           each == [k \in 1..n |-> Deps!NameNeighbours(b, i, s.mentions[k])]
           names == FlattenSeq(each)
           list == returns \o effects \o names
           in == Deps!InNeighbours(b, i)
<1>1. /\ i \in Nat \ {0} /\ i - 1 \in Nat /\ \A j \in 1..i - 1 : j \in DOMAIN b
      /\ n \in Nat /\ DOMAIN s.mentions = 1..n
  OBVIOUS
<1>2. in = Deps!Among(list, DOMAIN b)
  BY <1>1 DEF Deps!InNeighbours, Deps!FlattenSeq, FlattenSeq
<1>3. returns \in Seq(Nat)
      /\ Range(returns) = IF s.returns THEN (1..i - 1) \cap (observable \cup returning) ELSE {}
  <2> DEFINE S == observable \cup returning
  <2> HIDE DEF S
  <2>1. Deps!Earlier(i, S) \in Seq(Nat) /\ Range(Deps!Earlier(i, S)) = (1..i - 1) \cap S
    BY <1>1, EarlierFacts
  <2>2. <<>> \in Seq(Nat) /\ Range(<<>>) = {}
    BY EmptyRange
  <2>3. /\ (IF s.returns THEN Deps!Earlier(i, S) ELSE <<>>) \in Seq(Nat)
        /\ Range(IF s.returns THEN Deps!Earlier(i, S) ELSE <<>>) =
              IF s.returns THEN (1..i - 1) \cap S ELSE {}
    <3>1. CASE s.returns
      BY <2>1, <3>1
    <3>2. CASE ~s.returns
      BY <2>2, <3>2
    <3>3. QED BY <3>1, <3>2
  <2>4. QED BY <2>3 DEF S
<1>4. effects \in Seq(Nat)
      /\ Range(effects) = IF Deps!Effect(s) THEN (1..i - 1) \cap returning ELSE {}
  <2> HIDE DEF returning
  <2>1. /\ Deps!Earlier(i, returning) \in Seq(Nat)
        /\ Range(Deps!Earlier(i, returning)) = (1..i - 1) \cap returning
    BY <1>1, EarlierFacts
  <2>2. <<>> \in Seq(Nat) /\ Range(<<>>) = {}
    BY EmptyRange
  <2>3. CASE Deps!Effect(s)
    BY <2>1, <2>3
  <2>4. CASE ~Deps!Effect(s)
    BY <2>2, <2>4
  <2>5. QED BY <2>3, <2>4
<1>5. \A k \in 1..n : /\ each[k] = Deps!NameNeighbours(b, i, s.mentions[k])
                      /\ each[k] \in Seq(Nat) /\ Range(each[k]) \subseteq 1..i - 1
  BY NameNeighboursFacts
<1>6. each \in [1..n -> Seq(Nat)]
  BY <1>5
<1> HIDE DEF each
<1>7. /\ names \in Seq(Nat)
      /\ \A k \in 1..n : Range(each[k]) \subseteq Range(names)
      /\ \A y \in Range(names) : \E k \in 1..n : y \in Range(each[k])
  <2>1. PICK u : Concatenates(u, Nat, n, each) /\ names = u[n]
    BY <1>1, <1>6, Flattened
  <2> HIDE DEF n, names
  <2> DEFINE P == {m \in 0..n : /\ \A k \in 1..m : Range(each[k]) \subseteq Range(u[m])
                               /\ \A y \in Range(u[m]) : \E k \in 1..m : y \in Range(each[k])}
  <2>2. 0 \in P
    <3>1. Range(u[0]) = {} /\ 1..0 = {}
      BY <2>1, EmptyRange DEF Concatenates
    <3>2. QED BY <1>1, <3>1
  <2>3. ASSUME NEW m \in 0..n, m < n, m \in P PROVE m + 1 \in P
    <3> DEFINE l == m + 1
    <3>1. l \in 1..n /\ l \in 0..n /\ l - 1 = m /\ 1..l = 1..m \cup {l}
      BY <1>1, <2>3
    <3> HIDE DEF l
    <3>2. u[m] \in Seq(Nat) /\ each[l] \in Seq(Nat) /\ u[l] = u[m] \o each[l]
      BY <1>6, <2>1, <3>1 DEF Concatenates
    <3>3. Range(u[l]) = Range(u[m]) \cup Range(each[l])
      BY <3>2, JoinFacts
    <3>4. l \in P
      BY <2>3, <3>1, <3>3
    <3>5. QED BY <3>4 DEF l
  <2>4. n \in Nat /\ n \in 0..n
    BY <1>1
  <2>5. \A m \in 0..n : m \in P
    <3> HIDE DEF P
    <3>1. QED BY <2>2, <2>3, <2>4, RangeInduction
  <2>6. names \in Seq(Nat)
    BY <2>1, <2>4 DEF Concatenates
  <2>7. QED BY <2>1, <2>4, <2>5, <2>6
<1> HIDE DEF names, returns, effects
<1>8. list \in Seq(Nat) /\ Range(list) = Range(returns) \cup Range(effects) \cup Range(names)
  <2> DEFINE both == returns \o effects
  <2>1. returns \in Seq(Nat) /\ effects \in Seq(Nat) /\ names \in Seq(Nat)
    BY <1>3, <1>4, <1>7
  <2>2. both \in Seq(Nat) /\ Range(both) = Range(returns) \cup Range(effects)
    BY <2>1, JoinFacts
  <2>3. list = both \o names
    OBVIOUS
  <2> HIDE DEF both, list
  <2>4. list \in Seq(Nat) /\ Range(list) = Range(both) \cup Range(names)
    BY <2>1, <2>2, <2>3, JoinFacts
  <2>5. QED BY <2>2, <2>4
<1>9. Range(list) \subseteq 1..i - 1
  <2>1. \A y \in Range(names) : y \in 1..i - 1
    <3> TAKE y \in Range(names)
    <3>1. PICK k \in 1..n : y \in Range(each[k])
      <4> HIDE DEF n
      <4>1. QED BY <1>7
    <3>2. Range(each[k]) \subseteq 1..i - 1
      BY <1>5
    <3>3. QED BY <3>1, <3>2
  <2>2. QED BY <1>3, <1>4, <1>8, <2>1
<1> HIDE DEF list, in
<1>10. in \in Seq(Nat) /\ IsInjective(in) /\ Range(in) = Range(list)
  BY <1>1, <1>2, <1>8, <1>9, AmongFacts
<1>11. ASSUME NEW x \in Range(s.mentions)
       PROVE  Range(Deps!NameNeighbours(b, i, x)) \subseteq Range(in)
  <2>1. PICK k \in 1..n : s.mentions[k] = x
    BY <1>1 DEF Range
  <2>2. QED BY <1>5, <1>7, <1>8, <1>10, <2>1
<1>12. ASSUME NEW j \in 1..i - 1, Observable(b[i]), Observable(b[j]),
              b[i].returns \/ b[j].returns
       PROVE  j \in Range(in)
  <2>1. \A k \in DOMAIN b : Observable(b[k]) <=> b[k].returns \/ Deps!Effect(b[k])
    BY DEF Observable, Deps!Effect, Deps!MutatesField
  <2>2. j \in DOMAIN b /\ i \in DOMAIN b
    BY <1>1
  <2>3. CASE b[i].returns
    BY <1>3, <1>8, <1>10, <1>12, <2>1, <2>2, <2>3
  <2>4. CASE ~b[i].returns
    BY <1>4, <1>8, <1>10, <1>12, <2>1, <2>2, <2>4
  <2>5. QED BY <2>3, <2>4
<1>13. QED BY <1>9, <1>10, <1>11, <1>12 DEF in

(* What is collected of a statement.                                       *)
Collected(s) == s.mentions \in Seq(Names) /\ s.writes \subseteq Range(s.mentions)

(* What is assumed of the graph is true of the one that                    *)
(* generate_dependency_graph builds: every edge goes up the block, none is *)
(* doubled, and every conflicting pair and every return with anything      *)
(* observable are connected, although a reader is put below the nearest    *)
(* writer only.                                                            *)
THEOREM DependencyGraphConnects ==
    ASSUME NEW b, b \in Seq(Range(b)), \A i \in 1..Len(b) : Collected(b[i])
    PROVE  LET graph == Deps!DependencyGraph(b) IN
           /\ graph \in [1..Len(b) -> Seq(Nat)]
           /\ \A i \in 1..Len(b) : Range(graph[i]) \subseteq 1..i - 1
           /\ \A i \in 1..Len(b) : IsInjective(graph[i])
           /\ Connects(graph, b)
<1> DEFINE graph == Deps!DependencyGraph(b)
<1>1. Len(b) \in Nat /\ DOMAIN b = 1..Len(b)
  OBVIOUS
<1>2. DOMAIN graph = 1..Len(b) /\ \A i \in 1..Len(b) : graph[i] = Deps!InNeighbours(b, i)
  BY <1>1 DEF Deps!DependencyGraph
<1>3. graph = [i \in 1..Len(b) |-> Deps!InNeighbours(b, i)]
  BY <1>1 DEF Deps!DependencyGraph
<1> HIDE DEF graph
<1>4. ASSUME NEW i \in 1..Len(b)
      PROVE  /\ graph[i] \in Seq(Nat) /\ Range(graph[i]) \subseteq 1..i - 1
             /\ IsInjective(graph[i])
             /\ \A x \in Range(b[i].mentions) :
                    Range(Deps!NameNeighbours(b, i, x)) \subseteq Range(graph[i])
             /\ \A j \in 1..i - 1 :
                    Observable(b[i]) /\ Observable(b[j]) /\ (b[i].returns \/ b[j].returns) =>
                        j \in Range(graph[i])
  <2>1. b[i].mentions \in Seq(Names)
    BY DEF Collected
  <2>2. QED BY <1>1, <1>2, <2>1, InNeighboursFacts
<1>5. graph \in [1..Len(b) -> Seq(Nat)]
  BY <1>3, <1>4
<1>6. ASSUME NEW j \in 1..Len(b), NEW i \in 1..j - 1,
             \/ Conflict(b[i], b[j])
             \/ Observable(b[i]) /\ Observable(b[j]) /\ (b[i].returns \/ b[j].returns),
             NEW D \in SUBSET DOMAIN graph, j \in D,
             \A k \in D : Range(graph[k]) \subseteq D
      PROVE  i \in D
  <2>1. i \in 1..Len(b) /\ \A k \in D : k \in 1..Len(b)
    BY <1>1, <1>2
  <2>2. \A k \in 1..Len(b) : b[k].writes \subseteq Range(b[k].mentions)
    BY DEF Collected
  <2>3. ASSUME NEW k \in D, i \in 1..k - 1, NEW x \in b[k].writes, x \in Range(b[i].mentions)
        PROVE  i \in D
    <3>1. x \in Range(b[k].mentions)
      BY <2>1, <2>2
    <3>2. i \in Range(Deps!NameNeighbours(b, k, x))
      BY <1>1, <2>1, <2>3, NameNeighboursFacts
    <3>3. QED BY <1>4, <1>6, <2>1, <3>1, <3>2
  <2>4. CASE Observable(b[i]) /\ Observable(b[j]) /\ (b[i].returns \/ b[j].returns)
    BY <1>4, <1>6, <2>4
  <2>5. CASE Range(b[i].mentions) \cap b[j].writes # {}
    BY <1>6, <2>3, <2>5
  <2>6. CASE b[i].writes \cap Range(b[j].mentions) # {}
    <3>1. PICK x : x \in b[i].writes /\ x \in Range(b[j].mentions)
      BY <2>6
    <3>2. x \in Range(b[i].mentions)
      BY <2>1, <2>2, <3>1
    <3>3. CASE x \in b[j].writes
      BY <1>6, <2>3, <3>2, <3>3
    <3>4. CASE x \notin b[j].writes
      <4>1. PICK w \in Range(Deps!NameNeighbours(b, j, x)) : i <= w /\ x \in b[w].writes
        BY <1>1, <3>1, <3>4, NameNeighboursFacts
      <4>2. w \in Range(graph[j]) /\ w \in D
        BY <1>4, <1>6, <3>1, <4>1
      <4>3. w = i \/ i \in 1..w - 1
        BY <2>1, <4>1, <4>2
      <4>4. QED BY <2>3, <3>2, <4>1, <4>2, <4>3
    <3>5. QED BY <3>3, <3>4
  <2>7. QED BY <1>6, <2>4, <2>5, <2>6 DEF Conflict
<1>7. Connects(graph, b)
  BY <1>6 DEF Connects, Requires
<1>8. QED BY <1>4, <1>5, <1>7 DEF graph

(* Equal trees are the same to the collection, and a statement that writes *)
(* nothing and does not return mentions a field.                           *)
Copies(b) ==
    /\ \A i, k \in 1..Len(b) :
          b[i].text = b[k].text =>
              /\ b[i].mentions = b[k].mentions /\ b[i].writes = b[k].writes
              /\ b[i].returns = b[k].returns
    /\ \A i \in 1..Len(b) :
          b[i].writes # {} \/ b[i].returns \/ Range(b[i].mentions) \cap Fields # {}

(* generate_dependency_graph puts the copies of a statement that waits for *)
(* nothing and mentions no field below it, as sort_block needs it when it  *)
(* takes a copy out for the node placed (Node.__eq__).                     *)
THEOREM DependencyGraphTellsCopies ==
    ASSUME NEW b, b \in Seq(Range(b)), \A i \in 1..Len(b) : Collected(b[i]), Copies(b)
    PROVE  LET graph == Deps!DependencyGraph(b) IN
           \A i \in 1..Len(b) : \A j \in Range(graph[i]) :
               graph[j] = <<>> /\ Range(b[j].mentions) \cap Fields = {} =>
                   \A k \in 1..Len(b) \ {j} :
                       b[k].text = b[j].text => j \in Range(graph[k])
<1> DEFINE graph == Deps!DependencyGraph(b)
<1>1. Len(b) \in Nat /\ DOMAIN b = 1..Len(b)
  OBVIOUS
<1>2. \A i \in 1..Len(b) : graph[i] = Deps!InNeighbours(b, i)
  BY <1>1 DEF Deps!DependencyGraph
<1>3. \A i \in 1..Len(b) : Range(graph[i]) \subseteq 1..i - 1
  BY DependencyGraphConnects
<1> HIDE DEF graph
(* The later of two copies is below the earlier one.                       *)
<1>4. ASSUME NEW j \in 1..Len(b), NEW k \in 1..j - 1, b[k].text = b[j].text,
             b[j].writes # {} \/ b[j].returns
      PROVE  k \in Range(graph[j])
  <2>1. k \in 1..Len(b)
    BY <1>1
  <2>2. /\ b[k].mentions = b[j].mentions /\ b[k].writes = b[j].writes
        /\ b[k].returns = b[j].returns
    BY <1>4, <2>1 DEF Copies
  <2>3. b[j].mentions \in Seq(Names) /\ b[j].writes \subseteq Range(b[j].mentions)
    BY DEF Collected
  <2>4. CASE b[j].returns
    <3>1. Observable(b[j]) /\ Observable(b[k])
      BY <2>2, <2>4 DEF Observable
    <3>2. k \in Range(Deps!InNeighbours(b, j))
      BY <1>1, <2>3, <2>4, <3>1, InNeighboursFacts
    <3>3. QED BY <1>2, <3>2
  <2>5. CASE b[j].writes # {}
    <3>1. PICK x : x \in b[j].writes /\ x \in Range(b[j].mentions)
      BY <2>3, <2>5
    <3>2. k \in Range(Deps!NameNeighbours(b, j, x))
      BY <1>1, <2>2, <3>1, NameNeighboursFacts
    <3>3. k \in Range(Deps!InNeighbours(b, j))
      BY <1>1, <2>3, <3>1, <3>2, InNeighboursFacts
    <3>4. QED BY <1>2, <3>3
  <2>6. QED BY <1>4, <2>4, <2>5
<1>5. ASSUME NEW i \in 1..Len(b), NEW j \in Range(graph[i]), graph[j] = <<>>,
             Range(b[j].mentions) \cap Fields = {},
             NEW k \in 1..Len(b) \ {j}, b[k].text = b[j].text
      PROVE  j \in Range(graph[k])
  <2>1. j \in 1..Len(b)
    BY <1>1, <1>3
  <2>2. b[j].writes # {} \/ b[j].returns
    BY <1>5, <2>1 DEF Copies
  <2>3. b[k].writes # {} \/ b[k].returns
    BY <1>5, <2>1, <2>2 DEF Copies
  <2>4. Range(graph[j]) = {}
    BY <1>5, EmptyRange
  <2>5. k \in 1..j - 1 \/ j \in 1..k - 1
    BY <2>1
  <2>6. ~(k \in 1..j - 1)
    BY <1>4, <1>5, <2>1, <2>2, <2>4
  <2>7. QED BY <1>4, <1>5, <2>3, <2>5, <2>6
<1>6. QED BY <1>5 DEF graph
================================================================================
