-------------------------------- MODULE UptoWalk --------------------------------
(***************************************************************************)
(* The check that two games are identical until a flag is raised           *)
(* (upto.py, identical_until_bad): the flag discipline of each game, then  *)
(* a walk over the two sides of each method, statement by statement, under *)
(* the facts phi that hold on both sides as long as the flag is down.      *)
(*                                                                         *)
(* An expression or condition is its text, an atom to this module.  A      *)
(* condition holds in some worlds: the interpretations Z3 tries, one class *)
(* for each maximal subterm, so that only equality and the connectives     *)
(* mean something.  A statement carries what it may write, and whether it  *)
(* returns or lowers the flag, at any depth.                               *)
(***************************************************************************)
EXTENDS Naturals, Sequences, SequencesExt, FiniteSetsExt

CONSTANTS
    Recipes, Build(_),  \* the pairs of games to compare, and how they are made:
                        \* each game has two methods, Initialize and an oracle
    Flag,
    Worlds,
    Class(_, _),    \* of a value in a world
    Where(_),       \* the worlds where a condition holds
    Free(_),        \* the names free in a value or condition
    Calls(_),       \* whether a value or condition contains a call
    Decides(_, _)   \* whether Z3, under the facts, settles the goal in its limit

ASSUME ExpressionAssumption ==
    /\ Worlds # {}
    /\ Where("true") = Worlds /\ Free("true") = {}
    /\ Free("false") = {} /\ ~Calls("true") /\ ~Calls("false")

VARIABLES pair, method, frames, verdict

vars == <<pair, method, frames, verdict>>

-------------------------------------------------------------------------------
(* Facts.                                                                  *)

EqualIn(a, b) == {w \in Worlds : Class(a, w) = Class(b, w)}
Fact(names, worlds) == [names |-> names, worlds |-> worlds]
FlagDown == Fact({Flag}, EqualIn(Flag, "false"))

(* A goal that Z3 leaves open counts as not entailed.                       *)
Entails(phi, goal) ==
    /\ Decides(phi, goal)
    /\ {w \in Worlds : \A fact \in phi : w \in fact.worlds} \subseteq goal

(* Mutant of Kill: facts survive the writes.                               *)
KillNothing(phi, names) == phi

Kill(phi, names) == {fact \in phi : fact.names \cap names = {}}

(* Mutant of LeafEqual: calls are not compared as syntax either.           *)
LeafEqualNoCalls(a, b, phi) ==
    ~Calls(a) /\ ~Calls(b) /\ (a = b \/ Entails(phi, EqualIn(a, b)))

LeafEqual(a, b, phi) ==
    a = b \/ (~Calls(a) /\ ~Calls(b) /\ Entails(phi, EqualIn(a, b)))

CondEqual(a, b, phi) ==
    \/ a = b
    \/ ~Calls(a) /\ ~Calls(b)
       /\ Entails(phi, {w \in Worlds : w \in Where(a) <=> w \in Where(b)})

TargetEqual(x, y, phi) ==
    /\ x.var = y.var
    /\ Len(x.index) = Len(y.index)
    /\ \A k \in DOMAIN x.index : LeafEqual(x.index[k], y.index[k], phi)

(* The facts of the path to an arm; the else arm has the last i.           *)
Path(conditions, i) ==
    {Fact(Free(conditions[k]), Worlds \ Where(conditions[k]))
        : k \in {l \in 1..i - 1 : ~Calls(conditions[l])}}
    \cup {Fact(Free(conditions[k]), Where(conditions[k]))
        : k \in {l \in {i} \cap DOMAIN conditions : ~Calls(conditions[l])}}

CallsOnPath(conditions, i) ==
    \E k \in (1..i) \cap DOMAIN conditions : Calls(conditions[k])

NotAll(path) ==
    Fact(UNION {fact.names : fact \in path},
         Worlds \ {w \in Worlds : \A fact \in path : w \in fact.worlds})

Learned(x) ==
    IF x.index = <<>> /\ ~Calls(x.value) /\ x.var \notin Free(x.value)
    THEN {Fact({x.var} \cup Free(x.value), EqualIn(x.var, x.value))}
    ELSE {}

-------------------------------------------------------------------------------
(* Statements.                                                             *)

Assigned(b) == UNION {b[k].assigned : k \in DOMAIN b}
Returns(b) == \E k \in DOMAIN b : b[k].returns
Lowers(b) == \E k \in DOMAIN b : b[k].lowers

(* A statement lowers the flag if it writes or declares it and is no raise. *)
Statement(op, var, index, value, typed) ==
    [op |-> op, var |-> var, index |-> index, value |-> value, typed |-> typed,
     conditions |-> <<>>, blocks |-> <<>>, returns |-> op = "return",
     lowers |-> op \in {"assign", "draw"} /\ var = Flag,
     assigned |-> IF op = "return" THEN {} ELSE {var}]

Compound(op, conditions, blocks) ==
    [op |-> op, var |-> "", index |-> <<>>, value |-> "", typed |-> FALSE,
     conditions |-> conditions, blocks |-> blocks,
     returns |-> \E k \in DOMAIN blocks : Returns(blocks[k]),
     lowers |-> \E k \in DOMAIN blocks : Lowers(blocks[k]),
     assigned |-> UNION {Assigned(blocks[k]) : k \in DOMAIN blocks}]

DeclaresLocals(b) == \E k \in DOMAIN b : b[k].typed

ReturnsBeforeRaise(b) ==
    \E k \in DOMAIN b : b[k].returns /\ \A l \in 1..k : b[l].op # "raise"

(* The numbers of a finite set in their order.                             *)
InOrder(is) ==
    CHOOSE e \in [1..Cardinality(is) -> is] :
        /\ is = {e[k] : k \in DOMAIN e}
        /\ \A j, k \in DOMAIN e : j < k => e[j] < e[k]

(* An if-statement without some of its arms, and one of a single arm.      *)
Kept(stmt, is) ==
    Compound("if",
        [k \in 1..Cardinality(is \cap DOMAIN stmt.conditions)
            |-> stmt.conditions[InOrder(is)[k]]],
        [k \in 1..Cardinality(is) |-> stmt.blocks[InOrder(is)[k]]])
Alone(condition, b) == Compound("if", <<condition>>, <<b>>)

(* _prune: the if-statement without the arms phi rules out; the arm phi    *)
(* forces, unless it declares a local, whose scope must end with it.       *)
Pruned(stmt, phi) ==
    LET conditions == stmt.conditions
        live == {i \in DOMAIN conditions : ~Entails(phi, Worlds \ Where(conditions[i]))}
        forced == live # {} /\ Entails(phi, Where(conditions[Min(live)]))
        else == DOMAIN stmt.blocks \ DOMAIN conditions
        only(condition, b) == IF DeclaresLocals(b) THEN <<Alone(condition, b)>> ELSE b
    IN CASE forced -> only(conditions[Min(live)], stmt.blocks[Min(live)])
         [] live = {} /\ else = {} -> <<>>
         [] live = {} /\ else # {} -> only("true", stmt.blocks[Min(else)])
         [] live # {} /\ ~forced -> <<Kept(stmt, live \cup else)>>

(* _prune_front goes on while the first statement is pruned.               *)
Prunable(q, phi) ==
    /\ q # <<>> /\ Head(q).op = "if"
    /\ \A k \in DOMAIN Head(q).conditions : ~Calls(Head(q).conditions[k])
    /\ Pruned(Head(q), phi) # <<Head(q)>>

-------------------------------------------------------------------------------
(* The flag discipline.                                                    *)

(* <flag> = false; exactly.                                                *)
IsReset(s) ==
    s.op = "assign" /\ s.var = Flag /\ s.index = <<>> /\ ~s.typed /\ s.value = "false"

(* Mutant of Sanctioned: any reset at the top of Initialize is allowed.    *)
SanctionedAnywhere(b) == {k \in DOMAIN b : IsReset(b[k])}

(* Resets at the top of Initialize that no other write of the flag and no  *)
(* return precedes.                                                        *)
Sanctioned(b) ==
    {k \in DOMAIN b :
        /\ IsReset(b[k])
        /\ \A l \in 1..k - 1 :
              IsReset(b[l]) \/ (~b[l].returns /\ Flag \notin b[l].assigned)}

Disciplined(game) ==
    LET init == game.methods[1] IN
    /\ Sanctioned(init) # {} \/ game.initialized
    /\ \A k \in DOMAIN init : init[k].lowers => k \in Sanctioned(init)
    /\ ~Lowers(game.methods[2])

-------------------------------------------------------------------------------
(* The walk.                                                               *)

Top == Last(frames)
X == Head(Top.left)
Y == Head(Top.right)

(* A call of _blocks, with the arm its caller was in when it called again. *)
Frame(left, right, phi) ==
    [left |-> left, right |-> right, phi |-> phi, arm |-> 0, candidates |-> {}]

Phi0(m) == IF m = 1 /\ ~pair.left.initialized THEN {} ELSE {FlagDown}

MethodFrame(m) ==
    <<Frame(pair.left.methods[m], pair.right.methods[m], Phi0(m))>>

Init ==
    /\ \E recipe \in Recipes : pair = Build(recipe)
    /\ method = 1
    /\ frames = <<>>
    /\ verdict = "start"

Start ==
    /\ verdict = "start"
    /\ Disciplined(pair.left) /\ Disciplined(pair.right)
    /\ frames' = MethodFrame(1)
    /\ verdict' = "walking"
    /\ UNCHANGED <<pair, method>>

Undisciplined ==
    /\ verdict = "start"
    /\ ~(Disciplined(pair.left) /\ Disciplined(pair.right))
    /\ verdict' = "error"
    /\ UNCHANGED <<pair, method, frames>>

Walking == verdict = "walking"
Ready ==
    Walking /\ ~Prunable(Top.left, Top.phi) /\ ~Prunable(Top.right, Top.phi)
Both == Ready /\ Top.left # <<>> /\ Top.right # <<>>

SetTop(frame) == frames' = Append(Front(frames), frame)

PruneLeft ==
    /\ Walking
    /\ Prunable(Top.left, Top.phi)
    /\ SetTop([Top EXCEPT !.left = Pruned(X, Top.phi) \o Tail(Top.left)])
    /\ UNCHANGED <<pair, method, verdict>>

PruneRight ==
    /\ Walking
    /\ Prunable(Top.right, Top.phi)
    /\ SetTop([Top EXCEPT !.right = Pruned(Y, Top.phi) \o Tail(Top.right)])
    /\ UNCHANGED <<pair, method, verdict>>

(* Mutant of Agree: an else arm on one side alone is not noticed.          *)
AgreeOnConditions(x, y, phi) ==
    /\ x.op = y.op
    /\ CASE x.op = "if" ->
              /\ Len(x.conditions) = Len(y.conditions)
              /\ \A i \in DOMAIN x.conditions :
                    CondEqual(x.conditions[i], y.conditions[i], phi)
         [] x.op = "return" -> LeafEqual(x.value, y.value, phi)
         [] x.op = "assign" -> TargetEqual(x, y, phi) /\ LeafEqual(x.value, y.value, phi)
         [] OTHER -> TRUE

(* _stmt: whether two statements may stand in the same place.              *)
Agree(x, y, phi) ==
    /\ x.op = y.op
    /\ CASE x.op = "if" ->
              /\ Len(x.conditions) = Len(y.conditions)
              /\ Len(x.blocks) = Len(y.blocks)
              /\ \A i \in DOMAIN x.conditions :
                    CondEqual(x.conditions[i], y.conditions[i], phi)
         [] x.op = "return" -> LeafEqual(x.value, y.value, phi)
         [] x.op = "assign" ->
              /\ x.typed = y.typed
              /\ TargetEqual(x, y, phi)
              /\ LeafEqual(x.value, y.value, phi)
         [] x.op = "for" -> TRUE       \* loops with the same header
         [] OTHER -> x = y

Differ ==
    /\ Ready
    /\ \/ (Top.left = <<>>) # (Top.right = <<>>)
       \/ Top.left # <<>> /\ Top.right # <<>> /\ ~Agree(X, Y, Top.phi)
    /\ verdict' = "error"
    /\ UNCHANGED <<pair, method, frames>>

(* The frame once the statements at its front were compared.               *)
After(frame, learned) ==
    LET names == Head(frame.left).assigned \cup Head(frame.right).assigned IN
    Frame(Tail(frame.left), Tail(frame.right), Kill(frame.phi, names) \cup learned)

Simple ==
    /\ Both
    /\ X.op \in {"return", "assign", "draw"}
    /\ Agree(X, Y, Top.phi)
    /\ SetTop(After(Top, IF X.op = "assign" THEN Learned(X) ELSE {}))
    /\ UNCHANGED <<pair, method, verdict>>

(* A call of _blocks for an arm, with the call-free part of its path.      *)
ArmFrame(frame, i) ==
    LET x == Head(frame.left) IN
    Frame(x.blocks[i], Head(frame.right).blocks[i], frame.phi \cup Path(x.conditions, i))

EnterArm(callers, frame, i) ==
    callers \o <<[frame EXCEPT !.arm = i], ArmFrame(frame, i)>>

EnterIf ==
    /\ Both
    /\ X.op = "if"
    /\ Agree(X, Y, Top.phi)
    /\ frames' = EnterArm(Front(frames), Top, 1)
    /\ UNCHANGED <<pair, method, verdict>>

(* What a loop writes is unknown at the start of its body.                 *)
EnterFor ==
    /\ Both
    /\ X.op = "for"
    /\ Agree(X, Y, Top.phi)
    /\ frames' = Append(frames, Frame(X.blocks[1], Y.blocks[1],
                                      Kill(Top.phi, X.assigned \cup Y.assigned)))
    /\ UNCHANGED <<pair, method, verdict>>

(* A raise that both sides reach ends the comparison of the block.         *)
Raised == Both /\ X.op = "raise" /\ Y.op = "raise"
Ended == Ready /\ Top.left = <<>> /\ Top.right = <<>>

Caller == frames[Len(frames) - 1]

(* What is known after the arm: its path was not taken if it raises.       *)
Candidates ==
    LET x == Head(Caller.left)
        arm == Caller.arm
    IN IF Raised /\ ~CallsOnPath(x.conditions, arm) /\ ~ReturnsBeforeRaise(x.blocks[arm])
       THEN Caller.candidates \cup {NotAll(Path(x.conditions, arm))}
       ELSE Caller.candidates

NextArm ==
    /\ Raised \/ Ended
    /\ Len(frames) > 1
    /\ Caller.arm # 0 /\ Caller.arm < Len(Head(Caller.left).blocks)
    /\ frames' = EnterArm(Front(Front(frames)),
                          [Caller EXCEPT !.candidates = Candidates], Caller.arm + 1)
    /\ UNCHANGED <<pair, method, verdict>>

(* Facts of raising arms describe the entry: any arm may have changed it.  *)
Join ==
    /\ Raised \/ Ended
    /\ Len(frames) > 1
    /\ Caller.arm = Len(Head(Caller.left).blocks)
    /\ LET names == Head(Caller.left).assigned \cup Head(Caller.right).assigned IN
          frames' = Append(Front(Front(frames)), After(Caller, Kill(Candidates, names)))
    /\ UNCHANGED <<pair, method, verdict>>

LeaveFor ==
    /\ Raised \/ Ended
    /\ Len(frames) > 1
    /\ Caller.arm = 0
    /\ frames' = Append(Front(Front(frames)), After(Caller, {}))
    /\ UNCHANGED <<pair, method, verdict>>

NextMethod ==
    /\ Raised \/ Ended
    /\ Len(frames) = 1
    /\ IF method < Len(pair.left.methods)
       THEN /\ method' = method + 1
            /\ frames' = MethodFrame(method + 1)
            /\ UNCHANGED verdict
       ELSE /\ verdict' = "identical"
            /\ UNCHANGED <<method, frames>>
    /\ UNCHANGED pair

Halted == verdict \in {"identical", "error"} /\ UNCHANGED vars

Next ==
    \/ Start \/ Undisciplined
    \/ PruneLeft \/ PruneRight \/ Differ
    \/ Simple \/ EnterIf \/ EnterFor
    \/ NextArm \/ Join \/ LeaveFor \/ NextMethod
    \/ Halted

Spec == Init /\ [][Next]_vars
=============================================================================
