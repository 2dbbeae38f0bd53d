--------------------------------- MODULE MCUpto ---------------------------------
(* Games over a field f, a map M, parameters x, y and the flag, with two    *)
(* values.                                                                  *)
EXTENDS UptoMeaning

CONSTANTS v0, v1

(* A world is a partition of f, x, y and M[x], written as the classes of    *)
(* the last three (f is in class 1) and a value of the flag: four digits.   *)
Digit(w, k) == (w \div 10 ^ (k - 1)) % 10
AllWorlds ==
    {1000 * p[1] + 100 * p[2] + 10 * p[3] + bad :
        bad \in {0, 9},
        p \in {q \in (1..2) \X (1..3) \X (1..4) :
                 q[2] <= 1 + q[1] /\ q[3] <= 1 + Max({q[1], q[2]})}}
MCWorlds == AllWorlds    \* TLC evaluates AllWorlds once

Call == "call"
MapX == "M[x]"

MCClass(text, w) ==
    CASE text = "f" -> 1 [] text = "x" -> Digit(w, 4) [] text = "y" -> Digit(w, 3)
      [] text = MapX -> Digit(w, 2) [] text = "bad" -> Digit(w, 1)
      [] text = "false" -> 0 [] OTHER -> 6

Compared == [c \in {"x==y", "x!=y", "x==f", "x!=f", "y==f"} |->
    CASE c \in {"x==y", "x!=y"} -> <<"x", "y">>
      [] c \in {"x==f", "x!=f"} -> <<"x", "f">> [] c = "y==f" -> <<"y", "f">>]
Unequal == {"x!=y", "x!=f"}
WhereTable ==
    [c \in DOMAIN Compared \cup {"bad", "true"} |->
        IF c = "bad" THEN {w \in AllWorlds : Digit(w, 1) # 0}
        ELSE IF c = "true" THEN AllWorlds
        ELSE {w \in AllWorlds : (MCClass(Compared[c][1], w) = MCClass(Compared[c][2], w))
                                    # (c \in Unequal)}]
MCWhere(c) == WhereTable[c]
MCFree(text) ==
    IF text \in {"f", "x", "y", "bad"} THEN {text}
    ELSE IF text = MapX THEN {"M", "x"}
    ELSE IF text \in DOMAIN Compared THEN Range(Compared[text]) ELSE {}
MCCalls(text) == text = Call

(* Z3 gives up on more than MaxFacts facts.                                 *)
MaxFacts == 3
MCDecides(phi, goal) == Cardinality(phi) <= MaxFacts

MCNames == {"f", "x", "y", "M", "bad"}
MCTexts == {"f", "x", "y", MapX, "bad", "false", Call}
MCTests == DOMAIN WhereTable \cup {Call}
MCStates ==
    [f : Values, x : Values, y : Values, M : [Values -> Values], bad : BOOLEAN]

(* Only equality matters, so that f may as well be v0.                      *)
MCEntries == {s \in MCStates : s.f = v0}

MCEval(text, s) ==
    IF text = MapX THEN s.M[s.x] ELSE IF text = "false" THEN FALSE ELSE s[text]
MCHolds(c, s) ==
    IF c = "bad" THEN s.bad ELSE IF c = "true" THEN TRUE
    ELSE (s[Compared[c][1]] = s[Compared[c][2]]) # (c \in Unequal)
MCWrite(target, v, s) ==
    IF Len(target) = 1 THEN [s EXCEPT ![target[1]] = v] ELSE [s EXCEPT !.M[target[2]] = v]
MCWorld(s) ==
    LET x == IF s.x = s.f THEN 1 ELSE 2
        y == IF s.y = s.f THEN 1 ELSE IF s.y = s.x THEN x ELSE x + 1
        m == IF s.M[s.x] = s.f THEN 1 ELSE IF s.M[s.x] = s.x THEN x
             ELSE IF s.M[s.x] = s.y THEN y ELSE Max({x, y}) + 1
    IN 1000 * x + 100 * y + 10 * m + (IF s.bad THEN 9 ELSE 0)

Assign(v, e) == Statement("assign", v, <<>>, e, FALSE)
Local(v, e) == Statement("assign", v, <<>>, e, TRUE)
PutMap(k, e) == Statement("assign", "M", <<k>>, e, FALSE)
Draw(v) == Statement("draw", v, <<>>, "", FALSE)
Return(e) == Statement("return", "", <<>>, e, FALSE)
Raise == Statement("raise", "bad", <<>>, "", FALSE)
Reset == Assign("bad", "false")
If(c, b) == Compound("if", <<c>>, <<b>>)
IfElse(c, b, d) == Compound("if", <<c>>, <<b, d>>)
For(b) == Compound("for", <<>>, <<b>>)

-------------------------------------------------------------------------------
(* Oracles: a first statement, an arm that raises the flag, a statement and *)
(* a return; the sides differ in an if-statement and in what they return.   *)
Firsts == {<<>>, <<Assign("x", "f")>>, <<Assign("y", Call), Assign("x", Call)>>,
           <<Assign("y", MapX)>>}
Inner == {<<>>, <<If("y==f", <<Return("y")>>)>>, <<Assign("y", "f")>>}
Conditions == {"x==f", "x!=y"}
Mids == {<<>>, <<Assign("x", "y")>>, <<PutMap("y", "x")>>, <<For(<<Draw("f")>>)>>}
Returned == {"x", "y", MapX}

Oracle(a, c, b, mid, test, e) ==
    a \o <<If(c, b \o <<Raise>>)>> \o mid \o test \o <<Return(e)>>

TestBlocks == {<<>>, <<If("x==y", <<Assign("f", "x")>>)>>, <<If("x==y", <<Local("f", "x")>>)>>,
           <<If("bad", <<Assign("f", "x")>>)>>}
(* The other side has no test, the same one, or what its arm does.          *)
OtherTest(test, how) ==
    IF how = "same" THEN test
    ELSE IF how = "spliced" /\ test # <<>> THEN test[1].blocks[1] ELSE <<>>

OracleRecipes ==
    {"oracle"} \X Firsts \X Conditions \X Inner \X Mids \X TestBlocks
        \X {"same", "none", "spliced"} \X Returned \X Returned
OraclePair(r) ==
    <<Oracle(r[2], r[3], r[4], r[5], r[6], r[8]),
      Oracle(r[2], r[3], r[4], r[5], OtherTest(r[6], r[7]), r[9])>>

(* Branches that return or raise, one of them missing on a side.            *)
Branches == {<<Raise>>, <<Return("x")>>, <<Return("y")>>, <<Draw("f"), Raise>>}
BranchTests == {"x==y", "x!=y", "bad", Call}
BranchRecipes ==
    {"branch"} \X {"x==y", Call} \X BranchTests \X [1..4 -> Branches] \X BOOLEAN
BranchPair(r) ==
    <<<<IfElse(r[2], r[4][1], r[4][2]), Return("f")>>,
      <<IF r[5] THEN IfElse(r[3], r[4][3], r[4][4]) ELSE If(r[3], r[4][3]), Return("f")>>>>

(* A loop whose later rounds differ from what is known before it.           *)
Bodies == {<<Draw("f")>>, <<If("x!=f", <<Assign("y", "x")>>), Draw("f")>>,
           <<If("x!=f", <<Raise>>), Draw("f")>>, <<Raise>>}
LoopRecipes == {"loop"} \X Bodies \X Bodies
LoopPair(r) ==
    <<<<Assign("x", "f"), For(r[2]), Return("y")>>,
      <<Assign("x", "f"), For(r[3]), Return("y")>>>>

(* Methods Initialize, with and without a sanctioned reset.                 *)
InitTexts == {Reset, If("x==y", <<Raise>>), If("bad", <<Raise>>), Return("x"), Draw("f"),
              If("x!=y", <<Reset>>), Assign("bad", "bad"), Local("bad", "false")}
Inits == UNION {[1..n -> InitTexts] : n \in 1..3}
InitRecipes ==
    {"init"} \X Inits \X {"same", "first left out"} \X BOOLEAN
        \X {Raise, If("x==y", <<Reset>>)}

Games(initialized, init, oracle) ==
    [left |-> [initialized |-> initialized, methods |-> <<init[1], oracle[1]>>],
     right |-> [initialized |-> initialized, methods |-> <<init[2], oracle[2]>>]]

MCRecipes == OracleRecipes \cup BranchRecipes \cup LoopRecipes \cup InitRecipes
WithReset(oracle) == Games(FALSE, <<<<Reset>>, <<Reset>>>>, oracle)
MCBuild(r) ==
    CASE r[1] = "oracle" -> WithReset(OraclePair(r))
      [] r[1] = "branch" -> WithReset(BranchPair(r))
      [] r[1] = "loop" -> WithReset(LoopPair(r))
      [] r[1] = "init" ->
           Games(r[4], <<r[2], IF r[3] = "same" THEN r[2] ELSE Tail(r[2])>>,
                 <<<<r[5]>>, <<r[5]>>>>)

-------------------------------------------------------------------------------
(* All statements of these games, and what pruning makes of them.           *)
RECURSIVE Parts(_), Nested(_)
PartsOf(b) == UNION {Parts(b[k]) : k \in DOMAIN b}
Parts(s) == {s} \cup UNION {PartsOf(s.blocks[i]) : i \in DOMAIN s.blocks}
Nested(s) ==
    IF s.blocks = <<>> THEN 0
    ELSE 1 + Max({0} \cup UNION {{Nested(s.blocks[i][k]) : k \in DOMAIN s.blocks[i]}
                                    : i \in DOMAIN s.blocks})

Unpruned ==
    UNION {PartsOf(b) : b \in Firsts \cup Mids \cup TestBlocks}
    \cup UNION {Parts(If(c, b \o <<Raise>>)) : c \in Conditions, b \in Inner}
    \cup UNION {Parts(IfElse(c, b, d)) \cup Parts(If(c, b)) :
                    c \in BranchTests, b \in Branches, d \in Branches}
    \cup UNION {Parts(For(b)) : b \in Bodies}
    \cup UNION {Parts(s) : s \in InitTexts \cup {Return(e) : e \in Returned \cup {"f"}}}
    \cup Parts(If("x==y", <<Reset>>))
Prunings(s) ==
    {Kept(s, is) : is \in {js \in SUBSET DOMAIN s.blocks : js \cap DOMAIN s.conditions # {}}}
    \cup {Alone("true", s.blocks[i]) : i \in DOMAIN s.blocks \ DOMAIN s.conditions}
AllStatements ==
    Unpruned \cup UNION {Prunings(s) : s \in {t \in Unpruned : t.op = "if"}}
MCStatements == AllStatements    \* TLC evaluates AllStatements once
MCDepth(s) == Nested(s)
=============================================================================
