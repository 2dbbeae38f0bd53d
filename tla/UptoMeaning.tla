------------------------------ MODULE UptoMeaning ------------------------------
(***************************************************************************)
(* What the walk of UptoWalk is for: the meaning of two games, given by    *)
(* running their methods, and the fundamental lemma's premise on it.       *)
(*                                                                         *)
(* How expressions are evaluated is left open but for what a language     *)
(* without side effects in expressions promises, and for what the worlds   *)
(* have to do with it: every state is like one of the worlds Z3 tries.     *)
(***************************************************************************)
EXTENDS UptoWalk

CONSTANTS
    Statements,     \* of the games, in their blocks, and after pruning
    Depth(_),       \* how deep the blocks of a statement are nested
    Texts, Tests,   \* expressions and conditions in them
    States, Names,  \* functions from the names of a game and a method
    Fields,         \* names of the games' fields, the flag's not included
    Entries,        \* states an oracle call may start from
    Values, Yes,    \* what a draw or a call may give, and what passes a test
    Nothing,        \* no answer
    Coins,          \* draws and calls of a method that are independent
    Rounds,         \* iterations of a loop
    Eval(_, _),     \* value of an expression's text in a state
    Holds(_, _),    \* truth of a condition's text in a state
    Write(_, _, _), \* state after a target is given a value
    World(_)        \* the world a state is like

-------------------------------------------------------------------------------
(* Running.                                                                *)

AllCoins == [1..Coins -> Values]
Answers ==
    {Nothing} \cup Values
        \cup {Eval(text, state) : text \in {t \in Texts : ~Calls(t)}, state \in States}

(* A run of statements: where it stopped, the state, the coins and how     *)
(* many were used (they repeat), the value returned, whether the flag was  *)
(* ever raised, and whether a raise stops it.                              *)
Outs ==
    [end : {"next", "return", "raised"}, state : States, coins : AllCoins, drawn : Nat,
     value : Answers, raised : BOOLEAN, stop : BOOLEAN]

Going(state, coins, stop) ==
    [end |-> "next", state |-> state, coins |-> coins, drawn |-> 0, value |-> Nothing,
     raised |-> FALSE, stop |-> stop]

(* Calls are answered by coins, in the order of the texts they stand in.   *)
Coin(out, k) == out.coins[1 + ((out.drawn + k) % Coins)]
CallsIn(texts, n) == Cardinality({k \in 1..n : Calls(texts[k])})
Value(text, k, out) == IF Calls(text) THEN Coin(out, k) ELSE Eval(text, out.state)

Target(s, out) ==
    <<s.var>> \o [k \in DOMAIN s.index |-> Value(s.index[k], CallsIn(s.index, k - 1), out)]
Used(s) == CallsIn(s.index, Len(s.index))
Put(s, value, used, out) ==
    [out EXCEPT !.state = Write(Target(s, out), value, @), !.drawn = @ + used]

Raising(out) == [out EXCEPT !.raised = TRUE, !.end = IF out.stop THEN "raised" ELSE @]

(* The arm an if-statement takes, if any, and the conditions it tests.     *)
Met(s, out) ==
    {i \in DOMAIN s.conditions :
        IF Calls(s.conditions[i]) THEN Coin(out, CallsIn(s.conditions, i - 1)) \in Yes
        ELSE Holds(s.conditions[i], out.state)}
Arms(s, out) == Met(s, out) \cup (DOMAIN s.blocks \ DOMAIN s.conditions)
Tested(s, out) ==
    LET n == IF Met(s, out) = {} THEN Len(s.conditions) ELSE Min(Met(s, out))
    IN [out EXCEPT !.drawn = @ + CallsIn(s.conditions, n)]

Repeated(body, out) ==
    LET turn[n \in 0..Rounds] == IF n = 0 THEN out ELSE body[turn[n - 1]]
    IN turn[Rounds]

(* One statement, given what its blocks do.                                *)
Does(s, blocks, out) ==
    CASE s.op = "assign" ->
           Put(s, Value(s.value, Used(s), out), Used(s) + CallsIn(<<s.value>>, 1), out)
      [] s.op = "draw" -> Put(s, Coin(out, Used(s)), Used(s) + 1, out)
      [] s.op = "raise" -> Raising(Put(s, TRUE, 0, out))
      [] s.op = "return" ->
           [out EXCEPT !.end = "return", !.value = Value(s.value, 0, out),
                       !.drawn = @ + CallsIn(<<s.value>>, 1)]
      [] s.op = "for" -> Repeated(blocks[1], out)
      [] s.op = "if" ->
           IF Arms(s, out) = {} THEN Tested(s, out)
           ELSE blocks[Min(Arms(s, out))][Tested(s, out)]

(* The scope of a declaration is the rest of its block.                    *)
Leave(s, before, out) ==
    IF s.typed THEN [out EXCEPT !.state = [@ EXCEPT ![s.var] = before.state[s.var]]]
    ELSE out

Exec[b \in Seq(Statements)] ==
    [out \in Outs |->
        IF b = <<>> \/ out.end # "next" THEN out
        ELSE LET s == Head(b)
                 blocks == [i \in DOMAIN s.blocks |-> Exec[s.blocks[i]]]
             IN Leave(s, out, Exec[Tail(b)][Does(s, blocks, out)])]

RunMethod(b, state, coins, stop) == Exec[b][Going(state, coins, stop)]

EntryStates(m) ==
    IF m = 1 /\ ~pair.left.initialized THEN Entries
    ELSE {state \in Entries : ~state[Flag]}

Observed(out) ==
    <<out.end, out.value, [n \in Fields |-> out.state[n]], out.drawn>>

-------------------------------------------------------------------------------
(* Assumptions.                                                            *)

Same(names, s1, s2) == \A n \in names : s1[n] = s2[n]

(* Statements are built from smaller ones, and pruning stays among them.   *)
ASSUME StatementAssumption ==
    \A s \in Statements :
        /\ s.op \in {"assign", "draw", "raise", "return", "if", "for"}
        /\ IF s.op \in {"if", "for"}
           THEN s = Compound(s.op, s.conditions, s.blocks)
           ELSE s = Statement(s.op, s.var, s.index, s.value, s.typed)
        /\ s.typed \in BOOLEAN
        /\ s.index \in Seq(Texts)
        /\ s.conditions \in Seq(Tests)
        /\ s.blocks \in Seq(Seq(Statements))
        /\ Depth(s) \in Nat
        /\ \A i \in DOMAIN s.blocks : \A k \in DOMAIN s.blocks[i] :
              Depth(s.blocks[i][k]) < Depth(s)

ASSUME KindAssumption ==
    \A s \in Statements :
        /\ s.op \in {"assign", "draw"} => s.var \in Names
        /\ s.op = "assign" /\ s.index = <<>> => s.var \in Texts
        /\ s.op \in {"assign", "return"} => s.value \in Texts
        /\ s.op = "raise" => s.var = Flag /\ s.index = <<>>
        /\ s.op \in {"raise", "return"} => ~s.typed
        /\ s.op = "for" => s.conditions = <<>> /\ Len(s.blocks) = 1
        /\ s.op = "if" =>
              /\ s.conditions # <<>>
              /\ Len(s.blocks) \in {Len(s.conditions), Len(s.conditions) + 1}

ASSUME PruningAssumption ==
    \A s \in {t \in Statements : t.op = "if"} :
        /\ \A is \in SUBSET DOMAIN s.blocks :
              is \cap DOMAIN s.conditions # {} => Kept(s, is) \in Statements
        /\ \A i \in DOMAIN s.conditions :
              Alone(s.conditions[i], s.blocks[i]) \in Statements
        /\ \A i \in DOMAIN s.blocks \ DOMAIN s.conditions :
              Alone("true", s.blocks[i]) \in Statements

(* A game has two methods, and the sides have the same field declarations. *)
IsGame(game) ==
    game.initialized \in BOOLEAN /\ Len(game.methods) = 2
    /\ game.methods \in Seq(Seq(Statements))
ASSUME GameAssumption ==
    \A recipe \in Recipes :
        LET games == Build(recipe) IN
        /\ IsGame(games.left) /\ IsGame(games.right)
        /\ games.left.initialized = games.right.initialized

ASSUME StateAssumption ==
    /\ Entries \subseteq States
    /\ Flag \in Names /\ Fields \subseteq Names
    /\ \A state \in States :
          state = [n \in Names |-> state[n]] /\ state[Flag] \in BOOLEAN
    /\ Coins \in Nat \ {0} /\ Rounds \in Nat

(* What a text may give in a state, whatever the coins.                    *)
Possible(text, state) == IF Calls(text) THEN Values ELSE {Eval(text, state)}
Given(s, state) ==
    CASE s.op = "assign" -> Possible(s.value, state)
      [] s.op = "draw" -> Values
      [] s.op = "raise" -> {TRUE}
Keys(s, state) ==
    {keys \in [DOMAIN s.index -> UNION {Possible(s.index[k], state) : k \in DOMAIN s.index}] :
        \A k \in DOMAIN s.index : keys[k] \in Possible(s.index[k], state)}

(* A write goes to the variable of its target and to no other; games are   *)
(* well typed, so that what a statement writes makes a state.              *)
ASSUME WriteAssumption ==
    \A s \in {t \in Statements : t.op \in {"assign", "draw", "raise"}}, state \in States :
        /\ \A keys \in Keys(s, state), value \in Given(s, state) :
              LET new == Write(<<s.var>> \o keys, value, state) IN
              /\ new \in States
              /\ Same(Names \ {s.var}, new, state)
              /\ s.index = <<>> => new[s.var] = value
        /\ s.typed => \A old \in States : [state EXCEPT ![s.var] = old[s.var]] \in States

(* Without a call, a value is a function of the names that are free in it. *)
ASSUME EvalAssumption ==
    /\ {Flag, "false"} \subseteq Texts /\ "true" \in Tests
    /\ \A text \in Texts \cup Tests : Free(text) \subseteq Names
    /\ \A s1, s2 \in States :
          /\ \A text \in Texts :
                ~Calls(text) /\ Same(Free(text), s1, s2) => Eval(text, s1) = Eval(text, s2)
          /\ \A test \in Tests :
                ~Calls(test) /\ Same(Free(test), s1, s2)
                    => (Holds(test, s1) <=> Holds(test, s2))
    /\ \A name \in Names \cap Texts :
          /\ Free(name) = {name} /\ ~Calls(name)
          /\ \A state \in States : Eval(name, state) = state[name]
    /\ \A state \in States : Eval("false", state) = FALSE

(* Equality and the connectives mean in a state what Z3 takes them to mean. *)
ASSUME WorldAssumption ==
    /\ \A test \in {t \in Tests : ~Calls(t)} : Where(test) \subseteq Worlds
    /\ \A state \in States :
          /\ World(state) \in Worlds
          /\ \A a, b \in {t \in Texts : ~Calls(t)} :
                Class(a, World(state)) = Class(b, World(state))
                    <=> Eval(a, state) = Eval(b, state)
          /\ \A test \in {t \in Tests : ~Calls(t)} :
                World(state) \in Where(test) <=> Holds(test, state)

-------------------------------------------------------------------------------
(* Properties.                                                             *)

(* A frame that waits for its callee waits at an if-statement or a loop    *)
(* that both sides have, and the arm it is in is one of both.              *)
TypeOK ==
    /\ verdict \in {"start", "walking", "identical", "error"}
    /\ method \in DOMAIN pair.left.methods
    /\ frames = <<>> <=> ~Disciplined(pair.left) \/ ~Disciplined(pair.right)
                           \/ verdict = "start"
    /\ \A k \in 1..Len(frames) - 1 :
          LET f == frames[k] IN
          /\ f.left # <<>> /\ f.right # <<>>
          /\ Head(f.left).op = Head(f.right).op
          /\ f.arm \in 0..Len(Head(f.left).blocks)
          /\ (f.arm = 0) <=> Head(f.left).op = "for"
          /\ Len(Head(f.left).blocks) = Len(Head(f.right).blocks)

(* Accepted games are identical until the flag: from the same state with   *)
(* the same coins a method does the same on both sides - the same answer,  *)
(* fields and draws - until both raise the flag at the same point, or      *)
(* neither does.                                                           *)
IdenticalUntilBad ==
    verdict = "identical" =>
        \A m \in DOMAIN pair.left.methods :
            \A state \in EntryStates(m), coins \in AllCoins :
                Observed(RunMethod(pair.left.methods[m], state, coins, TRUE))
                    = Observed(RunMethod(pair.right.methods[m], state, coins, TRUE))

(* The flag at the end tells whether it was ever raised, which is what     *)
(* __reveal and the loss term rest on: Initialize ends with the flag it    *)
(* raised, and an oracle never takes it down.                              *)
FlagTellsBad ==
    verdict = "identical" =>
        \A game \in {pair.left, pair.right} : \A m \in DOMAIN game.methods :
            \A state \in EntryStates(m) \cup (IF m = 1 THEN {} ELSE Entries) :
                \A coins \in AllCoins :
                    LET out == RunMethod(game.methods[m], state, coins, FALSE) IN
                    out.state[Flag] <=> out.raised \/ (m # 1 /\ state[Flag])

(* A game is identical to itself until any flag it keeps the discipline    *)
(* of: the walk prunes both sides alike and compares calls as syntax.      *)
AcceptsItself ==
    pair.left = pair.right /\ Disciplined(pair.left) => verdict # "error"
=============================================================================
