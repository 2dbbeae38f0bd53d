------------------------------ MODULE MCSortBlock ------------------------------
(* Blocks over two fields f, g and two locals x, y with bits as values.    *)
EXTENDS BlockMeaning

CONSTANTS MaxLength, LongLength     \* of blocks, and of those over LongTexts

Deps == INSTANCE Dependencies
MCGraph(b) == Deps!DependencyGraph(b)

Bits == {0, 1}
MCNames == {"f", "g", "x", "y"}
MCEntries == {s \in [MCNames -> Bits] : s["x"] = 0 /\ s["y"] = 0}

(* Statements: x = y; x = x + y; x = 1; T x; x <- Bool; x <- Bool \ E      *)
(* (E is all of Bool when y is set); x <-uniq[E] T; return x;              *)
(* if (x) { return y; }; if (x) { y = 0; } and O(x), which writes nothing. *)
Statement(op, x, y, mentions, writes) ==
    [text |-> <<op, x, y>>, mentions |-> mentions, writes |-> writes,
     returns |-> op \in {"return", "returnif"}, is_return |-> op = "return",
     may_not_complete |-> op = "without"]

Copy(x, y) == Statement("copy", x, y, <<x, y>>, {x})
AddTo(x, y) == Statement("add", x, y, <<x, y>>, {x})
Set(x) == Statement("set", x, x, <<x>>, {x})
Declare(x) == Statement("declare", x, x, <<x>>, {x})
Draw(x) == Statement("draw", x, x, <<x>>, {x})
DrawWithout(x, e) == Statement("without", x, e, <<x, e>>, {x})
DrawUnique(x, e) == Statement("unique", x, e, <<x, e>>, {x, e})
Return(x) == Statement("return", x, x, <<x>>, {})
ReturnIf(x, y) == Statement("returnif", x, y, <<x, y>>, {})
ResetIf(x, y) == Statement("resetif", x, y, <<x, y>>, {y})
Touch(x) == Statement("touch", x, x, <<x>>, {})

MCDoes(text, s, coin) ==
    LET op == text[1]
        x == text[2]
        y == text[3]
        write(z, v) == Going([s EXCEPT ![z] = v])
    IN CASE op = "copy" -> write(x, s[y])
         [] op = "add" -> write(x, (s[x] + s[y]) % 2)
         [] op = "set" -> write(x, 1)
         [] op = "declare" -> write(x, 0)
         [] op = "draw" -> write(x, coin)
         [] op = "without" -> IF s[y] = 1
                              THEN [end |-> "stuck", state |-> s, value |-> 0]
                              ELSE write(x, coin)
         [] op = "unique" -> Going([s EXCEPT ![x] = coin, ![y] = 1])
         [] op = "return" -> [end |-> "return", state |-> s, value |-> s[x]]
         [] op = "returnif" -> IF s[x] = 1
                               THEN [end |-> "return", state |-> s, value |-> s[y]]
                               ELSE Going(s)
         [] op = "resetif" -> IF s[x] = 1 THEN write(y, 0) ELSE Going(s)
         [] op = "touch" -> Going(s)

Texts == {Copy("x", "f"), Copy("f", "x"), AddTo("g", "x"), AddTo("y", "x"), Set("x"),
          Declare("x"), Draw("y"), DrawWithout("y", "f"), DrawWithout("x", "x"),
          DrawUnique("x", "f"), Return("x"), Return("y"), ReturnIf("x", "y"),
          ResetIf("y", "x"), Touch("f")}
LongTexts == {Draw("y"), Copy("g", "y"), AddTo("g", "f"), Set("f"), Return("x")}

MCBlocks ==
    UNION {[1..n -> Texts] : n \in 1..MaxLength} \cup [1..LongLength -> LongTexts]
=============================================================================
