---------------------------- MODULE MCProofEngine ----------------------------
(* Small proof files: one for each shape of games list and of hop.         *)
EXTENDS ChainLosses

CONSTANTS T, G, P, Q,   \* the theorem's pair, an assumed one, two event pairs
          H, K,         \* helper games
          RA, RB, RC, RD, RE, \* reductions
          a1, a2, a3    \* step assumptions

Game0(game, side, red) ==
    [kind |-> "step", game |-> game, side |-> side, red |-> red, adv |-> T,
     silenced |-> FALSE]
Side(game, side) == Game0(game, side, NoReduction)
Helper(h) == Game0(h, NoSide, NoReduction)
Assume(c) == [kind |-> "assume", cond |-> c]
Induction(b) == [kind |-> "induction", body |-> b]

Block(steps) == [steps |-> steps, name |-> "none", start |-> 0, end |-> 0]
Loop(name, start, end, steps) ==
    [steps |-> steps, name |-> name, start |-> start, end |-> end]

Printed == RA :> "RA" @@ RB :> "RB" @@ RC :> "RC" @@ RD :> "RD" @@ RE :> "RE"

(* The oracle calls of the reductions: RA, RB and RE play for the          *)
(* theorem's adversary, RC for G's, RD for K's.                            *)
Do(calls) == [kind |-> "plain", calls |-> calls, blocks |-> <<>>, start |-> 0, end |-> 0]
For(start, end, body) ==
    [kind |-> "for", calls |-> <<>>, blocks |-> <<body>>, start |-> start, end |-> end]
If(conditions, arms) ==
    [kind |-> "if", calls |-> conditions, blocks |-> arms, start |-> 0, end |-> 0]

Methods ==
    RA :> [Initialize |-> <<Do(<<"Samp">>)>>,
           Enc |-> <<For(0, 2, <<Do(<<"Samp">>)>>)>>,
           Dec |-> <<If(<<"Samp">>, <<<<Do(<<"Samp">>)>>, <<>>>>)>>]
    @@ RB :> [Enc |-> <<Do(<<"Eq">>)>>, Dec |-> <<Do(<<"Hash">>)>>]
    @@ RE :> [Enc |-> <<Do(<<"Eq", "Eq">>)>>, Dec |-> <<>>]
    @@ RC :> [Initialize |-> <<Do(<<"Hash">>)>>,
              Samp |-> <<Do(<<"Eq">>), Do(<<"Hash", "Hash">>)>>]
    @@ RD :> [Eq |-> <<Do(<<"Find">>)>>, Hash |-> <<Do(<<"Find", "Find">>)>>]

File(blocks) ==
    [blocks |-> blocks, theorem |-> T, is_event |-> FALSE, assume |-> {G},
     lemmas |-> {}, events |-> {}, lets |-> {"q"}, claims_bound |-> FALSE,
     lemma_proofs |-> <<>>, clauses |-> <<>>, methods |-> Methods, printed |-> Printed,
     max_calls |-> {}, oracles |-> <<"Dec", "Enc", "Eq", "Find", "Hash", "Samp">>,
     theorem_oracles |-> {"Dec", "Enc"}]
Lemma(notion, hops) == [notion |-> notion, hops |-> hops, inductive |-> FALSE]
Hop(notion, red) == [notion |-> notion, red |-> red]

First == Side(T, "Left")
Final == Side(T, "Right")
GLeft == Game0(G, "Left", RA)
GRight == Game0(G, "Right", RA)

Reduction == File(<<Block(<<First, Assume(a1), GLeft, GRight, Assume(a2), Final>>)>>)
(* The lemma is proved by induction and has no bound.                      *)
ByLemma == [Reduction EXCEPT !.assume = {}, !.lemmas = {G}, !.claims_bound = TRUE,
               !.lemma_proofs = <<[Lemma(G, <<>>) EXCEPT !.inductive = TRUE]>>]
(* The sides of G are composed with different reductions.                  *)
TwoReductions ==
    File(<<Block(<<First, GLeft, Game0(G, "Right", RB), Final>>)>>)
Unfinished == File(<<Block(<<First, GLeft, GRight, First>>)>>)
Hybrid == File(<<
    Block(<<First, Assume(a1), Induction(2), Assume(a2), Final>>),
    Loop("i", 1, 2, <<GLeft, GRight, Assume(a3)>>)>>)
(* The last body ends with a helper game and the loop does not run at all. *)
NoIteration == File(<<
    Block(<<First, Induction(2), Final>>),
    Loop("i", 2, 0, <<GLeft, GRight, Helper(H)>>)>>)
Nested == File(<<
    Block(<<First, Induction(2), Final>>),
    Loop("i", 1, 2, <<Helper(H), Assume(a1), Induction(3), Assume(a2), Helper(K)>>),
    Loop("j", 0, 1, <<GLeft, GRight>>)>>)
NestedLast == File(<<
    Block(<<First, Induction(2), Final>>),
    Loop("i", 1, 2, <<Helper(H), Induction(3)>>),
    Loop("j", 0, 1, <<GLeft, GRight>>)>>)
UpTo(pair) == [File(<<Block(<<First, Game0(pair, "Left", RA),
                              Game0(pair, "Right", RA), Final>>)>>)
               EXCEPT !.events = {P, Q}]
Event == [File(<<Block(<<Side(P, "Right"), Helper(H), GLeft, GRight>>)>>)
          EXCEPT !.is_event = TRUE]

(* Files for the bound.  A reduction is used on both sides.                *)
BackAndForth == File(<<Block(<<First, GLeft, GRight, GLeft, Final>>)>>)
KLeft == Game0(K, "Left", RB)
KRight == Game0(K, "Right", RB)
KBound == K :> {<<"Eq", "Eq">>, <<"Hash">>}
(* K declares a bound and is used here and in the proof of G.              *)
Helpers == [File(<<Block(<<First, KLeft, KRight, GLeft, GRight, Final>>)>>)
            EXCEPT !.assume = {K}, !.lemmas = {G}, !.clauses = KBound,
                   !.lemma_proofs = <<Lemma(G, <<Hop(K, RC), Hop(Q, RC)>>)>>]
AtMostOnce == [File(<<Block(<<First, KLeft, KRight, Final>>)>>)
               EXCEPT !.assume = {K}, !.clauses = KBound, !.max_calls = {1}]
(* A lemma is proved by another one.                                       *)
Layers == [Reduction EXCEPT !.assume = {}, !.lemmas = {G},
              !.clauses = Q :> {<<"Find">>},
              !.lemma_proofs = <<Lemma(K, <<Hop(Q, RD)>>), Lemma(G, <<Hop(K, RC)>>)>>]
ByEvent == [UpTo(P) EXCEPT !.lemmas = {EventOf(P)}, !.clauses = KBound,
               !.lemma_proofs = <<Lemma(EventOf(P), <<Hop(K, RC)>>)>>]

(* Two halves of a proof as lemmas, played without a reduction.            *)
Halves == [File(<<Block(<<First, Side(G, "Left"), Side(G, "Right"),
                          Side(Q, "Left"), Side(Q, "Right"), Final>>)>>)
           EXCEPT !.assume = {}, !.lemmas = {G, Q}, !.clauses = KBound,
                  !.lemma_proofs = <<Lemma(G, <<Hop(K, RB)>>), Lemma(Q, <<Hop(K, RE)>>)>>]

MCFiles == {Reduction, ByLemma, TwoReductions, Unfinished, Hybrid, NoIteration,
            Nested, NestedLast, UpTo(P), UpTo(Q), Event,
            BackAndForth, Helpers, AtMostOnce, Layers, [Layers EXCEPT !.clauses = <<>>],
            ByEvent, Halves}

(* The reduction to K in the proof of each half is called R1 there.        *)
SameNameFiles == {[Halves EXCEPT !.printed = [r \in DOMAIN Printed |-> "R1"]]}

(* The second step alone is composed with a reduction.                     *)
StrayFiles == {File(<<Block(<<First, Side(G, "Left"), Game0(G, "Right", RA), Final>>)>>)}

(* The games list starts and ends at another pair than the theorem's.      *)
EndFiles == {Reduction, File(<<Block(<<Side(P, "Left"), Helper(H), Side(P, "Right")>>)>>)}

(* Two inductions in a row, which the grammar allows, and an event proof   *)
(* whose last game is a helper game.                                       *)
AssertionFiles == {
    Hybrid,
    File(<<Block(<<First, Induction(2), Induction(3), Final>>),
           Loop("i", 1, 2, <<Helper(H)>>),
           Loop("j", 1, 2, <<Helper(K)>>)>>),
    Event,
    [Event EXCEPT !.blocks =
        <<Block(<<Side(P, "Right"), GLeft, GRight, Helper(H)>>)>>]}
=============================================================================
