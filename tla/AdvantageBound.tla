---------------------------- MODULE AdvantageBound ----------------------------
(***************************************************************************)
(* The advantage bound printed for a proof that succeeds: a fold over its  *)
(* hops, with the bounds of its lemmas inlined and the declared bounds of  *)
(* helper games stated in the theorem's query counts                       *)
(* (proof_frog/advantage.py), and the losses it must cover.                *)
(*                                                                         *)
(* A clause is a sum of products of query counts: a set of sequences of    *)
(* oracle names.  Sizes such as |S| and the renaming of a lemma's          *)
(* parameters are left out.  Counts are functions from oracle names;       *)
(* "Initialize" is called once.                                            *)
(***************************************************************************)
EXTENDS ProofChain

Played(red) == red # NoReduction
Capped == job.file.max_calls # {}
Cap == CHOOSE n \in job.file.max_calls : TRUE

-------------------------------------------------------------------------------
(* How often a reduction calls an oracle.                                  *)

(* A statement has the call sites in its own text (of an if, in all its    *)
(* conditions) and blocks that run under it.                               *)
CallSites(s, o) == Cardinality({i \in DOMAIN s.calls : s.calls[i] = o})

(* The trip count of a for, rounded up.                                    *)
Trips(s) == IF s.kind = "for" THEN s.end - s.start + 1 ELSE 1

(* _count_calls_in_statements: loops multiply, branches add up.            *)
RECURSIVE CountCalls(_, _)
CountCalls(statements, o) ==
    LET in_blocks(s) == FoldLeft(LAMBDA n, b : n + CountCalls(b, o), 0, s.blocks)
    IN FoldLeft(LAMBDA n, s : n + CallSites(s, o) + Trips(s) * in_blocks(s),
                0, statements)

(* _derive_oracle_count: by method, how often one invocation calls o.      *)
DeriveOracleCount(red, o) ==
    [m \in DOMAIN job.file.methods[red] |-> CountCalls(job.file.methods[red][m], o)]

-------------------------------------------------------------------------------
(* Statistical bounds: a clause under a sequence of substitutions, each of *)
(* a linear form (times, by method) for the count of an oracle.            *)

Mentioned(form) == {m \in DOMAIN form \ {"Initialize"} : form[m] > 0}

FreeCounts(stat) ==
    FoldLeft(LAMBDA free, s : IF s.oracle \in free
                              THEN (free \ {s.oracle}) \cup Mentioned(s.form) ELSE free,
             UNION {ToSet(product) : product \in stat.clause}, stat.subs)

(* SymPy's subs replaces one symbol after the other, in the order of their *)
(* names; forms is the dictionary.                                         *)
Subs(stat, forms) ==
    LET symbols == SelectSeq(job.file.oracles, LAMBDA o : o \in DOMAIN forms)
    IN [stat EXCEPT !.subs = @ \o [i \in DOMAIN symbols |->
                                      [oracle |-> symbols[i], form |-> forms[symbols[i]]]]]

DrivenBy(stat, red) ==
    IF Played(red) THEN Subs(stat, [o \in FreeCounts(stat) |-> DeriveOracleCount(red, o)])
    ELSE stat

(* `calls <= N`: what is left is pinned.                                   *)
Pinned(stat) ==
    IF Capped THEN Subs(stat, [o \in FreeCounts(stat) |-> "Initialize" :> Cap]) ELSE stat

(* The bound declared for a notion, if any.                                *)
ResolveStatistical(notion, red) ==
    IF notion \in DOMAIN job.file.clauses
    THEN {DrivenBy([clause |-> job.file.clauses[notion], subs |-> <<>>], red)} ELSE {}

-------------------------------------------------------------------------------
(* The terms of a bound.                                                   *)

NameOf(red) == IF Played(red) THEN job.file.printed[red] ELSE "A"

(* The adversary of a hop's own term, and of a lemma's term under the hop. *)
AdversaryOf(red) == IF Played(red) THEN <<NameOf(red)>> ELSE <<>>
Composed(red, inner) ==
    IF Played(red) \/ Played(inner) THEN <<NameOf(red), NameOf(inner)>> ELSE <<>>

OpaqueTerm(hop) ==
    [notion |-> hop.notion, adversary |-> AdversaryOf(hop.red), reduction |-> hop.red,
     statistical |-> ResolveStatistical(hop.notion, hop.red), times |-> 1]

(* Mutant of ExpandLemma: the counts stay those of the lemma's theorem.    *)
ExpandLemmaCounts(bound, red) ==
    [i \in DOMAIN bound.terms |->
        LET t == bound.terms[i] IN
        [t EXCEPT !.adversary = Composed(red, t.reduction), !.reduction = red]]

(* expand_lemma: the lemma's theorem is played by red (and what plays it). *)
ExpandLemma(bound, red) ==
    [i \in DOMAIN bound.terms |->
        LET t == bound.terms[i] IN
        [t EXCEPT !.adversary = Composed(red, t.reduction), !.reduction = red,
                  !.statistical = {DrivenBy(s, red) : s \in @}]]

(* The terms a hop contributes, by the bounds of the lemmas known.         *)
HopTerms(hop, lemma_bounds) ==
    IF hop.notion \in DOMAIN lemma_bounds /\ lemma_bounds[hop.notion].supported
    THEN ExpandLemma(lemma_bounds[hop.notion], hop.red)
    ELSE <<OpaqueTerm(hop)>>

SameTerm(s, t) == s.notion = t.notion /\ s.adversary = t.adversary

(* One more summand; the first term of a key keeps its data.               *)
AddTerm(terms, t) ==
    IF \E i \in DOMAIN terms : SameTerm(terms[i], t)
    THEN [i \in DOMAIN terms |-> IF SameTerm(terms[i], t)
                                 THEN [terms[i] EXCEPT !.times = @ + t.times]
                                 ELSE terms[i]]
    ELSE Append(terms, t)

SynthesizeFromHops(hops, lemma_bounds) ==
    FoldLeft(AddTerm, <<>>,
             FlattenSeq([i \in DOMAIN hops |-> HopTerms(hops[i], lemma_bounds)]))

(* The lemmas' own engines, a lemma after those it uses.  A lemma file has *)
(* no cap on calls (_lemma_mismatch).                                      *)
LemmaBounds ==
    LET proofs == job.file.lemma_proofs
        bounds[k \in 0..Len(proofs)] ==
            IF k = 0 THEN <<>>
            ELSE (proofs[k].notion :>
                     [supported |-> ~proofs[k].inductive,
                      terms |-> SynthesizeFromHops(proofs[k].hops, bounds[k - 1])])
                 @@ bounds[k - 1]
    IN bounds[Len(proofs)]

AdvantageHopKinds == {"by_assumption", "by_lemma", "by_upto"}
EventOf(pair) == [event |-> pair]

(* What a reported hop is charged to: the game, or the event of its pair.  *)
Notion(r) == IF r.kind = "by_upto" THEN EventOf(StepOf(r.cur).game)
             ELSE StepOf(r.cur).game

HopInfo(r) == [notion |-> Notion(r), red |-> StepOf(r.cur).red]
Charged(r) == r.kind \in AdvantageHopKinds

(* synthesize_from_hop_results.                                            *)
Supported ==
    \A i \in DOMAIN hop_results :
        hop_results[i].depth = 0 /\ hop_results[i].kind # "induction_rollover"

BoundTerms ==
    LET charged == SelectSeq(hop_results, Charged)
        terms == SynthesizeFromHops([i \in DOMAIN charged |-> HopInfo(charged[i])],
                                    Restrict(LemmaBounds, proven))
    IN [i \in DOMAIN terms |->
           [terms[i] EXCEPT !.statistical = {Pinned(s) : s \in @}]]
=============================================================================
