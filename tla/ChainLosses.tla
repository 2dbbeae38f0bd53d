----------------------------- MODULE ChainLosses -----------------------------
(***************************************************************************)
(* What the hops of a proof really lose, in terms of executions: which     *)
(* adversary plays which game, and how many queries reach it.  The bound   *)
(* of AdvantageBound must cover these losses.                              *)
(***************************************************************************)
EXTENDS AdvantageBound

(* The most calls of o in one execution: a for stops before its end, one   *)
(* branch of an if is taken.                                               *)
Greatest(S) == CHOOSE n \in S : \A k \in S : k <= n
RECURSIVE MostCalls(_, _)
MostCalls(statements, o) ==
    LET most(s) ==
            LET by_block == {MostCalls(s.blocks[i], o) : i \in DOMAIN s.blocks} \cup {0}
            IN IF s.kind = "for" THEN Greatest({s.end - s.start, 0}) * Greatest(by_block)
               ELSE Greatest(by_block)
    IN FoldLeft(LAMBDA n, s : n + CallSites(s, o) + most(s), 0, statements)

(* The queries that reach the last of the players when the theorem's       *)
(* adversary makes q: each implements the game of the one before.          *)
Counts(players, q) ==
    FoldLeft(LAMBDA n, red :
                [o \in DOMAIN n |->
                    IF o = "Initialize" THEN 1
                    ELSE MapThenSumSet(
                            LAMBDA m : n[m] * MostCalls(job.file.methods[red][m], o),
                            DOMAIN job.file.methods[red])],
             q, players)

(* A loss: a notion and the reductions between it and the theorem's        *)
(* adversary.  A lemma loses what its own proof loses.                     *)
Through(red) == IF Played(red) THEN <<red>> ELSE <<>>
RECURSIVE Inlined(_, _)
Inlined(loss, lemmas) ==
    LET proofs == job.file.lemma_proofs
        known == {j \in lemmas : proofs[j].notion = loss.notion /\ ~proofs[j].inductive}
    IN IF known = {} THEN <<loss>>
       ELSE LET j == Greatest(known)
                lost(hop) == [notion |-> hop.notion,
                              players |-> loss.players \o Through(hop.red)]
            IN FlattenSeq([i \in DOMAIN proofs[j].hops |->
                              Inlined(lost(proofs[j].hops[i]), 1..(j - 1))])

(* Every hop between games that are not alike loses something.             *)
Losses ==
    LET unequal == SelectSeq(hop_results, LAMBDA r : <<r.cur, r.next>> \notin alike)
        verified == {j \in DOMAIN job.file.lemma_proofs :
                        job.file.lemma_proofs[j].notion \in proven}
    IN FlattenSeq([i \in DOMAIN unequal |->
            Inlined([notion |-> Notion(unequal[i]),
                     players |-> Through(StepOf(unequal[i].cur).red)], verified)])

-------------------------------------------------------------------------------
Product(factors, n) == FoldLeft(LAMBDA v, o : v * n[o], 1, factors)
Value(clause, n) == MapThenSumSet(LAMBDA factors : Product(factors, n), clause)

(* A form and a substituted clause at counts n.                            *)
At(form, n) == MapThenSumSet(LAMBDA m : form[m] * n[m], DOMAIN form)
Evaluate(stat, n) ==
    Value(stat.clause,
          FoldRight(LAMBDA s, k : [k EXCEPT ![s.oracle] = At(s.form, k)], stat.subs, n))

Total(seq, of(_)) == FoldLeft(LAMBDA n, x : n + of(x), 0, seq)

(* The theorem's adversary makes up to two queries to each of its oracles, *)
(* or as many as the cap allows.                                           *)
QueryLimit == IF Capped THEN Cap ELSE 2
Queries ==
    {[o \in ToSet(job.file.oracles) \cup {"Initialize"} |->
        CASE o = "Initialize" -> 1 [] o \in DOMAIN q -> q[o] [] OTHER -> 0] :
     q \in [job.file.theorem_oracles -> 0..QueryLimit]}

HasClause(x) == x.notion \in DOMAIN job.file.clauses

(* What helper games declare, in the sum.                                  *)
StatisticsCovered(losses, terms) ==
    \A q \in Queries :
        Total(SelectSeq(losses, HasClause),
              LAMBDA l : Value(job.file.clauses[l.notion], Counts(l.players, q)))
        <= Total(terms, LAMBDA t : MapThenSumSet(
                            LAMBDA s : t.times * Evaluate(s, q), t.statistical))

(* Each other term names one adversary, and all losses are counted.        *)
AdversariesCovered(losses, terms) ==
    LET opaque == {l \in ToSet(losses) : ~HasClause(l)}
        lost(l) == Cardinality({i \in DOMAIN losses : losses[i] = l})
        shown == {i \in DOMAIN terms : terms[i].statistical = {}}
        players == {l.players : l \in opaque}
    IN \E who \in [shown -> players] :
          /\ \A i \in shown : who[i] = <<>> <=> terms[i].adversary = <<>>
          /\ \A l \in opaque :
                lost(l) <= MapThenSumSet(LAMBDA i : terms[i].times,
                               {i \in shown : terms[i].notion = l.notion
                                              /\ who[i] = l.players})

(* The bound of a verified proof covers what its hops lose, against every  *)
(* adversary: each term stands for one composition of reductions and       *)
(* occurs often enough, and declared bounds hold at the queries that       *)
(* really reach the helper game (synthesize_from_hop_results; "the         *)
(* advantage across a sequence of hops is bounded (triangle inequality) by *)
(* the sum of the per-hop losses").                                        *)
BoundCoversChain ==
    pc = "succeeded" /\ Supported =>
        /\ StatisticsCovered(Losses, BoundTerms)
        /\ AdversariesCovered(Losses, BoundTerms)
=============================================================================
