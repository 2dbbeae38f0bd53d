----------------------------- MODULE HopVerdicts -----------------------------
(***************************************************************************)
(* What a `prove` run promises about its equivalence hops when no cache    *)
(* exists: it runs one version of the engine, and every hop gets the       *)
(* verdict of that version (proof_engine.py, check_equivalent), alone or   *)
(* in a batch with others, once and for all.                               *)
(***************************************************************************)
EXTENDS Naturals, Sequences

CONSTANTS Runs, Engines, NoEngine, Accepts, ProofOf

VARIABLES
    engine,     \* engine[r]: the code run r executes
    verdict     \* verdict[r][i]: what r says of its i-th hop

vars == <<engine, verdict>>

Unjudged(r) == {i \in DOMAIN ProofOf[r] : verdict[r][i] = "pending"}

Init ==
    /\ engine = [r \in Runs |-> NoEngine]
    /\ verdict = [r \in Runs |-> [i \in DOMAIN ProofOf[r] |-> "pending"]]

Load(r) ==
    /\ engine[r] = NoEngine
    /\ \E e \in Engines : engine' = [engine EXCEPT ![r] = e]
    /\ UNCHANGED verdict

Judge(r) ==
    /\ engine[r] # NoEngine
    /\ \E batch \in (SUBSET Unjudged(r)) \ {{}} :
          verdict' = [verdict EXCEPT ![r] =
              [i \in DOMAIN ProofOf[r] |->
                  IF i \notin batch THEN @[i]
                  ELSE IF ProofOf[r][i] \in Accepts[engine[r]]
                  THEN "valid" ELSE "invalid"]]
    /\ UNCHANGED engine

Next == \E r \in Runs : Load(r) \/ Judge(r)

Spec == Init /\ [][Next]_vars
=============================================================================
