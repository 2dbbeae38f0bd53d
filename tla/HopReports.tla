------------------------------ MODULE HopReports ------------------------------
(***************************************************************************)
(* What the user of `prove` sees: the hops that the proof text calls for   *)
(* are reported one by one, in the order of the text, each exactly once;   *)
(* only then there is a verdict, and the proof succeeds only if no hop     *)
(* was reported as failed.                                                 *)
(***************************************************************************)
EXTENDS Naturals, Sequences

VARIABLES
    text,       \* the games list
    script,     \* its hops, in order: a function of the text
    reports,    \* the hops reported so far, and whether they are valid
    outcome     \* "none", "succeeded", "failed" or "crashed"

vars == <<text, reports, outcome>>

Init == reports = <<>> /\ outcome = "none"

ReportNext ==
    /\ outcome = "none"
    /\ Len(reports) < Len(script)
    /\ \E valid \in BOOLEAN :
          reports' = Append(reports,
                            [hop |-> script[Len(reports) + 1], valid |-> valid])
    /\ UNCHANGED <<text, outcome>>

AllReported == Len(reports) = Len(script)

(* A lemma that fails ends the proof before its first hop.                 *)
Conclude ==
    /\ outcome = "none"
    /\ \/ /\ AllReported
          /\ \A i \in DOMAIN reports : reports[i].valid
          /\ outcome' = "succeeded"
       \/ /\ AllReported \/ reports = <<>>
          /\ outcome' = "failed"
       \/ outcome' = "crashed"
    /\ UNCHANGED <<text, reports>>

Next == ReportNext \/ Conclude

Spec == Init /\ [][Next]_vars
=============================================================================
