----------------------------- MODULE Evaluation -----------------------------
(***************************************************************************)
(* What a run's manifest, decision and outcome are judged by: manifest.py  *)
(* and evaluator.py, which the loop, the command line and the evidence     *)
(* packs share.                                                            *)
(***************************************************************************)
EXTENDS Integers, FiniteSets

CONSTANT Torn  \* read where a file is missing, spoiled, or its writer was killed

Label == {"SILENT", "ERROR", "ALERT"}  \* ALERT stands for any other
Grade == {"missed_opportunity", "true_silent", "not_evaluated", "invalid", "false_alert",
          "useful_alert"}

\* late: the sources that became available after the decision.  complete: what the
\* contract requires is there.  declared: the safety declaration is.
Manifest == [declared : BOOLEAN, complete : BOOLEAN, late : Nat]
Decision == [declared : BOOLEAN, complete : BOOLEAN, label : Label]
Outcome  == [pattern : BOOLEAN, gain : Int, adverse : Int]

\* manifest.py: the errors that matter here, and whether there are any.
validate_run_manifest(m) ==
    [ok |-> m.declared /\ m.complete /\ m.late = 0,
     declared |-> m.declared, complete |-> m.complete, leaks |-> m.late]

Graded(d, grade) == [grade |-> grade, declared |-> d.declared]

\* evaluator.py: only an alert is invalid without its declaration.
evaluate_decision(d, o) ==
    CASE d.label = "SILENT" ->
             Graded(d, IF o.pattern /\ o.gain >= 3 THEN "missed_opportunity" ELSE "true_silent")
      [] d.label = "ERROR" -> Graded(d, "not_evaluated")
      [] d.label = "ALERT" ->
             Graded(d, IF ~d.complete \/ ~d.declared THEN "invalid"
                       ELSE IF o.gain < 0 /\ o.adverse <= -3 THEN "false_alert" ELSE "useful_alert")

\* How many of n calls or samples failed in a row up to the last.
Trailing(n, failed) == Cardinality({i \in 1 .. n : i .. n \subseteq failed})
=============================================================================
