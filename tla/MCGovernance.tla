------------------------------ MODULE MCGovernance ------------------------------
(* Strategy governance on a small instance. *)
EXTENDS Governance, TLC

\* The threshold itself; a payload without a count falls below it, or takes the
\* profile's.
MCSampleCounts == {20}

ThreadSymmetry == Permutations(Threads)
================================================================================
