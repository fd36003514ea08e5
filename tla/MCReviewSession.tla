---------------------------- MODULE MCReviewSession ----------------------------
(* One review session with two concurrent turns and one cancellation. *)
EXTENDS ReviewSession, TLC

TurnSymmetry == Permutations(Turns)
================================================================================
