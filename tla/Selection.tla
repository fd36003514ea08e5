------------------------------ MODULE Selection ------------------------------
(***************************************************************************)
(* The elements of a sequence that are in a set, in their order.  It is    *)
(* what SelectSeq gives for membership in the set; written as a fold it    *)
(* can be reasoned about, for the provers know nothing of SelectSeq.       *)
(***************************************************************************)
EXTENDS SequencesExt

Selected(seq, S) ==
    FoldLeft(LAMBDA out, x : IF x \in S THEN Append(out, x) ELSE out, << >>, seq)
=============================================================================
