---------------------------- MODULE MCRetention -----------------------------
(***************************************************************************)
(* Small instances of Retention.                                           *)
(***************************************************************************)
EXTENDS Retention, TLC

\* Children and years are interchangeable; so are photographs.
RetentionSymmetry ==
    Permutations(Students) \cup Permutations(Years) \cup Permutations(Photos)
=============================================================================
