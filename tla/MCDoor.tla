--------------------------------- MODULE MCDoor ---------------------------------
(***************************************************************************)
(* Door for TLC: one child has a record on the first day, the other on the *)
(* second.                                                                 *)
(***************************************************************************)
EXTENDS Door, TLC

CONSTANTS s1, s2

TwoDays == {<<s1, 0>>, <<s2, 1>>}

Symmetry == Permutations(Posts)
===============================================================================
