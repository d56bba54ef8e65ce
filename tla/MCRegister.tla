------------------------------ MODULE MCRegister ------------------------------
(***************************************************************************)
(* Register for TLC: children, rooms and years are interchangeable.        *)
(***************************************************************************)
EXTENDS Register, TLC

Symmetry == Permutations(Students) \cup Permutations(Rooms) \cup Permutations(Years)
===============================================================================
