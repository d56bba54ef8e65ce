-------------------------------- MODULE MCDiary --------------------------------
(***************************************************************************)
(* Diary for TLC: rooms, years, guardians, entries and requests are alike. *)
(***************************************************************************)
EXTENDS Diary, TLC

Symmetry ==
    UNION {Permutations(Rooms), Permutations(Years), Permutations(Guardians), Permutations(Entries),
           Permutations(Publishes), Permutations(Answers)}
===============================================================================
