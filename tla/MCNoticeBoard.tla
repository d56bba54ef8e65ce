------------------------------ MODULE MCNoticeBoard ------------------------------
(***************************************************************************)
(* NoticeBoard for TLC: two branches with a child at each, and two rooms   *)
(* at the first, which are interchangeable, as are the years and requests. *)
(***************************************************************************)
EXTENDS NoticeBoard, TLC

CONSTANTS c1, c2, r1, r2, b1, b2

Homes == c1 :> b1 @@ c2 :> b2
Houses == r1 :> b1 @@ r2 :> b1

Symmetry == Permutations(Editors) \cup Permutations(Years) \cup Permutations(Rooms)
===============================================================================
