------------------------------ MODULE MCAdmissions ------------------------------
(***************************************************************************)
(* Admissions for TLC: enquiries, children and requests are alike.  A      *)
(* number is written as clean_phone leaves it, with the country code it    *)
(* takes off, and with the code after two zeros, which it refuses.         *)
(***************************************************************************)
EXTENDS Admissions, TLC

\* 98765 43210 once cleaned; +91 98765 43210; 0091 98765 43210.
MCWays == {Plain, [lead |-> <<9, 1>>, spaced |-> TRUE], [lead |-> <<0, 0, 9, 1>>, spaced |-> TRUE]}

Symmetry == Permutations(Enquiries) \cup Permutations(Children) \cup Permutations(Posts)
===============================================================================
