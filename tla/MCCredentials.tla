------------------------------ MODULE MCCredentials -----------------------------
(***************************************************************************)
(* Credentials for TLC: links, requests and words are alike.               *)
(***************************************************************************)
EXTENDS Credentials, TLC

Symmetry ==
    Permutations(Links) \cup Permutations(Visits) \cup Permutations(Words)
===============================================================================
