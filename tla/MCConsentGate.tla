--------------------------- MODULE MCConsentGate ----------------------------
(***************************************************************************)
(* ConsentGate on small instances: MCConsentGate.cfg (two children, two    *)
(* guardians and two numbers they may swap), MCConsentGateAccounts.cfg     *)
(* (whose answers an account carries) and MCConsentGateDay.cfg (the day's  *)
(* publish over two photographs).                                          *)
(***************************************************************************)
EXTENDS ConsentGate, TLC

GateSymmetry ==
    Permutations(Students) \cup Permutations(Guardians) \cup Permutations(Phones)
        \cup Permutations(Photos) \cup Permutations(Teachers)
=============================================================================
