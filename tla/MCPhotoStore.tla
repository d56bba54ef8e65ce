---------------------------- MODULE MCPhotoStore ----------------------------
(***************************************************************************)
(* PhotoStore on a small instance: see MCPhotoStore.cfg (everything that   *)
(* holds) and MCPhotoStoreErasure.cfg (the thumbnail that outlives its     *)
(* row).                                                                   *)
(***************************************************************************)
EXTENDS PhotoStore, TLC

PhotoSymmetry == Permutations(Photos)
=============================================================================
