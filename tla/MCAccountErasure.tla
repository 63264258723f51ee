-------------------------- MODULE MCAccountErasure --------------------------
(***************************************************************************)
(* Small instances of AccountErasure for TLC.                              *)
(***************************************************************************)
EXTENDS AccountErasure, TLC

WorkerSymmetry == Permutations(Workers)
=============================================================================
