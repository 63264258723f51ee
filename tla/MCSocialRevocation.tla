------------------------- MODULE MCSocialRevocation -------------------------
(***************************************************************************)
(* Small instances of SocialRevocation for TLC.                            *)
(***************************************************************************)
EXTENDS SocialRevocation, TLC

WorkerSymmetry == Permutations(Workers)
=============================================================================
