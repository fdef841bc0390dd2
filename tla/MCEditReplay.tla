---------------------------- MODULE MCEditReplay ----------------------------
(* Instances of EditReplay for TLC. *)
EXTENDS EditReplay, TLC

WordSymmetry == Permutations(Words)
=============================================================================
