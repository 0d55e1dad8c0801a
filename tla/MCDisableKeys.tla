---------------------------- MODULE MCDisableKeys ----------------------------
(* Small instances of DisableKeys for TLC. *)
EXTENDS DisableKeys, TLC

MCSymmetry == Permutations(Jobs) \cup Permutations(Masks)
=============================================================================
