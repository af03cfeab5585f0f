----------------------------- MODULE MCSession -----------------------------
(* Small instances of the pairwise session for TLC.                          *)
EXTENDS Session, TLC

Symmetry == Permutations(Tasks) \cup Permutations(Users)
=============================================================================
