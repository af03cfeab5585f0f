----------------------------- MODULE MCPrekeys -----------------------------
(* Small instances of the prekey life cycle for TLC.                         *)
EXTENDS Prekeys, TLC

Symmetry == Permutations(Peers)
=============================================================================
