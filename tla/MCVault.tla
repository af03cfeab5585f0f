------------------------------ MODULE MCVault ------------------------------
(* Small instances of signing in for TLC.                                    *)
EXTENDS Vault, TLC

Symmetry == Permutations(Tasks) \cup Permutations(Passwords)
=============================================================================
