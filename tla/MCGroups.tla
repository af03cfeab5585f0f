----------------------------- MODULE MCGroups -----------------------------
(* Small instances of a group for TLC.                                       *)
EXTENDS Groups, TLC

(* Everybody has a chat with everybody.                                      *)
Everybody == Users \X Users

Symmetry == Permutations(Users)
=============================================================================
