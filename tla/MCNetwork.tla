----------------------------- MODULE MCNetwork -----------------------------
(* Small instances of one client's connection for TLC.                       *)
EXTENDS Network, TLC
=============================================================================
