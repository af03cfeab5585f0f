------------------------------- MODULE MCChat -------------------------------
(* Small instances of the main window for TLC.                               *)
EXTENDS Chat, TLC
=============================================================================
