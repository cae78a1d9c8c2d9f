----------------------------- MODULE MCCommands -----------------------------
(* The commands with their bounds, for TLC.                                *)
EXTENDS Commands
=============================================================================
