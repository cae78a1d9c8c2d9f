------------------------------ MODULE MCScript ------------------------------
(* The scripts with their bounds, for TLC.                                 *)
EXTENDS Script
=============================================================================
