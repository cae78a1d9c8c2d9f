------------------------------ MODULE MCRobot -------------------------------
(* The Robot class with its constants, for TLC.                            *)
EXTENDS Robot
=============================================================================
