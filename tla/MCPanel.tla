------------------------------ MODULE MCPanel -------------------------------
(* The panel with its bounds, for TLC.                                     *)
EXTENDS Panel

(* The base and the shoulder.                                              *)
TwoAxes == {0, 1}
=============================================================================
