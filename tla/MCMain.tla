------------------------------- MODULE MCMain -------------------------------
(* The program with its bounds, for TLC; what may be typed goes past both  *)
(* ends of the range.                                                      *)
EXTENDS Main

TypedEntries == {-50, 60, 400}
=============================================================================
