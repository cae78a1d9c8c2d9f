------------------------------ MODULE MCL6470 -------------------------------
(* The three axes of the arm as instances of the L6470 module, for TLC.    *)
(* The limits are hit at -2 and 2: beyond each is a cell for a deceleration *)
(* to end on, and there is one between each and the origin's edge.         *)
EXTENDS L6470

LowCell == -3
ReverseAt == -2       \* BASE's reverse limit
NoReverse == -4       \* SHOULDER and ELBOW have none

Arm == {[home |-> home, reverse |-> reverse, works |-> works] :
          <<home, reverse>> \in {<<Forward, ReverseAt>>,    \* BASE
                                <<Forward, NoReverse>>,    \* SHOULDER
                                <<Reverse, NoReverse>>},   \* ELBOW
          works \in BOOLEAN}
=============================================================================
