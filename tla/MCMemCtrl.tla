----------------------------- MODULE MCMemCtrl ------------------------------
(***************************************************************************)
(* A small instance of MemCtrl for TLC: 8 by 16 pixel characters, so that  *)
(* the borders are at 90, 484 and 622 once there is a dump; mouse          *)
(* positions on borders, in cells and between two cells.                   *)
(***************************************************************************)
EXTENDS MemCtrl

Xs == {91, 103, 484, 495}
StrayReads == {[i \in 0 .. 2 |-> TRUE], [i \in 0 .. 2 |-> FALSE]}

=============================================================================
