------------------------------- MODULE MCGui --------------------------------
(***************************************************************************)
(* A small instance of Gui for TLC.  Code around 16 and 272, so that a     *)
(* UCHAR confuses the two: the instructions at 16, 18 and 19, of which the *)
(* texts of the first and the last have no space, and at 272, after which  *)
(* 275 does not decode.  Threads 4 and 260.                                *)
(***************************************************************************)
EXTENDS Gui

CONSTANTS g1, g2, cpuPane, logPane

Code == 16 .. 285
Lengths == [a \in Code |-> IF a = 275 THEN 0 ELSE 1 + (a % 3)]
Spaced == [a \in Code |-> a \notin {16, 19}]

=============================================================================
