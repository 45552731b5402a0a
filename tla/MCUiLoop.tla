------------------------------ MODULE MCUiLoop ------------------------------
(***************************************************************************)
(* Small instances of UiLoop for TLC.                                      *)
(***************************************************************************)
EXTENDS UiLoop

CONSTANTS t1, t2, run

=============================================================================
