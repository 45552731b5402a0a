----------------------------- MODULE MCSession -----------------------------
(***************************************************************************)
(* A small instance of Session for TLC.                                    *)
(***************************************************************************)
EXTENDS Session, TLC

CONSTANTS D, Q, d1, d2, q1

\* Two threads of a debugger D, one thread of a debuggee Q.
TwoAndOne == (d1 :> D) @@ (d2 :> D) @@ (q1 :> Q)
=============================================================================
