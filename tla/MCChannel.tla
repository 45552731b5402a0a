----------------------------- MODULE MCChannel -----------------------------
(***************************************************************************)
(* Small instances of Channel for TLC.  Senders are interchangeable when    *)
(* all or none of them are killable.                                       *)
(***************************************************************************)
EXTENDS ChannelRefinement, TLC

SenderSymmetry == Permutations(Senders)
=============================================================================
