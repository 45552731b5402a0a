------------------------------ MODULE MCLdasm ------------------------------
(***************************************************************************)
(* Inputs for Ldasm: no prefix, each size prefix, both, and a segment      *)
(* override; ModRM bytes with every mod, the values of rm that matter and  *)
(* reg 0 or not; SIB bytes with and without a base.                        *)
(***************************************************************************)
EXTENDS Ldasm

SmallPrefixes == {<< >>, <<102>>, <<103>>, <<102, 103>>, <<46, 102>>}
SmallModRMs == {64 * mod + 8 * reg + rm : mod \in 0 .. 3, reg \in {0, 1}, rm \in {0, 4, 5, 6}}
SmallSibs == {32, 37}
=============================================================================
