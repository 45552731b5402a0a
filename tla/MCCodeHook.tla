----------------------------- MODULE MCCodeHook -----------------------------
(***************************************************************************)
(* Small instances of CodeHook.  Every way through hot_patch and hook_code *)
(* has a function; a padded function that begins with a short jump is left *)
(* out (hot_patch moves it without correcting it).                         *)
(***************************************************************************)
EXTENDS CodeHook, TLC

I(k, n) == [k |-> k, n |-> n]
F(p, c) == [pad |-> p, code |-> c]

SmallShapes ==
  {F(TRUE,  <<I("mov", 2), I("op", 3)>>),                  \* hot patch
   F(TRUE,  <<I("op", 2), I("op", 3), I("op", 1)>>),       \* with a buffer
   F(TRUE,  <<I("op", 1), I("call", 5)>>),                 \* first one too short
   F(FALSE, <<I("op", 2), I("op", 3), I("op", 2)>>),       \* splice
   F(FALSE, <<I("jcc", 6), I("op", 1)>>),                  \* rel32 at offset 2
   F(FALSE, <<I("op", 3), I("rel8", 2), I("op", 1)>>)}     \* cannot be moved

CpuSymmetry == Permutations(Cpus)
=============================================================================
