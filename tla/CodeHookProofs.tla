--------------------------- MODULE CodeHookProofs ---------------------------
(***************************************************************************)
(* The barrier of global_lock and the patched code, for any number of      *)
(* processors and hooks and for functions of any length.                   *)
(*                                                                         *)
(* While hook_code overwrites a prologue every other processor is held in  *)
(* its DPC, and the array of DPCs is freed exactly once, after the last    *)
(* use (BarrierInv).  A call that meets hooks being set executes whole     *)
(* instructions only, the function's own once and in order, and every hook *)
(* that was set when it began (CodeInv: what is in the function's bytes at *)
(* each step of set_hook, where each old_proc leads, and where a processor *)
(* may be with what it has then executed).                                 *)
(***************************************************************************)
EXTENDS CodeHook, FiniteSetTheorems, SequenceTheorems, WellFoundedInduction, TLAPS

-----------------------------------------------------------------------------
\* The barrier.

\* Processors whose DPC has not begun; held in it; still to pass dpc_refs;
\* still to pass out_dpcs.
Pending == todo \cup queued
ToRefs == Pending \cup {c \in Cpus : dpc[c] \in {"spin", "refs"}}
ToOut  == Pending \cup {c \in Cpus : dpc[c] # "none"}

Locked == {"lock_queue", "splice_op", "splice_rel", "unlock"}
Pcs == Locked \cup {"idle", "hot", "hot_op", "hot_rel", "hot_short", "double",
                    "code", "lock", "unlock_wait", "ret"}

BarrierType ==
  /\ pc \in Pcs /\ todo \subseteq Cpus /\ queued \subseteq Cpus
  /\ dpc \in [Cpus -> {"none", "spin", "refs", "out"}]
  /\ todo \cap queued = {} /\ \A c \in Pending : dpc[c] = "none"

\* The three counters are what their names say, also between two locks.
CountInv ==
  /\ inp_dpcs = Cardinality(Pending)
  /\ dpc_refs = Cardinality(ToRefs)
  /\ out_dpcs = Cardinality(ToOut)

HoldInv ==
  /\ locked <=> pc \in Locked
  /\ pc \notin Locked \cup {"unlock_wait"} => ToOut = {}
  /\ pc \in Locked => \A c \in Cpus : c \in Pending \/ dpc[c] = "spin"
  /\ pc \in {"splice_op", "splice_rel", "unlock", "unlock_wait"} => Pending = {}

PoolInv == /\ ToRefs # {} => pool = "live"
           /\ ToRefs = {} /\ Cpus # {} => pool # "live"

BarrierInv == BarrierType /\ CountInv /\ HoldInv /\ PoolInv

LEMMA SetsFinite ==
  ASSUME BarrierType
  PROVE  /\ IsFiniteSet(Pending) /\ IsFiniteSet(ToRefs) /\ IsFiniteSet(ToOut)
         /\ Cardinality(Pending) \in Nat /\ Cardinality(ToRefs) \in Nat
         /\ Cardinality(ToOut) \in Nat
<1>1. Pending \subseteq Cpus /\ ToRefs \subseteq Cpus /\ ToOut \subseteq Cpus
  BY DEF BarrierType, Pending, ToRefs, ToOut
<1> QED BY <1>1, CodeHookAssumption, FS_Subset, FS_CardinalityType

\* A counter that is zero counts nobody.
LEMMA NobodyLeft ==
  ASSUME BarrierType, CountInv
  PROVE  /\ inp_dpcs = 0 <=> Pending = {}
         /\ out_dpcs = 0 <=> ToOut = {}
         /\ dpc_refs = 0 <=> ToRefs = {}
BY SetsFinite, FS_EmptySet DEF CountInv

LEMMA BarrierSame ==
  ASSUME BarrierInv, UNCHANGED <<barrier, dpc>>, pc' \in Pcs \ (Locked \cup {"unlock_wait"}),
         pc \notin Locked \cup {"unlock_wait"}
  PROVE  BarrierInv'
<1> USE DEF barrier
<1>1. Pending' = Pending /\ ToRefs' = ToRefs /\ ToOut' = ToOut
  BY DEF Pending, ToRefs, ToOut
<1>2. BarrierType' BY <1>1 DEF BarrierInv, BarrierType
<1>3. CountInv' BY <1>1 DEF BarrierInv, CountInv
<1>4. HoldInv' BY <1>1 DEF BarrierInv, HoldInv, Locked
<1>5. PoolInv' BY <1>1 DEF BarrierInv, PoolInv
<1> QED BY <1>2, <1>3, <1>4, <1>5 DEF BarrierInv

\* set_hook outside global_lock and global_unlock.
LEMMA PatchSteps ==
  ASSUME BarrierInv, hot_patch \/ CodeRefused \/ CodeMove \/ Begin \/ Return
  PROVE  BarrierInv'
BY BarrierSame
   DEF hot_patch, HotRefused, HotCheck, HotOp, HotRel, HotShort, DoubleCheck, DoubleOld,
       DoublePatch, CodeRefused, CodeMove, Begin, Return, Go, Pcs, Locked

LEMMA LockSteps ==
  ASSUME BarrierInv, LockInit \/ LockQueue \/ LockWait
  PROVE  BarrierInv'
<1>1. CASE LockInit
  <2> USE <1>1 DEF LockInit, Go
  <2>1. todo = {} /\ queued = {} /\ \A c \in Cpus : dpc[c] = "none"
    BY DEF BarrierInv, HoldInv, ToOut, Pending, Locked
  <2>2. todo' = Cpus /\ queued' = {} /\ dpc' = dpc
    BY <2>1
  <2>3. Pending' = Cpus /\ ToRefs' = Cpus /\ ToOut' = Cpus
    BY <2>1, <2>2 DEF Pending, ToRefs, ToOut
  <2>4. BarrierType'
    BY <2>1, <2>2, <2>3 DEF BarrierInv, BarrierType, Pcs, Locked
  <2>5. CountInv'
    BY <2>3 DEF CountInv, DpcRefsInit
  <2>6. HoldInv' /\ PoolInv'
    BY <2>3 DEF HoldInv, PoolInv, Locked
  <2> QED BY <2>4, <2>5, <2>6 DEF BarrierInv
<1>2. CASE LockQueue
  <2> USE <1>2 DEF LockQueue
  <2>1. PICK c \in todo : todo' = todo \ {c} /\ queued' = queued \cup {c}
    OBVIOUS
  <2>2. UNCHANGED <<pc, dpc, locked, inp_dpcs, out_dpcs, dpc_refs, pool>>
    OBVIOUS
  <2>3. Pending' = Pending /\ ToRefs' = ToRefs /\ ToOut' = ToOut
    BY <2>1, <2>2 DEF Pending, ToRefs, ToOut
  <2>4. BarrierType'
    BY <2>1, <2>2, <2>3 DEF BarrierInv, BarrierType
  <2>5. CountInv' /\ HoldInv' /\ PoolInv'
    BY <2>2, <2>3 DEF BarrierInv, CountInv, HoldInv, PoolInv
  <2> QED BY <2>4, <2>5 DEF BarrierInv
<1>3. CASE LockWait
  <2> USE <1>3 DEF LockWait, Go, barrier
  <2>1. Pending = {}
    BY NobodyLeft DEF BarrierInv
  <2>2. Pending' = Pending /\ ToRefs' = ToRefs /\ ToOut' = ToOut
    BY DEF Pending, ToRefs, ToOut
  <2>3. BarrierType' /\ CountInv' /\ PoolInv'
    BY <2>2 DEF BarrierInv, BarrierType, CountInv, PoolInv, Pcs, Locked
  <2>4. HoldInv'
    BY <2>1, <2>2 DEF BarrierInv, HoldInv, Locked
  <2> QED BY <2>3, <2>4 DEF BarrierInv
<1> QED BY <1>1, <1>2, <1>3

LEMMA UnlockSteps ==
  ASSUME BarrierInv, SpliceOp \/ SpliceRel \/ Unlock \/ UnlockWait
  PROVE  BarrierInv'
<1> USE DEF Go, barrier
<1>1. UNCHANGED <<todo, queued, dpc, inp_dpcs, out_dpcs, dpc_refs, pool>>
  BY DEF SpliceOp, SpliceRel, Unlock, UnlockWait
<1>2. Pending' = Pending /\ ToRefs' = ToRefs /\ ToOut' = ToOut
  BY <1>1 DEF Pending, ToRefs, ToOut
<1>3. pc' \in Pcs
  BY DEF SpliceOp, SpliceRel, Unlock, UnlockWait, Pcs, Locked
<1>4. BarrierType' /\ CountInv' /\ PoolInv'
  BY <1>1, <1>2, <1>3 DEF BarrierInv, BarrierType, CountInv, PoolInv
<1>5. ASSUME SpliceOp \/ SpliceRel PROVE HoldInv'
  <2>1. /\ pc \in {"splice_op", "splice_rel"} /\ pc' \in {"splice_rel", "unlock"}
        /\ locked' = locked
    BY <1>5 DEF SpliceOp, SpliceRel
  <2>2. locked'
    BY <2>1 DEF BarrierInv, HoldInv, Locked
  <2>3. Pending = {} /\ \A c \in Cpus : dpc[c] = "spin"
    BY <2>1 DEF BarrierInv, HoldInv, Locked
  <2>4. pc' \in Locked /\ pc' # "unlock_wait"
    BY <2>1 DEF Locked
  <2> QED BY <1>1, <1>2, <2>2, <2>3, <2>4 DEF HoldInv
<1>6. ASSUME Unlock PROVE HoldInv'
  <2>1. Pending = {} /\ pc' = "unlock_wait" /\ ~locked'
    BY <1>6 DEF BarrierInv, HoldInv, Unlock
  <2>2. pc' \notin Locked
    BY <2>1 DEF Locked
  <2> QED BY <1>2, <2>1, <2>2 DEF HoldInv
<1>7. ASSUME UnlockWait PROVE HoldInv'
  <2>1. ToOut = {}
    BY <1>7, NobodyLeft DEF BarrierInv, UnlockWait
  <2>2. ~locked' /\ pc' = "ret"
    BY <1>7 DEF BarrierInv, HoldInv, UnlockWait, Locked
  <2>3. pc' \notin Locked
    BY <2>2 DEF Locked
  <2> QED BY <1>2, <2>1, <2>2, <2>3 DEF HoldInv
<1>8. HoldInv'
  BY <1>5, <1>6, <1>7 DEF BarrierInv
<1> QED BY <1>4, <1>8 DEF BarrierInv

\* global_lock_proc: each statement takes its processor out of one count.
LEMMA DpcSteps ==
  ASSUME BarrierInv, NEW c \in Cpus, global_lock_proc(c)
  PROVE  BarrierInv'
<1>0. BarrierType /\ CountInv /\ HoldInv /\ PoolInv
  BY DEF BarrierInv
<1>1. /\ dpc \in [Cpus -> {"none", "spin", "refs", "out"}]
      /\ \A b \in Cpus : b # c => dpc'[b] = dpc[b]
  BY <1>0 DEF BarrierType, global_lock_proc, DpcEnter, DpcSpin, DpcRefs, DpcOut, DpcGo
<1>2. CASE DpcEnter(c)
  <2> USE <1>2 DEF DpcEnter, DpcGo
  <2>1. c \in queued /\ c \notin todo /\ dpc[c] = "none" /\ dpc'[c] = "spin"
    BY <1>0, <1>1 DEF BarrierType
  <2>2. Pending' = Pending \ {c} /\ ToRefs' = ToRefs /\ ToOut' = ToOut /\ c \in Pending
    BY <1>0, <1>1, <2>1 DEF BarrierType, Pending, ToRefs, ToOut
  <2>3. BarrierType'
    BY <1>0, <1>1, <2>1, <2>2 DEF BarrierType
  <2>4. Cardinality(Pending \ {c}) = Cardinality(Pending) - 1
    BY <1>0, <2>2, SetsFinite, FS_RemoveElement
  <2>5. CountInv'
    BY <1>0, <2>2, <2>4 DEF CountInv
  <2>6. PoolInv'
    BY <1>0, <2>2 DEF PoolInv
  <2>7. HoldInv'
    BY <1>0, <1>1, <2>1, <2>2 DEF HoldInv
  <2> QED BY <2>3, <2>5, <2>6, <2>7 DEF BarrierInv
<1>3. CASE DpcSpin(c)
  <2> USE <1>3 DEF DpcSpin, DpcGo, barrier
  <2>1. dpc[c] = "spin" /\ dpc'[c] = "refs" /\ pc \notin Locked
    BY <1>0, <1>1 DEF HoldInv
  <2>2. Pending' = Pending
    BY DEF Pending
  <2>3. ToRefs' = ToRefs /\ ToOut' = ToOut
    BY <1>0, <1>1, <2>1, <2>2 DEF ToRefs, ToOut
  <2>4. BarrierType'
    BY <1>0, <1>1, <2>1, <2>2 DEF BarrierType
  <2>5. CountInv' /\ PoolInv' /\ HoldInv'
    BY <1>0, <2>1, <2>2, <2>3 DEF CountInv, PoolInv, HoldInv
  <2> QED BY <2>4, <2>5 DEF BarrierInv
<1>4. CASE DpcRefs(c)
  <2> USE <1>4 DEF DpcRefs, DpcGo
  <2>1. dpc[c] = "refs" /\ dpc'[c] = "out" /\ c \notin Pending /\ pc \notin Locked
    BY <1>0, <1>1 DEF HoldInv, BarrierType
  <2>2. Pending' = Pending
    BY DEF Pending
  <2>3. ToRefs' = ToRefs \ {c} /\ ToOut' = ToOut /\ c \in ToRefs
    BY <1>0, <1>1, <2>1, <2>2 DEF ToRefs, ToOut
  <2>4. BarrierType'
    BY <1>0, <1>1, <2>1, <2>2 DEF BarrierType
  <2>5. Cardinality(ToRefs \ {c}) = Cardinality(ToRefs) - 1
    BY <1>0, <2>3, SetsFinite, FS_RemoveElement
  <2>6. CountInv'
    BY <1>0, <2>2, <2>3, <2>5 DEF CountInv
  <2>7. HoldInv'
    BY <1>0, <2>1, <2>2, <2>3 DEF HoldInv
  <2>8. PoolInv'
    <3>1. dpc_refs' = dpc_refs - 1 /\ dpc_refs \in Nat
      BY <1>0, SetsFinite DEF CountInv
    <3>2. ToRefs' = {} <=> dpc_refs = 1
      <4>1. IsFiniteSet(ToRefs \ {c}) /\ dpc_refs - 1 = Cardinality(ToRefs \ {c})
        BY <1>0, <2>5, SetsFinite, FS_Subset DEF CountInv
      <4>2. Cardinality(ToRefs \ {c}) = 0 <=> ToRefs \ {c} = {}
        BY <4>1, FS_EmptySet
      <4> QED BY <2>3, <3>1, <4>1, <4>2
    <3> QED BY <1>0, <2>3, <3>2 DEF PoolInv
  <2> QED BY <2>4, <2>6, <2>7, <2>8 DEF BarrierInv
<1>5. CASE DpcOut(c)
  <2> USE <1>5 DEF DpcOut, DpcGo
  <2>1. dpc[c] = "out" /\ dpc'[c] = "none" /\ c \notin Pending /\ pc \notin Locked
    BY <1>0, <1>1 DEF HoldInv, BarrierType
  <2>2. Pending' = Pending
    BY DEF Pending
  <2>3. ToRefs' = ToRefs /\ ToOut' = ToOut \ {c} /\ c \in ToOut
    BY <1>0, <1>1, <2>1, <2>2 DEF ToRefs, ToOut
  <2>4. BarrierType'
    BY <1>0, <1>1, <2>1, <2>2 DEF BarrierType
  <2>5. Cardinality(ToOut \ {c}) = Cardinality(ToOut) - 1
    BY <1>0, <2>3, SetsFinite, FS_RemoveElement
  <2>6. CountInv' /\ HoldInv' /\ PoolInv'
    BY <1>0, <2>1, <2>2, <2>3, <2>5 DEF CountInv, HoldInv, PoolInv
  <2> QED BY <2>4, <2>6 DEF BarrierInv
<1> QED BY <1>2, <1>3, <1>4, <1>5 DEF global_lock_proc

LEMMA BarrierStep == BarrierInv /\ [Next]_vars => BarrierInv'
<1> SUFFICES ASSUME BarrierInv, [Next]_vars PROVE BarrierInv'
  OBVIOUS
<1>1. CASE UNCHANGED <<pc, barrier, dpc>>
  <2> USE <1>1 DEF barrier
  <2>1. Pending' = Pending /\ ToRefs' = ToRefs /\ ToOut' = ToOut
    BY DEF Pending, ToRefs, ToOut
  <2> QED BY <2>1 DEF BarrierInv, BarrierType, CountInv, HoldInv, PoolInv
<1>2. ASSUME NEW c \in Cpus, Processor(c)
      PROVE  UNCHANGED <<pc, barrier, dpc>>
  BY <1>2 DEF Processor, Call, Execute, Leave, NewProc, Quiet
<1>3. UNCHANGED vars => UNCHANGED <<pc, barrier, dpc>>
  BY DEF vars
<1> QED BY <1>1, <1>2, <1>3, PatchSteps, LockSteps, UnlockSteps, DpcSteps
        DEF Next, set_hook, hook_code

LEMMA BarrierInvariant == Spec => []BarrierInv
<1>1. Init => BarrierInv
  <2> SUFFICES ASSUME Init PROVE BarrierInv
    OBVIOUS
  <2>1. Pending = {} /\ ToRefs = {} /\ ToOut = {}
    BY DEF Init, Pending, ToRefs, ToOut
  <2>2. BarrierType
    BY <2>1 DEF Init, BarrierType, Pcs
  <2>3. CountInv
    BY <2>1, FS_EmptySet DEF Init, CountInv
  <2>4. HoldInv /\ PoolInv
    BY <2>1 DEF Init, HoldInv, PoolInv, Locked
  <2> QED BY <2>2, <2>3, <2>4 DEF BarrierInv
<1> QED BY <1>1, BarrierStep, PTL DEF Spec

\* Any number of processors, any function, any number of hooks: when
\* hook_code writes its jump over the prologue, global_lock has every other
\* processor spinning in its DPC.
THEOREM PatchesAlone == Spec => []PatchAlone
<1>1. BarrierInv => PatchAlone
  BY DEF BarrierInv, HoldInv, PatchAlone, Locked
<1> QED BY <1>1, BarrierInvariant, PTL

\* The array of DPCs is there as long as a DPC is queued or has not passed its
\* reference count, and the last DPC has freed it when set_hook returns.
THEOREM PoolIsExact == Spec => []PoolExact
<1>1. BarrierInv => PoolExact
  <2> SUFFICES ASSUME BarrierInv PROVE PoolExact
    OBVIOUS
  <2>1. queued # {} \/ (\E c \in Cpus : dpc[c] \in {"spin", "refs"}) => ToRefs # {}
    BY DEF ToRefs, Pending
  <2>2. pc = "idle" => ToRefs = {}
    BY DEF BarrierInv, HoldInv, ToRefs, ToOut, Locked
  <2> QED BY <2>1, <2>2 DEF BarrierInv, PoolInv, PoolExact
<1> QED BY <1>1, BarrierInvariant, PTL

-----------------------------------------------------------------------------
\* The bytes of a function: where its instructions begin.

LEMMA SetInduction ==
  ASSUME NEW S, 0 \in S, \A n \in Nat : n \in S => n + 1 \in S
  PROVE  \A n \in Nat : n \in S
<1> DEFINE T == {n \in Nat : n \notin S}
<1>1. SUFFICES ASSUME T # {} PROVE FALSE
  OBVIOUS
<1>2. PICK n \in T : \A y \in T : ~(<<y, n>> \in OpToRel(<, Nat))
  BY <1>1, WFMin, NatLessThanWellFounded
<1>3. \A y \in T : ~(y < n)
  BY <1>2 DEF OpToRel
<1>4. n \in Nat /\ n # 0
  OBVIOUS
<1>5. n - 1 \in Nat /\ n - 1 < n /\ (n - 1) + 1 = n
  BY <1>4
<1> QED BY <1>3, <1>5

\* Where the instructions of a function begin.
OffEq(f, s, n) ==
  f = [i \in 1 .. n + 1 |-> IF i = 1 THEN 0 ELSE f[i - 1] + s.code[i - 1].n]

LEMMA Shape ==
  ASSUME NEW s \in Shapes
  PROVE  /\ Len(s.code) \in Nat \ {0}
         /\ \A i \in 1 .. Len(s.code) :
              /\ s.code[i].n \in 1 .. 15 /\ s.code[i].n \in Nat /\ s.code[i].k \in Kinds
              /\ s.code[i].k \in Relative => s.code[i].n >= 5
         /\ s.pad => s.code[1].k # "rel8"
<1> DEFINE C == [k : Kinds, n : 1 .. 15]
<1>1. /\ s \in [pad : BOOLEAN, code : Seq(C)] /\ Len(s.code) > 0
      /\ \A i \in 1 .. Len(s.code) : /\ s.code[i].k = "call" => s.code[i].n = 5
                                     /\ s.code[i].k = "jcc" => s.code[i].n = 6
      /\ s.pad => s.code[1].k # "rel8"
  BY CodeHookAssumption
<1> HIDE DEF C
<1>2. s.code \in Seq(C)
  BY <1>1
<1>3. Len(s.code) \in Nat \ {0} /\ \A i \in 1 .. Len(s.code) : s.code[i] \in C
  BY <1>1, <1>2
<1>4. \A c \in C : c.n \in 1 .. 15 /\ c.n \in Nat /\ c.k \in Kinds
  BY DEF C
<1>5. ASSUME NEW i \in 1 .. Len(s.code), s.code[i].k \in Relative PROVE s.code[i].n >= 5
  <2>1. s.code[i].k \in Kinds
    BY <1>3, <1>4
  <2>2. s.code[i].k \in {"call", "jcc"}
    BY <1>5, <2>1 DEF Relative, Kinds
  <2> QED BY <1>1, <2>2
<1> QED BY <1>1, <1>3, <1>4, <1>5

LEMMA OffExists ==
  ASSUME NEW s \in Shapes
  PROVE  \E f \in [1 .. Len(s.code) + 1 -> Nat] : OffEq(f, s, Len(s.code))
<1> DEFINE L == Len(s.code)
           S == {n \in Nat : n <= L => \E f \in [1 .. n + 1 -> Nat] : OffEq(f, s, n)}
<1>1. 0 \in S
  <2> DEFINE f == [i \in 1 .. 0 + 1 |-> 0]
  <2>1. f \in [1 .. 0 + 1 -> Nat]
    OBVIOUS
  <2>2. f = [i \in 1 .. 0 + 1 |-> IF i = 1 THEN 0 ELSE f[i - 1] + s.code[i - 1].n]
    OBVIOUS
  <2> QED BY <2>1, <2>2 DEF OffEq
<1>2. ASSUME NEW n \in Nat, n \in S PROVE n + 1 \in S
  <2>1. SUFFICES ASSUME n + 1 <= L
                 PROVE  \E f \in [1 .. (n + 1) + 1 -> Nat] : OffEq(f, s, n + 1)
    OBVIOUS
  <2>2. n <= L /\ L \in Nat
    BY <2>1, Shape
  <2>3. PICK g \in [1 .. n + 1 -> Nat] : OffEq(g, s, n)
    BY <1>2, <2>2
  <2>4. PICK m \in Nat : m = s.code[n + 1].n
    <3>1. n + 1 \in 1 .. L
      BY <2>1, <2>2
    <3> QED BY <3>1, Shape
  <2> DEFINE f == [i \in 1 .. (n + 1) + 1 |-> IF i = n + 2 THEN g[n + 1] + m ELSE g[i]]
  <2>5. ASSUME NEW i \in 1 .. (n + 1) + 1
        PROVE  f[i] \in Nat /\ f[i] = IF i = 1 THEN 0 ELSE f[i - 1] + s.code[i - 1].n
    <3>1. CASE i = n + 2
      <4>1. f[n + 1] = g[n + 1] /\ f[i] = g[n + 1] + m /\ i # 1 /\ i - 1 = n + 1 /\ g[n + 1] \in Nat
        BY <3>1
      <4> HIDE DEF f
      <4> QED BY <2>4, <4>1
    <3>2. CASE i # n + 2
      <4>1. i \in 1 .. n + 1 /\ f[i] = g[i] /\ (i # 1 => f[i - 1] = g[i - 1])
        BY <3>2
      <4>2. g[i] = IF i = 1 THEN 0 ELSE g[i - 1] + s.code[i - 1].n
        BY <2>3, <4>1 DEF OffEq
      <4> HIDE DEF f
      <4> QED BY <4>1, <4>2
    <3> QED BY <3>1, <3>2
  <2>6. f = [i \in 1 .. (n + 1) + 1 |-> f[i]]
    OBVIOUS
  <2> HIDE DEF f
  <2>7. f \in [1 .. (n + 1) + 1 -> Nat]
    BY <2>5, <2>6
  <2>8. OffEq(f, s, n + 1)
    BY <2>5, <2>6 DEF OffEq
  <2> QED BY <2>7, <2>8
<1>3. L \in Nat /\ L <= L
  BY Shape
<1>4. \A n \in Nat : n \in S
  <2> HIDE DEF S
  <2> QED BY <1>1, <1>2, SetInduction
<1> QED BY <1>3, <1>4

LEMMA OffDef ==
  ASSUME NEW s \in Shapes
  PROVE  /\ \A i \in 1 .. Len(s.code) + 1 : Off(s)[i] \in Nat
         /\ Off(s)[1] = 0
         /\ \A i \in 1 .. Len(s.code) : Off(s)[i + 1] = Off(s)[i] + s.code[i].n
<1> DEFINE L == Len(s.code)
           P(f) == f = [i \in 1 .. L + 1 |-> IF i = 1 THEN 0 ELSE f[i - 1] + s.code[i - 1].n]
<1>1. Off(s) = CHOOSE f : P(f)
  BY DEF Off
<1>2. PICK g \in [1 .. L + 1 -> Nat] : P(g)
  BY OffExists DEF OffEq
<1>3. P(Off(s))
  BY <1>1, <1>2
<1>4. L \in Nat \ {0} /\ \A i \in 1 .. L : s.code[i].n \in Nat
  BY Shape
<1>5. Off(s)[1] = 0 /\ \A i \in 1 .. L : Off(s)[i + 1] = Off(s)[i] + s.code[i].n
  <2>1. ASSUME NEW i \in 1 .. L + 1 PROVE Off(s)[i] = IF i = 1 THEN 0 ELSE Off(s)[i - 1] + s.code[i - 1].n
    BY <1>3
  <2>2. ASSUME NEW i \in 1 .. L PROVE Off(s)[i + 1] = Off(s)[i] + s.code[i].n
    <3>1. i + 1 \in 1 .. L + 1 /\ i + 1 # 1 /\ (i + 1) - 1 = i
      BY <1>4
    <3> QED BY <2>1, <3>1
  <2>3. 1 \in 1 .. L + 1
    BY <1>4
  <2> QED BY <2>1, <2>2, <2>3
<1> DEFINE S == {n \in Nat : n <= L => Off(s)[n + 1] \in Nat}
<1>7. \A n \in Nat : n \in S
  <2>1. 0 \in S
    BY <1>5
  <2>2. ASSUME NEW n \in Nat, n \in S PROVE n + 1 \in S
    <3>1. SUFFICES ASSUME n + 1 <= L PROVE Off(s)[(n + 1) + 1] \in Nat
      OBVIOUS
    <3>2. n + 1 \in 1 .. L /\ Off(s)[n + 1] \in Nat
      BY <1>4, <2>2, <3>1
    <3>3. PICK a \in Nat : a = Off(s)[n + 1]
      BY <3>2
    <3>4. PICK m \in Nat : m = s.code[n + 1].n
      BY <1>4, <3>2
    <3>5. Off(s)[(n + 1) + 1] = a + m
      BY <1>5, <3>2, <3>3, <3>4
    <3> QED BY <3>5
  <2> HIDE DEF S
  <2> QED BY <2>1, <2>2, SetInduction
<1>8. ASSUME NEW i \in 1 .. L + 1 PROVE Off(s)[i] \in Nat
  <2>1. i - 1 \in Nat /\ i - 1 <= L /\ (i - 1) + 1 = i
    BY <1>4
  <2>2. i - 1 \in S
    BY <1>7, <2>1
  <2> QED BY <2>1, <2>2
<1> QED BY <1>5, <1>8

\* The next instruction begins where the last one ends, for all of them.
LEMMA OffOrder ==
  ASSUME NEW s \in Shapes, NEW i \in 1 .. Len(s.code), NEW j \in 1 .. Len(s.code) + 1, i < j
  PROVE  Off(s)[i] + s.code[i].n <= Off(s)[j]
<1> DEFINE L == Len(s.code)
           S == {d \in Nat : i + d + 1 <= L + 1 => Off(s)[i] + s.code[i].n <= Off(s)[i + d + 1]}
<1>1. L \in Nat /\ s.code[i].n \in Nat /\ Off(s)[i] \in Nat
  <2>1. i \in 1 .. L + 1
    BY Shape
  <2> QED BY <2>1, Shape, OffDef
<1>2. 0 \in S
  <2>1. i + 0 + 1 = i + 1 /\ Off(s)[i + 1] = Off(s)[i] + s.code[i].n
    BY OffDef
  <2>2. Off(s)[i] + s.code[i].n <= Off(s)[i + 1]
    BY <1>1, <2>1
  <2> QED BY <2>1, <2>2
<1>3. ASSUME NEW d \in Nat, d \in S PROVE d + 1 \in S
  <2>1. SUFFICES ASSUME i + (d + 1) + 1 <= L + 1
                 PROVE  Off(s)[i] + s.code[i].n <= Off(s)[i + (d + 1) + 1]
    OBVIOUS
  <2>2. i + d + 1 <= L + 1 /\ i + d + 1 \in 1 .. L /\ i + (d + 1) + 1 = (i + d + 1) + 1
    BY <1>1, <2>1
  <2>3. Off(s)[(i + d + 1) + 1] = Off(s)[i + d + 1] + s.code[i + d + 1].n
    BY <2>2, OffDef
  <2>4. Off(s)[i + d + 1] \in Nat /\ s.code[i + d + 1].n \in Nat
    <3>1. PICK x \in 1 .. L : x = i + d + 1
      BY <2>2
    <3>2. x \in 1 .. L + 1
      BY <1>1
    <3>3. Off(s)[x] \in Nat
      BY <3>2, OffDef
    <3>4. s.code[x].n \in Nat
      BY Shape
    <3> QED BY <3>1, <3>3, <3>4
  <2>5. Off(s)[i] + s.code[i].n <= Off(s)[i + d + 1]
    BY <1>3, <2>2
  <2>6. PICK x \in Nat : x = Off(s)[i] + s.code[i].n
    BY <1>1
  <2>7. PICK y \in Nat, n \in Nat : y = Off(s)[i + d + 1] /\ n = s.code[i + d + 1].n
    BY <2>4
  <2>8. x <= y + n
    <3>1. x <= y
      BY <2>5, <2>6, <2>7
    <3> QED BY ONLY x \in Nat, y \in Nat, n \in Nat, <3>1
  <2>9. Off(s)[i + (d + 1) + 1] = y + n
    BY <2>2, <2>3, <2>7
  <2> QED BY <2>6, <2>8, <2>9
<1>4. \A d \in Nat : d \in S
  <2> HIDE DEF S
  <2> QED BY <1>2, <1>3, SetInduction
<1>5. j - i - 1 \in Nat /\ i + (j - i - 1) + 1 = j /\ j <= L + 1
  BY <1>1
<1>6. j - i - 1 \in S
  BY <1>4, <1>5
<1> QED BY <1>5, <1>6

\* So an address belongs to one instruction.
LEMMA OriginalIs ==
  ASSUME NEW s \in Shapes, NEW i \in 1 .. Len(s.code), NEW j \in 1 .. s.code[i].n
  PROVE  Original(s, Off(s)[i] + j - 1)
           = Bytes(s.code[i].k, i, s.code[i].n, Callee - Off(s)[i + 1])[j]
<1> DEFINE L == Len(s.code)
           a == Off(s)[i] + j - 1
           In(x) == a \in Off(s)[x] .. Off(s)[x + 1] - 1
           e == CHOOSE x \in 1 .. L : In(x)
<1>1. L \in Nat /\ s.code[i].n \in Nat /\ \A x \in 1 .. L + 1 : Off(s)[x] \in Nat
  BY Shape, OffDef
<1>2. In(i)
  <2>1. Off(s)[i + 1] = Off(s)[i] + s.code[i].n /\ Off(s)[i] \in Nat
    BY <1>1, OffDef
  <2> QED BY <1>1, <2>1
<1>3. e \in 1 .. L /\ In(e)
  BY <1>2
<1>4. ASSUME NEW x \in 1 .. L, In(x) PROVE x = i
  <2>1. x \in 1 .. L + 1 /\ x + 1 \in 1 .. L + 1 /\ i \in 1 .. L + 1 /\ i + 1 \in 1 .. L + 1
    BY <1>1
  <2>2. PICK p \in Nat, p1 \in Nat, q \in Nat, q1 \in Nat :
          p = Off(s)[x] /\ p1 = Off(s)[x + 1] /\ q = Off(s)[i] /\ q1 = Off(s)[i + 1]
    BY <1>1, <2>1
  <2>3. PICK y \in Int : y = a
    BY <1>1, <2>2
  <2>4. y \in p .. p1 - 1 /\ y \in q .. q1 - 1
    BY <1>2, <1>4, <2>2, <2>3
  <2> HIDE DEF a, In
  <2>5. ASSUME x < i PROVE FALSE
    <3>1. Off(s)[x] + s.code[x].n <= Off(s)[i] /\ Off(s)[x + 1] = Off(s)[x] + s.code[x].n
      BY <2>1, <2>5, OffOrder, OffDef
    <3>2. p1 <= q
      BY <2>2, <3>1
    <3> QED BY <2>4, <3>2
  <2>6. ASSUME i < x PROVE FALSE
    <3>1. Off(s)[i] + s.code[i].n <= Off(s)[x] /\ Off(s)[i + 1] = Off(s)[i] + s.code[i].n
      BY <2>1, <2>6, OffOrder, OffDef
    <3>2. q1 <= p
      BY <2>2, <3>1
    <3> QED BY <2>4, <3>2
  <2>7. x \in Int /\ i \in Int
    BY <1>1
  <2> QED BY <2>5, <2>6, <2>7
<1>5. e = i
  BY <1>3, <1>4
<1>6. Original(s, a) = Bytes(s.code[e].k, e, s.code[e].n, Callee - Off(s)[e + 1])[a - Off(s)[e] + 1]
  BY DEF Original
<1>7. a - Off(s)[i] + 1 = j
  BY <1>1
<1> HIDE DEF e
<1> QED BY <1>5, <1>6, <1>7

-----------------------------------------------------------------------------
\* Decoding: the bytes of a jump and of an instruction.

\* The bytes at a are the instruction of kind k; the i-th of the function, moved
\* by a distance; a jump.
Holds(m, a, k, i, n, d) ==
  \A j \in 1 .. n : a + j - 1 \in DOMAIN m /\ m[a + j - 1] = Bytes(k, i, n, d)[j]
InstrAt(s, m, a, i, by) ==
  Holds(m, a, s.code[i].k, i, s.code[i].n, Callee - Off(s)[i + 1] - by)
JumpAt(m, a, to) == Holds(m, a, "jmp", 0, 5, to - a - 5)

LEMMA JumpDecode ==
  ASSUME NEW m, NEW a \in Int, NEW to \in Int, JumpAt(m, a, to)
  PROVE  /\ Whole(m, a) /\ m[a] = <<"jmp", 0, 1>> /\ m[a][1] = "jmp" /\ size_of_code(m, a) = 5
         /\ Target(m, a) = to /\ Disp(m, a) = to - a - 5
         /\ \A x \in a + 1 .. a + 4 : m[x] = <<"rel", to - a - 5, x - a>>
<1> DEFINE d == to - a - 5
           b == Bytes("jmp", 0, 5, d)
<1>1. /\ \A j \in 1 .. 5 : a + j - 1 \in DOMAIN m /\ m[a + j - 1] = b[j]
  BY DEF JumpAt, Holds
<1>2. b[1] = <<"jmp", 0, 1>> /\ \A j \in 2 .. 5 : b[j] = <<"rel", d, j - 1>>
  <2>1. b[1] = <<"jmp", 0, 1>>
    BY DEF Bytes, Relative
  <2>2. ASSUME NEW j \in 2 .. 5 PROVE b[j] = <<"rel", d, j - 1>>
    <3>1. j > 5 - 4 /\ j - 5 + 4 = j - 1 /\ j \in 1 .. 5
      OBVIOUS
    <3> QED BY <3>1 DEF Bytes, Relative
  <2> QED BY <2>1, <2>2
<1> HIDE DEF b
<1>3. m[a] = <<"jmp", 0, 1>> /\ a \in DOMAIN m
  <2>1. a + 1 - 1 = a /\ 1 \in 1 .. 5
    OBVIOUS
  <2> QED BY <1>1, <1>2, <2>1
<1>4. ASSUME NEW x \in a + 1 .. a + 4 PROVE m[x] = <<"rel", d, x - a>>
  <2>1. PICK j \in 2 .. 5 : j = x - a + 1
    OBVIOUS
  <2>2. x = a + j - 1 /\ j \in 1 .. 5 /\ j - 1 = x - a
    BY <2>1
  <2> QED BY <1>1, <1>2, <2>2
<1>5. m[a][1] = "jmp" /\ m[a][2] = 0 /\ m[a][3] = 1
  BY <1>3
<1>6. size_of_code(m, a) = 5
  BY <1>5 DEF size_of_code
<1>7. Disp(m, a) = d
  <2>1. a + 5 - 4 \in a + 1 .. a + 4
    OBVIOUS
  <2>2. m[a + 5 - 4][2] = d
    BY <1>4, <2>1
  <2> QED BY <1>5, <1>6, <2>2 DEF Disp, Relative
<1>8. Target(m, a) = to
  <2>1. Target(m, a) = a + 5 + d
    BY <1>5, <1>6, <1>7 DEF Target, Relative
  <2> QED BY <2>1
<1>9. Whole(m, a)
  <2> HIDE DEF d
  <2>1. Bytes(m[a][1], m[a][2], size_of_code(m, a), Disp(m, a)) = b
    BY <1>5, <1>6, <1>7 DEF b
  <2> QED BY <1>1, <1>3, <1>5, <1>6, <2>1 DEF Whole
<1> QED BY <1>3, <1>4, <1>5, <1>6, <1>7, <1>8, <1>9

LEMMA ShortDecode ==
  ASSUME NEW m, Holds(m, Src, "short", 0, 2, 0)
  PROVE  /\ Whole(m, Src) /\ m[Src][1] = "short" /\ size_of_code(m, Src) = 2
         /\ Target(m, Src) = Src - 5
<1> DEFINE b == Bytes("short", 0, 2, 0)
<1>1. \A j \in 1 .. 2 : Src + j - 1 \in DOMAIN m /\ m[Src + j - 1] = b[j]
  BY DEF Holds
<1>2. b[1] = <<"short", 0, 1>>
  BY DEF Bytes, Relative
<1> HIDE DEF b
<1>3. m[Src] = <<"short", 0, 1>> /\ Src \in DOMAIN m
  <2>1. Src + 1 - 1 = Src /\ 1 \in 1 .. 2
    BY DEF Src
  <2> QED BY <1>1, <1>2, <2>1
<1>4. m[Src][1] = "short" /\ m[Src][2] = 0 /\ m[Src][3] = 1
  BY <1>3
<1>5. size_of_code(m, Src) = 2 /\ Disp(m, Src) = 0
  BY <1>4 DEF size_of_code, Disp, Relative
<1>6. Bytes(m[Src][1], m[Src][2], size_of_code(m, Src), Disp(m, Src)) = b
  BY <1>4, <1>5 DEF b
<1>7. Whole(m, Src)
  BY <1>1, <1>3, <1>4, <1>5, <1>6 DEF Whole
<1>8. Target(m, Src) = Src - 5
  BY <1>4 DEF Target, Relative
<1> QED BY <1>4, <1>5, <1>7, <1>8

LEMMA KindIs ==
  ASSUME NEW k \in Kinds
  PROVE  /\ k \notin {"jmp", "short", "rel", "pad", "body", "free"}
         /\ k \notin Relative => k \in {"mov", "op", "rel8"}
BY DEF Kinds, Relative

\* An instruction of the function, at its place or moved, is executed as such.
Decoded(m, a, k, i, n, d) ==
  /\ Whole(m, a) /\ m[a][1] = k /\ m[a][2] = i /\ size_of_code(m, a) = n
  /\ k \in Relative => Target(m, a) = a + n + d
  /\ k = "rel8" => Target(m, a) = a + 12
  /\ k \in {"mov", "op"} => Target(m, a) = 0

LEMMA Decode ==
  ASSUME NEW m, NEW a \in Int, NEW k \in Kinds, NEW i, NEW n \in 1 .. 15, NEW d \in Int,
         k \in Relative => n >= 5, n = shape.code[i].n, Holds(m, a, k, i, n, d)
  PROVE  Decoded(m, a, k, i, n, d)
<1> DEFINE b == Bytes(k, i, n, d)
<1>1. \A j \in 1 .. n : a + j - 1 \in DOMAIN m /\ m[a + j - 1] = b[j]
  BY DEF Holds
<1>2. ASSUME NEW j \in 1 .. n
      PROVE  b[j] = IF k \in Relative /\ j > n - 4 THEN <<"rel", d, j - n + 4>> ELSE <<k, i, j>>
  BY DEF Bytes
<1> HIDE DEF b
<1>3. 1 \in 1 .. n /\ a + 1 - 1 = a
  OBVIOUS
<1>4. b[1] = <<k, i, 1>>
  <2>1. ~(k \in Relative /\ 1 > n - 4)
    OBVIOUS
  <2> QED BY <1>2, <1>3, <2>1
<1>5. m[a] = <<k, i, 1>> /\ a \in DOMAIN m
  BY <1>1, <1>3, <1>4
<1>6. m[a][1] = k /\ m[a][2] = i /\ m[a][3] = 1
  BY <1>5
<1>7. size_of_code(m, a) = n
  <2>1. k \notin {"jmp", "short", "rel", "pad", "body", "free"}
    BY KindIs
  <2> QED BY <1>6, <2>1 DEF size_of_code
<1>8. ASSUME k \in Relative PROVE Disp(m, a) = d
  <2>1. PICK j \in 1 .. n : j = n - 3
    BY <1>8
  <2>2. j > n - 4 /\ a + j - 1 = a + n - 4
    BY <2>1
  <2>3. m[a + n - 4] = <<"rel", d, j - n + 4>>
    BY <1>1, <1>2, <1>8, <2>2
  <2> QED BY <1>6, <1>7, <1>8, <2>3 DEF Disp
<1>9. Bytes(m[a][1], m[a][2], size_of_code(m, a), Disp(m, a)) = b
  <2>1. CASE k \in Relative
    BY <1>6, <1>7, <1>8, <2>1 DEF b
  <2>2. CASE k \notin Relative
    BY <1>6, <1>7, <2>2 DEF b, Bytes
  <2> QED BY <2>1, <2>2
<1>10. Whole(m, a)
  <2>1. n > 0
    OBVIOUS
  <2> QED BY <1>1, <1>5, <1>6, <1>7, <1>9, <2>1 DEF Whole
<1>11. ASSUME k \in Relative PROVE Target(m, a) = a + n + d
  <2>1. Target(m, a) = a + size_of_code(m, a) + Disp(m, a)
    BY <1>6, <1>11 DEF Target, Relative
  <2> QED BY <1>7, <1>8, <1>11, <2>1
<1>12. k = "rel8" => Target(m, a) = a + 12
  BY <1>6 DEF Target, Relative
<1>13. k \in {"mov", "op"} => Target(m, a) = 0
  BY <1>6 DEF Target, Relative
<1> QED BY <1>6, <1>7, <1>10, <1>11, <1>12, <1>13 DEF Decoded

\* A processor at a executes the i-th instruction and goes on to address to.
Executes(m, a, i, to) ==
  /\ Whole(m, a) /\ m[a][1] = shape.code[i].k /\ m[a][1] \notin {"jmp", "short"}
  /\ size_of_code(m, a) = shape.code[i].n /\ a + size_of_code(m, a) = to
  /\ <<m[a][2], Target(m, a)>> = Expect(shape, i)

LEMMA InstrDecode ==
  ASSUME shape \in Shapes, NEW m, NEW i \in 1 .. Len(shape.code), NEW by \in Int,
         NEW a \in Int, a = by + Off(shape)[i],
         InstrAt(shape, m, a, i, by), by = 0 \/ shape.code[i].k # "rel8"
  PROVE  Executes(m, a, i, by + Off(shape)[i + 1])
<1>1. PICK k \in Kinds : k = shape.code[i].k
  BY Shape
<1>2. PICK n \in 1 .. 15 : n = shape.code[i].n
  BY Shape
<1>3. k \in Relative => n >= 5
  BY <1>1, <1>2, Shape
<1>4. PICK x \in Nat : x = Off(shape)[i]
  <2>1. i \in 1 .. Len(shape.code) + 1
    BY Shape
  <2> QED BY <2>1, OffDef
<1>5. Off(shape)[i + 1] = x + n
  BY <1>2, <1>4, OffDef
<1>6. PICK d \in Int : d = Callee - Off(shape)[i + 1] - by
  BY <1>5 DEF Callee
<1>7. Holds(m, a, k, i, n, d)
  BY <1>1, <1>2, <1>6 DEF InstrAt
<1>8. /\ Whole(m, a) /\ m[a][1] = k /\ m[a][2] = i /\ size_of_code(m, a) = n
      /\ k \in Relative => Target(m, a) = a + n + d
      /\ k = "rel8" => Target(m, a) = a + 12
      /\ k \in {"mov", "op"} => Target(m, a) = 0
  <2>1. n = shape.code[i].n /\ (k \in Relative => n >= 5)
    BY <1>2, <1>3
  <2>2. Decoded(m, a, k, i, n, d)
    BY <1>7, <2>1, Decode
  <2> QED BY <2>2 DEF Decoded
<1>9. a = by + x /\ a + n = by + (x + n) /\ a + n + d = Callee
  <2>1. a = by + x
    BY <1>4
  <2>2. PICK cl \in Int : cl = Callee
    BY DEF Callee
  <2>3. d = cl - (x + n) - by
    BY <1>5, <1>6, <2>2
  <2>4. a + n = by + (x + n) /\ a + n + d = cl
    BY ONLY <2>1, <2>3
  <2> QED BY <2>1, <2>2, <2>4
<1>10. Target(m, a) = CASE k \in Relative -> Callee
                        [] k = "rel8" -> Src + x + 12
                        [] OTHER -> 0
  <2>1. CASE k \in Relative
    <3>1. Target(m, a) = Callee /\ k # "rel8"
      BY <1>8, <1>9, <2>1 DEF Relative
    <3> QED BY <2>1, <3>1
  <2>2. CASE k = "rel8"
    <3>1. by = 0 /\ k \notin Relative
      BY <1>1, <2>2 DEF Relative
    <3>2. a + 12 = Src + x + 12
      BY <1>9, <3>1 DEF Src
    <3> QED BY <1>8, <2>2, <3>1, <3>2
  <2>3. CASE k \in {"mov", "op"}
    BY <1>8, <2>3 DEF Relative
  <2> QED BY <2>1, <2>2, <2>3, KindIs
<1>11. Expect(shape, i) = <<i, Target(m, a)>>
  BY <1>1, <1>4, <1>10 DEF Expect
<1>12. a + n = by + Off(shape)[i + 1]
  BY <1>5, <1>9
<1>13. k \notin {"jmp", "short"}
  BY KindIs
<1> QED BY <1>1, <1>2, <1>8, <1>11, <1>12, <1>13 DEF Executes

-----------------------------------------------------------------------------
\* Addresses, and storing into memory.

Buffer(h) == Buf(h) .. Buf(h) + BufSize - 1
Addresses(s) ==
  (Src - 5 .. Off(s)[Len(s.code) + 1] - 1) \cup UNION {Buffer(h) : h \in 1 .. MaxHooks}

LEMMA EndIs ==
  ASSUME NEW s \in Shapes
  PROVE  Off(s)[Len(s.code) + 1] \in Nat \ {0}
<1>1. PICK l \in Nat \ {0} : l = Len(s.code)
  BY Shape
<1>2. l \in 1 .. Len(s.code) /\ l + 1 \in 1 .. Len(s.code) + 1 /\ l \in 1 .. Len(s.code) + 1
  BY <1>1
<1>3. PICK x \in Nat, n \in 1 .. 15 : x = Off(s)[l] /\ n = s.code[l].n
  BY <1>2, OffDef, Shape
<1>4. Off(s)[l + 1] = x + n
  BY <1>2, <1>3, OffDef
<1> QED BY <1>1, <1>4

\* Nothing overlaps: the function, the buffers, the new procedures, Nowhere.
LEMMA Apart ==
  /\ \A g \in Nat \ {0}, h \in Nat \ {0} : g # h => Buffer(g) \cap Buffer(h) = {}
  /\ \A g \in Nat \ {0}, h \in Nat \ {0} : New(g) \notin Buffer(h)
  /\ \A g \in Nat, h \in Nat : New(g) = New(h) => g = h
  /\ \A h \in Nat \ {0} : /\ Buffer(h) \subseteq Int /\ Buf(h) \in Int /\ New(h) \in Int
                          /\ \A x \in Buffer(h) : x < Src - 5 /\ x # Nowhere
                          /\ New(h) < Src - 5 /\ New(h) # Nowhere
<1> USE DEF Buffer, Buf, New, BufSize, Src, Nowhere
<1>1. ASSUME NEW g \in Nat \ {0}, NEW h \in Nat \ {0}, g # h PROVE Buffer(g) \cap Buffer(h) = {}
  <2>1. SUFFICES ASSUME NEW x \in Int, x \in Buffer(g), x \in Buffer(h) PROVE FALSE
    OBVIOUS
  <2>2. g < h \/ h < g
    BY <1>1
  <2> QED BY <2>1, <2>2
<1>2. ASSUME NEW g \in Nat \ {0}, NEW h \in Nat \ {0} PROVE New(g) \notin Buffer(h)
  OBVIOUS
<1>3. ASSUME NEW g \in Nat, NEW h \in Nat, New(g) = New(h) PROVE g = h
  BY <1>3
<1>4. ASSUME NEW h \in Nat \ {0}
      PROVE  /\ Buffer(h) \subseteq Int /\ Buf(h) \in Int /\ New(h) \in Int
             /\ \A x \in Buffer(h) : x < Src - 5 /\ x # Nowhere
             /\ New(h) < Src - 5 /\ New(h) # Nowhere
  OBVIOUS
<1> QED BY <1>1, <1>2, <1>3, <1>4

LEMMA AddressesAre ==
  ASSUME NEW s \in Shapes
  PROVE  /\ Addresses(s) \subseteq Int
         /\ \A a \in Src - 5 .. Off(s)[Len(s.code) + 1] - 1 : a \in Addresses(s)
         /\ \A h \in 1 .. MaxHooks : Buffer(h) \subseteq Addresses(s)
         /\ Off(s)[Len(s.code) + 1] \notin Addresses(s) /\ Nowhere \notin Addresses(s)
         /\ \A h \in Nat \ {0} : New(h) \notin Addresses(s)
<1>1. PICK e \in Nat \ {0} : e = Off(s)[Len(s.code) + 1]
  BY EndIs
<1>2. \A h \in 1 .. MaxHooks : h \in Nat \ {0}
  BY CodeHookAssumption
<1> DEFINE B == UNION {Buffer(h) : h \in 1 .. MaxHooks}
           F == Src - 5 .. e - 1
<1>3. Addresses(s) = F \cup B
  BY <1>1 DEF Addresses
<1>4. ASSUME NEW x \in B PROVE x \in Int /\ x < Src - 5 /\ x # Nowhere /\ \A h \in Nat \ {0} : x # New(h)
  <2>1. PICK h \in 1 .. MaxHooks : x \in Buffer(h)
    OBVIOUS
  <2> QED BY <1>2, <2>1, Apart
<1>5. ASSUME NEW x \in F PROVE x \in Int /\ x >= Src - 5 /\ x < e
  BY DEF Src
<1>6. e \notin F /\ e \notin B
  <2>1. e \notin F BY <1>5
  <2>2. e \notin B
    <3> HIDE DEF B
    <3>1. ~(e < Src - 5)
      BY DEF Src
    <3> QED BY <1>4, <3>1
  <2> QED BY <2>1, <2>2
<1>7. Nowhere \notin F /\ Nowhere \notin B
  <2>1. Nowhere \notin F BY DEF Nowhere, Src
  <2>2. Nowhere \notin B BY <1>4
  <2> QED BY <2>1, <2>2
<1>8. ASSUME NEW h \in Nat \ {0} PROVE New(h) \notin F /\ New(h) \notin B
  <2>1. New(h) \in Int /\ New(h) < Src - 5
    BY Apart
  <2>2. New(h) \notin F
    <3> HIDE DEF F
    <3>1. PICK y \in Int : y = New(h) /\ y < Src - 5
      BY <2>1
    <3> QED BY <1>5, <3>1 DEF Src
  <2>3. New(h) \notin B BY <1>4
  <2> QED BY <2>2, <2>3
<1>9. \A h \in 1 .. MaxHooks : Buffer(h) \subseteq B
  OBVIOUS
<1>10. Addresses(s) \subseteq Int
  <2> HIDE DEF B, F
  <2> QED BY <1>3, <1>4, <1>5
<1>11. \A a \in F : a \in Addresses(s)
  BY <1>3
<1> HIDE DEF B
<1> QED BY <1>1, <1>3, <1>6, <1>7, <1>8, <1>9, <1>10, <1>11

\* What a store leaves behind: n bytes b at a.
Stored(m, w, a, b, n) ==
  /\ DOMAIN w = DOMAIN m
  /\ \A x \in DOMAIN m : /\ x \in a .. a + n - 1 => w[x] = b[x - a + 1]
                         /\ x \notin a .. a + n - 1 => w[x] = m[x]

LEMMA PokeIs ==
  ASSUME NEW m, DOMAIN m \subseteq Int, NEW a \in Int, NEW b, NEW n \in Nat, Len(b) = n
  PROVE  Stored(m, Poke(m, a, b), a, b, n)
<1> DEFINE w == Poke(m, a, b)
<1>1. w = [x \in DOMAIN m |-> IF x - a + 1 \in 1 .. n THEN b[x - a + 1] ELSE m[x]]
  BY DEF Poke
<1>2. ASSUME NEW x \in Int PROVE x \in a .. a + n - 1 <=> x - a + 1 \in 1 .. n
  OBVIOUS
<1> HIDE DEF w
<1>3. DOMAIN w = DOMAIN m
  BY <1>1
<1>4. ASSUME NEW x \in DOMAIN m
      PROVE  /\ x \in a .. a + n - 1 => w[x] = b[x - a + 1]
             /\ x \notin a .. a + n - 1 => w[x] = m[x]
  <2>1. w[x] = IF x - a + 1 \in 1 .. n THEN b[x - a + 1] ELSE m[x]
    BY <1>1
  <2>2. x \in a .. a + n - 1 <=> x - a + 1 \in 1 .. n
    BY <1>2
  <2> QED BY <2>1, <2>2
<1>5. Stored(m, w, a, b, n)
  BY <1>3, <1>4 DEF Stored
<1> QED BY <1>5 DEF w

LEMMA FunSeq ==
  ASSUME NEW n \in Nat, NEW f, f = [i \in 1 .. n |-> f[i]]
  PROVE  f \in Seq({f[i] : i \in 1 .. n}) /\ Len(f) = n
<1> DEFINE S == {f[i] : i \in 1 .. n}
<1>1. f \in [1 .. n -> S]
  OBVIOUS
<1> HIDE DEF S
<1>2. f \in Seq(S)
  BY <1>1, SeqDef
<1>3. DOMAIN f = 1 .. n /\ DOMAIN f = 1 .. Len(f) /\ Len(f) \in Nat
  BY <1>1, <1>2, LenProperties
<1>4. Len(f) = n
  BY <1>3
<1> QED BY <1>2, <1>4 DEF S

LEMMA JumpOpIs == Len(JumpOp) = 1 /\ JumpOp[1] = <<"jmp", 0, 1>>
BY DEF JumpOp

LEMMA JumpRelIs ==
  ASSUME NEW from \in Int, NEW to \in Int
  PROVE  LET b == JumpRel(from, to)
         IN  Len(b) = 4 /\ \A i \in 1 .. 4 : b[i] = <<"rel", to - from - 5, i>>
<1> DEFINE d == to - from - 5
           f == Bytes("jmp", 0, 5, d)
           S == {f[i] : i \in 1 .. 5}
<1>1. \A i \in 2 .. 5 : f[i] = <<"rel", d, i - 1>>
  <2> SUFFICES ASSUME NEW i \in 2 .. 5 PROVE f[i] = <<"rel", d, i - 1>>
    OBVIOUS
  <2>1. i > 5 - 4 /\ i - 5 + 4 = i - 1 /\ i \in 1 .. 5
    OBVIOUS
  <2> HIDE DEF d
  <2> QED BY <2>1 DEF Bytes, Relative
<1> HIDE DEF d, f
<1>2. /\ Len(SubSeq(f, 2, 5)) = 4
      /\ \A i \in 1 .. 4 : SubSeq(f, 2, 5)[i] = f[2 + i - 1]
  <2>1. PICK lo \in Int, hi \in Int : lo = 2 /\ hi = 5
    OBVIOUS
  <2>2. \A i \in lo .. hi : f[i] \in S
    BY <2>1
  <2> HIDE DEF S
  <2>3. /\ Len(SubSeq(f, lo, hi)) = IF lo <= hi THEN hi - lo + 1 ELSE 0
        /\ \A i \in 1 .. hi - lo + 1 : SubSeq(f, lo, hi)[i] = f[lo + i - 1]
    BY <2>2, SubSeqProperties
  <2> QED BY <2>1, <2>3
<1>3. ASSUME NEW i \in 1 .. 4 PROVE SubSeq(f, 2, 5)[i] = <<"rel", d, i>>
  <2>1. 2 + i - 1 \in 2 .. 5 /\ (2 + i - 1) - 1 = i
    OBVIOUS
  <2> QED BY <1>1, <1>2, <2>1
<1>4. JumpRel(from, to) = SubSeq(f, 2, 5)
  BY DEF JumpRel, f, d
<1> QED BY <1>2, <1>3, <1>4 DEF d

LEMMA JumpIs ==
  ASSUME NEW from \in Int, NEW to \in Int
  PROVE  LET b == Jump(from, to)
         IN  /\ Len(b) = 5 /\ b \in Seq({b[i] : i \in 1 .. 5})
             /\ \A i \in 1 .. 5 : b[i] = Bytes("jmp", 0, 5, to - from - 5)[i]
<1> DEFINE r == JumpRel(from, to)
           d == to - from - 5
           b == Jump(from, to)
           S == {<<"jmp", 0, 1>>} \cup {<<"rel", d, i>> : i \in 1 .. 4}
<1>1. Len(r) = 4 /\ \A i \in 1 .. 4 : r[i] = <<"rel", d, i>>
  BY JumpRelIs
<1>2. b = JumpOp \o r
  BY DEF Jump
<1> HIDE DEF r, d
<1>3. JumpOp \in Seq(S)
  <2>1. <<"jmp", 0, 1>> \in S
    OBVIOUS
  <2> HIDE DEF S
  <2> QED BY <2>1 DEF JumpOp
<1>4. r \in Seq(S)
  <2>1. r \in Seq({r[i] : i \in 1 .. 4})
    <3> DEFINE f == Bytes("jmp", 0, 5, d)
               T == {f[i] : i \in 1 .. 5}
    <3>1. PICK lo \in Int, hi \in Int : lo = 2 /\ hi = 5
      OBVIOUS
    <3>2. \A i \in lo .. hi : f[i] \in T
      BY <3>1
    <3> HIDE DEF T, f
    <3>3. SubSeq(f, lo, hi) \in Seq(T)
      BY <3>2, SubSeqProperties
    <3>4. r \in Seq(T)
      BY <3>1, <3>3 DEF r, JumpRel, f, d
    <3>5. r = [i \in 1 .. 4 |-> r[i]]
      BY <1>1, <3>4, LenProperties
    <3> QED BY <3>5, FunSeq
  <2>2. {r[i] : i \in 1 .. 4} \subseteq S
    BY <1>1
  <2> HIDE DEF S
  <2> QED BY <2>1, <2>2, SeqMonotonic
<1> HIDE DEF S
<1>5. /\ b \in Seq(S) /\ Len(b) = Len(JumpOp) + Len(r)
      /\ \A i \in 1 .. Len(JumpOp) + Len(r) : b[i] = IF i <= Len(JumpOp) THEN JumpOp[i] ELSE r[i - Len(JumpOp)]
  BY <1>2, <1>3, <1>4, ConcatProperties
<1> HIDE DEF b
<1>6. /\ Len(b) = 5 /\ \A i \in 1 .. 5 : b[i] = IF i <= 1 THEN JumpOp[i] ELSE r[i - 1]
  BY <1>1, <1>5, JumpOpIs
<1>7. ASSUME NEW i \in 1 .. 5 PROVE b[i] = Bytes("jmp", 0, 5, d)[i]
  <2>1. CASE i = 1
    <3>1. b[1] = <<"jmp", 0, 1>>
      BY <1>6, JumpOpIs
    <3>2. Bytes("jmp", 0, 5, d)[1] = <<"jmp", 0, 1>>
      BY DEF Bytes, Relative
    <3> QED BY <2>1, <3>1, <3>2
  <2>2. CASE i # 1
    <3>1. i - 1 \in 1 .. 4 /\ i > 5 - 4 /\ i - 5 + 4 = i - 1
      BY <2>2
    <3>2. b[i] = <<"rel", d, i - 1>>
      BY <1>1, <1>6, <2>2, <3>1
    <3>3. Bytes("jmp", 0, 5, d)[i] = <<"rel", d, i - 1>>
      BY <3>1 DEF Bytes, Relative
    <3> QED BY <3>2, <3>3
  <2> QED BY <2>1, <2>2
<1>8. b = [i \in 1 .. 5 |-> b[i]]
  BY <1>5, <1>6, LenProperties
<1>9. b \in Seq({b[i] : i \in 1 .. 5})
  BY <1>8, FunSeq
<1> QED BY <1>6, <1>7, <1>9 DEF b, d

\* The single stores of set_jump and hot_patch.
Same(m, w, S) == DOMAIN w = DOMAIN m /\ \A x \in DOMAIN m : x \notin S => w[x] = m[x]

LEMMA OpStored ==
  ASSUME NEW m, DOMAIN m \subseteq Int, NEW a \in DOMAIN m
  PROVE  LET w == Poke(m, a, JumpOp) IN Same(m, w, {a}) /\ w[a] = <<"jmp", 0, 1>>
<1> DEFINE w == Poke(m, a, JumpOp)
<1>1. PICK n \in Nat : n = 1
  OBVIOUS
<1>2. Stored(m, w, a, JumpOp, n)
  BY <1>1, JumpOpIs, PokeIs
<1> HIDE DEF w
<1>3. a \in a .. a + n - 1 /\ a - a + 1 = 1 /\ \A x \in Int : x \in a .. a + n - 1 => x = a
  BY <1>1
<1>4. w[a] = <<"jmp", 0, 1>>
  BY <1>2, <1>3, JumpOpIs DEF Stored
<1>5. Same(m, w, {a})
  BY <1>2, <1>3 DEF Stored, Same
<1> QED BY <1>4, <1>5 DEF w

LEMMA RelStored ==
  ASSUME NEW m, DOMAIN m \subseteq Int, NEW a \in Int, NEW a1 \in Int, NEW to \in Int, a1 = a + 1,
         \A x \in a .. a + 4 : x \in DOMAIN m, m[a] = <<"jmp", 0, 1>>
  PROVE  LET w == Poke(m, a1, JumpRel(a, to)) IN Same(m, w, a + 1 .. a + 4) /\ JumpAt(w, a, to)
<1> DEFINE b == JumpRel(a, to)
           w == Poke(m, a1, b)
           d == to - a - 5
<1>1. PICK n \in Nat : n = 4
  OBVIOUS
<1>2. Len(b) = n /\ \A i \in 1 .. 4 : b[i] = <<"rel", d, i>>
  BY <1>1, JumpRelIs
<1> HIDE DEF b
<1>3. Stored(m, w, a1, b, n)
  BY <1>2, PokeIs
<1> HIDE DEF w, d
<1>4. a1 .. a1 + n - 1 = a + 1 .. a + 4
  BY <1>1
<1>5. /\ DOMAIN w = DOMAIN m
      /\ \A x \in DOMAIN m : /\ x \in a + 1 .. a + 4 => w[x] = b[x - a1 + 1]
                             /\ x \notin a + 1 .. a + 4 => w[x] = m[x]
  BY <1>3, <1>4 DEF Stored
<1>6. Same(m, w, a + 1 .. a + 4)
  BY <1>5 DEF Same
<1>7. ASSUME NEW j \in 1 .. 5
      PROVE  a + j - 1 \in DOMAIN w /\ w[a + j - 1] = Bytes("jmp", 0, 5, d)[j]
  <2>1. PICK x \in a .. a + 4 : x = a + j - 1
    OBVIOUS
  <2>2. x \in DOMAIN m /\ x \in DOMAIN w
    BY <1>5
  <2>3. CASE j = 1
    <3>1. x = a /\ a \notin a + 1 .. a + 4
      BY <2>1, <2>3
    <3>2. w[a] = <<"jmp", 0, 1>>
      BY <1>5, <2>2, <3>1
    <3>3. Bytes("jmp", 0, 5, d)[1] = <<"jmp", 0, 1>>
      BY DEF Bytes, Relative
    <3> QED BY <2>1, <2>2, <2>3, <3>1, <3>2, <3>3
  <2>4. CASE j # 1
    <3>1. x \in a + 1 .. a + 4 /\ x - a1 + 1 = j - 1 /\ j - 1 \in 1 .. 4 /\ j > 5 - 4 /\ j - 5 + 4 = j - 1
      BY <2>1, <2>4
    <3>2. w[x] = <<"rel", d, j - 1>>
      BY <1>2, <1>5, <2>2, <3>1
    <3>3. Bytes("jmp", 0, 5, d)[j] = <<"rel", d, j - 1>>
      BY <3>1 DEF Bytes, Relative
    <3> QED BY <2>1, <2>2, <3>2, <3>3
  <2> QED BY <2>3, <2>4
<1>8. JumpAt(w, a, to)
  BY <1>7 DEF JumpAt, Holds, d
<1> QED BY <1>6, <1>8 DEF w, b

LEMMA ShortStored ==
  ASSUME NEW m, DOMAIN m \subseteq Int, \A x \in Src .. Src + 1 : x \in DOMAIN m
  PROVE  LET w == Poke(m, Src, ShortJump)
         IN  Same(m, w, Src .. Src + 1) /\ Holds(w, Src, "short", 0, 2, 0)
<1> DEFINE b == ShortJump
           w == Poke(m, Src, b)
<1>1. PICK n \in Nat, a \in Int : n = 2 /\ a = Src
  BY DEF Src
<1>2. b = Bytes("short", 0, 2, 0)
  BY DEF ShortJump
<1>3. b = [i \in 1 .. 2 |-> b[i]]
  BY DEF ShortJump, Bytes
<1> HIDE DEF b
<1>4. Len(b) = n
  BY <1>1, <1>3, FunSeq
<1>5. Stored(m, Poke(m, a, b), a, b, n)
  BY <1>4, PokeIs
<1>6. Stored(m, w, a, b, n)
  BY <1>1, <1>5
<1> HIDE DEF w
<1>7. a .. a + n - 1 = Src .. Src + 1 /\ \A x \in Int : x - a + 1 = x - Src + 1
  BY <1>1 DEF Src
<1>8. /\ DOMAIN w = DOMAIN m
      /\ \A x \in DOMAIN m : /\ x \in Src .. Src + 1 => w[x] = b[x - a + 1]
                             /\ x \notin Src .. Src + 1 => w[x] = m[x]
  BY <1>6, <1>7 DEF Stored
<1>9. Same(m, w, Src .. Src + 1)
  BY <1>8 DEF Same
<1>10. ASSUME NEW j \in 1 .. 2
       PROVE  Src + j - 1 \in DOMAIN w /\ w[Src + j - 1] = b[j]
  <2>1. PICK x \in Src .. Src + 1 : x = Src + j - 1 /\ x - a + 1 = j
    BY <1>1 DEF Src
  <2> QED BY <1>8, <2>1
<1>11. Holds(w, Src, "short", 0, 2, 0)
  BY <1>2, <1>10 DEF Holds
<1> QED BY <1>9, <1>11 DEF w, b

\* A buffer: n bytes of code and a jump.
Filled(m, a, q, n, to) == Poke(m, a, q \o Jump(a + n, to))
Listed(q, n) == q = [i \in 1 .. n |-> q[i]]
BufferHolds(m, w, a, q, n, to) ==
  /\ Same(m, w, a .. a + n + 4) /\ JumpAt(w, a + n, to)
  /\ \A j \in 1 .. n : a + j - 1 \in DOMAIN w /\ w[a + j - 1] = q[j]

LEMMA BufferStored ==
  ASSUME NEW m, DOMAIN m \subseteq Int, NEW a \in Int, NEW to \in Int, NEW n \in Nat,
         NEW q, Listed(q, n), \A x \in a .. a + n + 4 : x \in DOMAIN m
  PROVE  BufferHolds(m, Filled(m, a, q, n, to), a, q, n, to)
<1> DEFINE p == Jump(a + n, to)
           b == q \o p
           w == Poke(m, a, b)
           d == to - (a + n) - 5
           T == {q[i] : i \in 1 .. n} \cup {p[i] : i \in 1 .. 5}
<1>1. Len(q) = n /\ q \in Seq({q[i] : i \in 1 .. n})
  BY FunSeq DEF Listed
<1>2. PICK f \in Int : f = a + n
  OBVIOUS
<1>3. Len(p) = 5 /\ p \in Seq({p[i] : i \in 1 .. 5}) /\ \A i \in 1 .. 5 : p[i] = Bytes("jmp", 0, 5, d)[i]
  <2>1. /\ Len(Jump(f, to)) = 5 /\ Jump(f, to) \in Seq({Jump(f, to)[i] : i \in 1 .. 5})
        /\ \A i \in 1 .. 5 : Jump(f, to)[i] = Bytes("jmp", 0, 5, to - f - 5)[i]
    BY JumpIs
  <2> QED BY <1>2, <2>1
<1> HIDE DEF p, d
<1>4. q \in Seq(T) /\ p \in Seq(T)
  <2>1. {q[i] : i \in 1 .. n} \subseteq T /\ {p[i] : i \in 1 .. 5} \subseteq T
    OBVIOUS
  <2> HIDE DEF T
  <2> QED BY <1>1, <1>3, <2>1, SeqMonotonic
<1> HIDE DEF T
<1>5. /\ Len(b) = Len(q) + Len(p)
      /\ \A i \in 1 .. Len(q) + Len(p) : b[i] = IF i <= Len(q) THEN q[i] ELSE p[i - Len(q)]
  BY <1>4, ConcatProperties
<1> HIDE DEF b
<1>6. PICK l \in Nat : l = n + 5
  OBVIOUS
<1>7. Len(b) = l /\ \A i \in 1 .. n + 5 : b[i] = IF i <= n THEN q[i] ELSE p[i - n]
  BY <1>1, <1>3, <1>5, <1>6
<1>8. Stored(m, w, a, b, l)
  BY <1>7, PokeIs
<1> HIDE DEF w
<1>9. a .. a + l - 1 = a .. a + n + 4
  BY <1>6
<1>10. /\ DOMAIN w = DOMAIN m
       /\ \A x \in DOMAIN m : /\ x \in a .. a + n + 4 => w[x] = b[x - a + 1]
                              /\ x \notin a .. a + n + 4 => w[x] = m[x]
  BY <1>8, <1>9 DEF Stored
<1>11. Same(m, w, a .. a + n + 4)
  BY <1>10 DEF Same
<1>12. ASSUME NEW j \in 1 .. n PROVE a + j - 1 \in DOMAIN w /\ w[a + j - 1] = q[j]
  <2>1. PICK x \in a .. a + n + 4 : x = a + j - 1 /\ x - a + 1 = j
    OBVIOUS
  <2>2. j \in 1 .. n + 5 /\ j <= n
    OBVIOUS
  <2>3. w[x] = b[j] /\ x \in DOMAIN w
    BY <1>10, <2>1
  <2> QED BY <1>7, <2>1, <2>2, <2>3
<1>13. ASSUME NEW j \in 1 .. 5
       PROVE  a + n + j - 1 \in DOMAIN w /\ w[a + n + j - 1] = Bytes("jmp", 0, 5, d)[j]
  <2>1. PICK i \in Int : i = n + j
    OBVIOUS
  <2>2. i \in 1 .. n + 5 /\ ~(i <= n) /\ i - n = j
    BY <2>1
  <2>3. PICK x \in Int : x = a + i - 1
    OBVIOUS
  <2>4. x \in a .. a + n + 4 /\ x - a + 1 = i
    BY ONLY a \in Int, n \in Nat, i \in Int, x \in Int, <2>2, <2>3
  <2>5. x = a + n + j - 1
    BY <2>1, <2>3
  <2>6. w[x] = b[i] /\ x \in DOMAIN w
    BY <1>10, <2>4
  <2>7. b[i] = p[j]
    BY <1>7, <2>2
  <2> QED BY <1>3, <2>5, <2>6, <2>7
<1>14. JumpAt(w, a + n, to)
  BY <1>13 DEF JumpAt, Holds, d
<1>15. BufferHolds(m, w, a, q, n, to)
  BY <1>11, <1>12, <1>14 DEF BufferHolds
<1> QED BY <1>15 DEF w, b, p, Filled

LEMMA HoldsSame ==
  ASSUME NEW m, NEW w, NEW S, Same(m, w, S), NEW a \in Int, NEW n \in Nat, NEW k, NEW i, NEW d,
         \A x \in a .. a + n - 1 : x \notin S, Holds(m, a, k, i, n, d)
  PROVE  Holds(w, a, k, i, n, d)
<1> SUFFICES ASSUME NEW j \in 1 .. n
             PROVE  a + j - 1 \in DOMAIN w /\ w[a + j - 1] = Bytes(k, i, n, d)[j]
  BY DEF Holds
<1>1. PICK x \in a .. a + n - 1 : x = a + j - 1
  OBVIOUS
<1>2. x \in DOMAIN m /\ m[x] = Bytes(k, i, n, d)[j]
  BY <1>1 DEF Holds
<1> QED BY <1>1, <1>2 DEF Same

LEMMA JumpSame ==
  ASSUME NEW m, NEW w, NEW S, Same(m, w, S), NEW a \in Int, NEW to,
         \A x \in a .. a + 4 : x \notin S, JumpAt(m, a, to)
  PROVE  JumpAt(w, a, to)
<1>1. PICK n \in Nat : n = 5
  OBVIOUS
<1>2. a .. a + n - 1 = a .. a + 4
  BY <1>1
<1>3. PICK d : d = to - a - 5
  OBVIOUS
<1>4. Holds(m, a, "jmp", 0, n, d)
  BY <1>1, <1>3 DEF JumpAt
<1>5. Holds(w, a, "jmp", 0, n, d)
  BY <1>2, <1>4, HoldsSame
<1> QED BY <1>1, <1>3, <1>5 DEF JumpAt

-----------------------------------------------------------------------------
\* The invariant of the patched code.

\* The hooks whose jump is in place; and with the one being set, once its
\* old_proc is assigned.
Active == done \cup (IF pc \in {"unlock", "unlock_wait", "ret"} THEN {cur} ELSE {})
Ready == done \cup (IF pc \in {"idle", "hot", "code"} THEN {} ELSE {cur})

HotPcs == {"hot_op", "hot_rel", "hot_short"}
SplicePcs == {"lock", "lock_queue", "splice_op", "splice_rel"}

\* The kind of the function's first byte; how many bytes the patch takes.
First == mem[Src][1]
Width == IF First = "short" \/ pc \in HotPcs THEN 2 ELSE 5

CodeType ==
  /\ shape \in Shapes /\ DOMAIN mem = Addresses(shape)
  /\ cur \in 0 .. MaxHooks /\ done \subseteq 1 .. cur
  /\ pc # "idle" => cur > 0 /\ \A h \in done : h < cur
  /\ DOMAIN old_proc = 1 .. MaxHooks
  /\ DOMAIN ip = Cpus /\ DOMAIN trace = Cpus /\ DOMAIN must = Cpus
  /\ seen \in [Cpus -> Seq(Nat)] /\ \A c \in Cpus : must[c] \subseteq done

\* The patch of hook h is in place.
Jumped(h) ==
  \/ Holds(mem, Src, "short", 0, 2, 0) /\ JumpAt(mem, Src - 5, New(h))
  \/ End >= 5 /\ JumpAt(mem, Src, New(h))

\* What is in the function's bytes at each step of set_hook.
Intact(from) == \A a \in Src .. End - 1 : a >= Src + from => mem[a] = Original(shape, a)
PadInv == \A a \in Src - 5 .. Src - 1 : mem[a][1] = "pad" => shape.pad
FreshInv == Active = {} /\ pc # "splice_rel" => Intact(0)
TopInv == Active # {} => \E t \in Active : (\A h \in Active : h <= t) /\ Jumped(t)
StepInv ==
  /\ pc = "splice_rel" => mem[Src] = <<"jmp", 0, 1>>
  /\ pc = "hot_rel" => mem[Src - 5] = <<"jmp", 0, 1>>
  /\ pc = "hot_short" => JumpAt(mem, Src - 5, New(cur))
  /\ pc \in HotPcs => Active = {} /\ Off(shape)[2] = 2
  /\ pc = "double" => First = "short"
  /\ pc \in SplicePcs => First # "short" /\ End >= 5
BytesInv == Intact(Width) /\ PadInv /\ FreshInv /\ TopInv /\ StepInv

\* The first k instructions are in the buffer of hook h, with a jump to the rest.
MovedTo(s, m, h, k) ==
  /\ k \in 1 .. Len(s.code) /\ Off(s)[k + 1] <= 19
  /\ \A i \in 1 .. k : s.code[i].k # "rel8" /\ InstrAt(s, m, Buf(h) + Off(s)[i], i, Buf(h))
  /\ JumpAt(m, Buf(h) + Off(s)[k + 1], Src + Off(s)[k + 1])

\* Where old_proc of hook h leads: past a dropped mov edi, edi; to the moved
\* prologue; or to the hook set before it, directly or by a moved jump.
Oldest(h, D) == \A g \in D : g >= h
Before(p, h, D) == p \in D /\ p < h /\ \A g \in D : g < h => g <= p
Dropped(h) == /\ Oldest(h, done) /\ old_proc[h] = Src + 2 /\ shape.code[1].k = "mov"
              /\ Off(shape)[2] = 2 /\ Width = 2
Displaced(h) == /\ Oldest(h, done) /\ old_proc[h] = Buf(h)
                /\ \E k \in 1 .. Len(shape.code) :
                     MovedTo(shape, mem, h, k) /\ Off(shape)[k + 1] >= Width
Linked(h) == \E p \in done : /\ Before(p, h, done)
                             /\ \/ old_proc[h] = New(p)
                                \/ old_proc[h] = Buf(h) /\ JumpAt(mem, Buf(h), New(p))
Chain(h) == Dropped(h) \/ Displaced(h) \/ Linked(h)
ChainInv == \A h \in Ready : Chain(h)

\* Of a call: a hook has run; all of those set when it began have run, or are
\* still to come from hook h on.
Ran(q, h) == \E j \in 1 .. Len(q) : q[j] = h
Descending(q) == \A j \in 1 .. Len(q) - 1 : q[j] > q[j + 1]
RanAll(q, S) == \A x \in S : Ran(q, x)
Owed(q, S, h) == (\A j \in 1 .. Len(q) : q[j] > h) /\ \A x \in S : x <= h \/ Ran(q, x)

\* Where a processor is: interrupted inside a prologue that was overwritten;
\* at the beginning; at the jump before it; at a hook procedure; at a moved
\* jump to one; in a moved prologue; in the function.
Stranded(c) == ip[c] \in Src + 1 .. Src + 4 /\ First = "jmp"
AtStart(c) == ip[c] = Src /\ trace[c] = << >> /\ seen[c] = << >>
AtPad(c) == ip[c] = Src - 5 /\ First = "short" /\ trace[c] = << >> /\ seen[c] = << >>
AtNew(c) == \E h \in Active :
              ip[c] = New(h) /\ trace[c] = << >> /\ Owed(seen[c], must[c], h)
AtLink(c) == \E h \in Active, p \in done :
               /\ ip[c] = Buf(h) /\ JumpAt(mem, Buf(h), New(p))
               /\ trace[c] = << >> /\ Owed(seen[c], must[c], p)
AtMoved(c) == \E h \in Active, k \in 1 .. Len(shape.code) : \E i \in 1 .. k + 1 :
                /\ ip[c] = Buf(h) + Off(shape)[i]
                /\ MovedTo(shape, mem, h, k) /\ Off(shape)[k + 1] >= Width
                /\ trace[c] = Executed(shape, 1, i) /\ RanAll(seen[c], must[c])
AtBody(c) == \E i \in 2 .. Len(shape.code) + 1 :
               /\ ip[c] = Off(shape)[i]
               /\ Off(shape)[i] >= Width \/ First \notin {"short", "jmp"}
               /\ \/ trace[c] = Executed(shape, 1, i)
                  \/ shape.code[1].k = "mov" /\ trace[c] = Executed(shape, 2, i)
               /\ RanAll(seen[c], must[c])
Place(c) == \/ ip[c] = Nowhere \/ Stranded(c) \/ AtStart(c) \/ AtPad(c) \/ AtNew(c)
            \/ AtLink(c) \/ AtMoved(c) \/ AtBody(c)
PlaceInv == \A c \in Cpus : Place(c) /\ Descending(seen[c])

CodeInv == CodeType /\ BytesInv /\ ChainInv /\ PlaceInv

-----------------------------------------------------------------------------
\* What the invariant says of the function's bytes.

LEMMA EndFacts ==
  ASSUME shape \in Shapes
  PROVE  /\ End = Off(shape)[Len(shape.code) + 1] /\ End \in Nat \ {0}
         /\ Off(shape)[1] = 0 /\ Src = 0
<1>1. PICK e \in Nat \ {0} : e = Off(shape)[Len(shape.code) + 1]
  BY EndIs
<1>2. End = e
  BY <1>1 DEF End, Src
<1> QED BY <1>1, <1>2, OffDef DEF Src

LEMMA DomainFacts ==
  ASSUME CodeType
  PROVE  /\ shape \in Shapes /\ DOMAIN mem \subseteq Int
         /\ \A a \in Src - 5 .. End - 1 : a \in DOMAIN mem
         /\ \A h \in 1 .. MaxHooks : Buffer(h) \subseteq DOMAIN mem
         /\ End \notin DOMAIN mem /\ Nowhere \notin DOMAIN mem /\ Src \in DOMAIN mem
         /\ \A h \in Nat \ {0} : New(h) \notin DOMAIN mem
<1>1. shape \in Shapes /\ DOMAIN mem = Addresses(shape)
  BY DEF CodeType
<1>2. PICK e \in Nat \ {0} : e = End /\ e = Off(shape)[Len(shape.code) + 1]
  BY <1>1, EndFacts
<1>3. Src \in Src - 5 .. e - 1
  BY DEF Src
<1> QED BY <1>1, <1>2, <1>3, AddressesAre

LEMMA IntactInstr ==
  ASSUME shape \in Shapes, \A a \in Src .. End - 1 : a \in DOMAIN mem,
         NEW f \in Nat, Intact(f), NEW i \in 1 .. Len(shape.code), Off(shape)[i] >= f
  PROVE  InstrAt(shape, mem, Off(shape)[i], i, 0)
<1> DEFINE k == shape.code[i].k
<1>1. PICK l \in Nat \ {0} : l = Len(shape.code)
  BY Shape
<1>2. PICK n \in 1 .. 15 : n = shape.code[i].n
  BY Shape
<1>3. i \in 1 .. l + 1 /\ l + 1 \in 1 .. l + 1 /\ i < l + 1
  BY <1>1
<1>4. PICK x \in Nat : x = Off(shape)[i]
  BY <1>1, <1>3, OffDef
<1>5. PICK e \in Nat : e = End /\ e = Off(shape)[l + 1]
  BY <1>1, EndFacts
<1>6. x + n <= e
  BY <1>1, <1>2, <1>3, <1>4, <1>5, OffOrder
<1>7. Off(shape)[i + 1] = x + n
  BY <1>2, <1>4, OffDef
<1>8. PICK d \in Int : d = Callee - (x + n)
  BY DEF Callee
<1>9. Callee - Off(shape)[i + 1] = d /\ Callee - Off(shape)[i + 1] - 0 = d
  BY <1>7, <1>8
<1>10. ASSUME NEW j \in 1 .. n PROVE x + j - 1 \in DOMAIN mem /\ mem[x + j - 1] = Bytes(k, i, n, d)[j]
  <2>1. PICK a \in Int : a = x + j - 1
    OBVIOUS
  <2>2. a \in Src .. End - 1 /\ a >= Src + f
    <3>1. x >= f
      BY <1>4
    <3>2. a \in 0 .. e - 1 /\ a >= f
      BY ONLY x \in Nat, n \in 1 .. 15, j \in 1 .. n, e \in Nat, f \in Nat, a \in Int, <1>6, <2>1, <3>1
    <3> QED BY <1>5, <3>2 DEF Src
  <2>3. mem[a] = Original(shape, a) /\ a \in DOMAIN mem
    BY <2>2 DEF Intact
  <2>4. Original(shape, Off(shape)[i] + j - 1)
          = Bytes(shape.code[i].k, i, shape.code[i].n, Callee - Off(shape)[i + 1])[j]
    <3>1. j \in 1 .. shape.code[i].n
      BY <1>2
    <3> QED BY <3>1, OriginalIs
  <2>5. Original(shape, a) = Bytes(k, i, n, d)[j]
    BY <1>2, <1>4, <1>9, <2>1, <2>4
  <2> QED BY <2>1, <2>3, <2>5
<1>11. Holds(mem, x, k, i, n, d)
  BY <1>10 DEF Holds
<1> HIDE DEF k
<1> QED BY <1>2, <1>4, <1>9, <1>11 DEF InstrAt, k

\* An instruction at its place.
LEMMA InPlace ==
  ASSUME CodeType, NEW f \in Nat, Intact(f), NEW i \in 1 .. Len(shape.code), Off(shape)[i] >= f
  PROVE  Executes(mem, Off(shape)[i], i, Off(shape)[i + 1])
<1>1. shape \in Shapes /\ \A a \in Src .. End - 1 : a \in DOMAIN mem
  <2>1. PICK e \in Nat : e = End
    BY EndFacts DEF CodeType
  <2>2. \A a \in Src .. e - 1 : a \in Src - 5 .. e - 1
    BY DEF Src
  <2> QED BY <2>1, <2>2, DomainFacts
<1>2. InstrAt(shape, mem, Off(shape)[i], i, 0)
  BY <1>1, IntactInstr
<1>3. PICK x \in Nat : x = Off(shape)[i]
  <2>1. i \in 1 .. Len(shape.code) + 1
    BY <1>1, Shape
  <2> QED BY <1>1, <2>1, OffDef
<1>4. PICK z \in Int : z = 0
  OBVIOUS
<1>5. x = z + Off(shape)[i] /\ InstrAt(shape, mem, x, i, z) /\ z = 0 /\ x \in Int
  BY <1>2, <1>3, <1>4
<1>6. Executes(mem, x, i, z + Off(shape)[i + 1])
  BY <1>1, <1>5, InstrDecode
<1>7. PICK y \in Nat : y = Off(shape)[i + 1]
  <2>1. PICK j \in 1 .. Len(shape.code) + 1 : j = i + 1
    BY <1>1, Shape
  <2> QED BY <1>1, <2>1, OffDef
<1>8. z + Off(shape)[i + 1] = Off(shape)[i + 1]
  BY <1>4, <1>7
<1> QED BY <1>3, <1>6, <1>8

\* The first byte tells whether the function is patched, and how.
LEMMA FirstFacts ==
  ASSUME CodeType, BytesInv
  PROVE  /\ Active = {} /\ pc # "splice_rel" =>
              /\ First = shape.code[1].k /\ First \notin {"short", "jmp"}
              /\ size_of_code(mem, Src) = shape.code[1].n /\ mem[Src][2] = 1
         /\ Active # {} => First \in {"short", "jmp"}
         /\ \A t \in Active : Jumped(t) /\ First = "short" =>
              Holds(mem, Src, "short", 0, 2, 0) /\ JumpAt(mem, Src - 5, New(t))
         /\ \A t \in Active : Jumped(t) /\ First = "jmp" => End >= 5 /\ JumpAt(mem, Src, New(t))
         /\ First = "short" => Active # {} /\ pc # "splice_rel"
         /\ First = "jmp" => End >= 5
<1> USE DEF BytesInv
<1>1. shape \in Shapes
  BY DEF CodeType
<1>2. ASSUME Active = {}, pc # "splice_rel"
      PROVE  /\ First = shape.code[1].k /\ First \notin {"short", "jmp"}
             /\ size_of_code(mem, Src) = shape.code[1].n /\ mem[Src][2] = 1
  <2>1. PICK f \in Nat, i \in 1 .. Len(shape.code) : f = 0 /\ i = 1
    BY <1>1, Shape
  <2>2. Intact(f) /\ Off(shape)[i] = 0 /\ Off(shape)[i] >= f
    BY <1>1, <1>2, <2>1, EndFacts DEF FreshInv
  <2>3. /\ mem[Off(shape)[i]][1] = shape.code[i].k /\ mem[Off(shape)[i]][1] \notin {"jmp", "short"}
        /\ size_of_code(mem, Off(shape)[i]) = shape.code[i].n
        /\ <<mem[Off(shape)[i]][2], Target(mem, Off(shape)[i])>> = Expect(shape, i)
    <3>1. Executes(mem, Off(shape)[i], i, Off(shape)[i + 1])
      BY <2>2, InPlace
    <3> QED BY <3>1 DEF Executes
  <2>4. Off(shape)[i] = Src
    BY <1>1, <2>2, EndFacts
  <2>5. mem[Src][2] = i
    BY <2>3, <2>4 DEF Expect
  <2> QED BY <2>1, <2>3, <2>4, <2>5 DEF First
<1>3. ASSUME NEW t \in Active, Jumped(t)
      PROVE  /\ First \in {"short", "jmp"}
             /\ First = "short" => Holds(mem, Src, "short", 0, 2, 0) /\ JumpAt(mem, Src - 5, New(t))
             /\ First = "jmp" => End >= 5 /\ JumpAt(mem, Src, New(t))
  <2>1. PICK a \in Int, to \in Int : a = Src /\ to = New(t)
    <3>1. t \in Nat
      BY DEF CodeType, Active
    <3> QED BY <3>1 DEF Src, New
  <2>2. JumpAt(mem, a, to) => mem[a][1] = "jmp"
    BY JumpDecode
  <2>3. Holds(mem, Src, "short", 0, 2, 0) => mem[Src][1] = "short"
    BY ShortDecode
  <2> QED BY <1>3, <2>1, <2>2, <2>3 DEF First, Jumped
<1>4. Active # {} => First \in {"short", "jmp"}
  BY <1>3 DEF TopInv
<1>5. First = "short" => Active # {} /\ pc # "splice_rel"
  <2>1. pc = "splice_rel" => First = "jmp"
    BY DEF StepInv, First
  <2> QED BY <1>2, <2>1
<1>6. First = "jmp" => End >= 5
  <2>1. CASE Active # {}
    <3>1. PICK t \in Active : Jumped(t)
      BY <2>1 DEF TopInv
    <3> QED BY <1>3, <3>1
  <2>2. CASE pc = "splice_rel"
    BY <2>2 DEF StepInv, SplicePcs
  <2> QED BY <1>2, <2>1, <2>2
<1> QED BY <1>2, <1>3, <1>4, <1>5, <1>6

-----------------------------------------------------------------------------
\* What a store elsewhere leaves alone.

\* What a store elsewhere leaves alone.
LEMMA LinkSame ==
  ASSUME NEW m, NEW w, NEW S, Same(m, w, S), NEW h \in Nat \ {0}, Buffer(h) \cap S = {},
         NEW to, JumpAt(m, Buf(h), to)
  PROVE  JumpAt(w, Buf(h), to)
<1>1. PICK a \in Int : a = Buf(h)
  BY Apart
<1>2. \A x \in a .. a + 4 : x \notin S
  <2>1. \A x \in a .. a + 4 : x \in Buffer(h)
    BY <1>1 DEF Buffer, BufSize
  <2> QED BY <2>1
<1>3. JumpAt(w, a, to)
  BY <1>1, <1>2, JumpSame
<1> QED BY <1>1, <1>3

LEMMA MovedSame ==
  ASSUME NEW s \in Shapes, NEW m, NEW w, NEW S, Same(m, w, S), NEW h \in Nat \ {0},
         Buffer(h) \cap S = {}, NEW k, MovedTo(s, m, h, k)
  PROVE  MovedTo(s, w, h, k)
<1>1. PICK b \in Int : b = Buf(h)
  BY Apart
<1>2. PICK l \in Nat \ {0} : l = Len(s.code)
  BY Shape
<1>3. k \in 1 .. l /\ k + 1 \in 1 .. l + 1
  BY <1>2 DEF MovedTo
<1>4. PICK e \in 0 .. 19 : e = Off(s)[k + 1]
  <2>1. Off(s)[k + 1] \in Nat /\ Off(s)[k + 1] <= 19
    <3>1. PICK j \in 1 .. Len(s.code) + 1 : j = k + 1
      BY <1>2, <1>3
    <3> QED BY <3>1, OffDef DEF MovedTo
  <2> QED BY <2>1
<1>5. \A x \in Int : x \in b .. b + 23 => x \notin S
  BY <1>1 DEF Buffer, BufSize
<1>6. ASSUME NEW i \in 1 .. k PROVE InstrAt(s, w, Buf(h) + Off(s)[i], i, Buf(h))
  <2>1. PICK n \in Nat : n = s.code[i].n
    BY <1>2, <1>3, Shape
  <2>2. i \in 1 .. l /\ k + 1 \in 1 .. l + 1 /\ i \in 1 .. l + 1 /\ i < k + 1
    BY <1>3
  <2>3. PICK x \in Nat : x = Off(s)[i]
    BY <1>2, <2>2, OffDef
  <2>4. x + n <= e
    BY <1>2, <1>4, <2>1, <2>2, <2>3, OffOrder
  <2>5. PICK d : d = Callee - Off(s)[i + 1] - Buf(h)
    OBVIOUS
  <2>6. PICK a \in Int : a = b + x
    OBVIOUS
  <2>7. Holds(m, a, s.code[i].k, i, n, d)
    BY <1>1, <2>1, <2>3, <2>5, <2>6 DEF MovedTo, InstrAt
  <2>8. \A y \in a .. a + n - 1 : y \notin S
    <3>1. \A y \in a .. a + n - 1 : y \in Int /\ y \in b .. b + 23
      BY <2>4, <2>6
    <3> QED BY <1>5, <3>1
  <2>9. Holds(w, a, s.code[i].k, i, n, d)
    BY <2>7, <2>8, HoldsSame
  <2> QED BY <1>1, <2>1, <2>3, <2>5, <2>6, <2>9 DEF InstrAt
<1>7. JumpAt(w, Buf(h) + Off(s)[k + 1], Src + Off(s)[k + 1])
  <2>1. PICK a \in Int : a = b + e
    OBVIOUS
  <2>2. PICK to : to = Src + Off(s)[k + 1]
    OBVIOUS
  <2>3. JumpAt(m, a, to)
    BY <1>1, <1>4, <2>1, <2>2 DEF MovedTo
  <2>4. \A y \in a .. a + 4 : y \notin S
    <3>1. \A y \in a .. a + 4 : y \in Int /\ y \in b .. b + 23
      BY <2>1
    <3> QED BY <1>5, <3>1
  <2>5. JumpAt(w, a, to)
    BY <2>3, <2>4, JumpSame
  <2> QED BY <1>1, <1>4, <2>1, <2>2, <2>5
<1> QED BY <1>6, <1>7 DEF MovedTo

LEMMA ActiveFacts ==
  ASSUME CodeType
  PROVE  /\ \A h \in Active : h \in Nat \ {0} /\ h \in 1 .. MaxHooks /\ h <= cur
         /\ \A h \in Ready : h \in Nat \ {0} /\ h \in 1 .. MaxHooks /\ h <= cur
         /\ done \subseteq Active /\ done \subseteq Ready /\ Active \subseteq Ready
         /\ MaxHooks \in Nat /\ cur \in Nat
<1>1. MaxHooks \in Nat
  BY CodeHookAssumption
<1>2. cur \in 0 .. MaxHooks /\ done \subseteq 1 .. cur /\ (pc # "idle" => cur > 0)
  BY DEF CodeType
<1>3. \A h \in done : h \in Nat \ {0} /\ h \in 1 .. MaxHooks /\ h <= cur
  BY <1>1, <1>2
<1>4. pc # "idle" => cur \in Nat \ {0} /\ cur \in 1 .. MaxHooks /\ cur <= cur
  BY <1>1, <1>2
<1> QED BY <1>1, <1>2, <1>3, <1>4 DEF Active, Ready

\* A store outside the function's first bytes and the buffers in use leaves a
\* processor where it is.
LEMMA PlaceSame ==
  ASSUME CodeType, NEW c \in Cpus, Place(c), shape' = shape,
         ip'[c] = ip[c], trace'[c] = trace[c], seen'[c] = seen[c], must'[c] = must[c],
         Active \subseteq Active', done \subseteq done',
         NEW S, Same(mem, mem', S), \A h \in Active : Buffer(h) \cap S = {},
         First' = First, Width' <= Width
  PROVE  Place(c)'
<1>0. shape \in Shapes
  BY DEF CodeType
<1>1. CASE ip[c] = Nowhere \/ Stranded(c) \/ AtStart(c) \/ AtPad(c)
  BY <1>1 DEF Place, Stranded, AtStart, AtPad
<1>2. CASE AtNew(c)
  <2>1. AtNew(c)'
    BY <1>2 DEF AtNew
  <2> QED BY <2>1 DEF Place
<1>3. CASE AtLink(c)
  <2>1. PICK h \in Active, p \in done :
               /\ ip[c] = Buf(h) /\ JumpAt(mem, Buf(h), New(p))
               /\ trace[c] = << >> /\ Owed(seen[c], must[c], p)
    BY <1>3 DEF AtLink
  <2>2. h \in Nat \ {0}
    BY ActiveFacts
  <2>3. PICK to : to = New(p)
    OBVIOUS
  <2>4. JumpAt(mem', Buf(h), to)
    BY <2>1, <2>2, <2>3, LinkSame
  <2>5. AtLink(c)'
    BY <2>1, <2>3, <2>4 DEF AtLink
  <2> QED BY <2>5 DEF Place
<1>4. PICK v \in {2, 5}, u \in {2, 5} : v = Width /\ u = Width' /\ u <= v
  BY DEF Width
<1>5. CASE AtMoved(c)
  <2>1. PICK h \in Active, k \in 1 .. Len(shape.code) : \E i \in 1 .. k + 1 :
                /\ ip[c] = Buf(h) + Off(shape)[i]
                /\ MovedTo(shape, mem, h, k) /\ Off(shape)[k + 1] >= Width
                /\ trace[c] = Executed(shape, 1, i) /\ RanAll(seen[c], must[c])
    BY <1>5 DEF AtMoved
  <2>2. h \in Nat \ {0}
    BY ActiveFacts
  <2>3. MovedTo(shape, mem', h, k)
    BY <1>0, <2>1, <2>2, MovedSame
  <2>4. Off(shape)[k + 1] >= Width'
    <3>1. PICK j \in 1 .. Len(shape.code) + 1 : j = k + 1
      BY <1>0, Shape
    <3>2. PICK x \in Nat : x = Off(shape)[k + 1]
      BY <1>0, <3>1, OffDef
    <3>3. x >= v
      BY <1>4, <2>1, <3>2
    <3>4. x >= u
      BY <1>4, <3>3
    <3> QED BY <1>4, <3>2, <3>4
  <2>5. AtMoved(c)'
    BY <2>1, <2>3, <2>4 DEF AtMoved
  <2> QED BY <2>5 DEF Place
<1>6. CASE AtBody(c)
  <2>1. PICK i \in 2 .. Len(shape.code) + 1 :
               /\ ip[c] = Off(shape)[i]
               /\ Off(shape)[i] >= Width \/ First \notin {"short", "jmp"}
               /\ \/ trace[c] = Executed(shape, 1, i)
                  \/ shape.code[1].k = "mov" /\ trace[c] = Executed(shape, 2, i)
               /\ RanAll(seen[c], must[c])
    BY <1>6 DEF AtBody
  <2>2. Off(shape)[i] >= Width' \/ First' \notin {"short", "jmp"}
    <3>1. i \in 1 .. Len(shape.code) + 1
      BY <1>0, Shape
    <3>2. PICK x \in Nat : x = Off(shape)[i]
      BY <1>0, <3>1, OffDef
    <3>3. x >= v \/ First' \notin {"short", "jmp"}
      BY <1>4, <2>1, <3>2
    <3>4. x >= u \/ First' \notin {"short", "jmp"}
      BY <1>4, <3>3
    <3> QED BY <1>4, <3>2, <3>4
  <2>3. AtBody(c)'
    BY <2>1, <2>2 DEF AtBody
  <2> QED BY <2>3 DEF Place
<1> QED BY <1>1, <1>2, <1>3, <1>5, <1>6 DEF Place

LEMMA ChainSame ==
  ASSUME CodeType, NEW h \in Nat \ {0}, Chain(h), shape' = shape, old_proc'[h] = old_proc[h],
         done \subseteq done', \A g \in done' : g \in done \/ (g \in Nat /\ g >= h),
         NEW S, Same(mem, mem', S), Buffer(h) \cap S = {}, Width' <= Width
  PROVE  Chain(h)'
<1>0. shape \in Shapes /\ done \subseteq Nat
  BY DEF CodeType
<1>1. PICK v \in {2, 5}, u \in {2, 5} : v = Width /\ u = Width' /\ u <= v
  BY DEF Width
<1>2. Oldest(h, done) => Oldest(h, done')
  BY DEF Oldest
<1>3. CASE Dropped(h)
  <2>1. Width' = 2
    BY <1>1, <1>3 DEF Dropped
  <2> QED BY <1>2, <1>3, <2>1 DEF Chain, Dropped
<1>4. CASE Displaced(h)
  <2>1. PICK k \in 1 .. Len(shape.code) : MovedTo(shape, mem, h, k) /\ Off(shape)[k + 1] >= Width
    BY <1>4 DEF Displaced
  <2>2. MovedTo(shape, mem', h, k)
    BY <1>0, <2>1, MovedSame
  <2>3. Off(shape)[k + 1] >= Width'
    <3>1. PICK j \in 1 .. Len(shape.code) + 1 : j = k + 1
      BY <1>0, Shape
    <3>2. PICK x \in Nat : x = Off(shape)[k + 1]
      BY <1>0, <3>1, OffDef
    <3>3. x >= v
      BY <1>1, <2>1, <3>2
    <3>4. x >= u
      BY <1>1, <3>3
    <3> QED BY <1>1, <3>2, <3>4
  <2> QED BY <1>2, <1>4, <2>2, <2>3 DEF Chain, Displaced
<1>5. CASE Linked(h)
  <2>1. PICK p \in done : /\ Before(p, h, done)
                          /\ \/ old_proc[h] = New(p)
                             \/ old_proc[h] = Buf(h) /\ JumpAt(mem, Buf(h), New(p))
    BY <1>5 DEF Linked
  <2>2. Before(p, h, done')
    <3>1. ASSUME NEW g \in done', g < h PROVE g <= p
      <4>1. ~(g \in Nat /\ g >= h)
        BY <3>1
      <4> QED BY <2>1, <3>1, <4>1 DEF Before
    <3> QED BY <2>1, <3>1 DEF Before
  <2>3. JumpAt(mem, Buf(h), New(p)) => JumpAt(mem', Buf(h), New(p))
    <3>1. PICK to : to = New(p)
      OBVIOUS
    <3>2. JumpAt(mem, Buf(h), to) => JumpAt(mem', Buf(h), to)
      BY LinkSame
    <3> QED BY <3>1, <3>2
  <2>4. Linked(h)'
    BY <2>1, <2>2, <2>3 DEF Linked
  <2> QED BY <2>4 DEF Chain
<1> QED BY <1>3, <1>4, <1>5 DEF Chain

-----------------------------------------------------------------------------
\* Steps of set_hook that store nothing.

\* Steps of set_hook that store nothing.
LEMMA BytesSame ==
  ASSUME BytesInv, ChainInv, UNCHANGED <<code, pc, cur>>
  PROVE  BytesInv' /\ ChainInv' /\ Active' = Active /\ First' = First /\ Width' = Width
<1> USE DEF code
<1>1. First' = First /\ Active' = Active /\ Ready' = Ready /\ End' = End
  BY DEF First, Active, Ready, End
<1>2. Width' = Width
  BY <1>1 DEF Width
<1>3. Intact(Width)' /\ PadInv' /\ FreshInv'
  BY <1>1, <1>2 DEF BytesInv, Intact, PadInv, FreshInv
<1>4. TopInv' /\ StepInv'
  BY <1>1 DEF BytesInv, TopInv, StepInv, Jumped
<1>5. ChainInv'
  BY <1>1, <1>2 DEF ChainInv, Chain, Dropped, Displaced, Linked
<1> QED BY <1>1, <1>2, <1>3, <1>4, <1>5 DEF BytesInv

LEMMA AllSame ==
  ASSUME CodeInv, UNCHANGED <<code, pc, cur, cpu>>
  PROVE  CodeInv'
<1>1. BytesInv' /\ ChainInv' /\ Active' = Active /\ First' = First /\ Width' = Width
  BY BytesSame DEF CodeInv
<1>2. CodeType'
  BY DEF CodeInv, CodeType, code, cpu
<1>3. PlaceInv'
  BY <1>1 DEF CodeInv, PlaceInv, Place, Stranded, AtStart, AtPad, AtNew, AtLink, AtMoved, AtBody, code, cpu
<1> QED BY <1>1, <1>2, <1>3 DEF CodeInv

LEMMA NoStore ==
  ASSUME CodeInv, CodeType', UNCHANGED <<shape, mem, old_proc, cpu>>,
         Active' = Active, Ready' = Ready, done \subseteq done',
         \A g \in done' : g \in done \/ g = cur,
         pc \notin HotPcs, pc # "splice_rel", pc' \notin HotPcs, pc' # "splice_rel", pc' # "double",
         pc' \in SplicePcs => pc \in SplicePcs
  PROVE  CodeInv'
<1> USE DEF CodeInv
<1>1. First' = First /\ End' = End
  BY DEF First, End
<1>2. Width' = Width /\ Width' <= Width
  <2>1. Width' = Width
    BY <1>1 DEF Width
  <2> QED BY <2>1 DEF Width
<1>3. Intact(Width)' /\ PadInv' /\ FreshInv'
  BY <1>1, <1>2 DEF BytesInv, Intact, PadInv, FreshInv
<1>4. TopInv' /\ StepInv'
  BY <1>1 DEF BytesInv, TopInv, StepInv, Jumped, HotPcs
<1>5. Same(mem, mem', {})
  BY DEF Same
<1>6. ChainInv'
  <2>1. ASSUME NEW h \in Ready PROVE Chain(h)'
    <3>1. h \in Nat \ {0} /\ h <= cur /\ cur \in Nat
      BY ActiveFacts
    <3>2. Chain(h) /\ old_proc'[h] = old_proc[h]
      BY DEF ChainInv
    <3>3. \A g \in done' : g \in done \/ (g \in Nat /\ g >= h)
      BY <3>1
    <3>4. Buffer(h) \cap {} = {}
      OBVIOUS
    <3> QED BY <1>2, <1>5, <3>1, <3>2, <3>3, <3>4, ChainSame
  <2> QED BY <2>1 DEF ChainInv
<1>7. PlaceInv'
  <2> SUFFICES ASSUME NEW c \in Cpus PROVE Place(c)' /\ Descending(seen'[c])
    BY DEF PlaceInv
  <2>1. /\ ip'[c] = ip[c] /\ trace'[c] = trace[c] /\ seen'[c] = seen[c] /\ must'[c] = must[c]
    BY DEF cpu
  <2>2. Place(c) /\ Descending(seen[c])
    BY DEF PlaceInv
  <2>3. Active \subseteq Active' /\ \A h \in Active : Buffer(h) \cap {} = {}
    OBVIOUS
  <2>4. Place(c)'
    BY <1>1, <1>2, <1>5, <2>1, <2>2, <2>3, PlaceSame
  <2> QED BY <2>1, <2>2, <2>4
<1> QED BY <1>3, <1>4, <1>6, <1>7 DEF BytesInv

LEMMA Refusals ==
  ASSUME CodeInv, HotRefused \/ CodeRefused \/ Begin
  PROVE  CodeInv'
<1> USE DEF HotRefused, CodeRefused, Begin, Go
<1>1. UNCHANGED <<shape, mem, old_proc, done, cpu>>
  BY DEF code
<1>2. /\ pc \in {"idle", "hot", "code"} /\ pc' \in {"idle", "hot", "code"}
  OBVIOUS
<1>3. CodeType'
  <2>1. CodeType
    BY DEF CodeInv
  <2>2. cur \in 0 .. MaxHooks /\ MaxHooks \in Nat /\ cur \in Nat /\ done \subseteq 1 .. cur
    BY <2>1, CodeHookAssumption DEF CodeType
  <2>3. /\ cur' \in 0 .. MaxHooks /\ done' \subseteq 1 .. cur'
        /\ pc' # "idle" => cur' > 0 /\ \A h \in done' : h < cur'
    <3>1. CASE Begin
      <4>1. cur' = cur + 1 /\ cur < MaxHooks /\ done' = done
        BY <1>1, <3>1
      <4>2. \A h \in 1 .. cur : h \in 1 .. cur + 1 /\ h < cur + 1
        BY <2>2
      <4> QED BY <2>2, <4>1, <4>2
    <3>2. CASE HotRefused \/ CodeRefused
      <4>1. cur' = cur /\ (pc' # "idle" => pc # "idle")
        BY <3>2
      <4> QED BY <1>1, <2>1, <2>2, <4>1 DEF CodeType
    <3> QED BY <3>1, <3>2
  <2> QED BY <1>1, <2>1, <2>3 DEF CodeType, cpu
<1>4. Active' = Active /\ Ready' = Ready
  BY <1>1, <1>2 DEF Active, Ready
<1>5. pc \notin HotPcs /\ pc # "splice_rel" /\ pc' \notin HotPcs \cup SplicePcs /\ pc' # "double" /\ pc' # "splice_rel"
  BY <1>2 DEF HotPcs, SplicePcs
<1> QED BY <1>1, <1>3, <1>4, <1>5, NoStore

LEMMA LockWaits ==
  ASSUME CodeInv, LockInit \/ LockWait \/ Unlock \/ UnlockWait
  PROVE  CodeInv'
<1> USE DEF LockInit, LockWait, Unlock, UnlockWait, Go
<1>1. UNCHANGED <<shape, mem, old_proc, done, cur, cpu>>
  BY DEF code
<1>2. \/ pc \in {"lock", "lock_queue"} /\ pc' \in {"lock_queue", "splice_op"}
      \/ pc \in {"unlock", "unlock_wait"} /\ pc' \in {"unlock_wait", "ret"}
  OBVIOUS
<1>3. CodeType'
  <2>1. pc # "idle"
    BY <1>2
  <2> QED BY <1>1, <2>1 DEF CodeInv, CodeType, cpu
<1>4. Active' = Active /\ Ready' = Ready
  BY <1>1, <1>2 DEF Active, Ready
<1>5. /\ pc \notin HotPcs /\ pc # "splice_rel" /\ pc' \notin HotPcs
      /\ pc' # "double" /\ pc' # "splice_rel" /\ (pc' \in SplicePcs => pc \in SplicePcs)
  BY <1>2 DEF HotPcs, SplicePcs
<1> QED BY <1>1, <1>3, <1>4, <1>5, NoStore

LEMMA Returns ==
  ASSUME CodeInv, Return
  PROVE  CodeInv'
<1> USE DEF Return, Go
<1>1. UNCHANGED <<shape, mem, old_proc, cur, cpu>> /\ done' = done \cup {cur}
  OBVIOUS
<1>2. pc = "ret" /\ pc' = "idle"
  OBVIOUS
<1>3. CodeType'
  <2>1. CodeType
    BY DEF CodeInv
  <2>2. cur \in 0 .. MaxHooks /\ MaxHooks \in Nat /\ cur > 0 /\ done \subseteq 1 .. cur
    BY <1>2, <2>1, CodeHookAssumption DEF CodeType
  <2>3. cur \in 1 .. cur
    BY <2>2
  <2> QED BY <1>1, <1>2, <2>1, <2>2, <2>3 DEF CodeType, cpu
<1>4. Active' = Active /\ Ready' = Ready
  BY <1>1, <1>2 DEF Active, Ready
<1>5. /\ pc \notin HotPcs /\ pc # "splice_rel" /\ pc' \notin HotPcs
      /\ pc' # "double" /\ pc' # "splice_rel" /\ pc' \notin SplicePcs
  BY <1>2 DEF HotPcs, SplicePcs
<1> QED BY <1>1, <1>3, <1>4, <1>5, NoStore

-----------------------------------------------------------------------------
\* Steps that store at the function's entry.

\* Steps of set_hook that store into the function or the padding before it.
Entry == Src - 5 .. Src + 4

LEMMA EntryApart ==
  ASSUME NEW h \in Nat \ {0}, NEW S, S \subseteq Entry
  PROVE  Buffer(h) \cap S = {}
<1>1. \A x \in Buffer(h) : x \in Int /\ x < Src - 5
  BY Apart
<1>2. \A x \in Entry : ~(x < Src - 5)
  BY DEF Entry, Src
<1> QED BY <1>1, <1>2

LEMMA EntryChain ==
  ASSUME CodeInv, UNCHANGED <<shape, old_proc, done>>, Ready' = Ready,
         NEW S, S \subseteq Entry, Same(mem, mem', S), Width' <= Width
  PROVE  ChainInv'
<1> SUFFICES ASSUME NEW h \in Ready PROVE Chain(h)'
  BY DEF ChainInv
<1>1. CodeType /\ Chain(h)
  BY DEF CodeInv, ChainInv
<1>2. h \in Nat \ {0}
  BY <1>1, ActiveFacts
<1>3. Buffer(h) \cap S = {}
  BY <1>2, EntryApart
<1>4. old_proc'[h] = old_proc[h] /\ done \subseteq done' /\ \A g \in done' : g \in done \/ (g \in Nat /\ g >= h)
  OBVIOUS
<1> QED BY <1>1, <1>2, <1>3, <1>4, ChainSame

LEMMA EntryPlace ==
  ASSUME CodeInv, UNCHANGED <<shape, done, cpu>>, Active \subseteq Active',
         NEW S, S \subseteq Entry, Same(mem, mem', S), First' = First, Width' <= Width
  PROVE  PlaceInv'
<1> SUFFICES ASSUME NEW c \in Cpus PROVE Place(c)' /\ Descending(seen'[c])
  BY DEF PlaceInv
<1>1. CodeType /\ Place(c) /\ Descending(seen[c])
  BY DEF CodeInv, PlaceInv
<1>2. ip'[c] = ip[c] /\ trace'[c] = trace[c] /\ seen'[c] = seen[c] /\ must'[c] = must[c]
  BY DEF cpu
<1>3. \A h \in Active : Buffer(h) \cap S = {}
  BY <1>1, ActiveFacts, EntryApart
<1>4. done \subseteq done'
  OBVIOUS
<1>5. Place(c)'
  BY <1>1, <1>2, <1>3, <1>4, PlaceSame
<1> QED BY <1>1, <1>2, <1>5

LEMMA EntryType ==
  ASSUME CodeType, UNCHANGED <<shape, done, cur, cpu>>, DOMAIN old_proc' = DOMAIN old_proc, pc # "idle",
         NEW S, Same(mem, mem', S)
  PROVE  CodeType'
BY DEF CodeType, cpu, Same

LEMMA IntactSame ==
  ASSUME CodeType, NEW f \in Nat, NEW g \in Nat, Intact(f), f <= g, shape' = shape,
         NEW S, Same(mem, mem', S), \A x \in S : x \in Int /\ x < Src + g
  PROVE  Intact(g)'
<1>1. PICK e \in Nat : e = End /\ e = End'
  <2>1. End \in Nat /\ End' = End
    BY EndFacts DEF CodeType, End
  <2> QED BY <2>1
<1>2. SUFFICES ASSUME NEW a \in Src .. e - 1, a >= Src + g PROVE mem'[a] = Original(shape, a)
  BY <1>1 DEF Intact
<1>3. a >= Src + f /\ a \in Src - 5 .. e - 1 /\ ~(a < Src + g)
  BY <1>2 DEF Src
<1>4. a \in DOMAIN mem
  BY <1>1, <1>3, DomainFacts
<1>5. mem[a] = Original(shape, a)
  BY <1>1, <1>3 DEF Intact
<1> QED BY <1>3, <1>4, <1>5 DEF Same

LEMMA PadSame ==
  ASSUME CodeType, PadInv, shape' = shape, NEW S, Same(mem, mem', S),
         \A x \in S : x \in Src - 5 .. Src - 1 => mem'[x][1] # "pad"
  PROVE  PadInv'
<1> SUFFICES ASSUME NEW a \in Src - 5 .. Src - 1, mem'[a][1] = "pad" PROVE shape.pad
  BY DEF PadInv
<1>1. a \in DOMAIN mem
  <2>1. PICK e \in Nat : e = End
    BY EndFacts DEF CodeType
  <2>2. a \in Src - 5 .. e - 1
    BY DEF Src
  <2> QED BY <2>1, <2>2, DomainFacts
<1>2. a \notin S
  OBVIOUS
<1>3. mem'[a] = mem[a]
  BY <1>1, <1>2 DEF Same
<1> QED BY <1>3 DEF PadInv

LEMMA WidthIs ==
  /\ Width \in {2, 5} /\ Width \in Nat
  /\ First = "short" \/ pc \in HotPcs => Width = 2
  /\ First # "short" /\ pc \notin HotPcs => Width = 5
BY DEF Width

LEMMA HotOpStep ==
  ASSUME CodeInv, HotOp
  PROVE  CodeInv'
<1> USE DEF HotOp, Go
<1>0. CodeType /\ BytesInv
  BY DEF CodeInv
<1>1. pc = "hot_op" /\ pc' = "hot_rel" /\ UNCHANGED <<shape, old_proc, done, cur, cpu>>
  OBVIOUS
<1>2. PICK a \in Int : a = Src - 5
  BY DEF Src
<1>3. a \in DOMAIN mem /\ DOMAIN mem \subseteq Int
  <2>1. PICK e \in Nat : e = End
    BY <1>0, EndFacts DEF CodeType
  <2>2. a \in Src - 5 .. e - 1
    BY <1>2 DEF Src
  <2> QED BY <1>0, <2>1, <2>2, DomainFacts
<1>4. Same(mem, mem', {a}) /\ mem'[a] = <<"jmp", 0, 1>>
  <2>1. mem' = Poke(mem, a, JumpOp)
    BY <1>2
  <2> QED BY <1>3, <2>1, OpStored
<1>5. {a} \subseteq Entry /\ Src # a /\ a < Src
  BY <1>2 DEF Entry, Src
<1>6. First' = First /\ Active = {} /\ Active' = {} /\ Ready' = Ready /\ Off(shape)[2] = 2
  <2>1. First' = First
    BY <1>0, <1>4, <1>5, DomainFacts DEF First, Same
  <2>2. pc \in HotPcs
    BY <1>1 DEF HotPcs
  <2>3. Active = {} /\ Off(shape)[2] = 2
    BY <1>0, <2>2 DEF BytesInv, StepInv
  <2> QED BY <1>1, <2>1, <2>3 DEF Active, Ready
<1>7. Width = 2 /\ Width' = 2 /\ Width' <= Width
  <2>1. Width = 2 /\ Width' = 2
    BY <1>1 DEF Width, HotPcs
  <2> QED BY <2>1
<1>8. CodeType'
  BY <1>0, <1>1, <1>4, EntryType
<1>9. ChainInv' /\ PlaceInv'
  BY <1>1, <1>4, <1>5, <1>6, <1>7, EntryChain, EntryPlace
<1>10. ASSUME NEW g \in Nat PROVE Intact(g)'
  <2>1. PICK z \in Nat : z = 0
    OBVIOUS
  <2>2. Intact(z) /\ z <= g /\ \A x \in {a} : x \in Int /\ x < Src + g
    BY <1>0, <1>1, <1>5, <1>6, <2>1 DEF BytesInv, FreshInv, Src
  <2> QED BY <1>0, <1>1, <1>4, <2>2, IntactSame
<1>11. Intact(Width)' /\ FreshInv'
  BY <1>7, <1>10 DEF FreshInv, Intact
<1>12. PadInv'
  BY <1>0, <1>1, <1>4, PadSame DEF BytesInv
<1>13. TopInv' /\ StepInv'
  BY <1>1, <1>2, <1>4, <1>6 DEF TopInv, StepInv, HotPcs, SplicePcs
<1> QED BY <1>8, <1>9, <1>11, <1>12, <1>13 DEF CodeInv, BytesInv

LEMMA EntryDomain ==
  ASSUME CodeType
  PROVE  /\ DOMAIN mem \subseteq Int /\ End \in Nat /\ Src \in DOMAIN mem
         /\ \A x \in Src - 5 .. Src - 1 : x \in DOMAIN mem
         /\ End >= 5 => \A x \in Src .. Src + 4 : x \in DOMAIN mem
         /\ Off(shape)[2] = 2 => \A x \in Src .. Src + 1 : x \in DOMAIN mem
<1>0. shape \in Shapes
  BY DEF CodeType
<1>1. PICK e \in Nat : e = End /\ e = Off(shape)[Len(shape.code) + 1]
  BY <1>0, EndFacts
<1>2. \A x \in Src - 5 .. e - 1 : x \in DOMAIN mem
  BY <1>1, DomainFacts
<1>3. \A x \in Src - 5 .. Src - 1 : x \in Src - 5 .. e - 1
  BY DEF Src
<1>4. e >= 5 => \A x \in Src .. Src + 4 : x \in Src - 5 .. e - 1
  BY DEF Src
<1>5. ASSUME Off(shape)[2] = 2 PROVE \A x \in Src .. Src + 1 : x \in Src - 5 .. e - 1
  <2>1. PICK l \in Nat \ {0} : l = Len(shape.code)
    BY <1>0, Shape
  <2>2. PICK i \in 1 .. l : i = 1
    BY <2>1
  <2>3. i < l + 1 /\ l + 1 \in 1 .. l + 1 /\ i + 1 = 2
    BY <2>1, <2>2
  <2>4. Off(shape)[i + 1] = Off(shape)[i] + shape.code[i].n
    BY <1>0, <2>1, OffDef
  <2>5. Off(shape)[i] + shape.code[i].n <= Off(shape)[l + 1]
    BY <1>0, <2>1, <2>2, <2>3, OffOrder
  <2>6. 2 <= e
    BY <1>1, <1>5, <2>1, <2>3, <2>4, <2>5
  <2> QED BY <2>6 DEF Src
<1>6. Src \in DOMAIN mem
  BY DomainFacts
<1>7. DOMAIN mem \subseteq Int
  BY DomainFacts
<1> QED BY <1>1, <1>2, <1>3, <1>4, <1>5, <1>6, <1>7

\* The jump of the hook being set is written before the function.
LEMMA PadJump ==
  ASSUME CodeType, cur \in Nat, mem' = Poke(mem, Src - 4, JumpRel(Src - 5, New(cur))),
         mem[Src - 5] = <<"jmp", 0, 1>>
  PROVE  /\ Same(mem, mem', Src - 4 .. Src - 1) /\ JumpAt(mem', Src - 5, New(cur))
         /\ Src - 4 .. Src - 1 \subseteq Entry
         /\ \A x \in Src - 4 .. Src - 1 : x \in Int /\ x < Src
         /\ \A x \in Src - 4 .. Src - 1 : mem'[x][1] # "pad"
         /\ mem'[Src] = mem[Src]
<1>1. PICK a \in Int, a1 \in Int, to \in Int : a = Src - 5 /\ a1 = Src - 4 /\ to = New(cur) /\ a1 = a + 1
  BY DEF Src, New
<1>2. a .. a + 4 = Src - 5 .. Src - 1 /\ a + 1 .. a + 4 = Src - 4 .. Src - 1
  BY <1>1 DEF Src
<1>3. DOMAIN mem \subseteq Int /\ \A x \in a .. a + 4 : x \in DOMAIN mem
  BY <1>2, EntryDomain
<1>4. mem' = Poke(mem, a1, JumpRel(a, to)) /\ mem[a] = <<"jmp", 0, 1>>
  BY <1>1
<1>5. Same(mem, mem', a + 1 .. a + 4) /\ JumpAt(mem', a, to)
  BY <1>1, <1>3, <1>4, RelStored
<1>6. \A x \in a + 1 .. a + 4 : mem'[x] = <<"rel", to - a - 5, x - a>>
  BY <1>5, JumpDecode
<1>7. \A x \in Src - 4 .. Src - 1 : x \in Int /\ x < Src /\ x \in Entry
  BY DEF Src, Entry
<1>8. Src \in DOMAIN mem
  BY EntryDomain
<1>9. Src \notin Src - 4 .. Src - 1
  BY DEF Src
<1>10. ASSUME NEW x \in Src - 4 .. Src - 1 PROVE mem'[x][1] # "pad"
  <2>1. PICK d, i : mem'[x] = <<"rel", d, i>>
    BY <1>2, <1>6
  <2> QED BY <2>1
<1> QED BY <1>1, <1>2, <1>5, <1>7, <1>8, <1>9, <1>10 DEF Same

LEMMA HotRelStep ==
  ASSUME CodeInv, HotRel
  PROVE  CodeInv'
<1> USE DEF HotRel, Go
<1> DEFINE S == Src - 4 .. Src - 1
<1>0. CodeType /\ BytesInv
  BY DEF CodeInv
<1>1. pc = "hot_rel" /\ pc' = "hot_short" /\ UNCHANGED <<shape, old_proc, done, cur, cpu>>
  OBVIOUS
<1>2. cur \in Nat /\ mem[Src - 5] = <<"jmp", 0, 1>>
  BY <1>0, <1>1, ActiveFacts DEF BytesInv, StepInv
<1>3. /\ Same(mem, mem', S) /\ JumpAt(mem', Src - 5, New(cur)) /\ S \subseteq Entry
      /\ \A x \in S : x \in Int /\ x < Src
      /\ \A x \in S : mem'[x][1] # "pad"
      /\ mem'[Src] = mem[Src]
  BY <1>0, <1>2, PadJump
<1> HIDE DEF S
<1>4. pc \in HotPcs
  BY <1>1 DEF HotPcs
<1>5. First' = First /\ Active = {} /\ Active' = {} /\ Ready' = Ready /\ Off(shape)[2] = 2
  <2>1. First' = First
    BY <1>3 DEF First
  <2>2. Active = {} /\ Off(shape)[2] = 2
    BY <1>0, <1>4 DEF BytesInv, StepInv
  <2> QED BY <1>1, <2>1, <2>2 DEF Active, Ready
<1>6. Width = 2 /\ Width' = 2 /\ Width' <= Width
  <2>1. Width = 2 /\ Width' = 2
    BY <1>1 DEF Width, HotPcs
  <2> QED BY <2>1
<1>7. CodeType'
  BY <1>0, <1>1, <1>3, EntryType
<1>8. ChainInv' /\ PlaceInv'
  BY <1>1, <1>3, <1>5, <1>6, EntryChain, EntryPlace
<1>9. ASSUME NEW g \in Nat PROVE Intact(g)'
  <2>1. PICK z \in Nat : z = 0
    OBVIOUS
  <2>2. Intact(z) /\ z <= g
    BY <1>0, <1>1, <1>5, <2>1 DEF BytesInv, FreshInv
  <2>3. \A x \in S : x \in Int /\ x < Src + g
    BY <1>3 DEF Src
  <2> QED BY <1>0, <1>1, <1>3, <2>2, <2>3, IntactSame
<1>10. Intact(Width)' /\ FreshInv'
  BY <1>6, <1>9 DEF FreshInv, Intact
<1>11. PadInv'
  BY <1>0, <1>1, <1>3, PadSame DEF BytesInv
<1>12. TopInv' /\ StepInv'
  BY <1>1, <1>3, <1>5 DEF TopInv, StepInv, HotPcs, SplicePcs
<1> QED BY <1>7, <1>8, <1>10, <1>11, <1>12 DEF CodeInv, BytesInv

LEMMA DoublePatchStep ==
  ASSUME CodeInv, DoublePatch
  PROVE  CodeInv'
<1> USE DEF DoublePatch, Go
<1> DEFINE S == Src - 4 .. Src - 1
<1>0. CodeType /\ BytesInv
  BY DEF CodeInv
<1>1. pc = "double" /\ pc' = "ret" /\ UNCHANGED <<shape, old_proc, done, cur, cpu>>
  OBVIOUS
<1>2. First = "short" /\ Active # {} /\ Active = done /\ Active' = done \cup {cur} /\ Ready' = Ready
  <2>1. First = "short"
    BY <1>0, <1>1 DEF BytesInv, StepInv
  <2> QED BY <1>0, <1>1, <2>1, FirstFacts DEF Active, Ready
<1>3. PICK t \in Active : Jumped(t)
  BY <1>0, <1>2 DEF BytesInv, TopInv
<1>4. Holds(mem, Src, "short", 0, 2, 0) /\ JumpAt(mem, Src - 5, New(t))
  BY <1>0, <1>2, <1>3, FirstFacts
<1>5. cur \in Nat /\ t \in Nat
  BY <1>0, <1>2, ActiveFacts
<1>6. mem[Src - 5] = <<"jmp", 0, 1>>
  <2>1. PICK a \in Int, to \in Int : a = Src - 5 /\ to = New(t)
    BY <1>5 DEF Src, New
  <2>2. JumpAt(mem, a, to)
    BY <1>4, <2>1
  <2>3. mem[a] = <<"jmp", 0, 1>>
    BY <2>2, JumpDecode
  <2> QED BY <2>1, <2>3
<1>7. /\ Same(mem, mem', S) /\ JumpAt(mem', Src - 5, New(cur)) /\ S \subseteq Entry
      /\ \A x \in S : x \in Int /\ x < Src
      /\ \A x \in S : mem'[x][1] # "pad"
      /\ mem'[Src] = mem[Src]
  BY <1>0, <1>5, <1>6, PadJump
<1> HIDE DEF S
<1>8. First' = First
  BY <1>7 DEF First
<1>9. Width = 2 /\ Width' = 2 /\ Width' <= Width
  <2>1. Width = 2 /\ Width' = 2
    BY <1>2, <1>8 DEF Width
  <2> QED BY <2>1
<1>10. CodeType'
  BY <1>0, <1>1, <1>7, EntryType
<1>11. ChainInv' /\ PlaceInv'
  <2>1. Active \subseteq Active'
    BY <1>2
  <2> QED BY <1>1, <1>2, <1>7, <1>8, <1>9, <2>1, EntryChain, EntryPlace
<1>12. Intact(Width)'
  <2>1. PICK g \in Nat : g = Width /\ g = Width'
    BY <1>9
  <2>2. Intact(g) /\ g <= g
    BY <1>0, <2>1 DEF BytesInv
  <2>3. \A x \in S : x \in Int /\ x < Src + g
    BY <1>7 DEF Src
  <2>4. Intact(g)'
    BY <1>0, <1>1, <1>7, <2>2, <2>3, IntactSame
  <2> QED BY <2>1, <2>4 DEF Intact
<1>13. PadInv'
  BY <1>0, <1>1, <1>7, PadSame DEF BytesInv
<1>14. Holds(mem', Src, "short", 0, 2, 0)
  <2>1. PICK a \in Int, n \in Nat : a = Src /\ n = 2
    BY DEF Src
  <2>2. \A x \in a .. a + n - 1 : x \notin S
    BY <1>7, <2>1 DEF Src
  <2>3. Holds(mem, a, "short", 0, n, 0)
    BY <1>4, <2>1
  <2>4. Holds(mem', a, "short", 0, n, 0)
    BY <1>7, <2>2, <2>3, HoldsSame
  <2> QED BY <2>1, <2>4
<1>15. TopInv'
  <2>1. cur \in Active' /\ \A h \in Active' : h <= cur
    <3>1. \A h \in done : h <= cur
      BY <1>0, <1>2, ActiveFacts
    <3> QED BY <1>2, <1>5, <3>1
  <2>2. Jumped(cur)'
    BY <1>1, <1>7, <1>14 DEF Jumped
  <2> QED BY <1>1, <2>1, <2>2 DEF TopInv, Jumped
<1>16. FreshInv' /\ StepInv'
  BY <1>1, <1>2 DEF FreshInv, StepInv, HotPcs, SplicePcs
<1> QED BY <1>10, <1>11, <1>12, <1>13, <1>15, <1>16 DEF CodeInv, BytesInv

\* While no hook is in place a processor is at the beginning or in the function.
LEMMA PlaceFresh ==
  ASSUME CodeInv, Active = {}, pc # "splice_rel", NEW c \in Cpus
  PROVE  ip[c] = Nowhere \/ AtStart(c) \/ AtBody(c)
<1>1. Place(c) /\ First \notin {"short", "jmp"}
  BY FirstFacts DEF CodeInv, PlaceInv
<1> QED BY <1>1 DEF Place, Stranded, AtPad, AtNew, AtLink, AtMoved

LEMMA BodyOffset ==
  ASSUME shape \in Shapes, NEW i \in 2 .. Len(shape.code) + 1
  PROVE  Off(shape)[i] \in Nat /\ Off(shape)[i] >= 1 /\ (Off(shape)[2] = 2 => Off(shape)[i] >= 2)
<1>1. PICK l \in Nat \ {0} : l = Len(shape.code)
  BY Shape
<1>2. PICK j \in 1 .. l : j = 1
  BY <1>1
<1>3. i \in 1 .. l + 1 /\ j < i /\ j + 1 = 2
  BY <1>1, <1>2
<1>4. PICK x \in Nat : x = Off(shape)[i]
  BY <1>1, <1>3, OffDef
<1>5. PICK n \in 1 .. 15 : n = shape.code[j].n
  BY <1>1, Shape
<1>6. Off(shape)[j] = 0 /\ Off(shape)[j + 1] = Off(shape)[j] + n
  BY <1>1, <1>2, <1>5, OffDef
<1>7. Off(shape)[j] + n <= x
  BY <1>1, <1>2, <1>3, <1>4, <1>5, OffOrder
<1> QED BY <1>3, <1>4, <1>6, <1>7

LEMMA HotShortStep ==
  ASSUME CodeInv, HotShort
  PROVE  CodeInv'
<1> USE DEF HotShort, Go
<1> DEFINE S == Src .. Src + 1
<1>0. CodeType /\ BytesInv
  BY DEF CodeInv
<1>1. pc = "hot_short" /\ pc' = "ret" /\ UNCHANGED <<shape, old_proc, done, cur, cpu>>
  OBVIOUS
<1>2. pc \in HotPcs
  BY <1>1 DEF HotPcs
<1>3. Active = {} /\ Off(shape)[2] = 2 /\ JumpAt(mem, Src - 5, New(cur)) /\ shape \in Shapes
  BY <1>0, <1>1, <1>2 DEF BytesInv, StepInv, CodeType
<1>4. Same(mem, mem', S) /\ Holds(mem', Src, "short", 0, 2, 0)
  <2>1. DOMAIN mem \subseteq Int /\ \A x \in S : x \in DOMAIN mem
    BY <1>0, <1>3, EntryDomain
  <2> QED BY <2>1, ShortStored
<1>5. S \subseteq Entry /\ \A x \in S : x \in Int /\ x >= Src /\ x < Src + 2
  BY DEF Src, Entry
<1>6. \A x \in Src - 5 .. Src - 1 : x \notin S
  BY DEF Src
<1> HIDE DEF S
<1>7. First' = "short"
  <2>1. mem'[Src][1] = "short"
    BY <1>4, ShortDecode
  <2> QED BY <2>1 DEF First
<1>8. Width = 2 /\ Width' = 2 /\ Width' <= Width
  <2>1. Width = 2 /\ Width' = 2
    BY <1>2, <1>7 DEF Width
  <2> QED BY <2>1
<1>9. Active' = {cur} /\ Ready' = Ready
  BY <1>1, <1>3 DEF Active, Ready
<1>10. CodeType'
  BY <1>0, <1>1, <1>4, EntryType
<1>11. ChainInv'
  BY <1>1, <1>4, <1>5, <1>8, <1>9, EntryChain
<1>12. PlaceInv'
  <2> SUFFICES ASSUME NEW c \in Cpus PROVE Place(c)' /\ Descending(seen'[c])
    BY DEF PlaceInv
  <2>1. ip' = ip /\ trace' = trace /\ seen' = seen /\ must' = must
    BY <1>1 DEF cpu
  <2>2. ip[c] = Nowhere \/ AtStart(c) \/ AtBody(c)
    BY <1>1, <1>3, PlaceFresh
  <2>3. CASE AtBody(c)
    <3>1. PICK i \in 2 .. Len(shape.code) + 1 :
               /\ ip[c] = Off(shape)[i]
               /\ \/ trace[c] = Executed(shape, 1, i)
                  \/ shape.code[1].k = "mov" /\ trace[c] = Executed(shape, 2, i)
               /\ RanAll(seen[c], must[c])
      BY <2>3 DEF AtBody
    <3>2. Off(shape)[i] >= Width'
      BY <1>3, <1>8, BodyOffset
    <3>3. AtBody(c)'
      BY <1>1, <2>1, <3>1, <3>2 DEF AtBody
    <3> QED BY <2>1, <3>3 DEF Place, CodeInv, PlaceInv
  <2>4. CASE ip[c] = Nowhere \/ AtStart(c)
    BY <2>1, <2>4 DEF Place, AtStart, CodeInv, PlaceInv
  <2> QED BY <2>2, <2>3, <2>4
<1>13. Intact(Width)'
  <2>1. PICK g \in Nat : g = Width /\ g = Width' /\ g = 2
    BY <1>8
  <2>2. Intact(g) /\ g <= g
    BY <1>0, <2>1 DEF BytesInv
  <2>3. \A x \in S : x \in Int /\ x < Src + g
    BY <1>5, <2>1
  <2>4. Intact(g)'
    BY <1>0, <1>1, <1>4, <2>2, <2>3, IntactSame
  <2> QED BY <2>1, <2>4 DEF Intact
<1>14. PadInv'
  BY <1>0, <1>1, <1>4, <1>6, PadSame DEF BytesInv
<1>15. JumpAt(mem', Src - 5, New(cur))
  <2>1. PICK a \in Int, to \in {New(cur)} : a = Src - 5 /\ to = New(cur)
    BY DEF Src
  <2>2. a .. a + 4 = Src - 5 .. Src - 1
    BY <2>1 DEF Src
  <2>3. JumpAt(mem, a, to) /\ Same(mem, mem', S)
    BY <1>3, <1>4, <2>1
  <2>4. \A x \in a .. a + 4 : x \notin S
    BY <1>6, <2>2
  <2>5. JumpAt(mem', a, to)
    BY <2>3, <2>4, JumpSame
  <2> QED BY <2>1, <2>5
<1>16. TopInv'
  <2>1. cur \in Active' /\ \A h \in Active' : h <= cur
    <3>1. cur \in Nat
      BY <1>0, ActiveFacts
    <3> QED BY <1>9, <3>1
  <2>2. Jumped(cur)'
    BY <1>1, <1>4, <1>15 DEF Jumped
  <2> QED BY <1>1, <2>1, <2>2 DEF TopInv, Jumped
<1>17. FreshInv' /\ StepInv'
  BY <1>1, <1>9 DEF FreshInv, StepInv, HotPcs, SplicePcs
<1> QED BY <1>10, <1>11, <1>12, <1>13, <1>14, <1>16, <1>17 DEF CodeInv, BytesInv

LEMMA SpliceOpStep ==
  ASSUME CodeInv, SpliceOp
  PROVE  CodeInv'
<1> USE DEF SpliceOp, Go
<1>0. CodeType /\ BytesInv
  BY DEF CodeInv
<1>1. pc = "splice_op" /\ pc' = "splice_rel" /\ UNCHANGED <<shape, old_proc, done, cur, cpu>>
  OBVIOUS
<1>2. pc \in SplicePcs /\ pc' \in SplicePcs /\ pc \notin HotPcs /\ pc' \notin HotPcs
  BY <1>1 DEF SplicePcs, HotPcs
<1>3. First # "short" /\ End >= 5 /\ shape \in Shapes /\ End' = End
  BY <1>0, <1>1, <1>2 DEF BytesInv, StepInv, CodeType, End
<1>4. PICK a \in Int : a = Src
  BY DEF Src
<1>5. Same(mem, mem', {a}) /\ mem'[a] = <<"jmp", 0, 1>>
  <2>1. DOMAIN mem \subseteq Int /\ a \in DOMAIN mem
    BY <1>0, <1>4, EntryDomain
  <2>2. mem' = Poke(mem, a, JumpOp)
    BY <1>4
  <2> QED BY <2>1, <2>2, OpStored
<1>6. {a} \subseteq Entry /\ a \notin Src - 5 .. Src - 1 /\ \A x \in {a} : x \in Int /\ x < Src + 5
  BY <1>4 DEF Entry, Src
<1>7. First' = "jmp"
  BY <1>4, <1>5 DEF First
<1>8. Width = 5 /\ Width' = 5 /\ Width' <= Width
  <2>1. Width = 5 /\ Width' = 5
    BY <1>2, <1>3, <1>7 DEF Width
  <2> QED BY <2>1
<1>9. Active' = Active /\ Ready' = Ready
  BY <1>1 DEF Active, Ready
<1>10. CodeType'
  BY <1>0, <1>1, <1>5, EntryType
<1>11. ChainInv'
  BY <1>1, <1>5, <1>6, <1>8, <1>9, EntryChain
<1>12. ASSUME Active # {} PROVE First = "jmp" /\ Same(mem, mem', {}) /\ TopInv'
  <2>1. First = "jmp"
    BY <1>0, <1>3, <1>12, FirstFacts
  <2>2. PICK t \in Active : (\A h \in Active : h <= t) /\ Jumped(t)
    BY <1>0, <1>12 DEF BytesInv, TopInv
  <2>3. JumpAt(mem, Src, New(t))
    BY <1>0, <2>1, <2>2, FirstFacts
  <2>4. PICK to \in Int : to = New(t)
    <3>1. t \in Nat
      BY <1>0, ActiveFacts
    <3> QED BY <3>1 DEF New
  <2>5. JumpAt(mem, a, to)
    BY <1>4, <2>3, <2>4
  <2>6. mem[a] = <<"jmp", 0, 1>>
    BY <2>5, JumpDecode
  <2>7. Same(mem, mem', {})
    BY <1>5, <2>6 DEF Same
  <2>8. \A x \in a .. a + 4 : x \notin {}
    OBVIOUS
  <2>9. JumpAt(mem', a, to)
    BY <2>5, <2>7, <2>8, JumpSame
  <2>10. Jumped(t)'
    BY <1>3, <1>4, <2>4, <2>9 DEF Jumped
  <2> QED BY <1>9, <2>1, <2>2, <2>7, <2>10 DEF TopInv, Jumped
<1>13. PlaceInv'
  <2>1. CASE Active # {}
    <3>1. First' = First /\ Active \subseteq Active'
      BY <1>7, <1>9, <1>12, <2>1
    <3> QED BY <1>1, <1>5, <1>6, <1>8, <3>1, EntryPlace
  <2>2. CASE Active = {}
    <3> SUFFICES ASSUME NEW c \in Cpus PROVE Place(c)' /\ Descending(seen'[c])
      BY DEF PlaceInv
    <3>1. ip' = ip /\ trace' = trace /\ seen' = seen /\ must' = must
      BY <1>1 DEF cpu
    <3>2. ip[c] = Nowhere \/ AtStart(c) \/ AtBody(c)
      BY <1>1, <2>2, PlaceFresh
    <3>3. CASE AtBody(c)
      <4>1. PICK i \in 2 .. Len(shape.code) + 1 :
               /\ ip[c] = Off(shape)[i]
               /\ \/ trace[c] = Executed(shape, 1, i)
                  \/ shape.code[1].k = "mov" /\ trace[c] = Executed(shape, 2, i)
               /\ RanAll(seen[c], must[c])
        BY <3>3 DEF AtBody
      <4>2. PICK x \in Nat : x = Off(shape)[i] /\ x >= 1
        BY <1>3, BodyOffset
      <4>3. CASE x >= 5
        <5>1. Off(shape)[i] >= Width'
          BY <1>8, <4>2, <4>3
        <5>2. AtBody(c)'
          BY <1>1, <3>1, <4>1, <5>1 DEF AtBody
        <5> QED BY <3>1, <5>2 DEF Place, CodeInv, PlaceInv
      <4>4. CASE x < 5
        <5>1. x \in Src + 1 .. Src + 4
          BY <4>2, <4>4 DEF Src
        <5>2. Stranded(c)'
          BY <1>7, <3>1, <4>1, <4>2, <5>1 DEF Stranded
        <5> QED BY <3>1, <5>2 DEF Place, CodeInv, PlaceInv
      <4> QED BY <4>3, <4>4
    <3>4. CASE ip[c] = Nowhere \/ AtStart(c)
      BY <3>1, <3>4 DEF Place, AtStart, CodeInv, PlaceInv
    <3> QED BY <3>2, <3>3, <3>4
  <2> QED BY <2>1, <2>2
<1>14. Intact(Width)'
  <2>1. PICK g \in Nat : g = Width /\ g = Width' /\ g = 5
    BY <1>8
  <2>2. Intact(g) /\ g <= g
    BY <1>0, <2>1 DEF BytesInv
  <2>3. Intact(g)'
    BY <1>0, <1>1, <1>5, <1>6, <2>1, <2>2, IntactSame
  <2> QED BY <2>1, <2>3 DEF Intact
<1>15. PadInv'
  BY <1>0, <1>1, <1>5, <1>6, PadSame DEF BytesInv
<1>16. TopInv'
  BY <1>9, <1>12 DEF TopInv
<1>17. FreshInv' /\ StepInv'
  BY <1>1, <1>2, <1>3, <1>4, <1>5, <1>7 DEF FreshInv, StepInv
<1> QED BY <1>10, <1>11, <1>13, <1>14, <1>15, <1>16, <1>17 DEF CodeInv, BytesInv

LEMMA SpliceRelStep ==
  ASSUME CodeInv, SpliceRel
  PROVE  CodeInv'
<1> USE DEF SpliceRel, Go
<1> DEFINE S == Src + 1 .. Src + 4
<1>0. CodeType /\ BytesInv
  BY DEF CodeInv
<1>1. pc = "splice_rel" /\ pc' = "unlock" /\ UNCHANGED <<shape, old_proc, done, cur, cpu>>
  OBVIOUS
<1>2. pc \in SplicePcs /\ pc \notin HotPcs /\ pc' \notin HotPcs /\ pc' \notin SplicePcs
  BY <1>1 DEF SplicePcs, HotPcs
<1>3. /\ First = "jmp" /\ mem[Src] = <<"jmp", 0, 1>> /\ End >= 5 /\ shape \in Shapes
      /\ End' = End /\ cur \in Nat
  BY <1>0, <1>1, <1>2, ActiveFacts DEF BytesInv, StepInv, CodeType, End, First
<1>4. Same(mem, mem', S) /\ JumpAt(mem', Src, New(cur))
  <2>1. PICK a \in Int, a1 \in Int, to \in Int : a = Src /\ a1 = Src + 1 /\ to = New(cur) /\ a1 = a + 1
    BY <1>3 DEF Src, New
  <2>2. a .. a + 4 = Src .. Src + 4 /\ a + 1 .. a + 4 = S
    BY <2>1 DEF Src
  <2>3. DOMAIN mem \subseteq Int /\ \A x \in a .. a + 4 : x \in DOMAIN mem
    BY <1>0, <1>3, <2>2, EntryDomain
  <2>4. mem' = Poke(mem, a1, JumpRel(a, to)) /\ mem[a] = <<"jmp", 0, 1>>
    BY <1>3, <2>1
  <2>5. Same(mem, mem', a + 1 .. a + 4) /\ JumpAt(mem', a, to)
    BY <2>1, <2>3, <2>4, RelStored
  <2> QED BY <2>1, <2>2, <2>5
<1>5. /\ S \subseteq Entry /\ \A x \in S : x \in Int /\ x < Src + 5
      /\ \A x \in S : x \notin Src - 5 .. Src - 1
      /\ Src \notin S
  BY DEF Src, Entry
<1> HIDE DEF S
<1>6. First' = First
  BY <1>0, <1>4, <1>5, EntryDomain DEF First, Same
<1>7. Width = 5 /\ Width' = 5 /\ Width' <= Width
  <2>1. Width = 5 /\ Width' = 5
    BY <1>2, <1>3, <1>6 DEF Width
  <2> QED BY <2>1
<1>8. Active = done /\ Active' = done \cup {cur} /\ Ready' = Ready
  BY <1>1 DEF Active, Ready
<1>9. CodeType'
  BY <1>0, <1>1, <1>4, EntryType
<1>10. ChainInv' /\ PlaceInv'
  <2>1. Active \subseteq Active'
    BY <1>8
  <2> QED BY <1>1, <1>4, <1>5, <1>6, <1>7, <1>8, <2>1, EntryChain, EntryPlace
<1>11. Intact(Width)'
  <2>1. PICK g \in Nat : g = Width /\ g = Width' /\ g = 5
    BY <1>7
  <2>2. Intact(g) /\ g <= g
    BY <1>0, <2>1 DEF BytesInv
  <2>3. Intact(g)'
    BY <1>0, <1>1, <1>4, <1>5, <2>1, <2>2, IntactSame
  <2> QED BY <2>1, <2>3 DEF Intact
<1>12. PadInv'
  BY <1>0, <1>1, <1>4, <1>5, PadSame DEF BytesInv
<1>13. TopInv'
  <2>1. cur \in Active' /\ \A h \in Active' : h <= cur
    <3>1. \A h \in done : h <= cur
      BY <1>0, <1>8, ActiveFacts
    <3> QED BY <1>3, <1>8, <3>1
  <2>2. Jumped(cur)'
    BY <1>1, <1>3, <1>4 DEF Jumped
  <2> QED BY <1>1, <2>1, <2>2 DEF TopInv, Jumped
<1>14. FreshInv' /\ StepInv'
  BY <1>1, <1>2, <1>8 DEF FreshInv, StepInv
<1> QED BY <1>9, <1>10, <1>11, <1>12, <1>13, <1>14 DEF CodeInv, BytesInv

-----------------------------------------------------------------------------
\* Steps that prepare old_proc.

\* A patch that is in place stays when other bytes are stored.
LEMMA JumpedSame ==
  ASSUME NEW t, Jumped(t), shape' = shape, NEW S, Same(mem, mem', S),
         \A x \in S : x \in Int /\ x < Src - 5
  PROVE  Jumped(t)'
<1>1. PICK a \in Int, b \in Int, to \in {New(t)} : a = Src /\ b = Src - 5 /\ to = New(t)
  BY DEF Src
<1>2. PICK n \in Nat, k \in {"short"}, z \in {0}, d \in {0} : n = 2 /\ k = "short" /\ z = 0 /\ d = 0
  OBVIOUS
<1>3. /\ \A x \in a .. a + 4 : x \notin S
      /\ \A x \in b .. b + 4 : x \notin S
      /\ \A x \in a .. a + n - 1 : x \notin S
  <2>1. \A x \in S : x \in Int /\ x < b /\ a = b + 5
    BY <1>1 DEF Src
  <2> QED BY <1>2, <2>1
<1>4. CASE Holds(mem, Src, "short", 0, 2, 0) /\ JumpAt(mem, Src - 5, New(t))
  <2>1. Holds(mem, a, k, z, n, d) /\ JumpAt(mem, b, to)
    BY <1>1, <1>2, <1>4
  <2>2. Holds(mem', a, k, z, n, d)
    BY <1>3, <2>1, HoldsSame
  <2>3. JumpAt(mem', b, to)
    BY <1>3, <2>1, JumpSame
  <2>4. Holds(mem', Src, "short", 0, 2, 0) /\ JumpAt(mem', Src - 5, New(t))
    BY <1>1, <1>2, <2>2, <2>3
  <2> QED BY <2>4 DEF Jumped
<1>5. CASE End >= 5 /\ JumpAt(mem, Src, New(t))
  <2>1. JumpAt(mem, a, to)
    BY <1>1, <1>5
  <2>2. JumpAt(mem', a, to)
    BY <1>3, <2>1, JumpSame
  <2>3. JumpAt(mem', Src, New(t)) /\ End' >= 5
    BY <1>1, <1>5, <2>2 DEF End
  <2> QED BY <2>3 DEF Jumped
<1> QED BY <1>4, <1>5 DEF Jumped

\* set_hook prepares old_proc of the hook, in its buffer.
LEMMA OldStored ==
  ASSUME CodeInv, UNCHANGED <<shape, done, cur, cpu>>,
         pc \in {"hot", "code"}, pc' \in {"hot_op", "double", "lock"},
         NEW v, old_proc' = [old_proc EXCEPT ![cur] = v],
         NEW S, S \subseteq Buffer(cur), Same(mem, mem', S), Chain(cur)',
         pc' = "hot_op" => Active = {} /\ Off(shape)[2] = 2,
         pc' = "double" => First = "short",
         pc' = "lock" => First # "short" /\ End >= 5
  PROVE  CodeInv'
<1>0. CodeType /\ BytesInv /\ ChainInv /\ PlaceInv
  BY DEF CodeInv
<1>1. /\ cur \in Nat \ {0} /\ cur \in 1 .. MaxHooks /\ \A h \in done : h \in Nat \ {0} /\ h < cur
  <2>1. cur \in 0 .. MaxHooks /\ cur > 0 /\ done \subseteq 1 .. cur /\ \A h \in done : h < cur
    BY <1>0 DEF CodeType
  <2>2. MaxHooks \in Nat
    BY CodeHookAssumption
  <2> QED BY <2>1, <2>2
<1>2. Active = done /\ Active' = done /\ Ready' = done \cup {cur} /\ Ready = done
  BY DEF Active, Ready
<1>3. /\ \A x \in S : x \in Int /\ x < Src - 5
      /\ \A h \in done : Buffer(h) \cap S = {}
  <2>1. \A x \in Buffer(cur) : x \in Int /\ x < Src - 5
    BY <1>1, Apart
  <2>2. ASSUME NEW h \in done PROVE Buffer(h) \cap Buffer(cur) = {}
    <3>1. h \in Nat \ {0} /\ cur \in Nat \ {0} /\ h # cur
      BY <1>1
    <3> QED BY <3>1, Apart
  <2> QED BY <2>1, <2>2
<1>4. mem'[Src] = mem[Src] /\ First' = First /\ End' = End
  <2>1. Src \in DOMAIN mem /\ Src \notin S
    BY <1>0, <1>3, DomainFacts DEF Src
  <2>2. mem'[Src] = mem[Src]
    BY <2>1 DEF Same
  <2> QED BY <2>2 DEF First, End
<1>5. Width' <= Width /\ (pc' # "hot_op" => Width' = Width) /\ (pc' = "hot_op" => Width' = 2)
  <2>1. pc \notin HotPcs /\ (pc' = "hot_op" => pc' \in HotPcs) /\ (pc' # "hot_op" => pc' \notin HotPcs)
    BY DEF HotPcs
  <2>2. (pc' = "hot_op" => Width' = 2) /\ (pc' # "hot_op" => Width' = Width)
    BY <1>4, <2>1 DEF Width
  <2> QED BY <2>2 DEF Width
<1>6. CodeType'
  <2>1. DOMAIN old_proc' = DOMAIN old_proc /\ pc # "idle"
    OBVIOUS
  <2> QED BY <1>0, <2>1, EntryType
<1>7. ChainInv'
  <2>1. ASSUME NEW h \in done PROVE Chain(h)'
    <3>1. h \in Nat \ {0} /\ h # cur /\ Chain(h) /\ Buffer(h) \cap S = {}
      BY <1>0, <1>1, <1>2, <1>3 DEF ChainInv
    <3>2. old_proc'[h] = old_proc[h]
      BY <3>1
    <3>3. done \subseteq done' /\ \A g \in done' : g \in done \/ (g \in Nat /\ g >= h)
      OBVIOUS
    <3> QED BY <1>0, <1>5, <3>1, <3>2, <3>3, ChainSame
  <2>2. ASSUME NEW h \in Ready' PROVE Chain(h)'
    BY <1>2, <2>1
  <2> QED BY <2>2 DEF ChainInv
<1>8. PlaceInv'
  <2> SUFFICES ASSUME NEW c \in Cpus PROVE Place(c)' /\ Descending(seen'[c])
    BY DEF PlaceInv
  <2>1. /\ ip'[c] = ip[c] /\ trace'[c] = trace[c] /\ seen'[c] = seen[c] /\ must'[c] = must[c]
    BY DEF cpu
  <2>2. Place(c) /\ Descending(seen[c])
    BY <1>0 DEF PlaceInv
  <2>3. Active \subseteq Active' /\ done \subseteq done' /\ \A h \in Active : Buffer(h) \cap S = {}
    BY <1>2, <1>3
  <2>4. Place(c)'
    BY <1>0, <1>4, <1>5, <2>1, <2>2, <2>3, PlaceSame
  <2> QED BY <2>1, <2>2, <2>4
<1>9. \A g \in Nat : \A x \in S : x \in Int /\ x < Src + g
  BY <1>3 DEF Src
<1>10. ASSUME Active = {} PROVE Intact(0)'
  <2>1. PICK z \in Nat : z = 0
    OBVIOUS
  <2>2. Intact(z) /\ z <= z
    BY <1>0, <1>10, <2>1 DEF BytesInv, FreshInv
  <2>3. \A x \in S : x \in Int /\ x < Src + z
    BY <1>9
  <2>4. Intact(z)'
    BY <1>0, <2>2, <2>3, IntactSame
  <2> QED BY <2>1, <2>4 DEF Intact
<1>11. Intact(Width)'
  <2>1. CASE pc' = "hot_op"
    <3>1. Intact(0)' /\ Width' = 2
      BY <1>5, <1>10, <2>1
    <3>2. ASSUME NEW x \in Src .. End' - 1, x >= Src + Width' PROVE mem'[x] = Original(shape', x)
      <4>1. x >= Src + 0 /\ x \in Src .. End' - 1
        BY DEF Src
      <4> QED BY <3>1, <4>1 DEF Intact
    <3> QED BY <3>2 DEF Intact
  <2>2. CASE pc' # "hot_op"
    <3>1. PICK g \in Nat : g = Width
      BY WidthIs
    <3>2. Intact(g) /\ g <= g /\ Width' = g
      BY <1>0, <1>5, <2>2, <3>1 DEF BytesInv
    <3>3. \A x \in S : x \in Int /\ x < Src + g
      BY <1>9
    <3>4. Intact(g)'
      BY <1>0, <3>2, <3>3, IntactSame
    <3> QED BY <3>2, <3>4 DEF Intact
  <2> QED BY <2>1, <2>2
<1>12. PadInv'
  <2>1. PadInv /\ \A x \in S : x \in Src - 5 .. Src - 1 => mem'[x][1] # "pad"
    BY <1>0, <1>3 DEF BytesInv, Src
  <2> QED BY <1>0, <2>1, PadSame
<1>13. FreshInv'
  BY <1>2, <1>10 DEF FreshInv
<1>14. TopInv'
  <2>1. SUFFICES ASSUME Active' # {}
                 PROVE  \E t \in Active' : (\A h \in Active' : h <= t) /\ Jumped(t)'
    BY DEF TopInv
  <2>2. PICK t \in Active : (\A h \in Active : h <= t) /\ Jumped(t)
    BY <1>0, <1>2, <2>1 DEF BytesInv, TopInv
  <2>3. Jumped(t)'
    BY <1>3, <2>2, JumpedSame
  <2> QED BY <1>2, <2>2, <2>3
<1>15. StepInv'
  BY <1>2, <1>4 DEF StepInv, HotPcs, SplicePcs
<1> QED BY <1>6, <1>7, <1>8, <1>11, <1>12, <1>13, <1>14, <1>15 DEF CodeInv, BytesInv

\* The function is hot patched: old_proc is the procedure of the newest hook.
LEMMA DoubleCheckStep ==
  ASSUME CodeInv, DoubleCheck
  PROVE  CodeInv'
<1> USE DEF DoubleCheck, DoubleOld, Go
<1>0. CodeType /\ BytesInv
  BY DEF CodeInv
<1>1. pc = "hot" /\ pc' = "double" /\ UNCHANGED <<shape, mem, done, cur, cpu>>
  OBVIOUS
<1>2. First = "short"
  BY DEF HotPatched, First
<1>3. Active = done /\ Active # {}
  BY <1>0, <1>1, <1>2, FirstFacts DEF Active
<1>4. PICK t \in done : (\A h \in done : h <= t) /\ Jumped(t)
  BY <1>0, <1>3 DEF BytesInv, TopInv
<1>5. t \in Nat \ {0} /\ t < cur
  <2>1. t \in Nat \ {0}
    BY <1>0, <1>3, ActiveFacts
  <2> QED BY <1>0, <1>1, <2>1 DEF CodeType
<1>6. JumpAt(mem, Src - 5, New(t))
  BY <1>0, <1>2, <1>3, <1>4, FirstFacts
<1>7. Src + Disp(mem, Src - 5) = New(t)
  <2>1. PICK a \in Int, to \in Int : a = Src - 5 /\ to = New(t)
    BY <1>5, Apart DEF Src
  <2>2. Disp(mem, a) = to - a - 5
    BY <1>6, <2>1, JumpDecode
  <2>3. Src + Disp(mem, Src - 5) = Src + (to - a - 5) /\ a = Src - 5 /\ Src \in Int
    BY <2>1, <2>2 DEF Src
  <2>4. Src + (to - a - 5) = to
    BY <2>1, <2>3
  <2> QED BY <2>1, <2>3, <2>4
<1>8. cur \in DOMAIN old_proc
  BY <1>0, <1>1, CodeHookAssumption DEF CodeType
<1>9. PICK v : v = New(t)
  OBVIOUS
<1>10. old_proc' = [old_proc EXCEPT ![cur] = v]
  BY <1>7, <1>9
<1>11. Chain(cur)'
  <2>1. old_proc'[cur'] = New(t) /\ done' = done /\ cur' = cur
    BY <1>1, <1>8, <1>9, <1>10
  <2>2. Before(t, cur', done')
    BY <1>4, <1>5, <2>1 DEF Before
  <2>3. Linked(cur)'
    BY <1>4, <2>1, <2>2 DEF Linked
  <2> QED BY <2>3 DEF Chain
<1>12. Same(mem, mem', {}) /\ {} \subseteq Buffer(cur)
  BY <1>1 DEF Same
<1> HIDE DEF DoubleCheck, DoubleOld
<1> QED BY <1>1, <1>2, <1>10, <1>11, <1>12, OldStored

\* The moved instructions and the jump after them fill the hook's own buffer.
LEMMA InBuffer ==
  ASSUME CodeType, cur \in 1 .. MaxHooks, NEW b \in Int, b = Buf(cur), NEW n \in 0 .. 19,
         NEW to \in Int, NEW q, Listed(q, n),
         mem' = Filled(mem, b, q, n, to)
  PROVE  Same(mem, mem', Buffer(cur)) /\ BufferHolds(mem, mem', b, q, n, to)
<1>1. DOMAIN mem \subseteq Int /\ Buffer(cur) \subseteq DOMAIN mem
  BY DomainFacts
<1>2. \A x \in b .. b + 23 : x \in Buffer(cur)
  BY DEF Buffer, BufSize
<1>3. \A x \in b .. b + n + 4 : x \in Buffer(cur)
  <2>1. n \in Nat /\ n <= 19
    OBVIOUS
  <2>2. \A x \in b .. b + n + 4 : x \in b .. b + 23
    BY <2>1
  <2> QED BY <1>2, <2>2
<1>4. n \in Nat /\ \A x \in b .. b + n + 4 : x \in DOMAIN mem
  BY <1>1, <1>3
<1>5. BufferHolds(mem, Filled(mem, b, q, n, to), b, q, n, to)
  BY <1>1, <1>4, BufferStored
<1>6. BufferHolds(mem, mem', b, q, n, to)
  BY <1>5
<1>7. Same(mem, mem', Buffer(cur))
  BY <1>3, <1>6 DEF BufferHolds, Same
<1> QED BY <1>6, <1>7

LEMMA CurFacts ==
  ASSUME CodeType, pc # "idle"
  PROVE  cur \in 1 .. MaxHooks /\ cur \in Nat \ {0} /\ Buf(cur) \in Int /\ cur \in DOMAIN old_proc
<1>1. cur \in 1 .. MaxHooks /\ MaxHooks \in Nat
  BY CodeHookAssumption DEF CodeType
<1>2. cur \in Nat \ {0}
  BY <1>1
<1> QED BY <1>1, <1>2, Apart DEF CodeType

\* A function that can be hot patched has not been hooked, and its first
\* instruction takes two bytes.
LEMMA Patchable ==
  ASSUME CodeInv, pc = "hot", Padded, size_of_code(mem, Src) = 2
  PROVE  /\ Active = {} /\ done = {} /\ shape.code[1].n = 2 /\ Off(shape)[2] = 2
         /\ mem[Src][1] = shape.code[1].k /\ mem[Src][2] = 1 /\ First = shape.code[1].k
         /\ shape.code[1].k \notin Relative /\ shape.code[1].k # "rel8" /\ shape.code[1].k \in Kinds
<1>0. CodeType /\ BytesInv /\ shape \in Shapes
  BY DEF CodeInv, CodeType
<1>1. Src - 5 \in Src - 5 .. Src - 1 /\ mem[Src - 5][1] = "pad"
  BY DEF Padded, Src
<1>2. Active = {}
  <2>1. SUFFICES ASSUME Active # {} PROVE FALSE
    OBVIOUS
  <2>2. PICK t \in Active : Jumped(t)
    BY <1>0, <2>1 DEF BytesInv, TopInv
  <2>3. t \in Nat \ {0} /\ First \in {"short", "jmp"}
    BY <1>0, <2>1, ActiveFacts, FirstFacts
  <2>4. PICK a \in Int, to \in Int : a = Src - 5 /\ to = New(t)
    BY <2>3, Apart DEF Src
  <2>5. CASE First = "short"
    <3>1. JumpAt(mem, a, to)
      BY <1>0, <2>2, <2>4, <2>5, FirstFacts
    <3>2. mem[a][1] = "jmp"
      BY <3>1, JumpDecode
    <3> QED BY <1>1, <2>4, <3>2
  <2>6. CASE First = "jmp"
    <3>1. size_of_code(mem, Src) = 5
      BY <2>6 DEF First, size_of_code
    <3> QED BY <3>1
  <2> QED BY <2>3, <2>5, <2>6
<1>3. /\ First = shape.code[1].k /\ shape.code[1].n = 2 /\ mem[Src][2] = 1
  BY <1>0, <1>2, FirstFacts
<1>4. shape.pad
  BY <1>0, <1>1 DEF BytesInv, PadInv
<1>5. PICK l \in Nat \ {0} : l = Len(shape.code)
  BY <1>0, Shape
<1>6. PICK j \in 1 .. l : j = 1
  BY <1>5
<1>7. shape.code[j].k \in Kinds /\ (shape.code[j].k \in Relative => shape.code[j].n >= 5)
  BY <1>0, <1>5, Shape
<1>8. shape.code[1].k # "rel8"
  BY <1>0, <1>4, Shape
<1>9. Off(shape)[j] = 0 /\ Off(shape)[j + 1] = Off(shape)[j] + shape.code[j].n
  BY <1>0, <1>5, <1>6, OffDef
<1>10. Off(shape)[2] = 2
  BY <1>3, <1>6, <1>9
<1>11. done = {}
  BY <1>2 DEF Active
<1> QED BY <1>2, <1>3, <1>6, <1>7, <1>8, <1>10, <1>11 DEF First

LEMMA HotCheckStep ==
  ASSUME CodeInv, HotCheck
  PROVE  CodeInv'
<1>0. CodeType /\ BytesInv /\ shape \in Shapes
  BY DEF CodeInv, CodeType
<1>1. /\ pc = "hot" /\ pc' = "hot_op" /\ UNCHANGED <<shape, done, cur, cpu>>
      /\ Padded /\ size_of_code(mem, Src) = 2
  BY DEF HotCheck
<1>2. /\ Active = {} /\ done = {} /\ shape.code[1].n = 2 /\ Off(shape)[2] = 2
      /\ mem[Src][1] = shape.code[1].k /\ mem[Src][2] = 1
      /\ shape.code[1].k \notin Relative /\ shape.code[1].k # "rel8" /\ shape.code[1].k \in Kinds
  BY <1>1, Patchable
<1>3. cur \in 1 .. MaxHooks /\ cur \in Nat \ {0} /\ Buf(cur) \in Int /\ cur \in DOMAIN old_proc
  BY <1>0, <1>1, CurFacts
<1>4. Width' = 2 /\ Oldest(cur', done')
  BY <1>1, <1>2 DEF Width, HotPcs, Oldest
<1>5. CASE mem[Src][1] = "mov"
  <2>1. PICK v : v = Src + 2
    OBVIOUS
  <2>2. old_proc' = [old_proc EXCEPT ![cur] = v] /\ mem' = mem
    BY <1>5, <2>1 DEF HotCheck
  <2>3. old_proc'[cur'] = Src + 2
    BY <1>1, <1>3, <2>1, <2>2
  <2>4. Dropped(cur)'
    BY <1>1, <1>2, <1>4, <1>5, <2>3 DEF Dropped
  <2>5. Chain(cur)'
    BY <2>4 DEF Chain
  <2>6. Same(mem, mem', {}) /\ {} \subseteq Buffer(cur)
    BY <2>2 DEF Same
  <2> QED BY <1>1, <1>2, <2>2, <2>5, <2>6, OldStored
<1>6. CASE mem[Src][1] # "mov"
  <2>1. PICK b \in Int, n \in 0 .. 19, to \in Int : b = Buf(cur) /\ n = 2 /\ to = Src + 2
    BY <1>3 DEF Src
  <2>2. PICK k, o, d : k = shape.code[1].k /\ o = 1 /\ d = Callee - Off(shape)[2] - b
    OBVIOUS
  <2> DEFINE f == Bytes(mem[Src][1], mem[Src][2], 2, 0)
             q == SubSeq(f, 1, 2)
  <2>3. Listed(q, n) /\ \A i \in 1 .. n : q[i] = f[i]
    <3>1. PICK lo \in Int, hi \in Int, g \in {f} : lo = 1 /\ hi = 2 /\ g = f
      OBVIOUS
    <3> DEFINE T == {g[i] : i \in lo .. hi}
               r == SubSeq(g, lo, hi)
    <3>2. \A i \in lo .. hi : g[i] \in T
      OBVIOUS
    <3> HIDE DEF T
    <3>3. /\ r \in Seq(T) /\ Len(r) = (IF lo <= hi THEN hi - lo + 1 ELSE 0)
          /\ \A i \in 1 .. hi - lo + 1 : r[i] = g[lo + i - 1]
      BY <3>2, SubSeqProperties
    <3> HIDE DEF r
    <3>4. Len(r) = 2 /\ r = [i \in 1 .. 2 |-> r[i]] /\ \A i \in 1 .. 2 : r[i] = g[i]
      BY <3>1, <3>3
    <3> QED BY <2>1, <3>1, <3>4 DEF r, Listed
  <2>4. mem' = Poke(mem, Buf(cur), q \o Jump(Buf(cur) + 2, Src + 2))
    BY <1>6 DEF HotCheck
  <2> HIDE DEF q
  <2>5. mem' = Filled(mem, b, q, n, to)
    BY <2>1, <2>4 DEF Filled
  <2>6. /\ Same(mem, mem', Buffer(cur)) /\ JumpAt(mem', b + n, to)
        /\ \A j \in 1 .. n : b + j - 1 \in DOMAIN mem' /\ mem'[b + j - 1] = q[j]
    <3>1. Same(mem, mem', Buffer(cur)) /\ BufferHolds(mem, mem', b, q, n, to)
      BY <1>0, <1>3, <2>1, <2>3, <2>5, InBuffer
    <3> QED BY <3>1 DEF BufferHolds
  <2>7. \A j \in 1 .. n : q[j] = Bytes(k, o, n, d)[j]
    <3> SUFFICES ASSUME NEW j \in 1 .. n PROVE q[j] = Bytes(k, o, n, d)[j]
      OBVIOUS
    <3>1. q[j] = Bytes(k, o, n, 0)[j] /\ k \notin Relative
      BY <1>2, <2>1, <2>2, <2>3
    <3> QED BY <3>1 DEF Bytes
  <2>8. Holds(mem', b, k, o, n, d)
    BY <2>6, <2>7 DEF Holds
  <2>9. MovedTo(shape, mem', cur, o)
    <3>1. o \in 1 .. Len(shape.code) /\ o + 1 = 2
      BY <1>0, <2>2, Shape
    <3>2. b + Off(shape)[1] = b /\ b + Off(shape)[2] = b + n /\ Src + Off(shape)[2] = to
      BY <1>0, <1>2, <2>1, OffDef DEF Src
    <3>3. InstrAt(shape, mem', b + Off(shape)[o], o, b)
      BY <1>2, <2>1, <2>2, <2>8, <3>2 DEF InstrAt
    <3>4. \A i \in 1 .. o : i = o
      BY <2>2
    <3>5. \A i \in 1 .. o : shape.code[i].k # "rel8" /\ InstrAt(shape, mem', Buf(cur) + Off(shape)[i], i, Buf(cur))
      BY <1>2, <2>1, <2>2, <3>3, <3>4
    <3>6. JumpAt(mem', Buf(cur) + Off(shape)[o + 1], Src + Off(shape)[o + 1])
      BY <2>1, <2>6, <3>1, <3>2
    <3> QED BY <1>2, <3>1, <3>5, <3>6 DEF MovedTo
  <2>10. old_proc' = [old_proc EXCEPT ![cur] = b]
    BY <1>6, <2>1 DEF HotCheck
  <2>11. Chain(cur)'
    <3>1. old_proc'[cur'] = Buf(cur')
      BY <1>1, <1>3, <2>1, <2>10
    <3>2. o \in 1 .. Len(shape'.code) /\ MovedTo(shape', mem', cur', o) /\ Off(shape')[o + 1] >= Width'
      BY <1>1, <1>2, <1>4, <2>2, <2>9 DEF MovedTo
    <3>3. Displaced(cur)'
      BY <1>4, <3>1, <3>2 DEF Displaced
    <3> QED BY <3>3 DEF Chain
  <2> QED BY <1>1, <1>2, <2>6, <2>10, <2>11, OldStored
<1> QED BY <1>5, <1>6

\* The addresses that hook_code steps through.
LEMMA BoundsIs == Bounds[0] = Src /\ \A k \in 1 .. 5 : Bounds[k] = Following(Bounds[k - 1])
<1> DEFINE P(f) == f = [k \in 0 .. 5 |-> IF k = 0 THEN Src ELSE Following(f[k - 1])]
<1>1. Bounds = CHOOSE f : P(f)
  BY DEF Bounds
<1>2. \E f : P(f)
  <2>1. PICK a0, a1, a2, a3, a4, a5 :
          /\ a0 = Src /\ a1 = Following(a0) /\ a2 = Following(a1)
          /\ a3 = Following(a2) /\ a4 = Following(a3) /\ a5 = Following(a4)
    OBVIOUS
  <2> DEFINE g == [k \in 0 .. 5 |-> IF k = 0 THEN a0 ELSE IF k = 1 THEN a1 ELSE IF k = 2 THEN a2
                                    ELSE IF k = 3 THEN a3 ELSE IF k = 4 THEN a4 ELSE a5]
  <2>2. g[0] = a0 /\ g[1] = a1 /\ g[2] = a2 /\ g[3] = a3 /\ g[4] = a4 /\ g[5] = a5
    OBVIOUS
  <2>3. g = [k \in 0 .. 5 |-> g[k]]
    OBVIOUS
  <2> HIDE DEF g
  <2>4. ASSUME NEW k \in 0 .. 5 PROVE g[k] = IF k = 0 THEN Src ELSE Following(g[k - 1])
    <3>1. k = 0 \/ (k = 1 /\ k - 1 = 0) \/ (k = 2 /\ k - 1 = 1) \/ (k = 3 /\ k - 1 = 2)
          \/ (k = 4 /\ k - 1 = 3) \/ (k = 5 /\ k - 1 = 4)
      OBVIOUS
    <3> QED BY <2>1, <2>2, <3>1
  <2>5. P(g)
    BY <2>3, <2>4
  <2> QED BY <2>5
<1>3. P(Bounds)
  BY <1>1, <1>2
<1> HIDE DEF P
<1>4. Bounds = [k \in 0 .. 5 |-> IF k = 0 THEN Src ELSE Following(Bounds[k - 1])]
  BY <1>3 DEF P
<1>5. \A k \in 0 .. 5 : Bounds[k] = IF k = 0 THEN Src ELSE Following(Bounds[k - 1])
  BY <1>4
<1>6. 0 \in 0 .. 5 /\ \A k \in 1 .. 5 : k \in 0 .. 5 /\ k # 0
  OBVIOUS
<1> QED BY <1>5, <1>6

LEMMA MovedCountIs ==
  ASSUME Movable
  PROVE  /\ MovedCount \in 1 .. 5 /\ Bounds[MovedCount] >= Src + 5
         /\ \A j \in 1 .. MovedCount - 1 : ~(Bounds[j] >= Src + 5)
<1> DEFINE F == {k \in 1 .. 5 : Bounds[k] >= Src + 5}
<1>1. F # {} /\ F \subseteq 1 .. 5
  BY DEF Movable
<1>2. \E k \in F : \A j \in F : k <= j
  <2>1. CASE 1 \in F
    BY <1>1, <2>1
  <2>2. CASE 1 \notin F /\ 2 \in F
    BY <1>1, <2>2
  <2>3. CASE 1 \notin F /\ 2 \notin F /\ 3 \in F
    BY <1>1, <2>3
  <2>4. CASE 1 \notin F /\ 2 \notin F /\ 3 \notin F /\ 4 \in F
    BY <1>1, <2>4
  <2>5. CASE 1 \notin F /\ 2 \notin F /\ 3 \notin F /\ 4 \notin F
    <3> HIDE DEF F
    <3>1. \A k \in F : k = 5
      BY <1>1, <2>5
    <3>2. PICK k \in F : k = 5
      BY <1>1, <3>1
    <3>3. \A j \in F : k <= j
      BY <3>1, <3>2
    <3> QED BY <3>2, <3>3
  <2> HIDE DEF F
  <2> QED BY <2>1, <2>2, <2>3, <2>4, <2>5
<1>3. PICK k \in F : \A j \in F : k <= j
  BY <1>2
<1>4. k \in 1 .. 5 /\ Bounds[k] >= Src + 5
  BY <1>3
<1>5. \A j \in 1 .. k - 1 : ~(Bounds[j] >= Src + 5)
  <2>1. \A j \in 1 .. k - 1 : j \in 1 .. 5 /\ ~(k <= j)
    BY <1>4
  <2>2. \A j \in 1 .. 5 : Bounds[j] >= Src + 5 => j \in F
    OBVIOUS
  <2> QED BY <1>3, <2>1, <2>2
<1> QED BY <1>4, <1>5 DEF MovedCount

\* Over a function that is not hooked they are the instructions' offsets.
LEMMA FreshBounds ==
  ASSUME CodeType, Intact(0)
  PROVE  \A j \in 0 .. 5 : Bounds[j] = Off(shape)[(IF j <= Len(shape.code) THEN j ELSE Len(shape.code)) + 1]
<1>0. shape \in Shapes
  BY DEF CodeType
<1>1. PICK l \in Nat \ {0} : l = Len(shape.code)
  BY <1>0, Shape
<1> DEFINE at(j) == (IF j <= l THEN j ELSE l) + 1
<1>2. ASSUME NEW j \in 1 .. 5, Bounds[j - 1] = Off(shape)[at(j - 1)]
      PROVE  Bounds[j] = Off(shape)[at(j)]
  <2>1. Bounds[j] = Following(Bounds[j - 1])
    BY BoundsIs
  <2>2. CASE j <= l
    <3>1. PICK i \in 1 .. l : i = j
      BY <1>1, <2>2
    <3>2. at(j - 1) = i /\ at(j) = i + 1
      BY <1>1, <3>1
    <3>3. PICK z \in Nat : z = 0
      OBVIOUS
    <3>4. PICK a \in Nat : a = Off(shape)[i]
      <4>1. i \in 1 .. l + 1
        BY <1>1
      <4> QED BY <1>0, <1>1, <4>1, OffDef
    <3>5. Executes(mem, Off(shape)[i], i, Off(shape)[i + 1])
      BY <1>1, <3>3, <3>4, InPlace
    <3>6. a \in DOMAIN mem /\ a + size_of_code(mem, a) = Off(shape)[i + 1]
      BY <3>4, <3>5 DEF Executes, Whole
    <3> HIDE DEF at
    <3> QED BY <1>2, <2>1, <3>2, <3>4, <3>6 DEF Following
  <2>3. CASE ~(j <= l)
    <3>1. at(j - 1) = l + 1 /\ at(j) = l + 1
      BY <1>1, <2>3
    <3>2. Off(shape)[l + 1] = End /\ End \notin DOMAIN mem
      BY <1>0, <1>1, EndFacts, DomainFacts
    <3> HIDE DEF at
    <3> QED BY <1>2, <2>1, <3>1, <3>2 DEF Following
  <2> QED BY <2>2, <2>3
<1>3. Bounds[0] = Off(shape)[at(0)]
  <2>1. at(0) = 1
    BY <1>1
  <2> HIDE DEF at
  <2> QED BY <1>0, <2>1, BoundsIs, OffDef DEF Src
<1>4. \A j \in 0 .. 5 : Bounds[j] = Off(shape)[at(j)]
  <2> HIDE DEF at
  <2>1. Bounds[1] = Off(shape)[at(1)]
    <3>1. PICK j \in 1 .. 5 : j = 1 /\ j - 1 = 0
      OBVIOUS
    <3>2. Bounds[j] = Off(shape)[at(j)]
      BY <1>2, <1>3, <3>1
    <3> QED BY <3>1, <3>2
  <2>2. Bounds[2] = Off(shape)[at(2)]
    <3>1. PICK j \in 1 .. 5 : j = 2 /\ j - 1 = 1
      OBVIOUS
    <3>2. Bounds[j] = Off(shape)[at(j)]
      BY <1>2, <2>1, <3>1
    <3> QED BY <3>1, <3>2
  <2>3. Bounds[3] = Off(shape)[at(3)]
    <3>1. PICK j \in 1 .. 5 : j = 3 /\ j - 1 = 2
      OBVIOUS
    <3>2. Bounds[j] = Off(shape)[at(j)]
      BY <1>2, <2>2, <3>1
    <3> QED BY <3>1, <3>2
  <2>4. Bounds[4] = Off(shape)[at(4)]
    <3>1. PICK j \in 1 .. 5 : j = 4 /\ j - 1 = 3
      OBVIOUS
    <3>2. Bounds[j] = Off(shape)[at(j)]
      BY <1>2, <2>3, <3>1
    <3> QED BY <3>1, <3>2
  <2>5. Bounds[5] = Off(shape)[at(5)]
    <3>1. PICK j \in 1 .. 5 : j = 5 /\ j - 1 = 4
      OBVIOUS
    <3>2. Bounds[j] = Off(shape)[at(j)]
      BY <1>2, <2>4, <3>1
    <3> QED BY <3>1, <3>2
  <2>6. \A j \in 0 .. 5 : j = 0 \/ j = 1 \/ j = 2 \/ j = 3 \/ j = 4 \/ j = 5
    OBVIOUS
  <2> QED BY <1>3, <2>1, <2>2, <2>3, <2>4, <2>5, <2>6
<1> QED BY <1>1, <1>4

\* hook_code moves whole instructions, at least five bytes of them and at most
\* nineteen, none with a short displacement.
LEMMA FreshCount ==
  ASSUME CodeType, Intact(0), Movable
  PROVE  /\ MovedCount \in 1 .. Len(shape.code) /\ MovedCount \in Nat
         /\ Bounds[MovedCount] = Off(shape)[MovedCount + 1]
         /\ Off(shape)[MovedCount + 1] \in 5 .. 19 /\ End >= 5
         /\ \A i \in 1 .. MovedCount : shape.code[i].k # "rel8"
<1>0. shape \in Shapes
  BY DEF CodeType
<1>1. PICK l \in Nat \ {0} : l = Len(shape.code)
  BY <1>0, Shape
<1>2. PICK k \in 1 .. 5 : k = MovedCount
  BY MovedCountIs
<1>3. Bounds[k] >= 5 /\ \A j \in 1 .. k - 1 : ~(Bounds[j] >= 5)
  BY <1>2, MovedCountIs DEF Src
<1>4. \A j \in 0 .. 5 : Bounds[j] = Off(shape)[(IF j <= l THEN j ELSE l) + 1]
  BY <1>1, FreshBounds
<1>5. k <= l
  <2>1. SUFFICES ASSUME k > l PROVE FALSE
    BY <1>1
  <2>2. PICK j \in 0 .. 5 : j = k - 1
    BY <1>1
  <2>3. j \in 1 .. k - 1 /\ (j = l \/ ~(j <= l)) /\ ~(k <= l) /\ k \in 0 .. 5
    BY <1>1, <2>1, <2>2
  <2>4. Bounds[j] = Off(shape)[l + 1] /\ Bounds[k] = Off(shape)[l + 1]
    BY <1>4, <2>3
  <2> QED BY <1>3, <2>3, <2>4
<1>6. ASSUME NEW j \in 0 .. k PROVE Bounds[j] = Off(shape)[j + 1]
  <2>1. j \in 0 .. 5 /\ j <= l
    BY <1>1, <1>5
  <2> QED BY <1>4, <2>1
<1>7. PICK m \in 1 .. l : m = k
  BY <1>1, <1>5
<1>8. PICK x \in Nat, y \in Nat : x = Off(shape)[m] /\ y = Off(shape)[m + 1]
  <2>1. m \in 1 .. l + 1 /\ m + 1 \in 1 .. l + 1
    BY <1>1
  <2> QED BY <1>0, <1>1, <2>1, OffDef
<1>9. PICK n \in 1 .. 15 : n = shape.code[m].n
  BY <1>0, <1>1, Shape
<1>10. y = x + n
  BY <1>0, <1>1, <1>8, <1>9, OffDef
<1>11. y >= 5 /\ Bounds[k] = y
  <2>1. k \in 0 .. k
    OBVIOUS
  <2>2. Bounds[k] = y
    BY <1>6, <1>7, <1>8, <2>1
  <2> QED BY <1>3, <2>2
<1>12. x < 5
  <2>1. CASE k = 1
    BY <1>0, <1>7, <1>8, <2>1, OffDef
  <2>2. CASE k # 1
    <3>1. PICK j \in 0 .. k : j = k - 1
      OBVIOUS
    <3>2. j \in 1 .. k - 1 /\ j + 1 = m
      BY <1>7, <2>2, <3>1
    <3>3. Bounds[j] = x /\ ~(Bounds[j] >= 5)
      BY <1>3, <1>6, <1>8, <3>2
    <3> QED BY <3>3
  <2> QED BY <2>1, <2>2
<1>13. y \in 5 .. 19
  BY <1>10, <1>11, <1>12
<1>14. End >= 5
  <2>1. PICK e \in Nat : e = End /\ e = Off(shape)[l + 1]
    BY <1>0, <1>1, EndFacts
  <2>2. l + 1 \in 1 .. l + 1 /\ m < l + 1
    BY <1>1
  <2>3. x + n <= e
    BY <1>0, <1>1, <1>8, <1>9, <2>1, <2>2, OffOrder
  <2> QED BY <1>10, <1>11, <2>1, <2>3
<1>15. ASSUME NEW i \in 1 .. k PROVE shape.code[i].k # "rel8"
  <2>1. PICK j \in 0 .. k : j = i - 1
    OBVIOUS
  <2>2. j \in 0 .. k - 1 /\ j + 1 = i
    BY <2>1
  <2>3. mem[Bounds[j]][1] # "rel8"
    BY <1>2, <2>2 DEF Movable
  <2>4. Bounds[j] = Off(shape)[i]
    BY <1>6, <2>2
  <2>5. PICK z \in Nat : z = 0
    OBVIOUS
  <2>6. i \in 1 .. l /\ i \in 1 .. l + 1
    BY <1>1, <1>5
  <2>7. PICK a \in Nat : a = Off(shape)[i]
    BY <1>0, <1>1, <2>6, OffDef
  <2>8. Executes(mem, Off(shape)[i], i, Off(shape)[i + 1])
    BY <1>1, <2>5, <2>6, <2>7, InPlace
  <2> QED BY <2>3, <2>4, <2>8 DEF Executes
<1>16. m \in Nat
  BY <1>1
<1> QED BY <1>1, <1>2, <1>7, <1>8, <1>11, <1>13, <1>14, <1>15, <1>16

\* The moved bytes are the instructions, corrected for their new place.
LEMMA MovedBytes ==
  ASSUME CodeType, Intact(0), NEW b \in Int, b = Buf(cur), NEW k \in 1 .. Len(shape.code),
         NEW n \in Nat, n = Off(shape)[k + 1], \A i \in 1 .. k : shape.code[i].k # "rel8",
         \A j \in 1 .. n : b + j - 1 \in DOMAIN mem' /\ mem'[b + j - 1] = Moved(mem, n)[j]
  PROVE  \A i \in 1 .. k : InstrAt(shape, mem', b + Off(shape)[i], i, b)
<1> SUFFICES ASSUME NEW i \in 1 .. k PROVE InstrAt(shape, mem', b + Off(shape)[i], i, b)
  OBVIOUS
<1>0. shape \in Shapes
  BY DEF CodeType
<1>1. PICK l \in Nat \ {0} : l = Len(shape.code)
  BY <1>0, Shape
<1>2. i \in 1 .. l /\ i \in 1 .. l + 1 /\ k + 1 \in 1 .. l + 1 /\ i < k + 1
  BY <1>1
<1>3. PICK m \in 1 .. 15, kd \in Kinds : m = shape.code[i].n /\ kd = shape.code[i].k
  BY <1>0, <1>1, <1>2, Shape
<1>4. PICK x \in Nat : x = Off(shape)[i]
  BY <1>0, <1>1, <1>2, OffDef
<1>5. x + m <= n /\ Off(shape)[i + 1] = x + m
  BY <1>0, <1>1, <1>2, <1>3, <1>4, OffOrder, OffDef
<1>6. PICK d \in Int, e \in Int : d = Callee - (x + m) /\ e = d - b
  BY DEF Callee
<1>7. ASSUME NEW j \in 1 .. m PROVE (b + x) + j - 1 \in DOMAIN mem' /\ mem'[(b + x) + j - 1] = Bytes(kd, i, m, e)[j]
  <2>1. PICK z \in Nat : z = 0
    OBVIOUS
  <2>2. x >= z
    BY <2>1
  <2>3. \A a \in Src .. End - 1 : a \in DOMAIN mem
    <3>1. PICK g \in Nat : g = End
      BY <1>0, EndFacts
    <3>2. \A a \in Src .. g - 1 : a \in Src - 5 .. g - 1
      BY DEF Src
    <3> QED BY <3>1, <3>2, DomainFacts
  <2>4. InstrAt(shape, mem, x, i, 0)
    BY <1>0, <1>1, <1>2, <1>4, <2>1, <2>2, <2>3, IntactInstr
  <2>5. Holds(mem, x, kd, i, m, d)
    <3>1. Callee - Off(shape)[i + 1] - 0 = d
      BY <1>5, <1>6
    <3> QED BY <1>3, <2>4, <3>1 DEF InstrAt
  <2>6. mem[x + j - 1] = Bytes(kd, i, m, d)[j]
    BY <2>5 DEF Holds
  <2>7. PICK y \in 1 .. n : y = x + j
    BY <1>5
  <2>8. mem'[b + y - 1] = Moved(mem, n)[y] /\ b + y - 1 \in DOMAIN mem'
    OBVIOUS
  <2>9. b + y - 1 = (b + x) + j - 1 /\ Src + y - 1 = x + j - 1
    BY <2>7 DEF Src
  <2>10. PICK c : c = mem[x + j - 1]
    OBVIOUS
  <2>11. Moved(mem, n)[y] = IF c[1] = "rel" THEN <<"rel", c[2] + Src - Buf(cur), c[3]>> ELSE c
    BY <2>9, <2>10 DEF Moved
  <2>12. CASE kd \in Relative /\ j > m - 4
    <3>1. c = <<"rel", d, j - m + 4>>
      BY <2>6, <2>10, <2>12 DEF Bytes
    <3>2. d + Src - Buf(cur) = e
      BY <1>6 DEF Src
    <3>3. Moved(mem, n)[y] = <<"rel", e, j - m + 4>>
      BY <2>11, <3>1, <3>2
    <3>4. Bytes(kd, i, m, e)[j] = <<"rel", e, j - m + 4>>
      BY <2>12 DEF Bytes
    <3> QED BY <2>8, <2>9, <3>3, <3>4
  <2>13. CASE ~(kd \in Relative /\ j > m - 4)
    <3>1. c = <<kd, i, j>>
      BY <2>6, <2>10, <2>13 DEF Bytes
    <3>2. kd # "rel"
      BY KindIs
    <3>3. Moved(mem, n)[y] = <<kd, i, j>>
      BY <2>11, <3>1, <3>2
    <3>4. Bytes(kd, i, m, e)[j] = <<kd, i, j>>
      BY <2>13 DEF Bytes
    <3> QED BY <2>8, <2>9, <3>3, <3>4
  <2> QED BY <2>12, <2>13
<1>8. Holds(mem', b + x, kd, i, m, e)
  BY <1>7 DEF Holds
<1>9. Callee - Off(shape)[i + 1] - b = e
  BY <1>5, <1>6
<1> QED BY <1>3, <1>4, <1>8, <1>9 DEF InstrAt

\* hook_code over a function that is not hooked.
LEMMA MoveFresh ==
  ASSUME CodeInv, CodeMove, Active = {}
  PROVE  CodeInv'
<1>0. CodeType /\ BytesInv /\ shape \in Shapes
  BY DEF CodeInv, CodeType
<1>1. /\ pc = "code" /\ pc' = "lock" /\ UNCHANGED <<shape, done, cur, cpu>> /\ Movable
  BY DEF CodeMove, Go
<1>2. Intact(0) /\ done = {} /\ First # "short"
  <2>1. pc # "splice_rel"
    BY <1>1
  <2>2. Intact(0)
    BY <1>0, <2>1 DEF BytesInv, FreshInv
  <2> QED BY <1>0, <2>1, <2>2, FirstFacts DEF Active
<1>3. cur \in 1 .. MaxHooks /\ cur \in Nat \ {0} /\ Buf(cur) \in Int /\ cur \in DOMAIN old_proc
  BY <1>0, <1>1, CurFacts
<1>4. PICK k \in 1 .. Len(shape.code) :
        /\ k = MovedCount /\ Bounds[MovedCount] = Off(shape)[k + 1] /\ Off(shape)[k + 1] \in 5 .. 19
        /\ \A i \in 1 .. k : shape.code[i].k # "rel8"
  BY <1>0, <1>1, <1>2, FreshCount
<1>5. End >= 5
  BY <1>0, <1>1, <1>2, FreshCount
<1>6. PICK b \in Int, n \in 0 .. 19, to \in Int : b = Buf(cur) /\ n = Off(shape)[k + 1] /\ to = Src + n
  <2>1. PICK x \in 5 .. 19 : x = Off(shape)[k + 1]
    BY <1>4
  <2>2. x \in 0 .. 19 /\ Src + x \in Int
    BY DEF Src
  <2> QED BY <1>3, <2>1, <2>2
<1>7. n \in Nat /\ n >= 5 /\ n <= 19 /\ Bounds[MovedCount] - Src = n
  <2>1. n \in 5 .. 19 /\ Bounds[MovedCount] = n
    BY <1>4, <1>6
  <2>2. n \in Nat /\ n >= 5 /\ n <= 19 /\ n - 0 = n
    BY <2>1
  <2> QED BY <2>1, <2>2 DEF Src
<1>8. mem' = Filled(mem, b, Moved(mem, n), n, to)
  <2>1. mem' = Poke(mem, Buf(cur), Moved(mem, Bounds[MovedCount] - Src)
                       \o Jump(Buf(cur) + (Bounds[MovedCount] - Src), Src + (Bounds[MovedCount] - Src)))
    BY DEF CodeMove
  <2> QED BY <1>6, <1>7, <2>1 DEF Filled
<1>9. PICK q : q = Moved(mem, n)
  OBVIOUS
<1>10. Listed(q, n)
  BY <1>9 DEF Listed, Moved
<1>11. /\ Same(mem, mem', Buffer(cur)) /\ JumpAt(mem', b + n, to)
       /\ \A j \in 1 .. n : b + j - 1 \in DOMAIN mem' /\ mem'[b + j - 1] = q[j]
  <2>1. mem' = Filled(mem, b, q, n, to)
    BY <1>8, <1>9
  <2>2. Same(mem, mem', Buffer(cur)) /\ BufferHolds(mem, mem', b, q, n, to)
    BY <1>0, <1>3, <1>6, <1>10, <2>1, InBuffer
  <2> QED BY <2>2 DEF BufferHolds
<1>12. \A i \in 1 .. k : InstrAt(shape, mem', b + Off(shape)[i], i, b)
  BY <1>0, <1>2, <1>4, <1>6, <1>7, <1>9, <1>11, MovedBytes
<1>13. MovedTo(shape, mem', cur, k)
  <2>1. JumpAt(mem', Buf(cur) + Off(shape)[k + 1], Src + Off(shape)[k + 1]) /\ Off(shape)[k + 1] <= 19
    BY <1>6, <1>7, <1>11
  <2>2. \A i \in 1 .. k : InstrAt(shape, mem', Buf(cur) + Off(shape)[i], i, Buf(cur))
    BY <1>6, <1>12
  <2> QED BY <1>4, <2>1, <2>2 DEF MovedTo
<1>14. old_proc' = [old_proc EXCEPT ![cur] = b]
  BY <1>6 DEF CodeMove
<1>15. Chain(cur)'
  <2>1. old_proc'[cur'] = Buf(cur') /\ Oldest(cur', done')
    BY <1>1, <1>2, <1>3, <1>6, <1>14 DEF Oldest
  <2>2. Off(shape')[k + 1] >= Width'
    <3>1. Width' \in {2, 5} /\ Off(shape')[k + 1] = n
      BY <1>1, <1>6 DEF Width
    <3> QED BY <1>7, <3>1
  <2>3. k \in 1 .. Len(shape'.code) /\ MovedTo(shape', mem', cur', k)
    BY <1>1, <1>13
  <2>4. Displaced(cur)'
    BY <2>1, <2>2, <2>3 DEF Displaced
  <2> QED BY <2>4 DEF Chain
<1> QED BY <1>1, <1>2, <1>5, <1>11, <1>14, <1>15, OldStored

\* hook_code over the jump of an earlier hook_code.
LEMMA MoveAgain ==
  ASSUME CodeInv, CodeMove, Active # {}
  PROVE  CodeInv'
<1>0. CodeType /\ BytesInv /\ shape \in Shapes
  BY DEF CodeInv, CodeType
<1>1. /\ pc = "code" /\ pc' = "lock" /\ UNCHANGED <<shape, done, cur, cpu>> /\ Movable
  BY DEF CodeMove, Go
<1>2. Active = done
  BY <1>1 DEF Active
<1>3. cur \in 1 .. MaxHooks /\ cur \in Nat \ {0} /\ Buf(cur) \in Int /\ cur \in DOMAIN old_proc
  BY <1>0, <1>1, CurFacts
<1>4. MovedCount \in 1 .. 5 /\ \A j \in 1 .. MovedCount - 1 : ~(Bounds[j] >= Src + 5)
  BY <1>1, MovedCountIs
<1>5. First = "jmp"
  <2>1. First \in {"short", "jmp"}
    BY <1>0, FirstFacts
  <2>2. PICK z \in 0 .. MovedCount - 1 : z = 0
    BY <1>4
  <2>3. mem[Bounds[z]][1] # "short" /\ Bounds[z] = Src
    BY <1>1, <2>2, BoundsIs DEF Movable
  <2> QED BY <2>1, <2>3 DEF First
<1>6. PICK t \in done : (\A h \in done : h <= t) /\ Jumped(t)
  BY <1>0, <1>2 DEF BytesInv, TopInv
<1>7. t \in Nat \ {0} /\ t < cur
  <2>1. t \in Nat \ {0}
    BY <1>0, <1>2, <1>6, ActiveFacts
  <2> QED BY <1>0, <1>1, <1>6, <2>1 DEF CodeType
<1>8. End >= 5 /\ JumpAt(mem, Src, New(t))
  BY <1>0, <1>2, <1>5, <1>6, FirstFacts
<1>9. PICK s \in Int, to \in Int, b \in Int : s = Src /\ s = 0 /\ to = New(t) /\ b = Buf(cur)
  BY <1>3, <1>7, Apart DEF Src
<1>10. /\ mem[s] = <<"jmp", 0, 1>> /\ size_of_code(mem, s) = 5
       /\ \A x \in s + 1 .. s + 4 : mem[x] = <<"rel", to - s - 5, x - s>>
  <2>1. JumpAt(mem, s, to)
    BY <1>8, <1>9
  <2> QED BY <2>1, JumpDecode
<1>11. Bounds[1] = 5
  <2>1. PICK j \in 1 .. 5 : j = 1 /\ j - 1 = 0
    OBVIOUS
  <2>2. Bounds[j] = Following(Bounds[j - 1]) /\ Bounds[0] = Src
    BY BoundsIs
  <2>3. Following(s) = s + 5
    <3>1. s \in DOMAIN mem
      BY <1>0, <1>9, DomainFacts
    <3> QED BY <1>10, <3>1 DEF Following
  <2> QED BY <1>9, <2>1, <2>2, <2>3
<1>12. MovedCount = 1
  <2>1. SUFFICES ASSUME MovedCount # 1 PROVE FALSE
    OBVIOUS
  <2>2. PICK j \in 1 .. MovedCount - 1 : j = 1
    BY <1>4, <2>1
  <2> QED BY <1>4, <1>11, <2>2 DEF Src
<1>13. PICK n \in 0 .. 19, go \in Int : n = 5 /\ go = Src + n
  BY DEF Src
<1>14. Bounds[MovedCount] - Src = n
  BY <1>11, <1>12, <1>13 DEF Src
<1>15. PICK q : q = Moved(mem, n)
  OBVIOUS
<1>16. mem' = Filled(mem, b, q, n, go)
  <2>1. mem' = Poke(mem, Buf(cur), Moved(mem, Bounds[MovedCount] - Src)
                       \o Jump(Buf(cur) + (Bounds[MovedCount] - Src), Src + (Bounds[MovedCount] - Src)))
    BY DEF CodeMove
  <2> QED BY <1>9, <1>13, <1>14, <1>15, <2>1 DEF Filled
<1>17. Listed(q, n)
  BY <1>15 DEF Listed, Moved
<1>18. /\ Same(mem, mem', Buffer(cur))
       /\ \A j \in 1 .. n : b + j - 1 \in DOMAIN mem' /\ mem'[b + j - 1] = q[j]
  <2>1. Same(mem, mem', Buffer(cur)) /\ BufferHolds(mem, mem', b, q, n, go)
    BY <1>0, <1>3, <1>9, <1>16, <1>17, InBuffer
  <2> QED BY <2>1 DEF BufferHolds
<1>19. PICK d \in Int : d = to - b - 5
  OBVIOUS
<1>20. ASSUME NEW j \in 1 .. 5 PROVE q[j] = Bytes("jmp", 0, 5, d)[j]
  <2>0. PICK x \in Int : x = j - 1
    OBVIOUS
  <2>1. PICK c : x = j - 1 /\ c = mem[x]
    BY <2>0
  <2>2. q[j] = IF c[1] = "rel" THEN <<"rel", c[2] + Src - Buf(cur), c[3]>> ELSE c
    <3>1. Src + j - 1 = x
      BY <2>1 DEF Src
    <3>2. j \in 1 .. n
      BY <1>13
    <3> QED BY <1>15, <2>1, <3>1, <3>2 DEF Moved
  <2>3. CASE j = 1
    <3>1. c = <<"jmp", 0, 1>>
      BY <1>9, <1>10, <2>1, <2>3
    <3>2. Bytes("jmp", 0, 5, d)[j] = <<"jmp", 0, 1>>
      BY <2>3 DEF Bytes
    <3> QED BY <2>2, <3>1, <3>2
  <2>4. CASE j # 1
    <3>1. x \in s + 1 .. s + 4 /\ x - s = x
      BY <1>9, <2>1, <2>4
    <3>2. PICK f \in Int : f = to - s - 5
      OBVIOUS
    <3>3. c = <<"rel", f, x>>
      BY <1>10, <2>1, <3>1, <3>2
    <3>4. f + Src - Buf(cur) = d
      BY <1>9, <1>19, <3>2
    <3>5. q[j] = <<"rel", d, x>>
      BY <2>2, <3>3, <3>4
    <3>6. j > 5 - 4 /\ j - 5 + 4 = x
      BY <2>1, <2>4
    <3>7. Bytes("jmp", 0, 5, d)[j] = <<"rel", d, x>>
      BY <3>6 DEF Bytes, Relative
    <3> QED BY <3>5, <3>7
  <2> QED BY <2>3, <2>4
<1>21. JumpAt(mem', b, to)
  BY <1>13, <1>18, <1>19, <1>20 DEF JumpAt, Holds
<1>22. old_proc' = [old_proc EXCEPT ![cur] = b]
  BY <1>9 DEF CodeMove
<1>23. Chain(cur)'
  <2>1. old_proc'[cur'] = Buf(cur') /\ done' = done /\ cur' = cur
    BY <1>1, <1>3, <1>9, <1>22
  <2>2. Before(t, cur', done') /\ JumpAt(mem', Buf(cur'), New(t))
    BY <1>6, <1>7, <1>9, <1>21, <2>1 DEF Before
  <2>3. Linked(cur)'
    BY <1>6, <2>1, <2>2 DEF Linked
  <2> QED BY <2>3 DEF Chain
<1>24. First # "short"
  BY <1>5
<1> QED BY <1>1, <1>8, <1>18, <1>22, <1>23, <1>24, OldStored

-----------------------------------------------------------------------------
\* Steps of a processor.

\* What a call has executed, one instruction at a time.
LEMMA ExecutedNone == \A s, f : f \in Nat => Executed(s, f, f) = << >>
<1> SUFFICES ASSUME NEW s, NEW f \in Nat PROVE Executed(s, f, f) = << >>
  OBVIOUS
<1>1. 1 .. f - f = {}
  OBVIOUS
<1> QED BY <1>1 DEF Executed

LEMMA ExecutedNext ==
  ASSUME NEW s, NEW f \in Nat, NEW i \in Nat, f <= i
  PROVE  Append(Executed(s, f, i), Expect(s, i)) = Executed(s, f, i + 1)
<1>1. PICK n \in Nat : n = i - f
  OBVIOUS
<1>2. (i + 1) - f = n + 1 /\ (n + 1) + f - 1 = i
  BY <1>1
<1>3. PICK q, e : q = Executed(s, f, i) /\ e = Expect(s, i)
  OBVIOUS
<1>4. q = [j \in 1 .. n |-> Expect(s, j + f - 1)]
  BY <1>1, <1>3 DEF Executed
<1>5. q = [j \in 1 .. n |-> q[j]]
  BY <1>4
<1> DEFINE T == {q[j] : j \in 1 .. n}
<1>6. q \in Seq(T) /\ Len(q) = n
  BY <1>5, FunSeq
<1> DEFINE U == T \cup {e}
<1>7. q \in Seq(U) /\ e \in U
  <2>1. T \subseteq U /\ e \in U
    OBVIOUS
  <2> HIDE DEF T, U
  <2> QED BY <1>6, <2>1, SeqMonotonic
<1> HIDE DEF T, U
<1>8. PICK r : r = Append(q, e)
  OBVIOUS
<1>9. r \in Seq(U) /\ Len(r) = n + 1 /\ (\A j \in 1 .. n : r[j] = q[j]) /\ r[n + 1] = e
  BY <1>6, <1>7, <1>8
<1>10. r = [j \in 1 .. n + 1 |-> r[j]]
  BY <1>9
<1>11. ASSUME NEW j \in 1 .. n + 1 PROVE r[j] = Expect(s, j + f - 1)
  <2>1. CASE j \in 1 .. n
    BY <1>4, <1>9, <2>1
  <2>2. CASE j = n + 1
    BY <1>2, <1>3, <1>9, <2>2
  <2> QED BY <2>1, <2>2
<1>12. r = Executed(s, f, i + 1)
  BY <1>2, <1>10, <1>11 DEF Executed
<1> QED BY <1>3, <1>8, <1>12

\* What a hook procedure adds to the hooks that have run.
LEMMA SeenNext ==
  ASSUME NEW q \in Seq(Nat), NEW h \in Nat, Descending(q), \A j \in 1 .. Len(q) : q[j] > h
  PROVE  LET r == Append(q, h)
         IN  /\ r \in Seq(Nat) /\ Descending(r) /\ Ran(r, h)
             /\ \A x : Ran(q, x) => Ran(r, x)
             /\ \A j \in 1 .. Len(r) : r[j] >= h
<1>1. PICK r : r = Append(q, h)
  OBVIOUS
<1>2. PICK n \in Nat : n = Len(q)
  OBVIOUS
<1>3. r \in Seq(Nat) /\ Len(r) = n + 1 /\ (\A j \in 1 .. n : r[j] = q[j]) /\ r[n + 1] = h
  BY <1>1, <1>2
<1>4. \A j \in 1 .. n : q[j] \in Nat /\ q[j] > h
  BY <1>2
<1>5. ASSUME NEW j \in 1 .. Len(r) - 1 PROVE r[j] > r[j + 1]
  <2>1. j \in 1 .. n
    BY <1>3
  <2>2. CASE j = n
    BY <1>3, <1>4, <2>1, <2>2
  <2>3. CASE j # n
    <3>1. PICK i \in 1 .. n : i = j + 1
      BY <2>1, <2>3
    <3>2. j \in 1 .. Len(q) - 1
      BY <1>2, <3>1
    <3>3. q[j] > q[j + 1]
      BY <3>2 DEF Descending
    <3>4. r[j] = q[j] /\ r[i] = q[i]
      BY <1>3, <2>1
    <3> QED BY <3>1, <3>3, <3>4
  <2> QED BY <2>2, <2>3
<1>6. Descending(r)
  BY <1>5 DEF Descending
<1>7. Ran(r, h)
  <2>1. n + 1 \in 1 .. Len(r) /\ r[n + 1] = h
    BY <1>3
  <2> QED BY <2>1 DEF Ran
<1>8. ASSUME NEW x, Ran(q, x) PROVE Ran(r, x)
  <2>1. PICK j \in 1 .. n : q[j] = x
    BY <1>2, <1>8 DEF Ran
  <2>2. j \in 1 .. Len(r) /\ r[j] = x
    BY <1>3, <2>1
  <2> QED BY <2>2 DEF Ran
<1>9. ASSUME NEW j \in 1 .. Len(r) PROVE r[j] >= h
  <2>1. j \in 1 .. n \/ j = n + 1
    BY <1>3
  <2> QED BY <1>3, <1>4, <2>1
<1> QED BY <1>1, <1>3, <1>6, <1>7, <1>8, <1>9

\* A step of processor c changes nothing but where c is.
Elsewhere(c) == \A e \in Cpus \ {c} : /\ ip'[e] = ip[e] /\ trace'[e] = trace[e]
                                      /\ seen'[e] = seen[e] /\ must'[e] = must[e]

LEMMA CpuStep ==
  ASSUME CodeInv, UNCHANGED <<code, pc, cur>>, NEW c \in Cpus, CodeType', Elsewhere(c),
         Place(c)', Descending(seen'[c])
  PROVE  CodeInv'
<1>1. BytesInv' /\ ChainInv' /\ Active' = Active /\ First' = First /\ Width' = Width
  BY BytesSame DEF CodeInv
<1>2. ASSUME NEW e \in Cpus PROVE Place(e)' /\ Descending(seen'[e])
  <2>1. CASE e = c
    BY <2>1
  <2>2. CASE e # c
    <3>1. ip'[e] = ip[e] /\ trace'[e] = trace[e] /\ seen'[e] = seen[e] /\ must'[e] = must[e]
      BY <2>2 DEF Elsewhere
    <3>2. CodeType /\ Place(e) /\ Descending(seen[e])
      BY DEF CodeInv, PlaceInv
    <3>3. Same(mem, mem', {}) /\ shape' = shape /\ Active \subseteq Active' /\ done \subseteq done'
      BY <1>1 DEF Same, code
    <3>4. Width' <= Width /\ \A h \in Active : Buffer(h) \cap {} = {}
      BY <1>1, WidthIs
    <3>5. Place(e)'
      BY <1>1, <3>1, <3>2, <3>3, <3>4, PlaceSame
    <3> QED BY <3>1, <3>2, <3>5
  <2> QED BY <2>1, <2>2
<1> QED BY <1>1, <1>2 DEF CodeInv, PlaceInv

LEMMA Calls ==
  ASSUME CodeInv, NEW c \in Cpus, Call(c)
  PROVE  CodeInv'
<1> USE DEF Call, Quiet
<1>0. CodeType
  BY DEF CodeInv
<1>1. UNCHANGED <<code, pc, cur>> /\ UNCHANGED <<shape, mem, done, old_proc>>
  BY DEF code
<1>2. /\ ip'[c] = Src /\ trace'[c] = << >> /\ seen'[c] = << >> /\ must'[c] = done
      /\ DOMAIN ip' = Cpus /\ DOMAIN trace' = Cpus /\ DOMAIN must' = Cpus
  BY <1>0 DEF CodeType
<1>3. Elsewhere(c)
  BY <1>0 DEF Elsewhere, CodeType
<1>4. seen' \in [Cpus -> Seq(Nat)]
  <2>1. seen \in [Cpus -> Seq(Nat)] /\ << >> \in Seq(Nat)
    BY <1>0 DEF CodeType
  <2> QED BY <2>1
<1>5. \A e \in Cpus : must'[e] \subseteq done'
  BY <1>0, <1>1, <1>2, <1>3 DEF Elsewhere, CodeType
<1>6. CodeType'
  BY <1>0, <1>1, <1>2, <1>4, <1>5 DEF CodeType
<1>7. Place(c)'
  <2>1. AtStart(c)'
    BY <1>2 DEF AtStart
  <2> QED BY <2>1 DEF Place
<1>8. Descending(seen'[c])
  BY <1>2 DEF Descending
<1> HIDE DEF Call, Quiet
<1> QED BY <1>1, <1>3, <1>6, <1>7, <1>8, CpuStep

LEMMA Leaves ==
  ASSUME CodeInv, NEW c \in Cpus, Leave(c)
  PROVE  CodeInv'
<1> USE DEF Leave, Quiet
<1>0. CodeType
  BY DEF CodeInv
<1>1. UNCHANGED <<code, pc, cur>> /\ UNCHANGED <<shape, mem, done, old_proc>>
  BY DEF code
<1>2. ip'[c] = Nowhere /\ DOMAIN ip' = Cpus /\ UNCHANGED <<trace, seen, must>>
  BY <1>0 DEF CodeType
<1>3. Elsewhere(c)
  BY <1>0 DEF Elsewhere, CodeType
<1>4. CodeType'
  BY <1>0, <1>1, <1>2 DEF CodeType
<1>5. Place(c)'
  BY <1>2 DEF Place
<1>6. Descending(seen'[c])
  BY <1>2 DEF CodeInv, PlaceInv
<1> HIDE DEF Leave, Quiet
<1> QED BY <1>1, <1>3, <1>4, <1>5, <1>6, CpuStep

\* The instructions in a buffer lie within it.
LEMMA InMoved ==
  ASSUME shape \in Shapes, NEW h \in Nat \ {0}, NEW k, MovedTo(shape, mem, h, k), NEW i \in 1 .. k + 1
  PROVE  Buf(h) + Off(shape)[i] \in Buffer(h)
<1>1. PICK l \in Nat \ {0} : l = Len(shape.code)
  BY Shape
<1>2. k \in 1 .. l /\ Off(shape)[k + 1] <= 19
  BY <1>1 DEF MovedTo
<1>3. i \in 1 .. l + 1 /\ k + 1 \in 1 .. l + 1
  BY <1>1, <1>2
<1>4. PICK x \in Nat, y \in Nat : x = Off(shape)[i] /\ y = Off(shape)[k + 1]
  BY <1>1, <1>3, OffDef
<1>5. x <= y
  <2>1. CASE i = k + 1
    BY <1>4, <2>1
  <2>2. CASE i # k + 1
    <3>1. i \in 1 .. l /\ i < k + 1
      BY <1>1, <1>2, <2>2
    <3>2. PICK n \in 1 .. 15 : n = shape.code[i].n
      BY <1>1, <3>1, Shape
    <3>3. x + n <= y
      BY <1>1, <1>3, <1>4, <3>1, <3>2, OffOrder
    <3> QED BY <3>3
  <2> QED BY <2>1, <2>2
<1>6. PICK b \in Int : b = Buf(h)
  BY Apart
<1>7. x <= 19
  BY <1>2, <1>4, <1>5
<1>8. b + x \in b .. b + 23
  BY <1>7
<1>9. b + 24 - 1 = b + 23
  OBVIOUS
<1> QED BY <1>4, <1>6, <1>8, <1>9 DEF Buffer, BufSize

\* A processor at the procedure of hook h has come there for it.
LEMMA AtHook ==
  ASSUME CodeType, NEW c \in Cpus, Place(c), NEW h \in Nat \ {0}, ip[c] = New(h)
  PROVE  h \in Active /\ trace[c] = << >> /\ Owed(seen[c], must[c], h)
<1>0. shape \in Shapes /\ \A g \in Active : g \in Nat \ {0}
  BY ActiveFacts DEF CodeType
<1>1. /\ New(h) \in Int /\ New(h) < Src - 5 /\ New(h) # Nowhere
      /\ \A g \in Nat \ {0} : New(h) \notin Buffer(g) /\ (New(g) = New(h) => g = h)
  BY Apart
<1>2. ~ Stranded(c) /\ ~ AtStart(c) /\ ~ AtPad(c)
  BY <1>1 DEF Stranded, AtStart, AtPad, Src
<1>3. ~ AtLink(c)
  <2>1. \A g \in Nat \ {0} : Buf(g) \in Buffer(g)
    <3>1. SUFFICES ASSUME NEW g \in Nat \ {0} PROVE Buf(g) \in Buffer(g)
      OBVIOUS
    <3>2. Buf(g) \in Int
      BY Apart
    <3> QED BY <3>2 DEF Buffer, BufSize
  <2> QED BY <1>0, <1>1, <2>1 DEF AtLink
<1>4. ~ AtMoved(c)
  <2>1. SUFFICES ASSUME NEW g \in Active, NEW k \in 1 .. Len(shape.code), NEW i \in 1 .. k + 1,
                        ip[c] = Buf(g) + Off(shape)[i], MovedTo(shape, mem, g, k)
                 PROVE  FALSE
    BY DEF AtMoved
  <2>2. g \in Nat \ {0}
    BY <1>0
  <2>3. Buf(g) + Off(shape)[i] \in Buffer(g)
    BY <1>0, <2>1, <2>2, InMoved
  <2> QED BY <1>1, <2>1, <2>2, <2>3
<1>5. ~ AtBody(c)
  <2>1. SUFFICES ASSUME NEW i \in 2 .. Len(shape.code) + 1, ip[c] = Off(shape)[i] PROVE FALSE
    BY DEF AtBody
  <2>2. Off(shape)[i] \in Nat
    BY <1>0, BodyOffset
  <2> QED BY <1>1, <2>1, <2>2 DEF Src
<1>6. AtNew(c)
  BY <1>1, <1>2, <1>3, <1>4, <1>5 DEF Place
<1>7. PICK g \in Active : ip[c] = New(g) /\ trace[c] = << >> /\ Owed(seen[c], must[c], g)
  BY <1>6 DEF AtNew
<1>8. g = h
  BY <1>0, <1>1, <1>7
<1> QED BY <1>7, <1>8

LEMMA NewProcs ==
  ASSUME CodeInv, NEW c \in Cpus, NEW h \in 1 .. MaxHooks, NewProc(c, h)
  PROVE  CodeInv'
<1>0. CodeType /\ shape \in Shapes
  BY DEF CodeInv, CodeType
<1>1. /\ UNCHANGED <<code, pc, cur>> /\ UNCHANGED <<shape, mem, done, old_proc, trace, must>>
      /\ ip[c] = New(h) /\ seen' = [seen EXCEPT ![c] = Append(@, h)]
      /\ ip' = [ip EXCEPT ![c] = old_proc[h]]
  BY DEF NewProc, Quiet, code
<1>2. h \in Nat \ {0}
  BY CodeHookAssumption
<1>3. h \in Active /\ trace[c] = << >> /\ Owed(seen[c], must[c], h)
  BY <1>0, <1>1, <1>2, AtHook DEF CodeInv, PlaceInv
<1>17. PICK q \in Seq(Nat) : q = seen[c]
  BY <1>0 DEF CodeType
<1>4. PICK r, S : q = seen[c] /\ r = Append(q, h) /\ S = must[c]
  BY <1>17
<1>5. Descending(q) /\ (\A j \in 1 .. Len(q) : q[j] > h) /\ \A x \in S : x <= h \/ Ran(q, x)
  BY <1>3, <1>4 DEF CodeInv, PlaceInv, Owed
<1>6. /\ r \in Seq(Nat) /\ Descending(r) /\ Ran(r, h) /\ (\A x : Ran(q, x) => Ran(r, x))
      /\ \A j \in 1 .. Len(r) : r[j] >= h
  BY <1>2, <1>4, <1>5, SeenNext
<1>7. /\ seen'[c] = r /\ ip'[c] = old_proc[h] /\ trace'[c] = << >> /\ must'[c] = S
      /\ DOMAIN ip' = Cpus /\ seen' \in [Cpus -> Seq(Nat)]
  BY <1>0, <1>1, <1>3, <1>4, <1>6 DEF CodeType
<1>8. Elsewhere(c)
  BY <1>0, <1>1 DEF Elsewhere, CodeType
<1>9. CodeType'
  BY <1>0, <1>1, <1>7 DEF CodeType
<1>10. BytesInv' /\ Active' = Active /\ First' = First /\ Width' = Width
  BY <1>1, BytesSame DEF CodeInv
<1>11. S \subseteq done /\ \A x \in S : x \in Nat
  <2>1. S \subseteq done /\ \A x \in done : x \in Nat
    BY <1>0, <1>4, ActiveFacts DEF CodeType
  <2> QED BY <2>1
<1>12. Chain(h)
  BY <1>0, <1>3, ActiveFacts DEF CodeInv, ChainInv
<1>13. ASSUME Oldest(h, done) PROVE RanAll(r, S)
  <2>1. SUFFICES ASSUME NEW x \in S PROVE Ran(r, x)
    BY DEF RanAll
  <2>2. CASE x <= h
    <3>1. x >= h /\ x \in Nat
      BY <1>11, <1>13 DEF Oldest
    <3>2. x = h
      BY <1>2, <2>2, <3>1
    <3> QED BY <1>6, <3>2
  <2>3. CASE Ran(q, x)
    BY <1>6, <2>3
  <2> QED BY <1>5, <2>2, <2>3
<1>14. CASE Dropped(h)
  <2>1. RanAll(r, S) /\ old_proc[h] = 2 /\ Off(shape)[2] = 2 /\ Width = 2 /\ shape.code[1].k = "mov"
    BY <1>13, <1>14 DEF Dropped, Src
  <2>2. PICK i \in 2 .. Len(shape.code) + 1 : i = 2
    BY <1>0, Shape
  <2>3. Executed(shape, 2, i) = << >>
    BY <2>2, ExecutedNone
  <2>4. ip'[c] = Off(shape')[i] /\ Off(shape')[i] >= Width' /\ i \in 2 .. Len(shape'.code) + 1
    BY <1>1, <1>7, <1>10, <2>1, <2>2
  <2>5. shape'.code[1].k = "mov" /\ trace'[c] = Executed(shape', 2, i) /\ RanAll(seen'[c], must'[c])
    BY <1>1, <1>7, <2>1, <2>3
  <2>6. AtBody(c)'
    BY <2>4, <2>5 DEF AtBody
  <2>7. Place(c)'
    BY <2>6 DEF Place
  <2> QED BY <1>1, <1>6, <1>7, <1>8, <1>9, <2>7, CpuStep
<1>15. CASE Displaced(h)
  <2>1. RanAll(r, S) /\ old_proc[h] = Buf(h)
    BY <1>13, <1>15 DEF Displaced
  <2>2. PICK k \in 1 .. Len(shape.code) : MovedTo(shape, mem, h, k) /\ Off(shape)[k + 1] >= Width
    BY <1>15 DEF Displaced
  <2>3. PICK i \in 1 .. k + 1 : i = 1
    BY <1>0, Shape
  <2>4. Executed(shape, 1, i) = << >>
    BY <2>3, ExecutedNone
  <2>5. Buf(h) + Off(shape)[i] = Buf(h)
    BY <1>0, <1>2, <2>3, OffDef, Apart
  <2>6. /\ ip'[c] = Buf(h) + Off(shape')[i] /\ MovedTo(shape', mem', h, k) /\ h \in Active'
        /\ Off(shape')[k + 1] >= Width' /\ k \in 1 .. Len(shape'.code)
    BY <1>1, <1>3, <1>7, <1>10, <2>1, <2>2, <2>5
  <2>7. trace'[c] = Executed(shape', 1, i) /\ RanAll(seen'[c], must'[c])
    BY <1>1, <1>7, <2>1, <2>4
  <2>8. AtMoved(c)'
    BY <2>6, <2>7 DEF AtMoved
  <2>9. Place(c)'
    BY <2>8 DEF Place
  <2> QED BY <1>1, <1>6, <1>7, <1>8, <1>9, <2>9, CpuStep
<1>16. CASE Linked(h)
  <2>1. PICK p \in done : /\ Before(p, h, done)
                          /\ \/ old_proc[h] = New(p)
                             \/ old_proc[h] = Buf(h) /\ JumpAt(mem, Buf(h), New(p))
    BY <1>16 DEF Linked
  <2>2. p < h /\ p \in Nat /\ \A g \in done : g < h => g <= p
    BY <1>0, <2>1, ActiveFacts DEF Before
  <2>3. ASSUME NEW j \in 1 .. Len(r) PROVE r[j] > p
    <3>1. r[j] >= h /\ r[j] \in Nat
      BY <1>6
    <3> QED BY <1>2, <2>2, <3>1
  <2>4. ASSUME NEW x \in S PROVE x <= p \/ Ran(r, x)
    <3>1. CASE Ran(q, x)
      BY <1>6, <3>1
    <3>2. CASE x = h
      BY <1>6, <3>2
    <3>3. CASE x <= h /\ x # h
      <4>1. x \in done /\ x < h
        BY <1>2, <1>11, <3>3
      <4> QED BY <2>2, <4>1
    <3> QED BY <1>5, <3>1, <3>2, <3>3
  <2>5. Owed(seen'[c], must'[c], p)
    BY <1>7, <2>3, <2>4 DEF Owed
  <2>6. ASSUME old_proc[h] = New(p) PROVE Place(c)'
    <3>1. p \in Active' /\ ip'[c] = New(p) /\ trace'[c] = << >>
      BY <1>0, <1>7, <1>10, <2>1, <2>6, ActiveFacts
    <3>2. AtNew(c)'
      BY <2>5, <3>1 DEF AtNew
    <3> QED BY <3>2 DEF Place
  <2>7. ASSUME old_proc[h] = Buf(h), JumpAt(mem, Buf(h), New(p)) PROVE Place(c)'
    <3>1. /\ h \in Active' /\ p \in done' /\ ip'[c] = Buf(h) /\ trace'[c] = << >>
          /\ JumpAt(mem', Buf(h), New(p))
      BY <1>1, <1>3, <1>7, <1>10, <2>1, <2>7
    <3>2. AtLink(c)'
      BY <2>5, <3>1 DEF AtLink
    <3> QED BY <3>2 DEF Place
  <2>8. Place(c)'
    BY <2>1, <2>6, <2>7
  <2> QED BY <1>1, <1>6, <1>7, <1>8, <1>9, <2>8, CpuStep
<1> QED BY <1>12, <1>14, <1>15, <1>16 DEF Chain

\* An instruction that is executed leads processor c to address a.
Goes(c, a) == /\ ip' = [ip EXCEPT ![c] = a] /\ UNCHANGED <<shape, mem, done, old_proc, seen, must>>
              /\ UNCHANGED <<code, pc, cur>>

LEMMA ExecuteIs ==
  ASSUME NEW c \in Cpus, Execute(c), NEW a, a = ip[c]
  PROVE  /\ Whole(mem, a)
         /\ mem[a][1] \in {"jmp", "short"} => Goes(c, Target(mem, a)) /\ trace' = trace
         /\ \A i, to : Executes(mem, a, i, to) =>
              /\ Goes(c, to) /\ trace' = [trace EXCEPT ![c] = Append(@, Expect(shape, i))]
BY DEF Execute, Executes, Goes, Quiet, code

LEMMA GoesTo ==
  ASSUME CodeInv, NEW c \in Cpus, NEW a, Goes(c, a), DOMAIN trace' = Cpus,
         \A e \in Cpus \ {c} : trace'[e] = trace[e], Place(c)'
  PROVE  CodeInv'
<1>0. CodeType
  BY DEF CodeInv
<1>1. Elsewhere(c)
  BY <1>0 DEF Goes, Elsewhere, CodeType
<1>2. CodeType'
  BY <1>0 DEF Goes, CodeType
<1>3. Descending(seen'[c])
  BY DEF Goes, CodeInv, PlaceInv
<1> QED BY <1>1, <1>2, <1>3, CpuStep DEF Goes

\* A jump keeps what has been executed; another instruction adds to it.
LEMMA JumpGoes ==
  ASSUME CodeInv, NEW c \in Cpus, Execute(c), NEW a, a = ip[c], mem[a][1] \in {"jmp", "short"},
         Place(c)'
  PROVE  CodeInv'
<1>1. PICK t : t = Target(mem, a)
  OBVIOUS
<1>2. Goes(c, t) /\ trace' = trace
  BY <1>1, ExecuteIs
<1>3. DOMAIN trace' = Cpus /\ \A e \in Cpus \ {c} : trace'[e] = trace[e]
  BY <1>2 DEF CodeInv, CodeType
<1> QED BY <1>2, <1>3, GoesTo

LEMMA InstrGoes ==
  ASSUME CodeInv, NEW c \in Cpus, Execute(c), NEW a, a = ip[c], NEW i, NEW to,
         Executes(mem, a, i, to), Place(c)'
  PROVE  CodeInv'
<1>1. Goes(c, to) /\ trace' = [trace EXCEPT ![c] = Append(@, Expect(shape, i))]
  BY ExecuteIs
<1>2. DOMAIN trace' = Cpus /\ \A e \in Cpus \ {c} : trace'[e] = trace[e]
  BY <1>1 DEF CodeInv, CodeType
<1> QED BY <1>1, <1>2, GoesTo

LEMMA GoesSame ==
  ASSUME CodeInv, NEW c \in Cpus, NEW a, Goes(c, a)
  PROVE  /\ ip'[c] = a /\ shape' = shape /\ mem' = mem /\ done' = done /\ seen'[c] = seen[c]
         /\ must'[c] = must[c] /\ Active' = Active /\ First' = First /\ Width' = Width
<1>1. Active' = Active /\ First' = First /\ Width' = Width
  BY BytesSame DEF CodeInv, Goes
<1> QED BY <1>1 DEF Goes, CodeInv, CodeType

\* The jump at the beginning leads to the newest hook.
LEMMA ToNewest ==
  ASSUME CodeInv, NEW c \in Cpus, NEW t \in Active, \A h \in Active : h <= t, Goes(c, New(t)),
         trace' = trace, trace[c] = << >>, seen[c] = << >>
  PROVE  Place(c)'
<1>1. /\ ip'[c] = New(t) /\ seen'[c] = << >> /\ must'[c] = must[c] /\ Active' = Active
  BY GoesSame
<1>2. must[c] \subseteq Active
  BY ActiveFacts DEF CodeInv, CodeType
<1>3. Owed(seen'[c], must'[c], t)
  BY <1>1, <1>2 DEF Owed
<1>4. AtNew(c)'
  BY <1>1, <1>3 DEF AtNew
<1> QED BY <1>4 DEF Place

LEMMA FromStart ==
  ASSUME CodeInv, pc # "splice_rel", NEW c \in Cpus, AtStart(c), Execute(c)
  PROVE  CodeInv'
<1>0. CodeType /\ BytesInv /\ shape \in Shapes
  BY DEF CodeInv, CodeType
<1>1. ip[c] = Src /\ trace[c] = << >> /\ seen[c] = << >>
  BY DEF AtStart
<1>2. PICK a \in Int : a = Src /\ a = ip[c] /\ a = 0
  BY <1>1 DEF Src
<1>3. CASE Active = {}
  <2>1. Intact(0) /\ First \notin {"short", "jmp"}
    BY <1>0, <1>3, FirstFacts DEF BytesInv, FreshInv
  <2>2. PICK z \in Nat, i \in 1 .. Len(shape.code) : z = 0 /\ i = 1
    BY <1>0, Shape
  <2>3. Off(shape)[i] = a /\ Off(shape)[i] >= z
    BY <1>0, <1>2, <2>2, OffDef
  <2>4. Executes(mem, Off(shape)[i], i, Off(shape)[i + 1])
    BY <1>0, <2>1, <2>2, <2>3, InPlace
  <2>5. PICK to : to = Off(shape)[i + 1]
    OBVIOUS
  <2>6. Executes(mem, a, i, to)
    BY <2>3, <2>4, <2>5
  <2>7. Goes(c, to) /\ trace' = [trace EXCEPT ![c] = Append(@, Expect(shape, i))]
    BY <1>2, <2>6, ExecuteIs
  <2>8. /\ ip'[c] = to /\ shape' = shape /\ seen'[c] = seen[c] /\ must'[c] = must[c]
        /\ First' = First /\ Width' = Width
    BY <2>7, GoesSame
  <2>9. trace'[c] = Executed(shape, 1, 2)
    <3>1. trace'[c] = Append(trace[c], Expect(shape, i))
      BY <1>0, <2>7 DEF CodeType
    <3>2. PICK o \in Nat : o = 1 /\ o <= o /\ o + 1 = 2
      OBVIOUS
    <3>3. Append(Executed(shape, o, o), Expect(shape, o)) = Executed(shape, o, o + 1)
      BY <3>2, ExecutedNext
    <3>4. Executed(shape, o, o) = << >>
      BY ExecutedNone
    <3> QED BY <1>1, <2>2, <3>1, <3>2, <3>3, <3>4
  <2>10. RanAll(seen'[c], must'[c])
    <3>1. must[c] = {}
      BY <1>0, <1>3, ActiveFacts DEF CodeType
    <3> QED BY <2>8, <3>1 DEF RanAll
  <2>11. PICK j \in 2 .. Len(shape.code) + 1 : j = 2 /\ j = i + 1
    BY <1>0, <2>2, Shape
  <2>12. AtBody(c)'
    <3>1. ip'[c] = Off(shape')[j] /\ j \in 2 .. Len(shape'.code) + 1
      BY <2>5, <2>8, <2>11
    <3>2. First' \notin {"short", "jmp"} /\ trace'[c] = Executed(shape', 1, j)
      BY <2>1, <2>8, <2>9, <2>11
    <3> QED BY <2>10, <3>1, <3>2 DEF AtBody
  <2>13. Place(c)'
    BY <2>12 DEF Place
  <2> QED BY <1>2, <2>6, <2>13, InstrGoes
<1>4. CASE Active # {}
  <2>1. PICK t \in Active : (\A h \in Active : h <= t) /\ Jumped(t)
    BY <1>0, <1>4 DEF BytesInv, TopInv
  <2>2. First \in {"short", "jmp"} /\ t \in Nat \ {0}
    BY <1>0, <1>4, FirstFacts, ActiveFacts
  <2>3. mem[a][1] \in {"short", "jmp"}
    BY <1>2, <2>2 DEF First
  <2>4. CASE First = "short"
    <3>1. Target(mem, a) = Src - 5
      BY <1>0, <1>2, <2>1, <2>4, FirstFacts, ShortDecode
    <3>2. Goes(c, Src - 5) /\ trace' = trace
      BY <1>2, <2>3, <3>1, ExecuteIs
    <3>3. ip'[c] = Src - 5 /\ seen'[c] = seen[c] /\ First' = First
      BY <3>2, GoesSame
    <3>4. AtPad(c)'
      BY <1>1, <2>4, <3>2, <3>3 DEF AtPad
    <3>5. Place(c)'
      BY <3>4 DEF Place
    <3> QED BY <1>2, <2>3, <3>5, JumpGoes
  <2>5. CASE First = "jmp"
    <3>1. PICK to \in Int : to = New(t)
      BY <2>2, Apart
    <3>2. JumpAt(mem, a, to)
      BY <1>0, <1>2, <2>1, <2>5, <3>1, FirstFacts
    <3>3. Target(mem, a) = to
      BY <3>2, JumpDecode
    <3>4. Goes(c, New(t)) /\ trace' = trace
      BY <1>2, <2>3, <3>1, <3>3, ExecuteIs
    <3>5. Place(c)'
      BY <1>1, <2>1, <3>4, ToNewest
    <3> QED BY <1>2, <2>3, <3>5, JumpGoes
  <2> QED BY <2>2, <2>4, <2>5
<1> QED BY <1>3, <1>4

LEMMA FromPad ==
  ASSUME CodeInv, NEW c \in Cpus, AtPad(c), Execute(c)
  PROVE  CodeInv'
<1>0. CodeType /\ BytesInv
  BY DEF CodeInv
<1>1. ip[c] = Src - 5 /\ First = "short" /\ trace[c] = << >> /\ seen[c] = << >>
  BY DEF AtPad
<1>2. Active # {}
  BY <1>0, <1>1, FirstFacts
<1>3. PICK t \in Active : (\A h \in Active : h <= t) /\ Jumped(t)
  BY <1>0, <1>2 DEF BytesInv, TopInv
<1>4. PICK a \in Int, to \in Int : a = Src - 5 /\ a = ip[c] /\ to = New(t)
  <2>1. t \in Nat \ {0}
    BY <1>0, ActiveFacts
  <2> QED BY <1>1, <2>1, Apart DEF Src
<1>5. JumpAt(mem, a, to)
  BY <1>0, <1>1, <1>3, <1>4, FirstFacts
<1>6. Target(mem, a) = to /\ mem[a][1] = "jmp"
  BY <1>5, JumpDecode
<1>7. Goes(c, New(t)) /\ trace' = trace
  BY <1>4, <1>6, ExecuteIs
<1>8. Place(c)'
  BY <1>1, <1>3, <1>7, ToNewest
<1> QED BY <1>4, <1>6, <1>8, JumpGoes

LEMMA FromLink ==
  ASSUME CodeInv, NEW c \in Cpus, AtLink(c), Execute(c)
  PROVE  CodeInv'
<1>0. CodeType
  BY DEF CodeInv
<1>1. PICK h \in Active, p \in done :
        /\ ip[c] = Buf(h) /\ JumpAt(mem, Buf(h), New(p))
        /\ trace[c] = << >> /\ Owed(seen[c], must[c], p)
  BY DEF AtLink
<1>2. h \in Nat \ {0} /\ p \in Nat \ {0} /\ p \in Active
  BY <1>0, ActiveFacts
<1>3. PICK a \in Int, to \in Int : a = Buf(h) /\ a = ip[c] /\ to = New(p)
  BY <1>1, <1>2, Apart
<1>4. JumpAt(mem, a, to)
  BY <1>1, <1>3
<1>5. Target(mem, a) = to /\ mem[a][1] = "jmp"
  BY <1>4, JumpDecode
<1>6. Goes(c, to) /\ trace' = trace
  BY <1>3, <1>5, ExecuteIs
<1>7. ip'[c] = to /\ seen'[c] = seen[c] /\ must'[c] = must[c] /\ Active' = Active
  BY <1>6, GoesSame
<1>8. AtNew(c)'
  <2>1. p \in Active' /\ ip'[c] = New(p) /\ trace'[c] = << >> /\ Owed(seen'[c], must'[c], p)
    BY <1>1, <1>2, <1>3, <1>6, <1>7
  <2> QED BY <2>1 DEF AtNew
<1>9. Place(c)'
  BY <1>8 DEF Place
<1> QED BY <1>3, <1>5, <1>9, JumpGoes

LEMMA FromMoved ==
  ASSUME CodeInv, NEW c \in Cpus, AtMoved(c), Execute(c)
  PROVE  CodeInv'
<1>0. CodeType /\ shape \in Shapes
  BY DEF CodeInv, CodeType
<1>1. PICK h \in Active, k \in 1 .. Len(shape.code) : \E i \in 1 .. k + 1 :
        /\ ip[c] = Buf(h) + Off(shape)[i]
        /\ MovedTo(shape, mem, h, k) /\ Off(shape)[k + 1] >= Width
        /\ trace[c] = Executed(shape, 1, i) /\ RanAll(seen[c], must[c])
  BY DEF AtMoved
<1>2. PICK i \in 1 .. k + 1 :
        /\ ip[c] = Buf(h) + Off(shape)[i]
        /\ MovedTo(shape, mem, h, k) /\ Off(shape)[k + 1] >= Width
        /\ trace[c] = Executed(shape, 1, i) /\ RanAll(seen[c], must[c])
  BY <1>1
<1>3. PICK l \in Nat \ {0} : l = Len(shape.code)
  BY <1>0, Shape
<1>4. i \in 1 .. l + 1 /\ k \in 1 .. l /\ k + 1 \in 1 .. l + 1 /\ i \in Nat
  BY <1>3
<1>5. PICK x \in Nat, y \in Nat : x = Off(shape)[i] /\ y = Off(shape)[k + 1]
  BY <1>0, <1>3, <1>4, OffDef
<1>6. PICK b \in Int : b = Buf(h)
  BY <1>0, ActiveFacts, Apart
<1>7. PICK a \in Int : a = b + x /\ a = ip[c]
  BY <1>2, <1>5, <1>6
<1>8. CASE i <= k
  <2>1. i \in 1 .. k /\ i \in 1 .. Len(shape.code)
    BY <1>3, <1>4, <1>8
  <2>2. InstrAt(shape, mem, Buf(h) + Off(shape)[i], i, Buf(h)) /\ shape.code[i].k # "rel8"
    BY <1>2, <2>1 DEF MovedTo
  <2>3. InstrAt(shape, mem, a, i, b) /\ a = b + Off(shape)[i]
    BY <1>5, <1>6, <1>7, <2>2
  <2>4. Executes(mem, a, i, b + Off(shape)[i + 1])
    BY <1>0, <2>1, <2>2, <2>3, InstrDecode
  <2>5. PICK to, j : to = b + Off(shape)[i + 1] /\ j = i + 1
    OBVIOUS
  <2>6. Executes(mem, a, i, to)
    BY <2>4, <2>5
  <2>7. Goes(c, to) /\ trace' = [trace EXCEPT ![c] = Append(@, Expect(shape, i))]
    BY <1>7, <2>6, ExecuteIs
  <2>8. /\ ip'[c] = to /\ shape' = shape /\ mem' = mem /\ seen'[c] = seen[c] /\ must'[c] = must[c]
        /\ Active' = Active /\ Width' = Width
    BY <2>7, GoesSame
  <2>9. trace'[c] = Executed(shape, 1, j)
    <3>1. trace'[c] = Append(trace[c], Expect(shape, i))
      BY <1>0, <2>7 DEF CodeType
    <3>2. PICK o \in Nat : o = 1 /\ o <= i
      BY <1>4
    <3>3. Append(Executed(shape, o, i), Expect(shape, i)) = Executed(shape, o, i + 1)
      BY <1>4, <3>2, ExecutedNext
    <3> QED BY <1>2, <2>5, <3>1, <3>2, <3>3
  <2>10. j \in 1 .. k + 1
    BY <1>4, <1>8, <2>5
  <2>11. AtMoved(c)'
    <3>1. h \in Active' /\ k \in 1 .. Len(shape'.code) /\ ip'[c] = Buf(h) + Off(shape')[j]
      BY <1>6, <2>5, <2>8
    <3>2. /\ MovedTo(shape', mem', h, k) /\ Off(shape')[k + 1] >= Width'
          /\ trace'[c] = Executed(shape', 1, j) /\ RanAll(seen'[c], must'[c])
      BY <1>2, <2>8, <2>9
    <3> QED BY <2>10, <3>1, <3>2 DEF AtMoved
  <2>12. Place(c)'
    BY <2>11 DEF Place
  <2> QED BY <1>7, <2>6, <2>12, InstrGoes
<1>9. CASE ~(i <= k)
  <2>1. i = k + 1 /\ x = y
    <3>1. i = k + 1
      BY <1>4, <1>9
    <3> QED BY <1>5, <3>1
  <2>2. PICK to \in Int : to = y /\ to = Src + y
    BY DEF Src
  <2>3. JumpAt(mem, a, to)
    <3>1. JumpAt(mem, Buf(h) + Off(shape)[k + 1], Src + Off(shape)[k + 1])
      BY <1>2 DEF MovedTo
    <3> QED BY <1>5, <1>6, <1>7, <2>1, <2>2, <3>1
  <2>4. Target(mem, a) = to /\ mem[a][1] = "jmp"
    BY <2>3, JumpDecode
  <2>5. Goes(c, to) /\ trace' = trace
    BY <1>7, <2>4, ExecuteIs
  <2>6. ip'[c] = to /\ shape' = shape /\ seen'[c] = seen[c] /\ must'[c] = must[c] /\ Width' = Width
    BY <2>5, GoesSame
  <2>7. i \in 2 .. Len(shape'.code) + 1
    BY <1>3, <1>4, <2>1, <2>6
  <2>8. AtBody(c)'
    <3>1. ip'[c] = Off(shape')[i] /\ Off(shape')[i] >= Width'
      BY <1>2, <1>5, <2>1, <2>2, <2>6
    <3>2. trace'[c] = Executed(shape', 1, i) /\ RanAll(seen'[c], must'[c])
      BY <1>2, <2>5, <2>6
    <3> QED BY <2>7, <3>1, <3>2 DEF AtBody
  <2>9. Place(c)'
    BY <2>8 DEF Place
  <2> QED BY <1>7, <2>4, <2>9, JumpGoes
<1> QED BY <1>8, <1>9

LEMMA InBody ==
  ASSUME CodeInv, pc # "splice_rel", NEW i \in 1 .. Len(shape.code),
         Off(shape)[i] >= Width \/ First \notin {"short", "jmp"}
  PROVE  Executes(mem, Off(shape)[i], i, Off(shape)[i + 1])
<1>0. CodeType /\ BytesInv /\ shape \in Shapes
  BY DEF CodeInv, CodeType
<1>1. CASE Off(shape)[i] >= Width
  <2>1. PICK f \in Nat : f = Width
    BY WidthIs
  <2>2. Intact(f) /\ Off(shape)[i] >= f
    BY <1>0, <1>1, <2>1 DEF BytesInv
  <2> QED BY <1>0, <2>2, InPlace
<1>2. CASE First \notin {"short", "jmp"}
  <2>1. Active = {}
    BY <1>0, <1>2, FirstFacts
  <2>2. PICK f \in Nat : f = 0
    OBVIOUS
  <2>3. Intact(f)
    BY <1>0, <2>1, <2>2 DEF BytesInv, FreshInv
  <2>4. PICK x \in Nat : x = Off(shape)[i]
    <3>1. i \in 1 .. Len(shape.code) + 1
      BY <1>0, Shape
    <3> QED BY <1>0, <3>1, OffDef
  <2>5. Off(shape)[i] >= f
    BY <2>2, <2>4
  <2> QED BY <1>0, <2>3, <2>5, InPlace
<1> QED BY <1>1, <1>2

LEMMA FromBody ==
  ASSUME CodeInv, pc # "splice_rel", NEW c \in Cpus, AtBody(c), Execute(c)
  PROVE  CodeInv'
<1>0. CodeType /\ shape \in Shapes
  BY DEF CodeInv, CodeType
<1>1. PICK i \in 2 .. Len(shape.code) + 1 :
        /\ ip[c] = Off(shape)[i]
        /\ Off(shape)[i] >= Width \/ First \notin {"short", "jmp"}
        /\ \/ trace[c] = Executed(shape, 1, i)
           \/ shape.code[1].k = "mov" /\ trace[c] = Executed(shape, 2, i)
        /\ RanAll(seen[c], must[c])
  BY DEF AtBody
<1>2. PICK l \in Nat \ {0} : l = Len(shape.code)
  BY <1>0, Shape
<1>3. i \in 1 .. l + 1 /\ i \in Nat /\ i >= 2
  BY <1>2
<1>4. PICK a \in Nat : a = Off(shape)[i] /\ a = ip[c]
  BY <1>0, <1>1, <1>2, <1>3, OffDef
<1>5. i \in 1 .. l
  <2>1. SUFFICES ASSUME i = l + 1 PROVE FALSE
    BY <1>2, <1>3
  <2>2. a \notin DOMAIN mem
    BY <1>0, <1>2, <1>4, <2>1, EndFacts, DomainFacts
  <2>3. Whole(mem, a)
    BY <1>4, ExecuteIs
  <2> QED BY <2>2, <2>3 DEF Whole
<1>6. Executes(mem, Off(shape)[i], i, Off(shape)[i + 1])
  BY <1>1, <1>2, <1>5, InBody
<1>17. PICK j \in 2 .. Len(shape.code) + 1 : j = i + 1
  <2>1. i + 1 \in 2 .. l + 1
    BY <1>2, <1>5
  <2> QED BY <1>2, <2>1
<1>7. PICK to : to = Off(shape)[i + 1] /\ j = i + 1
  BY <1>17
<1>8. Executes(mem, a, i, to)
  BY <1>4, <1>6, <1>7
<1>9. Goes(c, to) /\ trace' = [trace EXCEPT ![c] = Append(@, Expect(shape, i))]
  BY <1>4, <1>8, ExecuteIs
<1>10. /\ ip'[c] = to /\ shape' = shape /\ seen'[c] = seen[c] /\ must'[c] = must[c]
       /\ First' = First /\ Width' = Width
  BY <1>9, GoesSame
<1>11. trace'[c] = Append(trace[c], Expect(shape, i))
  BY <1>0, <1>9 DEF CodeType
<1>12. ASSUME NEW f \in Nat, f <= 2, trace[c] = Executed(shape, f, i)
       PROVE  trace'[c] = Executed(shape', f, j)
  <2>1. f <= i
    BY <1>3, <1>12
  <2>2. Append(Executed(shape, f, i), Expect(shape, i)) = Executed(shape, f, i + 1)
    BY <1>3, <2>1, ExecutedNext
  <2> QED BY <1>7, <1>10, <1>11, <1>12, <2>2
<1>13. \/ trace'[c] = Executed(shape', 1, j)
       \/ shape'.code[1].k = "mov" /\ trace'[c] = Executed(shape', 2, j)
  <2>1. PICK o \in Nat, w \in Nat : o = 1 /\ w = 2 /\ o <= 2 /\ w <= 2
    OBVIOUS
  <2>2. CASE trace[c] = Executed(shape, 1, i)
    BY <1>12, <2>1, <2>2
  <2>3. CASE shape.code[1].k = "mov" /\ trace[c] = Executed(shape, 2, i)
    BY <1>10, <1>12, <2>1, <2>3
  <2> QED BY <1>1, <2>2, <2>3
<1>14. Off(shape)[j] >= Width \/ First \notin {"short", "jmp"}
  <2>1. SUFFICES ASSUME Off(shape)[i] >= Width PROVE Off(shape)[j] >= Width
    BY <1>1
  <2>2. PICK n \in 1 .. 15, g \in Nat : n = shape.code[i].n /\ g = Width
    BY <1>0, <1>2, <1>5, Shape, WidthIs
  <2>3. Off(shape)[j] = a + n
    BY <1>0, <1>2, <1>4, <1>5, <1>7, <2>2, OffDef
  <2>4. a >= g
    BY <1>4, <2>1, <2>2
  <2>5. a + n >= g
    BY <2>4
  <2> QED BY <2>2, <2>3, <2>5
<1>15. AtBody(c)'
  <2>1. /\ ip'[c] = Off(shape')[j] /\ j \in 2 .. Len(shape'.code) + 1
        /\ Off(shape')[j] >= Width' \/ First' \notin {"short", "jmp"}
        /\ RanAll(seen'[c], must'[c])
    BY <1>1, <1>7, <1>10, <1>14
  <2> QED BY <1>13, <2>1 DEF AtBody
<1>16. Place(c)'
  BY <1>15 DEF Place
<1> QED BY <1>4, <1>8, <1>16, InstrGoes

LEMMA Executions ==
  ASSUME CodeInv, pc # "splice_rel", NEW c \in Cpus, Execute(c)
  PROVE  CodeInv'
<1>0. CodeType /\ BytesInv /\ Place(c)
  BY DEF CodeInv, PlaceInv
<1>1. PICK a : a = ip[c]
  OBVIOUS
<1>2. Whole(mem, a) /\ a \in DOMAIN mem /\ size_of_code(mem, a) > 0
  BY <1>1, ExecuteIs DEF Whole
<1>3. a # Nowhere
  BY <1>0, <1>2, DomainFacts
<1>4. ~ AtNew(c)
  <2>1. \A h \in Active : h \in Nat \ {0}
    BY <1>0, ActiveFacts
  <2> QED BY <1>0, <1>1, <1>2, <2>1, DomainFacts DEF AtNew
<1>5. ~ Stranded(c)
  <2>1. SUFFICES ASSUME a \in Src + 1 .. Src + 4, First = "jmp" PROVE FALSE
    BY <1>1 DEF Stranded
  <2>2. Active # {}
    BY <1>0, <2>1, FirstFacts
  <2>3. PICK t \in Active : Jumped(t)
    BY <1>0, <2>2 DEF BytesInv, TopInv
  <2>4. PICK s \in Int, to \in Int : s = Src /\ to = New(t)
    <3>1. t \in Nat \ {0}
      BY <1>0, ActiveFacts
    <3> QED BY <3>1, Apart DEF Src
  <2>5. JumpAt(mem, s, to)
    BY <1>0, <2>1, <2>3, <2>4, FirstFacts
  <2>6. mem[a] = <<"rel", to - s - 5, a - s>>
    BY <2>1, <2>4, <2>5, JumpDecode
  <2>7. mem[a][1] = "rel"
    BY <2>6
  <2>8. size_of_code(mem, a) = 0
    BY <2>7 DEF size_of_code
  <2> QED BY <1>2, <2>8
<1>6. AtStart(c) \/ AtPad(c) \/ AtLink(c) \/ AtMoved(c) \/ AtBody(c)
  BY <1>0, <1>1, <1>3, <1>4, <1>5 DEF Place
<1> QED BY <1>6, FromStart, FromPad, FromLink, FromMoved, FromBody

-----------------------------------------------------------------------------
\* The theorems.

LEMMA InitInv ==
  ASSUME Init
  PROVE  CodeInv
<1>0. /\ shape \in Shapes /\ mem = Memory(shape) /\ pc = "idle" /\ cur = 0 /\ done = {}
      /\ DOMAIN old_proc = 1 .. MaxHooks
  BY DEF Init
<1>1. Active = {} /\ Ready = {}
  BY <1>0 DEF Active, Ready
<1>2. PICK e \in Nat \ {0} : e = End /\ e = Off(shape)[Len(shape.code) + 1]
  BY <1>0, EndFacts
<1>3. DOMAIN mem = Addresses(shape)
  BY <1>0 DEF Memory, Addresses, Buffer, Src
<1>4. CodeType
  <2>1. seen \in [Cpus -> Seq(Nat)] /\ << >> \in Seq(Nat)
    BY DEF Init
  <2>2. cur \in 0 .. MaxHooks /\ done \subseteq 1 .. cur
    BY <1>0, CodeHookAssumption
  <2>3. DOMAIN ip = Cpus /\ DOMAIN trace = Cpus /\ DOMAIN must = Cpus /\ \A c \in Cpus : must[c] = {}
    BY DEF Init
  <2> QED BY <1>0, <1>3, <2>1, <2>2, <2>3 DEF CodeType
<1>5. \A a \in Src - 5 .. e - 1 : a \in DOMAIN mem
  BY <1>2, <1>4, DomainFacts
<1>6. ASSUME NEW a \in Src .. e - 1 PROVE mem[a] = Original(shape, a)
  <2>1. a \in Src - 5 .. e - 1 /\ ~(a < Src - 5) /\ a \notin Src - 5 .. Src - 1
    BY DEF Src
  <2>2. a \in DOMAIN Memory(shape) /\ mem[a] = Memory(shape)[a]
    BY <1>0, <1>5, <2>1
  <2> QED BY <2>1, <2>2 DEF Memory
<1>7. \A f \in Nat : Intact(f)
  BY <1>2, <1>6 DEF Intact
<1>8. ASSUME NEW a \in Src - 5 .. Src - 1, mem[a][1] = "pad" PROVE shape.pad
  <2>1. a \in Src - 5 .. e - 1 /\ ~(a < Src - 5)
    BY DEF Src
  <2>2. a \in DOMAIN Memory(shape) /\ mem[a] = Memory(shape)[a]
    BY <1>0, <1>5, <2>1
  <2>3. mem[a] = <<IF shape.pad THEN "pad" ELSE "body", 0, 0>>
    BY <2>1, <2>2 DEF Memory
  <2> QED BY <1>8, <2>3
<1>9. BytesInv
  <2>1. Intact(Width) /\ Intact(0)
    BY <1>7, WidthIs
  <2>2. PadInv
    BY <1>8 DEF PadInv
  <2>3. FreshInv /\ TopInv
    BY <1>1, <2>1 DEF FreshInv, TopInv
  <2>4. StepInv
    BY <1>0 DEF StepInv, HotPcs, SplicePcs
  <2> QED BY <2>1, <2>2, <2>3, <2>4 DEF BytesInv
<1>10. ChainInv
  BY <1>1 DEF ChainInv
<1>11. PlaceInv
  <2>1. \A c \in Cpus : ip[c] = Nowhere /\ seen[c] = << >>
    BY DEF Init
  <2>2. Descending(<< >>)
    BY DEF Descending
  <2> QED BY <2>1, <2>2 DEF PlaceInv, Place
<1> QED BY <1>4, <1>9, <1>10, <1>11 DEF CodeInv

\* A processor at the end of the function has come there through it.
LEMMA AtEnd ==
  ASSUME CodeInv, NEW c \in Cpus, ip[c] = End
  PROVE  /\ \/ trace[c] = Executed(shape, 1, Len(shape.code) + 1)
            \/ shape.code[1].k = "mov" /\ trace[c] = Executed(shape, 2, Len(shape.code) + 1)
         /\ RanAll(seen[c], must[c])
<1>0. CodeType /\ BytesInv /\ shape \in Shapes /\ Place(c)
  BY DEF CodeInv, CodeType, PlaceInv
<1>1. PICK e \in Nat \ {0} : e = End /\ e = Off(shape)[Len(shape.code) + 1]
  BY <1>0, EndFacts
<1>2. ip[c] # Nowhere /\ ~ AtStart(c) /\ ~ AtPad(c)
  BY <1>1 DEF Nowhere, AtStart, AtPad, Src
<1>3. ~ Stranded(c)
  <2>1. First = "jmp" => e >= 5
    BY <1>0, <1>1, FirstFacts
  <2> QED BY <1>1, <2>1 DEF Stranded, Src
<1>4. \A h \in Active : h \in Nat \ {0} /\ New(h) < 0 /\ \A x \in Buffer(h) : x < 0
  <2>1. SUFFICES ASSUME NEW h \in Active PROVE h \in Nat \ {0} /\ New(h) < 0 /\ \A x \in Buffer(h) : x < 0
    OBVIOUS
  <2>2. h \in Nat \ {0}
    BY <1>0, ActiveFacts
  <2>3. New(h) \in Int /\ New(h) < Src - 5 /\ Buffer(h) \subseteq Int /\ \A x \in Buffer(h) : x < Src - 5
    BY <2>2, Apart
  <2> QED BY <2>2, <2>3 DEF Src
<1>5. ~ AtNew(c)
  BY <1>1, <1>4 DEF AtNew
<1>6. ~ AtLink(c)
  <2>1. ASSUME NEW h \in Active PROVE Buf(h) \in Buffer(h)
    <3>1. Buf(h) \in Int
      BY <1>4, Apart
    <3> QED BY <3>1 DEF Buffer, BufSize
  <2>2. \A h \in Active : Buf(h) < 0
    BY <1>4, <2>1
  <2> QED BY <1>1, <2>2 DEF AtLink
<1>7. ~ AtMoved(c)
  <2>1. SUFFICES ASSUME NEW h \in Active, NEW k \in 1 .. Len(shape.code), NEW i \in 1 .. k + 1,
                        ip[c] = Buf(h) + Off(shape)[i], MovedTo(shape, mem, h, k)
                 PROVE  FALSE
    BY DEF AtMoved
  <2>2. Buf(h) + Off(shape)[i] \in Buffer(h)
    BY <1>0, <1>4, <2>1, InMoved
  <2>3. ip[c] < 0
    BY <1>4, <2>1, <2>2
  <2> QED BY <1>1, <2>3
<1>8. AtBody(c)
  BY <1>0, <1>2, <1>3, <1>5, <1>6, <1>7 DEF Place
<1>9. PICK i \in 2 .. Len(shape.code) + 1 :
        /\ ip[c] = Off(shape)[i]
        /\ \/ trace[c] = Executed(shape, 1, i)
           \/ shape.code[1].k = "mov" /\ trace[c] = Executed(shape, 2, i)
        /\ RanAll(seen[c], must[c])
  BY <1>8 DEF AtBody
<1>10. i = Len(shape.code) + 1
  <2>1. PICK l \in Nat \ {0} : l = Len(shape.code)
    BY <1>0, Shape
  <2>2. SUFFICES ASSUME i # l + 1 PROVE FALSE
    BY <2>1
  <2>3. i \in 1 .. l /\ i \in 1 .. l + 1 /\ l + 1 \in 1 .. l + 1 /\ i < l + 1
    BY <2>1, <2>2
  <2>4. PICK n \in 1 .. 15 : n = shape.code[i].n
    BY <1>0, <2>1, <2>3, Shape
  <2>5. Off(shape)[i] + n <= e
    BY <1>0, <1>1, <2>1, <2>3, <2>4, OffOrder
  <2>6. e + n <= e
    BY <1>1, <1>9, <2>5
  <2> QED BY <2>6
<1> QED BY <1>9, <1>10

\* A processor that no DPC holds is at a whole instruction, or between two
\* parts of the call.
LEMMA WholeAt ==
  ASSUME CodeInv, NEW c \in Cpus, pc # "splice_rel", ip[c] # Nowhere
  PROVE  \/ Whole(mem, ip[c]) \/ ip[c] = End
         \/ \E h \in 1 .. MaxHooks : ip[c] = New(h)
         \/ ip[c] \in Src + 1 .. Src + 4 /\ mem[Src][1] = "jmp"
<1>0. CodeType /\ BytesInv /\ shape \in Shapes /\ Place(c)
  BY DEF CodeInv, CodeType, PlaceInv
<1>1. CASE Stranded(c)
  BY <1>1 DEF Stranded, First
<1>2. CASE AtStart(c)
  <2>1. ip[c] = Src
    BY <1>2 DEF AtStart
  <2>2. CASE Active = {}
    <3>1. First \notin {"short", "jmp"}
      BY <1>0, <2>2, FirstFacts
    <3>2. PICK i \in 1 .. Len(shape.code) : i = 1
      BY <1>0, Shape
    <3>3. Executes(mem, Off(shape)[i], i, Off(shape)[i + 1])
      BY <3>1, <3>2, InBody
    <3>4. Off(shape)[i] = Src
      BY <1>0, <3>2, OffDef DEF Src
    <3> QED BY <2>1, <3>3, <3>4 DEF Executes
  <2>3. CASE Active # {}
    <3>1. PICK t \in Active : Jumped(t)
      BY <1>0, <2>3 DEF BytesInv, TopInv
    <3>2. First \in {"short", "jmp"} /\ t \in Nat \ {0}
      BY <1>0, <2>3, FirstFacts, ActiveFacts
    <3>3. CASE First = "short"
      BY <1>0, <2>1, <3>1, <3>3, FirstFacts, ShortDecode
    <3>4. CASE First = "jmp"
      <4>1. PICK a \in Int, to \in Int : a = Src /\ to = New(t)
        BY <3>2, Apart DEF Src
      <4>2. JumpAt(mem, a, to)
        BY <1>0, <3>1, <3>4, <4>1, FirstFacts
      <4> QED BY <2>1, <4>1, <4>2, JumpDecode
    <3> QED BY <3>2, <3>3, <3>4
  <2> QED BY <2>2, <2>3
<1>3. CASE AtPad(c)
  <2>1. ip[c] = Src - 5 /\ First = "short"
    BY <1>3 DEF AtPad
  <2>2. Active # {}
    BY <1>0, <2>1, FirstFacts
  <2>3. PICK t \in Active : Jumped(t)
    BY <1>0, <2>2 DEF BytesInv, TopInv
  <2>4. PICK a \in Int, to \in Int : a = Src - 5 /\ to = New(t)
    BY <1>0, <2>3, ActiveFacts, Apart DEF Src
  <2>5. JumpAt(mem, a, to)
    BY <1>0, <2>1, <2>3, <2>4, FirstFacts
  <2> QED BY <2>1, <2>4, <2>5, JumpDecode
<1>4. CASE AtNew(c)
  BY <1>0, <1>4, ActiveFacts DEF AtNew
<1>5. CASE AtLink(c)
  <2>1. PICK h \in Active, p \in done : ip[c] = Buf(h) /\ JumpAt(mem, Buf(h), New(p))
    BY <1>5 DEF AtLink
  <2>2. h \in Nat \ {0} /\ p \in Nat \ {0}
    BY <1>0, ActiveFacts
  <2>3. PICK a \in Int, to \in Int : a = Buf(h) /\ to = New(p)
    BY <2>2, Apart
  <2>4. JumpAt(mem, a, to)
    BY <2>1, <2>3
  <2> QED BY <2>1, <2>3, <2>4, JumpDecode
<1>6. CASE AtMoved(c)
  <2>1. PICK h \in Active, k \in 1 .. Len(shape.code) : \E i \in 1 .. k + 1 :
          ip[c] = Buf(h) + Off(shape)[i] /\ MovedTo(shape, mem, h, k)
    BY <1>6 DEF AtMoved
  <2>2. PICK i \in 1 .. k + 1 : ip[c] = Buf(h) + Off(shape)[i] /\ MovedTo(shape, mem, h, k)
    BY <2>1
  <2>3. PICK l \in Nat \ {0} : l = Len(shape.code)
    BY <1>0, Shape
  <2>4. i \in 1 .. l + 1 /\ k \in 1 .. l /\ k + 1 \in 1 .. l + 1
    BY <2>3
  <2>5. PICK x \in Nat : x = Off(shape)[i]
    BY <1>0, <2>3, <2>4, OffDef
  <2>6. PICK b \in Int : b = Buf(h)
    BY <1>0, ActiveFacts, Apart
  <2>7. PICK a \in Int : a = b + x /\ a = ip[c]
    BY <2>2, <2>5, <2>6
  <2>8. CASE i <= k
    <3>1. i \in 1 .. k /\ i \in 1 .. Len(shape.code)
      BY <2>3, <2>4, <2>8
    <3>2. InstrAt(shape, mem, Buf(h) + Off(shape)[i], i, Buf(h)) /\ shape.code[i].k # "rel8"
      BY <2>2, <3>1 DEF MovedTo
    <3>3. InstrAt(shape, mem, a, i, b) /\ a = b + Off(shape)[i]
      BY <2>5, <2>6, <2>7, <3>2
    <3>4. Executes(mem, a, i, b + Off(shape)[i + 1])
      BY <1>0, <3>1, <3>2, <3>3, InstrDecode
    <3> QED BY <2>7, <3>4 DEF Executes
  <2>9. CASE ~(i <= k)
    <3>1. i = k + 1
      BY <2>4, <2>9
    <3>2. PICK to \in Int : to = Src + x
      BY DEF Src
    <3>3. JumpAt(mem, Buf(h) + Off(shape)[k + 1], Src + Off(shape)[k + 1])
      BY <2>2 DEF MovedTo
    <3>4. JumpAt(mem, a, to)
      BY <2>5, <2>6, <2>7, <3>1, <3>2, <3>3
    <3> QED BY <2>7, <3>4, JumpDecode
  <2> QED BY <2>8, <2>9
<1>7. CASE AtBody(c)
  <2>1. PICK i \in 2 .. Len(shape.code) + 1 :
          ip[c] = Off(shape)[i] /\ (Off(shape)[i] >= Width \/ First \notin {"short", "jmp"})
    BY <1>7 DEF AtBody
  <2>2. CASE i = Len(shape.code) + 1
    BY <1>0, <2>1, <2>2, EndFacts
  <2>3. CASE i # Len(shape.code) + 1
    <3>1. i \in 1 .. Len(shape.code)
      BY <1>0, <2>3, Shape
    <3>2. Executes(mem, Off(shape)[i], i, Off(shape)[i + 1])
      BY <2>1, <3>1, InBody
    <3> QED BY <2>1, <3>2 DEF Executes
  <2> QED BY <2>2, <2>3
<1> QED BY <1>0, <1>1, <1>2, <1>3, <1>4, <1>5, <1>6, <1>7 DEF Place

LEMMA PatchKeeps ==
  ASSUME CodeInv, set_hook \/ Begin
  PROVE  CodeInv'
<1>1. CASE hot_patch
  <2>1. HotRefused \/ HotCheck \/ HotOp \/ HotRel \/ HotShort \/ DoubleCheck \/ DoublePatch
    BY <1>1 DEF hot_patch
  <2> QED BY <2>1, Refusals, HotCheckStep, HotOpStep, HotRelStep, HotShortStep, DoubleCheckStep,
             DoublePatchStep
<1>2. CASE hook_code
  <2>1. CASE CodeMove
    BY <2>1, MoveFresh, MoveAgain
  <2>2. CASE LockQueue
    BY <2>2, AllSame DEF LockQueue
  <2>3. CodeRefused \/ CodeMove \/ LockInit \/ LockQueue \/ LockWait \/ SpliceOp \/ SpliceRel \/ Unlock \/ UnlockWait
    BY <1>2 DEF hook_code
  <2> QED BY <2>1, <2>2, <2>3, Refusals, LockWaits, SpliceOpStep, SpliceRelStep
<1> QED BY <1>1, <1>2, Returns, Refusals DEF set_hook

\* While the prologue is overwritten no processor executes anything.
LEMMA NotSplicing ==
  ASSUME BarrierInv, NEW c \in Cpus, dpc[c] = "none"
  PROVE  pc # "splice_rel"
BY DEF BarrierInv, HoldInv, Locked

LEMMA ProcessorKeeps ==
  ASSUME BarrierInv, CodeInv, NEW c \in Cpus, Processor(c)
  PROVE  CodeInv'
<1>1. CASE Execute(c)
  <2>1. dpc[c] = "none"
    BY <1>1 DEF Execute
  <2> QED BY <1>1, <2>1, NotSplicing, Executions
<1>2. CASE \E h \in 1 .. MaxHooks : NewProc(c, h)
  BY <1>2, NewProcs
<1> QED BY <1>1, <1>2, Calls, Leaves DEF Processor

LEMMA CodeStep == BarrierInv /\ CodeInv /\ [Next]_vars => CodeInv'
<1> SUFFICES ASSUME BarrierInv, CodeInv, [Next]_vars PROVE CodeInv'
  OBVIOUS
<1>1. CASE set_hook \/ Begin
  BY <1>1, PatchKeeps
<1>2. ASSUME NEW c \in Cpus, global_lock_proc(c) PROVE CodeInv'
  <2>1. UNCHANGED <<code, pc, cur, cpu>>
    BY <1>2 DEF global_lock_proc, DpcEnter, DpcSpin, DpcRefs, DpcOut, barrier
  <2> QED BY <2>1, AllSame
<1>3. ASSUME NEW c \in Cpus, Processor(c) PROVE CodeInv'
  BY <1>3, ProcessorKeeps
<1>4. CASE UNCHANGED vars
  BY <1>4, AllSame DEF vars
<1> QED BY <1>1, <1>2, <1>3, <1>4 DEF Next

LEMMA CodeInvariant == Spec => []CodeInv
<1>1. Init => CodeInv
  BY InitInv
<1> QED BY <1>1, CodeStep, BarrierInvariant, PTL DEF Spec

\* Functions of any length and any number of processors and hooks: a processor
\* that no DPC holds executes whole instructions only, never a half-written
\* jump or an unfilled buffer; but it may be stranded in a prologue that
\* hook_code overwrote while its DPC had interrupted it there.
THEOREM NothingTorn == Spec => []NoTorn
<1>1. BarrierInv /\ CodeInv => NoTorn
  <2> SUFFICES ASSUME BarrierInv, CodeInv, NEW c \in Cpus, dpc[c] = "none", ip[c] # Nowhere
               PROVE  \/ Whole(mem, ip[c]) \/ ip[c] = End
                      \/ \E h \in 1 .. MaxHooks : ip[c] = New(h)
                      \/ ip[c] \in Src + 1 .. Src + 4 /\ mem[Src][1] = "jmp"
    BY DEF NoTorn
  <2> QED BY NotSplicing, WholeAt
<1> QED BY <1>1, BarrierInvariant, CodeInvariant, PTL

\* A call that reaches the end of the function has executed its instructions
\* once, in order and with their targets, however many hooks were set before
\* and during it.
THEOREM CallsTransparent == Spec => []Transparent
<1>1. CodeInv => Transparent
  BY AtEnd DEF Transparent
<1> QED BY <1>1, CodeInvariant, PTL

\* A call runs every hook whose set_hook had returned 1 when it began, and the
\* hooks it runs in the reverse of the order they were set in.
THEOREM HooksAllRun == Spec => []HooksRun
<1>1. CodeInv => HooksRun
  <2> SUFFICES ASSUME CodeInv, NEW c \in Cpus
               PROVE  /\ ip[c] = End => RanAll(seen[c], must[c])
                      /\ Descending(seen[c])
    BY DEF HooksRun, RanAll, Ran, Descending
  <2> QED BY AtEnd DEF CodeInv, PlaceInv
<1> QED BY <1>1, CodeInvariant, PTL
=============================================================================
