------------------------------ MODULE CodeHook ------------------------------
(***************************************************************************)
(* Patching kernel functions while other processors run them               *)
(* (src/kernel/sys/code_hook.c).  set_hook tries hot_patch, which writes a *)
(* jump into the padding before the function and then replaces its first   *)
(* two bytes, and falls back to hook_code, which moves the prologue to a   *)
(* buffer and overwrites it while global_lock holds the other processors   *)
(* in a DPC.                                                               *)
(*                                                                         *)
(* Memory is a map from addresses to bytes, so a jump may be half written; *)
(* a processor executes one instruction or one DPC statement at a time.    *)
(***************************************************************************)
EXTENDS Integers, Sequences, FiniteSets

CONSTANTS
  Cpus,      \* the processors other than the one that runs set_hook
  Shapes,    \* functions: [pad, code], code a sequence of [k, n] (kind, length)
  MaxHooks,  \* bound: how often the function is hooked (the driver: twice)
  MaxCalls   \* bound: calls of the function by one processor

Relative == {"call", "jcc", "jmp"}      \* instructions that end in a rel32
Kinds == {"mov", "op", "call", "jcc", "rel8"}   \* what a function is made of

\* Functions of any length.  Left out are a padded one that begins with a short
\* jump, which hot_patch copies uncorrected, and relative instructions with a
\* prefix: hook_code corrects a rel32 at offset 1, or 2 behind the 0F escape, so
\* the calls and branches are the unprefixed ones, of 5 and 6 bytes.
ASSUME CodeHookAssumption ==
  /\ IsFiniteSet(Cpus) /\ MaxHooks \in Nat /\ MaxCalls \in Nat
  /\ \A s \in Shapes :
       /\ s \in [pad : BOOLEAN, code : Seq([k : Kinds, n : 1 .. 15])]
       /\ Len(s.code) > 0
       /\ \A i \in 1 .. Len(s.code) : /\ s.code[i].k = "call" => s.code[i].n = 5
                                      /\ s.code[i].k = "jcc" => s.code[i].n = 6
       /\ s.pad => s.code[1].k # "rel8"

VARIABLES
  shape,     \* the function that is hooked
  mem,       \* code bytes
  pc, cur,   \* where set_hook stands, and the number of the hook it sets
  done,      \* the hooks whose set_hook has returned 1
  old_proc,  \* the variable *old_proc of each hook
  locked, inp_dpcs, out_dpcs, dpc_refs,
  pool,      \* cpu_dpc: "none", "live" or "freed"
  todo,      \* the loop of global_lock: processors whose DPC is not yet queued
  queued,    \* processors with a queued DPC
  dpc,       \* where a processor stands in global_lock_proc
  ip,        \* instruction pointer of a processor
  calls,     \* calls it has made
  trace,     \* original instructions its call has executed
  seen,      \* hook procedures its call has run
  must       \* hooks that were set when its call began

code    == <<shape, mem, done, old_proc>>
barrier == <<locked, inp_dpcs, out_dpcs, dpc_refs, pool, todo, queued>>
cpu     == <<ip, calls, trace, seen, must>>
vars    == <<code, pc, cur, barrier, dpc, cpu>>

\* Addresses: the function, with the buffers and the new procedures of the
\* hooks below it, and a function it calls; nothing is at Nowhere.  A buffer
\* takes at most 19 bytes of prologue and a jump.
Src == 0
BufSize == 24
Buf(h) == -100 * h
New(h) == -100 * h - 50
Callee == 5000
Nowhere == -50

-----------------------------------------------------------------------------
\* Code as bytes.  A byte is <<kind, instruction, position>>; the four bytes of
\* a displacement d are <<"rel", d, 1>> .. <<"rel", d, 4>>.

Bytes(k, i, n, d) ==
  [j \in 1 .. n |-> IF k \in Relative /\ j > n - 4 THEN <<"rel", d, j - n + 4>>
                                                   ELSE <<k, i, j>>]
Poke(m, a, b) ==
  [x \in DOMAIN m |-> IF x - a + 1 \in 1 .. Len(b) THEN b[x - a + 1] ELSE m[x]]

\* set_jump stores the opcode and then the displacement.
JumpOp == <<<<"jmp", 0, 1>>>>
JumpRel(from, to) == SubSeq(Bytes("jmp", 0, 5, to - from - 5), 2, 5)
Jump(from, to) == JumpOp \o JumpRel(from, to)
ShortJump == Bytes("short", 0, 2, 0)    \* 0xF9EB, to Src - 5

\* The length of the instruction at address a and its displacement.
size_of_code(m, a) ==
  CASE m[a][1] = "jmp" -> 5
    [] m[a][1] = "short" -> 2
    [] m[a][1] \in {"pad", "body", "free", "rel"} -> 0
    [] OTHER -> shape.code[m[a][2]].n
Disp(m, a) == IF m[a][1] \in Relative THEN m[a + size_of_code(m, a) - 4][2] ELSE 0

\* The bytes at a are one whole instruction.
Whole(m, a) ==
  /\ a \in DOMAIN m /\ m[a][3] = 1 /\ size_of_code(m, a) > 0
  /\ LET n == size_of_code(m, a)
         b == Bytes(m[a][1], m[a][2], n, Disp(m, a))
     IN  \A j \in 1 .. n : a + j - 1 \in DOMAIN m /\ m[a + j - 1] = b[j]

\* Where the instruction at a leads if it is relative; a rel8 jumps by 10.
Target(m, a) ==
  CASE m[a][1] \in Relative -> a + size_of_code(m, a) + Disp(m, a)
    [] m[a][1] = "rel8" -> a + 12
    [] m[a][1] = "short" -> a - 5
    [] OTHER -> 0

\* The function as the kernel was built: instruction i at offset Off(s)[i].
Off(s) ==
  LET off[i \in 1 .. Len(s.code) + 1] ==
        IF i = 1 THEN 0 ELSE off[i - 1] + s.code[i - 1].n
  IN  off
End == Src + Off(shape)[Len(shape.code) + 1]
Original(s, a) ==
  LET i == CHOOSE i \in 1 .. Len(s.code) : a \in Off(s)[i] .. Off(s)[i + 1] - 1
  IN  Bytes(s.code[i].k, i, s.code[i].n, Callee - Off(s)[i + 1])[a - Off(s)[i] + 1]
Memory(s) ==
  [a \in (-5 .. Off(s)[Len(s.code) + 1] - 1)
           \cup UNION {Buf(h) .. Buf(h) + BufSize - 1 : h \in 1 .. MaxHooks} |->
     CASE a < Src - 5 -> <<"free", 0, 0>>
       [] a \in Src - 5 .. Src - 1 -> <<IF s.pad THEN "pad" ELSE "body", 0, 0>>
       [] OTHER -> Original(s, a)]

Init ==
  /\ shape \in Shapes /\ mem = Memory(shape)
  /\ pc = "idle" /\ cur = 0 /\ done = {}
  /\ old_proc = [h \in 1 .. MaxHooks |-> Nowhere]
  /\ locked = FALSE /\ inp_dpcs = 0 /\ out_dpcs = 0 /\ dpc_refs = 0
  /\ pool = "none" /\ todo = {} /\ queued = {} /\ dpc = [c \in Cpus |-> "none"]
  /\ ip = [c \in Cpus |-> Nowhere] /\ calls = [c \in Cpus |-> 0]
  /\ trace = [c \in Cpus |-> << >>] /\ seen = [c \in Cpus |-> << >>]
  /\ must = [c \in Cpus |-> {}]

Go(from, to) == pc = from /\ pc' = to
-----------------------------------------------------------------------------
\* Plausible faults of single steps.  Next uses none of them: each stands in
\* for the step it is named after to show that a property notices the fault.

HotOpShortFirst ==                      \* the short jump written first
  /\ Go("hot_op", "hot_rel")
  /\ mem' = Poke(Poke(mem, Src - 5, JumpOp), Src, ShortJump)
  /\ UNCHANGED <<shape, done, old_proc, cur, barrier, dpc, cpu>>

MovedUnrelocated(m, n) ==               \* displacements copied as they are
  [a \in 1 .. n |-> m[Src + a - 1]]

DoubleOldSkipsHook ==                   \* old_proc = &src_addr[2]
  /\ old_proc' = [old_proc EXCEPT ![cur] = Src + 2]
  /\ pc' = "double"
  /\ UNCHANGED <<shape, mem, done, cur, barrier, dpc, cpu>>

LockWaitNot ==                          \* inp_dpcs not awaited
  /\ todo = {} /\ Go("lock_queue", "splice_op")
  /\ UNCHANGED <<code, cur, barrier, dpc, cpu>>

UnlockWaitNot ==                        \* out_dpcs not awaited
  /\ Go("unlock_wait", "ret")
  /\ UNCHANGED <<code, cur, barrier, dpc, cpu>>

DpcRefsInitOff == Cardinality(Cpus) - 1   \* one reference too few

-----------------------------------------------------------------------------
\* hot_patch

\* Five bytes of padding before the function, or a hot patch already there.
Padded == \A a \in Src - 5 .. Src - 1 : mem[a][1] = "pad"
HotPatched == mem[Src][1] = "short" /\ mem[Src - 5][1] = "jmp"

\* No memory for the descriptor, or no way to hot patch: hook_code is tried.
HotRefused ==
  /\ Go("hot", "code")
  /\ UNCHANGED <<code, cur, barrier, dpc, cpu>>

\* mov edi, edi is dropped; another first instruction of two bytes is copied
\* to a buffer that ends in a jump back.
HotCheck ==
  /\ pc = "hot" /\ Padded /\ size_of_code(mem, Src) = 2 /\ pc' = "hot_op"
  /\ IF mem[Src][1] = "mov"
       THEN /\ old_proc' = [old_proc EXCEPT ![cur] = Src + 2]
            /\ UNCHANGED mem
       ELSE /\ old_proc' = [old_proc EXCEPT ![cur] = Buf(cur)]
            /\ mem' = Poke(mem, Buf(cur), SubSeq(Bytes(mem[Src][1], mem[Src][2], 2, 0), 1, 2)
                                          \o Jump(Buf(cur) + 2, Src + 2))
  /\ UNCHANGED <<shape, done, cur, barrier, dpc, cpu>>

HotOp ==
  /\ Go("hot_op", "hot_rel") /\ mem' = Poke(mem, Src - 5, JumpOp)
  /\ UNCHANGED <<shape, done, old_proc, cur, barrier, dpc, cpu>>

HotRel ==
  /\ Go("hot_rel", "hot_short")
  /\ mem' = Poke(mem, Src - 4, JumpRel(Src - 5, New(cur)))
  /\ UNCHANGED <<shape, done, old_proc, cur, barrier, dpc, cpu>>

HotShort ==
  /\ Go("hot_short", "ret") /\ mem' = Poke(mem, Src, ShortJump)
  /\ UNCHANGED <<shape, done, old_proc, cur, barrier, dpc, cpu>>

\* The function is hot patched already: take over its jump.
DoubleOld ==
  /\ old_proc' = [old_proc EXCEPT ![cur] = Src + Disp(mem, Src - 5)]
  /\ pc' = "double"
  /\ UNCHANGED <<shape, mem, done, cur, barrier, dpc, cpu>>

DoubleCheck == pc = "hot" /\ ~Padded /\ HotPatched /\ DoubleOld

DoublePatch ==
  /\ Go("double", "ret")
  /\ mem' = Poke(mem, Src - 4, JumpRel(Src - 5, New(cur)))
  /\ UNCHANGED <<shape, done, old_proc, cur, barrier, dpc, cpu>>

hot_patch == \/ HotRefused \/ HotCheck \/ HotOp \/ HotRel \/ HotShort
             \/ DoubleCheck \/ DoublePatch

-----------------------------------------------------------------------------
\* hook_code

\* The instructions hook_code moves: whole ones, until five bytes are free.
Following(a) == IF a \in DOMAIN mem THEN a + size_of_code(mem, a) ELSE a
Bounds ==
  LET step[k \in 0 .. 5] == IF k = 0 THEN Src ELSE Following(step[k - 1])
  IN  step
MovedCount == CHOOSE k \in 1 .. 5 :
                Bounds[k] >= Src + 5 /\ \A j \in 1 .. k - 1 : ~(Bounds[j] >= Src + 5)
Movable == /\ \E k \in 1 .. 5 : Bounds[k] >= Src + 5
           /\ \A j \in 0 .. MovedCount - 1 :
                mem[Bounds[j]][1] \notin {"rel8", "short"}

\* The moved bytes; a rel32, which ends an unprefixed call or branch at the place
\* hook_code expects it, is corrected by the distance it is moved.
Moved(m, n) ==
  [a \in 1 .. n |->
     LET b == m[Src + a - 1]
     IN  IF b[1] = "rel" THEN <<"rel", b[2] + Src - Buf(cur), b[3]>> ELSE b]

\* No memory, or an instruction that cannot be moved: set_hook returns 0.
CodeRefused ==
  /\ Go("code", "idle")
  /\ UNCHANGED <<code, cur, barrier, dpc, cpu>>

CodeMove ==
  /\ Go("code", "lock") /\ Movable
  /\ LET n == Bounds[MovedCount] - Src
     IN  mem' = Poke(mem, Buf(cur), Moved(mem, n) \o Jump(Buf(cur) + n, Src + n))
  /\ old_proc' = [old_proc EXCEPT ![cur] = Buf(cur)]
  /\ UNCHANGED <<shape, done, cur, barrier, dpc, cpu>>

\* global_lock
DpcRefsInit == Cardinality(Cpus)
LockInit ==
  /\ Go("lock", "lock_queue")
  /\ pool' = "live" /\ locked' = TRUE /\ todo' = Cpus
  /\ inp_dpcs' = Cardinality(Cpus) /\ out_dpcs' = Cardinality(Cpus)
  /\ dpc_refs' = DpcRefsInit
  /\ UNCHANGED <<code, cur, queued, dpc, cpu>>

\* KeInsertQueueDpc for one processor after the other; a DPC may begin while
\* the others are still to be queued.
LockQueue ==
  /\ pc = "lock_queue" /\ UNCHANGED pc
  /\ \E c \in todo : todo' = todo \ {c} /\ queued' = queued \cup {c}
  /\ UNCHANGED <<code, cur, locked, inp_dpcs, out_dpcs, dpc_refs, pool, dpc, cpu>>

LockWait ==
  /\ todo = {} /\ inp_dpcs = 0 /\ Go("lock_queue", "splice_op")
  /\ UNCHANGED <<code, cur, barrier, dpc, cpu>>

\* set_jump over the prologue
SpliceOp ==
  /\ Go("splice_op", "splice_rel") /\ mem' = Poke(mem, Src, JumpOp)
  /\ UNCHANGED <<shape, done, old_proc, cur, barrier, dpc, cpu>>

SpliceRel ==
  /\ Go("splice_rel", "unlock")
  /\ mem' = Poke(mem, Src + 1, JumpRel(Src, New(cur)))
  /\ UNCHANGED <<shape, done, old_proc, cur, barrier, dpc, cpu>>

\* global_unlock
Unlock ==
  /\ Go("unlock", "unlock_wait") /\ locked' = FALSE
  /\ UNCHANGED <<code, cur, inp_dpcs, out_dpcs, dpc_refs, pool, todo, queued,
                 dpc, cpu>>

UnlockWait ==
  /\ out_dpcs = 0 /\ Go("unlock_wait", "ret")
  /\ UNCHANGED <<code, cur, barrier, dpc, cpu>>

hook_code == \/ CodeRefused \/ CodeMove
             \/ LockInit \/ LockQueue \/ LockWait
             \/ SpliceOp \/ SpliceRel \/ Unlock \/ UnlockWait

-----------------------------------------------------------------------------
\* set_hook: the caller hooks the function, the descriptor is listed and 1
\* returned.
Begin ==
  /\ Go("idle", "hot") /\ cur < MaxHooks /\ cur' = cur + 1
  /\ UNCHANGED <<code, barrier, dpc, cpu>>

Return ==
  /\ Go("ret", "idle") /\ done' = done \cup {cur}
  /\ UNCHANGED <<shape, mem, old_proc, cur, barrier, dpc, cpu>>

set_hook == hot_patch \/ hook_code \/ Return

-----------------------------------------------------------------------------
\* global_lock_proc on processor c, between two of its instructions

DpcGo(c, from, to) == dpc[c] = from /\ dpc' = [dpc EXCEPT ![c] = to]

DpcEnter(c) ==
  /\ c \in queued /\ DpcGo(c, "none", "spin")
  /\ queued' = queued \ {c} /\ inp_dpcs' = inp_dpcs - 1
  /\ UNCHANGED <<code, pc, cur, locked, out_dpcs, dpc_refs, pool, todo, cpu>>

DpcSpin(c) ==
  /\ ~locked /\ DpcGo(c, "spin", "refs")
  /\ UNCHANGED <<code, pc, cur, barrier, cpu>>

\* The last one frees the array of DPCs.
DpcRefs(c) ==
  /\ DpcGo(c, "refs", "out") /\ dpc_refs' = dpc_refs - 1
  /\ pool' = IF dpc_refs = 1 THEN "freed" ELSE pool
  /\ UNCHANGED <<code, pc, cur, locked, inp_dpcs, out_dpcs, todo, queued, cpu>>

DpcOut(c) ==
  /\ DpcGo(c, "out", "none") /\ out_dpcs' = out_dpcs - 1
  /\ UNCHANGED <<code, pc, cur, locked, inp_dpcs, dpc_refs, pool, todo, queued,
                 cpu>>

global_lock_proc(c) == DpcEnter(c) \/ DpcSpin(c) \/ DpcRefs(c) \/ DpcOut(c)

-----------------------------------------------------------------------------
\* The other processors call the function all the time.
Quiet == UNCHANGED <<code, pc, cur, barrier, dpc>>

Call(c) ==
  /\ dpc[c] = "none" /\ ip[c] = Nowhere /\ calls[c] < MaxCalls
  /\ ip' = [ip EXCEPT ![c] = Src] /\ calls' = [calls EXCEPT ![c] = @ + 1]
  /\ trace' = [trace EXCEPT ![c] = << >>] /\ seen' = [seen EXCEPT ![c] = << >>]
  /\ must' = [must EXCEPT ![c] = done]
  /\ Quiet

\* One instruction: an original one is recorded with where it leads.
Execute(c) ==
  LET a == ip[c]
  IN  /\ dpc[c] = "none" /\ Whole(mem, a)
      /\ IF mem[a][1] \in {"jmp", "short"}
           THEN ip' = [ip EXCEPT ![c] = Target(mem, a)] /\ UNCHANGED trace
           ELSE /\ ip' = [ip EXCEPT ![c] = a + size_of_code(mem, a)]
                /\ trace' = [trace EXCEPT ![c] = Append(@, <<mem[a][2], Target(mem, a)>>)]
      /\ UNCHANGED <<calls, seen, must>> /\ Quiet

\* The procedure of hook h, which goes on to the original through old_proc.
NewProc(c, h) ==
  /\ dpc[c] = "none" /\ ip[c] = New(h)
  /\ seen' = [seen EXCEPT ![c] = Append(@, h)]
  /\ ip' = [ip EXCEPT ![c] = old_proc[h]]
  /\ UNCHANGED <<calls, trace, must>> /\ Quiet

Leave(c) ==
  /\ dpc[c] = "none" /\ ip[c] = End /\ ip' = [ip EXCEPT ![c] = Nowhere]
  /\ UNCHANGED <<calls, trace, seen, must>> /\ Quiet

Processor(c) == \/ Call(c) \/ Execute(c) \/ Leave(c)
                \/ \E h \in 1 .. MaxHooks : NewProc(c, h)

Next == \/ Begin \/ set_hook
        \/ \E c \in Cpus : global_lock_proc(c) \/ Processor(c)

Spec == Init /\ [][Next]_vars

\* set_hook runs on, and a queued DPC of high importance interrupts its
\* processor and runs on.  Nothing is assumed of the code it interrupts.
Fairness == /\ WF_vars(set_hook)
            /\ \A c \in Cpus : WF_vars(global_lock_proc(c))
FairSpec == Spec /\ Fairness
-----------------------------------------------------------------------------
\* While hook_code overwrites a prologue every other processor is held in
\* global_lock_proc.
PatchAlone ==
  pc \in {"splice_op", "splice_rel"} => \A c \in Cpus : dpc[c] = "spin"

\* A processor never runs into a half-written jump or a buffer that is not
\* filled.  The one exception the code leaves open: a processor whose DPC
\* interrupted it inside the prologue that hook_code overwrites.
NoTorn ==
  \A c \in Cpus :
    dpc[c] = "none" /\ ip[c] # Nowhere =>
      \/ Whole(mem, ip[c]) \/ ip[c] = End
      \/ \E h \in 1 .. MaxHooks : ip[c] = New(h)
      \/ ip[c] \in Src + 1 .. Src + 4 /\ mem[Src][1] = "jmp"

\* Through any number of hooks, set while the call is on its way, a call
\* executes the function's instructions once, in order, with their targets; but
\* hot_patch drops a mov edi, edi, which has no effect, at the beginning.
Expect(s, i) ==
  <<i, CASE s.code[i].k \in Relative -> Callee
         [] s.code[i].k = "rel8" -> Src + Off(s)[i] + 12
         [] OTHER -> 0>>
Executed(s, f, i) == [j \in 1 .. i - f |-> Expect(s, j + f - 1)]    \* f .. i - 1
Transparent ==
  LET n == Len(shape.code)
  IN  \A c \in Cpus : ip[c] = End =>
        \/ trace[c] = Executed(shape, 1, n + 1)
        \/ shape.code[1].k = "mov" /\ trace[c] = Executed(shape, 2, n + 1)

\* A call that began after set_hook returned 1 runs every hook set by then,
\* the newest first.
HooksRun ==
  \A c \in Cpus :
    /\ ip[c] = End => \A h \in must[c] : \E j \in 1 .. Len(seen[c]) : seen[c][j] = h
    /\ \A j \in 1 .. Len(seen[c]) - 1 : seen[c][j] > seen[c][j + 1]

\* The array of DPCs outlives every DPC in it and is freed when set_hook
\* returns.
PoolExact ==
  /\ queued # {} \/ (\E c \in Cpus : dpc[c] \in {"spin", "refs"}) => pool = "live"
  /\ pc = "idle" /\ Cpus # {} => pool # "live"

\* set_hook returns, and every processor it stopped is let go.
AllReleased ==
  /\ pc = "hot" ~> pc = "idle"
  /\ \A c \in Cpus : dpc[c] = "spin" ~> dpc[c] = "none"
=============================================================================
