------------------------------ MODULE Syscall ------------------------------
(***************************************************************************)
(* Calls of the user library into the driver: the wrappers of dbgapi.c, the *)
(* dispatcher behind NtTerminateProcess (syscall.c), the locking of user    *)
(* buffers (misc.c), and what the handlers of debug.c and driver.c acquire  *)
(* and give back.  What the handlers do with sessions is module Session.    *)
(*                                                                         *)
(* The driver is loaded by the clients themselves (module Loader); a client *)
(* whose key the driver does not have ends up in the original function.    *)
(***************************************************************************)
EXTENDS Integers, Loader

CONSTANT MaxOps   \* bound: library calls of one client

VARIABLES
  fn,        \* the function of the library the client is in, if any
  pc,        \* where it stands in it, "out" outside
  disp,      \* where the thread stands in the dispatcher, "user" outside it
  held,      \* what the two buffer locks hold: MDL, locked pages, mapping
  refs,      \* process references the handler holds
  h_proc,    \* the function's local handle: "null", "real", or "wild" when the
             \* driver has returned one it never set
  open,      \* handles the function has open in the client's process
  succs,     \* status of the last system call
  dying,     \* the client is being terminated
  ops        \* library calls made

callVars == <<fn, pc, disp, held, refs, h_proc, open, succs, dying, ops>>
vars     == <<loadVars, callVars>>

\* The functions of the library: what each opens first, and the one other call
\* it makes.  dbg_open_process is the library's own name for the first.
Function(opens, body) == [opens |-> opens, body |-> body]
dbg_open_process      == "open_process"
dbg_drv_version       == Function("none", "get_version")
dbg_terminate_process == Function(dbg_open_process, "terminate_process")
dbg_attach_debugger   == Function("none", "attach")
dbg_get_msg_event     == Function("none", "get_message")
dbg_countinue_event   == Function("none", "countinue")
dbg_set_filter        == Function("none", "set_filter")
dbg_read_memory       == Function(dbg_open_process, "win32")
dbg_write_memory      == Function(dbg_open_process, "win32")
dbg_get_context       == Function("open_thread", "win32")
dbg_set_context       == Function("open_thread", "win32")
dbg_create_process    == Function("create_process", "none")
Thunk                 == Function("none", "win32")  \* dbg_open_file .. dbg_suspend_thread
Stub                  == Function("none", "none")   \* dbg_set_rdtsc .. dbg_hook_page
Library ==
  {dbg_drv_version, dbg_terminate_process, dbg_attach_debugger, dbg_get_msg_event,
   dbg_countinue_event, dbg_set_filter, dbg_read_memory, dbg_write_memory,
   dbg_get_context, dbg_set_context, dbg_create_process, Thunk, Stub}

\* The handlers of the dispatcher, which the library asks for no other number.
syscall_table ==
  {"get_version", "open_process", "terminate_process", "attach", "get_message",
   "set_filter", "countinue"}

\* The call the client is about to make or makes.
Call(c) == IF pc[c] = "open" THEN fn[c].opens ELSE fn[c].body

\* The buffers a system call passes.
Buffers(call) ==
  CASE call = "get_version" -> {"out"}
    [] call \in {"open_process", "get_message"} -> {"in", "out"}
    [] OTHER -> {"in"}
Locked == {"mdl", "pages", "map"}

Init ==
  /\ LoadInit
  /\ fn = [c \in Clients |-> Stub]
  /\ pc = [c \in Clients |-> "out"] /\ disp = [c \in Clients |-> "user"]
  /\ held = [c \in Clients |-> [b \in {"in", "out"} |-> {}]]
  /\ refs = [c \in Clients |-> 0]
  /\ h_proc = [c \in Clients |-> "null"] /\ open = [c \in Clients |-> 0]
  /\ succs = [c \in Clients |-> FALSE] /\ dying = [c \in Clients |-> FALSE]
  /\ ops = [c \in Clients |-> 0]

At(c, where) == disp[c] = where /\ ~Dangling
Goto(c, where) == disp' = [disp EXCEPT ![c] = where]
Return(c, v) == succs' = [succs EXCEPT ![c] = v]
Got(c, h, n) ==
  h_proc' = [h_proc EXCEPT ![c] = h] /\ open' = [open EXCEPT ![c] = @ + n]

-----------------------------------------------------------------------------
\* Plausible faults of single steps.  Next uses none of them.

CleanupNoUnlock(got) == got \ {"mdl"}   \* the pages stay locked
ContinueReturns(f, step, ok) ==         \* an early return past CloseHandle
  IF step = "open" THEN (IF ok THEN "body" ELSE "close")
                   ELSE (IF ok THEN "close" ELSE "out")

-----------------------------------------------------------------------------
\* The library.

\* Where a function goes on after a call.  One that could not open its process
\* or thread breaks out of the loop, to the exit that closes the handle, and so
\* it does after its second call; dbg_create_process returns at once.
Continue(f, step, ok) ==
  IF step = "open" /\ ok /\ f.body # "none" THEN "body"
  ELSE IF ~ok /\ f.opens = "create_process" THEN "out"
  ELSE "close"

\* A library function is called.  dbg_initialize_api is Loader's.
CallLibrary(c) ==
  /\ At(c, "user") /\ pc[c] = "out" /\ lib[c] = "idle" /\ ~dying[c]
  /\ result[c] = 1 /\ ops[c] < MaxOps /\ ops' = [ops EXCEPT ![c] = @ + 1]
  /\ \E f \in Library :
       /\ fn' = [fn EXCEPT ![c] = f]
       /\ pc' = [pc EXCEPT ![c] = IF f.opens # "none" THEN "open" ELSE "body"]
  /\ h_proc' = [h_proc EXCEPT ![c] = "null"]
  /\ UNCHANGED <<disp, held, refs, open, succs, dying, loadVars>>

\* Its next step: a Win32 call, which may fail; OpenThread gives a handle and
\* CreateProcess two ...
CallWin32(c) ==
  /\ At(c, "user") /\ pc[c] \in {"open", "body"} /\ Call(c) \notin syscall_table
  /\ \E ok \in BOOLEAN :
       /\ pc' = [pc EXCEPT ![c] = Continue(fn[c], @, ok)]
       /\ CASE ok /\ Call(c) = "open_thread"    -> Got(c, "real", 1)
            [] ok /\ Call(c) = "create_process" -> Got(c, "real", 2)
            [] OTHER -> UNCHANGED <<h_proc, open>>
  /\ UNCHANGED <<fn, disp, held, refs, succs, dying, ops, loadVars>>

\* ... or NtTerminateProcess(&call, acc_key): with the right key the dispatcher
\* takes the call, otherwise the original function refuses the handle.
dbg_syscall(c) ==
  /\ At(c, "user") /\ pc[c] \in {"open", "body"} /\ Call(c) \in syscall_table
  /\ Return(c, FALSE)
  /\ IF Answers(c)
       THEN Goto(c, "probe") /\ UNCHANGED pc
       ELSE pc' = [pc EXCEPT ![c] = Continue(fn[c], @, FALSE)] /\ UNCHANGED disp
  /\ UNCHANGED <<fn, held, refs, h_proc, open, dying, ops, loadVars>>

\* if (h_proc != NULL) CloseHandle(h_proc), and the function returns.
\* dbg_create_process has pri.hThread to close as well.  To close a wild handle
\* closes none of the handles counted here.
CloseHandle(c) ==
  open' = [open EXCEPT ![c] = IF h_proc[c] = "real" THEN @ - 1 ELSE @]
LibraryReturns(c) ==
  /\ At(c, "user") /\ pc[c] \in {"close", "close_thread"} /\ CloseHandle(c)
  /\ pc' = [pc EXCEPT ![c] = IF @ = "close" /\ fn[c].opens = "create_process"
                               THEN "close_thread" ELSE "out"]
  /\ UNCHANGED <<fn, disp, held, refs, h_proc, succs, dying, ops, loadVars>>

-----------------------------------------------------------------------------
\* new_nt_term_proc

\* The caller's structure is captured under an exception handler and its number
\* and sizes are checked; what a caller that is not the library passes may fail.
Probe(c) ==
  /\ At(c, "probe") /\ \E next \in {"lock_in", "unlock"} : Goto(c, next)
  /\ UNCHANGED <<fn, pc, held, refs, h_proc, open, succs, dying, ops, loadVars>>

\* dbg_lock_um_buff: allocate an MDL, lock the pages, map them.  When a step
\* fails what was got so far is given back.
dbg_lock_um_buff(got) ==
  IF "mdl" \notin got THEN {"mdl"} ELSE IF "pages" \notin got THEN {"mdl", "pages"} ELSE Locked
Cleanup(got) ==
  (got \ (IF "pages" \in got THEN {"pages"} ELSE {}))
       \ (IF "mdl" \in got THEN {"mdl"} ELSE {})

LockBuffer(c, b, from, to) ==
  /\ At(c, from)
  /\ IF b \in Buffers(Call(c))
       THEN LET got == dbg_lock_um_buff(held[c][b])
            IN  \/ /\ held' = [held EXCEPT ![c][b] = got]
                   /\ Goto(c, IF got = Locked THEN to ELSE from)
                \/ /\ held' = [held EXCEPT ![c][b] = Cleanup(@)]
                   /\ Goto(c, "unlock")
       ELSE Goto(c, to) /\ UNCHANGED held
  /\ UNCHANGED <<fn, pc, refs, h_proc, open, succs, dying, ops, loadVars>>

\* A handler looks the process up.  dbg_get_version has none to look up, and
\* dbg_terminate_process goes on without.
HandlerBegin(c) ==
  LET call == Call(c)
  IN  /\ At(c, "handler")
      /\ \/ /\ call # "get_version" /\ refs' = [refs EXCEPT ![c] = 1]
            /\ Goto(c, "work")
         \/ /\ UNCHANGED refs
            /\ Goto(c, IF call \in {"get_version", "terminate_process"}
                         THEN "work" ELSE "unlock")
      /\ UNCHANGED <<fn, pc, held, h_proc, open, succs, dying, ops, loadVars>>

\* It does its work, which for dbg_get_message and dbg_countinue may mean to
\* wait in the channel, and drops the reference.  The handle dbg_open_process
\* stores is the one ObOpenObjectByPointer has made, or what happened to be on
\* the stack when that failed.
HandlerDone(c) ==
  /\ At(c, "work") /\ Goto(c, "unlock")
  /\ \E ok \in BOOLEAN :
       /\ Call(c) = "get_version" => ok
       /\ Return(c, ok)
       /\ IF ok /\ Call(c) = "open_process"
            THEN Got(c, "real", 1) \/ Got(c, "wild", 0)
            ELSE UNCHANGED <<h_proc, open>>
  /\ refs' = [refs EXCEPT ![c] = 0]
  /\ UNCHANGED <<fn, pc, held, dying, ops, loadVars>>

\* dbg_terminate_process with a handle of the caller's own process: the
\* reference is dropped, and NtTerminateProcess does not return.
HandlerEnds(c) ==
  /\ At(c, "work") /\ Call(c) = "terminate_process" /\ Goto(c, "ended")
  /\ refs' = [refs EXCEPT ![c] = 0]
  /\ UNCHANGED <<fn, pc, held, h_proc, open, succs, dying, ops, loadVars>>

\* dbg_unlock_um_buff for each buffer that was mapped, and return.
Unlocked(locks) == [b \in {"in", "out"} |-> IF "map" \in locks[b] THEN {} ELSE locks[b]]
Unlock(c) ==
  /\ At(c, "unlock") /\ Goto(c, "user")
  /\ held' = [held EXCEPT ![c] = Unlocked(@)]
  /\ pc' = [pc EXCEPT ![c] = Continue(fn[c], @, succs[c])]
  /\ UNCHANGED <<fn, refs, h_proc, open, succs, dying, ops, loadVars>>

new_nt_term_proc(c) ==
  \/ Probe(c)
  \/ LockBuffer(c, "in", "lock_in", "lock_out")
  \/ LockBuffer(c, "out", "lock_out", "handler")
  \/ HandlerBegin(c) \/ HandlerDone(c) \/ HandlerEnds(c) \/ Unlock(c)

-----------------------------------------------------------------------------
\* The client is terminated by another process: at once in user mode, in the
\* driver when the call is over.  The kernel closes its handles.  A new process
\* may take its place.
KillCaller(c) ==
  /\ ~Dangling /\ pc[c] # "out" /\ disp[c] # "ended"
  /\ ~dying[c] /\ dying' = [dying EXCEPT ![c] = TRUE]
  /\ UNCHANGED <<fn, pc, disp, held, refs, h_proc, open, succs, ops, loadVars>>

CallerGone(c) ==
  /\ At(c, "user") /\ dying[c] /\ dying' = [dying EXCEPT ![c] = FALSE]
  /\ pc' = [pc EXCEPT ![c] = "out"] /\ open' = [open EXCEPT ![c] = 0]
  /\ result' = [result EXCEPT ![c] = 0]
  /\ UNCHANGED <<fn, disp, held, refs, h_proc, succs, ops, kernel, service, lib, sym, inits>>

Caller(c) == \/ CallLibrary(c) \/ CallWin32(c) \/ dbg_syscall(c) \/ LibraryReturns(c)
             \/ new_nt_term_proc(c) \/ KillCaller(c) \/ CallerGone(c)

\* A client is in one function of the library at a time.
Load == /\ LoadNext /\ UNCHANGED callVars
        /\ \A c \in Clients : pc[c] # "out" => lib'[c] = lib[c]

Next == Load \/ \E c \in Clients : Caller(c)
Spec == Init /\ [][Next]_vars

-----------------------------------------------------------------------------
\* However a call fails or is cut short, no page of the caller stays locked and
\* no process referenced once its thread is back in user mode (where it may be
\* gone the next moment).  A caller that has the driver terminate its own process
\* never comes back; what it leaves behind is its input buffer, locked, and no
\* more.
NothingHeld ==
  \A c \in Clients :
    /\ disp[c] = "user" => held[c]["in"] = {} /\ held[c]["out"] = {} /\ refs[c] = 0
    /\ disp[c] = "ended" => held[c]["out"] = {} /\ refs[c] = 0

\* By whichever exit a library function returns - no process or no thread opened,
\* the second call failed, the process not created, the access key wrong - every
\* handle it or the driver has opened for it is closed, and none twice.
HandlesClosed == \A c \in Clients : open[c] >= 0 /\ (pc[c] = "out" => open[c] = 0)
=============================================================================
