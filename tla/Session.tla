------------------------------ MODULE Session ------------------------------
(***************************************************************************)
(* The debug sessions of the kernel driver: the reference-counted list of  *)
(* dbg_item records (dbg_item.c) and the system call handlers and hooks    *)
(* that look them up, use them and delete them (debug.c).                  *)
(*                                                                         *)
(* The channel of a session is open or released here: a call waits in it   *)
(* until it is answered, released, raced out or its thread terminated      *)
(* (module Channel has its steps).  A thread keeps a stack of frames,      *)
(* because dbg_process_terminated terminates the processes its process     *)
(* debugs through the hooked NtTerminateProcess, which calls it again.     *)
(***************************************************************************)
EXTENDS Integers, Sequences, FiniteSets

CONSTANTS
  Procs,      \* processes
  Threads,    \* user threads that call the driver or run into its hooks
  Workers,    \* bound: system threads for dbg_delayed_term_event
  Items,      \* bound: dbg_item allocations
  Home,       \* the process of each user thread
  Attachers,  \* threads that attach
  Victims,    \* processes that user code terminates
  Aliases,    \* processes whose id equals some process handle value
  MaxTerms,   \* bound: terminations that user code starts
  MaxDepth,   \* bound: frames of one thread, for which the kernel stack has room
  NoItem, NoProc

ASSUME SessionAssumption ==
  /\ IsFiniteSet(Threads) /\ IsFiniteSet(Workers) /\ IsFiniteSet(Items)
  /\ Threads \cap Workers = {}
  /\ Home \in [Threads -> Procs]
  /\ Attachers \subseteq Threads /\ Victims \subseteq Procs
  /\ Aliases \subseteq Procs
  /\ MaxTerms \in Nat /\ MaxDepth \in Nat
  /\ NoItem \notin Items /\ NoProc \notin Procs

VARIABLES
  item,     \* the dbg_item records: active, debugger, debugged, ref_count, ...
  list,     \* dbg_item_list
  alive,    \* processes that have not been terminated
  stack,    \* the frames of each thread, innermost first
  deletes,  \* how often dbg_delete_item has dropped the list's reference
  leaked,   \* references nobody will drop
  terms,    \* terminations started so far
  wild      \* channel_free was called on an uninitialised pointer

vars == <<item, list, alive, stack, deletes, leaked, terms, wild>>

Actors == Threads \cup Workers

Unused == [st |-> "unused", active |-> FALSE, debugger |-> NoProc,
           debugged |-> NoProc, refs |-> 0, chan |-> "none", mask |-> FALSE]

Frame(pc, proc, i, kill, next) ==
  [pc |-> pc, proc |-> proc, item |-> i, kill |-> kill, next |-> next]

Init ==
  /\ item = [i \in Items |-> Unused]
  /\ list = << >>
  /\ alive = Procs
  /\ stack = [t \in Actors |-> << >>]
  /\ deletes = [i \in Items |-> 0] /\ leaked = [i \in Items |-> 0]
  /\ terms = 0
  /\ wild = FALSE

-----------------------------------------------------------------------------
\* A thread that can begin a call, the frame it executes, and moving on.
Idle(t) == stack[t] = << >> /\ Home[t] \in alive
Top(t)  == Head(stack[t])
At(t, pc) == stack[t] # << >> /\ Top(t).pc = pc
Put(t, f) == stack' = [stack EXCEPT ![t] = <<f>> \o Tail(@)]
Goto(t, pc) == Put(t, [Top(t) EXCEPT !.pc = pc])
Start(t, f) == stack' = [stack EXCEPT ![t] = <<f>>]

\* dbg_new_item: the creator and the list hold a reference each (refs = 2).
NewItem(t, i, debgr, refs) ==
  /\ item[i].st = "unused"
  /\ item' = [item EXCEPT ![i] =
                [Unused EXCEPT !.st = "live", !.debugger = debgr,
                               !.debugged = Top(t).proc, !.refs = refs]]
  /\ list' = Append(list, i)
  /\ Put(t, [Top(t) EXCEPT !.pc = "chan_set", !.item = i])
  /\ UNCHANGED <<alive, deletes, leaked, terms, wild>>

-----------------------------------------------------------------------------
\* Plausible faults of single steps.  Next uses none of them: each stands in
\* for the step it is named after to show that a property notices the fault.

MatchesInactive(i, debgr, dbgd) ==      \* item->active not checked
  /\ debgr = NoProc \/ item[i].debugger = debgr
  /\ dbgd = NoProc \/ item[i].debugged = dbgd

ReferencedNot(i) == item                \* lock_inc forgotten

AttachNewOneRef(t) ==                   \* ref_count = 1: the list's forgotten
  At(t, "new") /\ \E i \in Items : NewItem(t, i, Home[t], 1)
AttachNewNoDebugger(t) ==               \* item->debugger not assigned
  At(t, "new") /\ \E i \in Items : NewItem(t, i, NoProc, 2)

ReportSkippedKept(t) ==                 \* dbg_deref_item forgotten
  /\ At(t, "report") /\ Goto(t, "exit")
  /\ UNCHANGED <<item, list, alive, deletes, leaked, terms, wild>>

-----------------------------------------------------------------------------
\* dbg_find_item under dbg_item_lock: the first active match; NoProc is NULL.
Matches(i, debgr, dbgd) ==
  /\ debgr = NoProc \/ item[i].debugger = debgr
  /\ dbgd = NoProc \/ item[i].debugged = dbgd
  /\ item[i].active
FirstMatch(k, debgr, dbgd) ==
  /\ Matches(list[k], debgr, dbgd)
  /\ \A l \in 1 .. k - 1 : ~Matches(list[l], debgr, dbgd)
dbg_find_item(debgr, dbgd) ==
  IF \E k \in 1 .. Len(list) : FirstMatch(k, debgr, dbgd)
    THEN list[CHOOSE k \in 1 .. Len(list) : FirstMatch(k, debgr, dbgd)]
    ELSE NoItem

\* lock_inc(&item->ref_count), part of a successful dbg_find_item.
Referenced(i) == [item EXCEPT ![i].refs = @ + 1]

-----------------------------------------------------------------------------
\* dbg_attach_call

\* The size is wrong, the lookup of the process fails, or it is the caller's
\* own: the call goes to its cleanup and has not assigned chan.
AttachInvalid(t) ==
  /\ t \in Attachers /\ Idle(t)
  /\ Start(t, Frame("refused", Home[t], NoItem, FALSE, "done"))
  /\ UNCHANGED <<item, list, alive, deletes, leaked, terms, wild>>

Attach(t, q) ==
  /\ t \in Attachers /\ Idle(t) /\ q # Home[t]
  /\ LET i == dbg_find_item(NoProc, q)
     IN  IF i = NoItem
           THEN /\ Start(t, Frame("new", q, NoItem, FALSE, "done"))
                /\ UNCHANGED item
           ELSE /\ Start(t, Frame("put", q, i, FALSE, "refused"))
                /\ item' = Referenced(i)
  /\ UNCHANGED <<list, alive, deletes, leaked, terms, wild>>

\* channel_alloc and dbg_new_item; when one of them fails the call returns 0.
AttachNew(t) ==
  /\ At(t, "new")
  /\ \/ \E i \in Items : NewItem(t, i, Home[t], 2)
     \/ /\ Goto(t, "done")
        /\ UNCHANGED <<item, list, alive, deletes, leaked, terms, wild>>

AttachChan(t) ==
  /\ At(t, "chan_set") /\ Goto(t, "activate")
  /\ item' = [item EXCEPT ![Top(t).item].chan = "open"]
  /\ UNCHANGED <<list, alive, deletes, leaked, terms, wild>>

AttachActive(t) ==
  /\ At(t, "activate") /\ Goto(t, "put")
  /\ item' = [item EXCEPT ![Top(t).item].active = TRUE]
  /\ UNCHANGED <<list, alive, deletes, leaked, terms, wild>>

\* The cleanup of an attach that ends before channel_alloc, because the call
\* is invalid or the session exists already: chan was never assigned, and is
\* freed unless the stack happens to hold NULL there.
AttachRefused(t) ==
  /\ At(t, "refused") /\ Goto(t, "done")
  /\ wild' \in {wild, TRUE}
  /\ UNCHANGED <<item, list, alive, deletes, leaked, terms>>

-----------------------------------------------------------------------------
\* dbg_set_filter, dbg_get_message, dbg_countinue by the debugger; the events
\* of dbg_process_exception, NewNtCreateThread, NewNtTerminateThread and
\* load_image_notify_routine in the debuggee

\* Find the session and go on with it, or return.
Lookup(t, debgr, dbgd, pc, next) ==
  LET i == dbg_find_item(debgr, dbgd)
  IN  /\ i # NoItem
      /\ Start(t, Frame(pc, dbgd, i, FALSE, next))
      /\ item' = Referenced(i)
      /\ UNCHANGED <<list, alive, deletes, leaked, terms, wild>>

dbg_set_filter(t, q)  == Idle(t) /\ Lookup(t, Home[t], q, "filter", "done")
dbg_get_message(t, q) == Idle(t) /\ Lookup(t, Home[t], q, "chan", "done")
dbg_countinue(t, q)   == Idle(t) /\ Lookup(t, Home[t], q, "chan", "done")

\* An event of process q; one whose bit is not in the mask is not sent.
Report(t, q) ==
  /\ Idle(t)
  /\ \E pc \in {"chan", "put"} : Lookup(t, NoProc, q, pc, "done")

dbg_process_exception(t)      == Report(t, Home[t])
\* Exceptions of kernel mode go past the driver.
NewKiDispatchException(t)     == dbg_process_exception(t)
load_image_notify_routine(t)  == Report(t, Home[t])
\* A thread may be created or terminated in another process.
NewNtCreateThread(t, q)       == Report(t, q)
NewNtTerminateThread(t, q)    == Report(t, q)

\* Of the event mask the sessions keep the bit DBG_TERMINATED; the others, and
\* the exception filters, only say whether Report sends or not.
EventMask == BOOLEAN

SetFilter(t) ==
  /\ At(t, "filter") /\ Goto(t, "put")
  /\ \E m \in EventMask : item' = [item EXCEPT ![Top(t).item].mask = m]
  /\ UNCHANGED <<list, alive, deletes, leaked, terms, wild>>

InChannel(i) == {u \in Actors : At(u, "chan") /\ Top(u).item = i}

\* Where a thread goes after its channel call: dbg_delayed_term_event deletes
\* the session, the last thread of a process goes on to report its end.
AfterChannel(t) ==
  CASE t \in Workers -> "deact"
    [] Top(t).next = "died" -> "last"
    [] OTHER -> "put"

\* A channel call is answered by a debugger that is alive, or raced out by
\* another call.
Answered(t) ==
  /\ At(t, "chan") /\ Goto(t, AfterChannel(t))
  /\ \/ item[Top(t).item].debugger \in alive
     \/ InChannel(Top(t).item) # {t}
  /\ UNCHANGED <<item, list, alive, deletes, leaked, terms, wild>>

\* A channel call may be let out by the release, or aborted because its thread
\* is terminated.  Neither is certain (module Channel: another thread may clear
\* the event again, and channel_send may spin), so no fairness is assumed.
LeaveChannel(t) ==
  /\ At(t, "chan") /\ Goto(t, AfterChannel(t))
  /\ \/ item[Top(t).item].chan = "released"
     \/ t \in Threads /\ Home[t] \notin alive
  /\ UNCHANGED <<item, list, alive, deletes, leaked, terms, wild>>

-----------------------------------------------------------------------------
\* dbg_delete_item and dbg_deref_item

Deactivate(t) ==
  /\ At(t, "deact") /\ Goto(t, "release")
  /\ item' = [item EXCEPT ![Top(t).item].active = FALSE]
  /\ UNCHANGED <<list, alive, deletes, leaked, terms, wild>>

Release(t) ==
  /\ At(t, "release") /\ Goto(t, "unlist")
  /\ item' = [item EXCEPT ![Top(t).item].chan = "released"]
  /\ UNCHANGED <<list, alive, deletes, leaked, terms, wild>>

\* lock_dec(&item->ref_count): the caller goes on to pc, by way of the
\* destruction of the item when the count has reached zero.
DropRef(t, pc, destroy) ==
  LET i == Top(t).item
  IN  /\ item' = [item EXCEPT ![i].refs = @ - 1]
      /\ Goto(t, IF item[i].refs = 1 THEN destroy ELSE pc)

\* The reference of the list, dropped by dbg_delete_item.
Unlist(t) ==
  /\ At(t, "unlist") /\ DropRef(t, "put", "unlist0")
  /\ deletes' = [deletes EXCEPT ![Top(t).item] = @ + 1]
  /\ UNCHANGED <<list, alive, leaked, terms, wild>>

\* The caller's own reference.
Deref(t) ==
  /\ At(t, "put") /\ DropRef(t, Top(t).next, "put0")
  /\ UNCHANGED <<list, alive, deletes, leaked, terms, wild>>

\* RemoveEntryList: the list without the entry of i.
Unlinked(i) ==
  IF \E p \in 1 .. Len(list) : list[p] = i
    THEN LET p == CHOOSE p \in 1 .. Len(list) : list[p] = i
         IN  [k \in 1 .. Len(list) - 1 |-> IF k < p THEN list[k] ELSE list[k + 1]]
    ELSE list

\* RemoveEntryList, channel_free (which waits for the calls in progress) and
\* mem_free.
Destroy(t) ==
  /\ At(t, "unlist0") \/ At(t, "put0")
  /\ LET i == Top(t).item
     IN  /\ InChannel(i) = {}
         /\ list' = Unlinked(i)
         /\ item' = [item EXCEPT ![i] = [@ EXCEPT !.st = "gone"]]
  /\ Goto(t, IF At(t, "unlist0") THEN "put" ELSE Top(t).next)
  /\ UNCHANGED <<alive, deletes, leaked, terms, wild>>

Return(t) ==
  /\ At(t, "done")
  /\ stack' = [stack EXCEPT ![t] = Tail(@)]
  /\ UNCHANGED <<item, list, alive, deletes, leaked, terms, wild>>

-----------------------------------------------------------------------------
\* dbg_process_terminated, called by NewNtTerminateProcess (kill = TRUE) ...

NewNtTerminateProcess(t, q) ==
  /\ Idle(t) /\ q \in Victims /\ terms < MaxTerms
  /\ terms' = terms + 1
  /\ Start(t, Frame("loop", q, NoItem, TRUE, "loop"))
  /\ UNCHANGED <<item, list, alive, deletes, leaked, wild>>

\* ... by dbg_terminate_process, which looks the handle of q up as if it were
\* a process id, reports the process w it may so find as terminated, and then
\* terminates q through the hook ...
dbg_terminate_process(t, q, w) ==
  /\ Idle(t) /\ q \in Victims /\ w \in Aliases /\ terms < MaxTerms
  /\ terms' = terms + 1
  /\ stack' = [stack EXCEPT ![t] = <<Frame("loop", w, NoItem, FALSE, "loop"),
                                     Frame("loop", q, NoItem, TRUE, "loop")>>]
  /\ UNCHANGED <<item, list, alive, deletes, leaked, wild>>

\* ... and by NewNtTerminateThread for the last thread u of a process, its own
\* or another one's, which first reports DBG_EXIT_THREAD and keeps that
\* reference meanwhile.
LastThreadExit(t, u) ==
  /\ Idle(t) /\ Home[u] \in Victims \cap alive /\ terms < MaxTerms
  /\ \A v \in Threads : Home[v] = Home[u] => v = u
  /\ terms' = terms + 1
  /\ LET i == dbg_find_item(NoProc, Home[u])
     IN  IF i = NoItem
           THEN /\ Start(t, Frame("last", Home[u], NoItem, FALSE, "died"))
                /\ UNCHANGED item
           ELSE /\ \E pc \in {"chan", "last"} :
                     Start(t, Frame(pc, Home[u], i, FALSE, "died"))
                /\ item' = Referenced(i)
  /\ UNCHANGED <<list, alive, deletes, leaked, wild>>

ReportLast(t) ==
  /\ At(t, "last")
  /\ stack' = [stack EXCEPT ![t] =
       <<Frame("loop", Top(t).proc, NoItem, FALSE, "loop"),
         [Top(t) EXCEPT !.pc = IF Top(t).item = NoItem THEN "died"
                                                           ELSE "put"]>>
         \o Tail(@)]
  /\ UNCHANGED <<item, list, alive, deletes, leaked, terms, wild>>

\* OldNtTerminateThread of the last thread ends the process.
Died(t) ==
  /\ At(t, "died")
  /\ alive' = alive \ {Top(t).proc}
  /\ stack' = [stack EXCEPT ![t] = Tail(@)]
  /\ UNCHANGED <<item, list, deletes, leaked, terms, wild>>

\* while (debug = dbg_find_item(process, NULL))
FindDebugged(t) ==
  /\ At(t, "loop")
  /\ LET i == dbg_find_item(Top(t).proc, NoProc)
     IN  IF i = NoItem
           THEN Goto(t, "own") /\ UNCHANGED item
           ELSE /\ Put(t, [Top(t) EXCEPT !.pc = "kill", !.item = i])
                /\ item' = Referenced(i)
  /\ UNCHANGED <<list, alive, deletes, leaked, terms, wild>>

\* The process of the handle.  When ObOpenObjectByPointer fails the handle is
\* what the stack held: no handle, or by chance one of some process.
open_process_by_ptr(i, opened) ==
  IF opened THEN {item[i].debugged} ELSE {NoProc} \cup Procs

\* NtTerminateProcess of the debugged process, through the hook, ...
NestedTerminate(t, q) ==
  /\ Len(stack[t]) < MaxDepth
  /\ stack' = [stack EXCEPT ![t] =
       <<Frame("loop", q, NoItem, TRUE, "loop"), [Top(t) EXCEPT !.pc = "deact"]>>
         \o Tail(@)]
KillDebugged(t) ==
  /\ At(t, "kill")
  /\ \E q \in open_process_by_ptr(Top(t).item, TRUE) : NestedTerminate(t, q)
  /\ UNCHANGED <<item, list, alive, deletes, leaked, terms, wild>>

\* ... or, when it cannot be opened, of nothing or of whatever process the
\* uninitialised handle names.
KillStray(t) ==
  /\ At(t, "kill")
  /\ \E q \in open_process_by_ptr(Top(t).item, FALSE) :
       IF q = NoProc
         THEN Goto(t, "deact")
         ELSE NestedTerminate(t, q)
  /\ UNCHANGED <<item, list, alive, deletes, leaked, terms, wild>>

\* if (debug = dbg_find_item(NULL, process))
FindOwn(t) ==
  /\ At(t, "own")
  /\ LET i == dbg_find_item(NoProc, Top(t).proc)
     IN  IF i = NoItem
           THEN Goto(t, "exit") /\ UNCHANGED item
           ELSE /\ Put(t, [Top(t) EXCEPT !.pc = "report", !.item = i,
                                         !.next = "exit"])
                /\ item' = Referenced(i)
  /\ UNCHANGED <<list, alive, deletes, leaked, terms, wild>>

\* The event is masked, or memory or the system thread cannot be had: the
\* reference is dropped and the session stays.
ReportSkipped(t) ==
  /\ At(t, "report") /\ Goto(t, "put")
  /\ UNCHANGED <<item, list, alive, deletes, leaked, terms, wild>>

\* dbg_delayed_term_event is started with the reference.
ReportTerminated(t) ==
  /\ At(t, "report") /\ item[Top(t).item].mask
  /\ \E w \in Workers :
       /\ stack[w] = << >>
       /\ stack' = [stack EXCEPT
            ![w] = <<Frame("chan", Top(t).proc, Top(t).item, FALSE, "done")>>,
            ![t] = <<[Top(t) EXCEPT !.pc = "exit"]>> \o Tail(@)]
  /\ UNCHANGED <<item, list, alive, deletes, leaked, terms, wild>>

\* PsCreateSystemThread fails and start_system_thread returns an
\* uninitialised nonzero value: nobody owns the reference any more.
ReportLost(t) ==
  /\ At(t, "report") /\ item[Top(t).item].mask /\ Goto(t, "exit")
  /\ leaked' = [leaked EXCEPT ![Top(t).item] = @ + 1]
  /\ UNCHANGED <<item, list, alive, deletes, terms, wild>>

\* The frame owns a reference to the item it works on.
Holds(f) ==
  /\ f.item # NoItem
  /\ f.pc \in {"chan_set", "activate", "filter", "chan", "put", "deact",
               "release", "unlist", "unlist0", "kill", "report", "last"}

\* The frames of thread t that hold item i, counted from the outermost one.
Outer(frames, d) == frames[Len(frames) + 1 - d]
HeldBy(t, i) ==
  {d \in 1 .. Len(stack[t]) :
     Holds(Outer(stack[t], d)) /\ Outer(stack[t], d).item = i}

\* OldNtTerminateProcess, and back to the caller ...
Exit(t) ==
  /\ At(t, "exit") /\ ~(Top(t).kill /\ Top(t).proc = Home[t])
  /\ alive' = IF Top(t).kill THEN alive \ {Top(t).proc} ELSE alive
  /\ stack' = [stack EXCEPT ![t] = Tail(@)]
  /\ UNCHANGED <<item, list, deletes, leaked, terms, wild>>

\* ... but not when the thread has terminated its own process: it ends there,
\* and what the frames below still hold is never given back.
ExitSelf(t) ==
  /\ At(t, "exit") /\ Top(t).kill /\ Top(t).proc = Home[t]
  /\ alive' = alive \ {Home[t]}
  /\ stack' = [stack EXCEPT ![t] = << >>]
  /\ leaked' = [i \in Items |-> leaked[i] + Cardinality(HeldBy(t, i))]
  /\ UNCHANGED <<item, list, deletes, terms, wild>>

-----------------------------------------------------------------------------
\* The steps inside a call; a call that has begun is carried through.
Run(t) ==
  \/ AttachNew(t) \/ AttachChan(t) \/ AttachActive(t) \/ AttachRefused(t)
  \/ SetFilter(t)
  \/ Deactivate(t) \/ Release(t) \/ Unlist(t) \/ Deref(t) \/ Destroy(t)
  \/ Return(t)
  \/ ReportLast(t) \/ Died(t)
  \/ FindDebugged(t) \/ KillDebugged(t) \/ KillStray(t) \/ FindOwn(t)
  \/ ReportSkipped(t) \/ ReportTerminated(t) \/ ReportLost(t)
  \/ Exit(t) \/ ExitSelf(t)

Call(t) ==
  \/ NewKiDispatchException(t) \/ load_image_notify_routine(t)
  \/ AttachInvalid(t) \/ \E u \in Threads : LastThreadExit(t, u)
  \/ \E q \in Procs :
       \/ Attach(t, q) \/ dbg_set_filter(t, q)
       \/ dbg_get_message(t, q) \/ dbg_countinue(t, q)
       \/ NewNtCreateThread(t, q) \/ NewNtTerminateThread(t, q)
       \/ NewNtTerminateProcess(t, q)
       \/ \E w \in Procs : dbg_terminate_process(t, q, w)

Next == \/ \E t \in Threads : Call(t)
        \/ \E t \in Actors : Run(t) \/ Answered(t) \/ LeaveChannel(t)

Spec == Init /\ [][Next]_vars

\* Threads inside the driver keep running.  Whether a debugger ever answers
\* is up to its user, and who gets out of a released channel to the channel.
FairSpec == Spec /\ \A t \in Actors : WF_vars(Run(t))

-----------------------------------------------------------------------------
FramePC ==
  {"new", "chan_set", "activate", "refused", "filter", "chan", "put", "put0",
   "deact", "release", "unlist", "unlist0", "loop", "kill", "own", "report",
   "exit", "last", "died", "done"}
FrameType == [pc : FramePC, proc : Procs, item : Items \cup {NoItem},
              kill : BOOLEAN, next : {"done", "refused", "loop", "exit", "died"}]
ItemType == [st : {"unused", "live", "gone"}, active : BOOLEAN,
             debugger : Procs \cup {NoProc}, debugged : Procs \cup {NoProc},
             refs : Int, chan : {"none", "open", "released"}, mask : BOOLEAN]

\* Every variable has its type.
TypeOK ==
  /\ item \in [Items -> ItemType]
  /\ \A i \in Items : item[i].st # "unused" =>
       item[i].debugger \in Procs /\ item[i].debugged \in Procs
  /\ Len(list) \in Nat /\ \A k \in 1 .. Len(list) : list[k] \in Items
  /\ alive \subseteq Procs
  /\ \A t \in Actors : \A k \in 1 .. Len(stack[t]) : stack[t][k] \in FrameType
  /\ deletes \in [Items -> Nat] /\ leaked \in [Items -> Nat]
  /\ terms \in 0 .. MaxTerms
  /\ wild \in BOOLEAN

Holders(i) == UNION {{t} \X HeldBy(t, i) : t \in Actors}

\* ref_count is what the holders and the list account for: every path through
\* the handlers, the hooks and the nested terminations drops what it took.
RefsExact ==
  \A i \in Items : item[i].st = "live" =>
    item[i].refs = Cardinality(Holders(i)) + 1 - deletes[i] + leaked[i]

\* As long as dbg_delete_item runs once for an item, nobody holds a pointer
\* to freed memory, and the list has no freed item either.
NoDanglingItem ==
  \A i \in Items : deletes[i] <= 1 /\ item[i].st = "gone" =>
    Holders(i) = {} /\ \A k \in 1 .. Len(list) : list[k] # i

\* A channel is only used after dbg_attach_call has stored it.
ChannelPresent ==
  \A t \in Actors : At(t, "chan") \/ At(t, "release") =>
    item[Top(t).item].chan # "none"

\* Once dbg_delete_item has dropped the list's reference, the item is freed,
\* unless a reference leaked or some thread stays in the channel for ever: no
\* path through the handlers and hooks keeps it.
SessionEnds ==
  \A i \in Items :
    \/ deletes[i] > 0 ~> item[i].st = "gone" \/ leaked[i] > 0
    \/ <>[](InChannel(i) # {})
=============================================================================
