------------------------------- MODULE UiLoop -------------------------------
(***************************************************************************)
(* The debug loop of the graphical debugger (mainframe.cpp, debugger.cpp,  *)
(* events.cpp and the event handlers of the frames).                       *)
(*                                                                         *)
(* The tracer library calls the thunks of MainFrame on its own thread, one *)
(* thread per debug session.  A thunk posts clones of the event to the     *)
(* frames, waits on a wxCondition and returns what the user decided.  The  *)
(* GUI thread runs the handlers of posted events, the user's commands and  *)
(* two modal dialogs, which dispatch posted events while they are open.    *)
(*                                                                         *)
(* External, modelled from its use here: the tracer library (sessions,     *)
(* thread contexts, the events it reports) and wxWidgets (the queue of     *)
(* posted events, wxCondition as a waiter count and a semaphore, the mutex *)
(* that Wait gives up and takes again).                                    *)
(***************************************************************************)
EXTENDS Integers, Sequences, FiniteSets, Functions

CONSTANTS
  MaxSes,     \* bound: sessions opened
  MaxStops,   \* bound: events reported, over all sessions
  MaxEdits,   \* bound: register edits
  Tids,       \* threads of a debuggee
  First,      \* the first entry of trc_get_thread_list
  Modes,      \* TRC_RUN, TRC_STEP_INTO, TRC_STEP_OVER, TRC_RUN_TIL_RET
  None

ASSUME UiAssumption ==
  /\ MaxSes \in Nat /\ MaxStops \in Nat /\ MaxEdits \in Nat
  /\ First \in Tids
  /\ None \notin Modes

Sessions == 1 .. MaxSes
Frames == {"cpu", "log", "reg", "mem", "stack"}
\* The order in which thunk_dbg_event posts to the frames.
PostOrder == <<"cpu", "log", "reg", "mem", "stack">>

VARIABLES
  m_sesId,    \* Debugger::m_sesId, 0 at first; read by every thread
  opened,     \* how many sessions trc_session_open has made
  valid,      \* sessions the tracer still knows
  pc, ev,     \* per session: where its tracer thread is, the event it reports
  ctx,        \* per session and thread: stop it is at, value of a register
  m_trc_debug,\* MainFrame::m_trc_debug: event and session id
  m_trace_mode, m_userAnswer,
  cond,       \* m_debug_condition and m_except_condition
  queue,      \* posted events, in order
  shown,      \* what the CPU, register, memory and stack frames show
  regOf,      \* RegFrame::m_sesId and m_tid
  gui,        \* handlers the GUI thread is in, innermost first
  edits,      \* register edits so far
  asked,      \* sessions resumed by a command given since they began to wait
  overlap,    \* a session was closed while its tracer thread was in a thunk
  crashed     \* a NULL list was dereferenced

tracer == <<opened, valid, pc, ev, ctx>>
main == <<m_sesId, m_trc_debug, m_trace_mode, m_userAnswer>>
screen == <<shown, regOf, gui, edits>>
vars == <<m_sesId, opened, valid, pc, ev, ctx, m_trc_debug, m_trace_mode,
          m_userAnswer, cond, queue, shown, regOf, gui, edits,
          asked, overlap, crashed>>

NoEvent == [ses |-> 0, n |-> 0, tid |-> First, kind |-> "none"]

\* The events of events.h: what the tracer reported and a session id, copied
\* with the event when it is posted.
TrcDebugEvent(e, ses) == [ev |-> e, ses |-> ses]
TrcExceptEvent(e, ses) == [ev |-> e, ses |-> ses]
TrcProcEvent(e, ses) == [ev |-> e, ses |-> ses]
setDebugEvent(m, e) == [m EXCEPT !.ev = e]
setExceptEvent(m, e) == [m EXCEPT !.ev = e]
setProcEvent(m, e) == [m EXCEPT !.ev = e]
setSesId(m, ses) == [m EXCEPT !.ses = ses]

Fresh == [waiters |-> 0, permits |-> 0, owner |-> 0]
Start == [stop |-> 0, reg |-> 0]
Junk == [stop |-> -1, reg |-> -1]
TRC_SESSION_INVALID == -1
wxYES == 2
wxNO == 8
wxID_YES == 5103

Init ==
  /\ m_sesId = 0 /\ opened = 0 /\ valid = {}
  /\ pc = [s \in Sessions |-> "none"]
  /\ ev = [s \in Sessions |-> NoEvent]
  /\ ctx = [s \in Sessions |-> [t \in Tids |-> Start]]
  /\ m_trc_debug = TrcDebugEvent(NoEvent, 0)
  /\ m_trace_mode = None /\ m_userAnswer = 0
  /\ cond = [c \in {"debug", "except"} |-> Fresh]
  /\ queue = << >>
  /\ shown = [f \in Frames \ {"log"} |-> None]
  /\ regOf = [ses |-> -1, tid |-> First]
  /\ gui = << >> /\ edits = 0
  /\ asked = {} /\ overlap = FALSE /\ crashed = FALSE

-----------------------------------------------------------------------------
(***************************************************************************)
(* wxCondition on Windows.  Wait counts itself in, releases the mutex (a   *)
(* no-op when it does not own it), waits for the semaphore and takes the   *)
(* mutex; Signal does nothing when nobody is counted in.                   *)
(***************************************************************************)
WaitIn(c, s) ==
  cond' = [cond EXCEPT ![c].waiters = @ + 1,
                       ![c].owner = IF @ = s THEN 0 ELSE @]

Signal(c) ==
  cond' = IF cond[c].waiters > 0
          THEN [cond EXCEPT ![c].waiters = @ - 1, ![c].permits = @ + 1]
          ELSE cond

Woken(c) ==
  /\ cond[c].permits > 0
  /\ cond' = [cond EXCEPT ![c].permits = @ - 1]

Locked(c, s) ==
  /\ cond[c].owner = 0
  /\ cond' = [cond EXCEPT ![c].owner = s]

\* A tracer thread ends: the mutexes it owns are abandoned.
Abandoned(s) ==
  [c \in {"debug", "except"} |->
     [cond[c] EXCEPT !.owner = IF @ = s THEN 0 ELSE @]]

\* wxPostEvent: the event is cloned and queued for its handler; the GUI thread
\* serves the handlers in the order in which events were posted to them.
wxPostEvent(h, msg) == queue' = Append(queue, [to |-> h, ev |-> msg.ev, ses |-> msg.ses])

\* The GUI thread dispatches messages: it is idle or in a modal dialog.
Pumping == gui # << >> => Head(gui).f \in {"box", "edit"}

Push(f) == gui' = <<f>> \o gui
Pop == gui' = Tail(gui)

-----------------------------------------------------------------------------
(***************************************************************************)
(* The tracer library.                                                     *)
(***************************************************************************)
Goto(s, to) == pc' = [pc EXCEPT ![s] = to]

Reported == FoldFunction(LAMBDA e, n : e.n + n, 0, ev)

\* The debuggee runs to its next event, which moves its threads.
Report(s, kind, tid) ==
  /\ pc[s] = "run" /\ s \in valid /\ Reported < MaxStops
  /\ kind = "debug" \/ tid = First   \* only a stop's thread is looked at
  /\ ev' = [ev EXCEPT ![s] = [ses |-> s, n |-> @.n + 1, tid |-> tid, kind |-> kind]]
  /\ ctx' = [ctx EXCEPT ![s] = [t \in Tids |-> [@[t] EXCEPT !.stop = ev[s].n + 1]]]
  /\ Goto(s, CASE kind = "debug" -> "d_set" [] kind = "except" -> "e_main"
               [] OTHER -> "p_log")
  /\ UNCHANGED <<opened, valid, main, cond, queue, screen, asked, overlap, crashed>>

\* The thread of a session that was closed ends when its thunk has returned.
Finish(s) ==
  /\ pc[s] = "run" /\ s \notin valid
  /\ Goto(s, "none") /\ cond' = Abandoned(s)
  /\ UNCHANGED <<opened, valid, ev, ctx, main, queue, screen, asked, overlap, crashed>>

-----------------------------------------------------------------------------
(***************************************************************************)
(* thunk_dbg_event, on the tracer thread of session s.                     *)
(***************************************************************************)
DbgSet(s) ==
  /\ pc[s] = "d_set" /\ Goto(s, "d_ses")
  /\ m_trc_debug' = setDebugEvent(m_trc_debug, ev[s])
  /\ UNCHANGED <<opened, valid, ev, ctx, m_sesId, m_trace_mode, m_userAnswer,
                 cond, queue, screen, asked, overlap, crashed>>

\* Mutant: the event goes out without a session id.
DbgSesSkipped(s) ==
  /\ pc[s] = "d_ses" /\ Goto(s, "d_mods")
  /\ UNCHANGED <<opened, valid, ev, ctx, main, cond, queue, screen, asked, overlap, crashed>>

DbgSes(s) ==
  /\ pc[s] = "d_ses" /\ Goto(s, "d_mods")
  /\ m_trc_debug' = setSesId(m_trc_debug, m_sesId)
  /\ UNCHANGED <<opened, valid, ev, ctx, m_sesId, m_trace_mode, m_userAnswer,
                 cond, queue, screen, asked, overlap, crashed>>

\* Two lists are filled from the tracer, in list controls of the GUI thread,
\* which takes their messages when it pumps.  The tracer gives NULL for a
\* session it does not know, and the list is dereferenced.
RefreshList(s, from, to) ==
  /\ pc[s] = from /\ Pumping
  /\ crashed' = (m_sesId \notin valid)
  /\ Goto(s, to)
  /\ UNCHANGED <<opened, valid, ev, ctx, main, cond, queue, screen, asked, overlap>>

RefreshModList(s) == RefreshList(s, "d_mods", "d_threads")
RefreshThreadList(s) == RefreshList(s, "d_threads", "d_post")

\* Clones of m_trc_debug are posted to the five frames.
DbgPost(s) ==
  /\ pc[s] = "d_post" /\ Goto(s, "d_wait")
  /\ queue' = queue \o [i \in DOMAIN PostOrder |->
                         [to |-> PostOrder[i], ev |-> m_trc_debug.ev, ses |-> m_trc_debug.ses]]
  /\ UNCHANGED <<opened, valid, ev, ctx, main, cond, screen, asked, overlap, crashed>>

\* Mutant: the thunk returns the mode it finds without waiting.
DbgWaitNot(s) ==
  /\ pc[s] = "d_wait" /\ Goto(s, "d_return") /\ asked' = asked \ {s}
  /\ UNCHANGED <<opened, valid, ev, ctx, main, cond, queue, screen, overlap, crashed>>

\* m_debug_condition.Wait() is entered.
DbgWait(s) ==
  /\ pc[s] = "d_wait" /\ Goto(s, "d_asleep")
  /\ WaitIn("debug", s) /\ asked' = asked \ {s}
  /\ UNCHANGED <<opened, valid, ev, ctx, main, queue, screen, overlap, crashed>>

DbgWake(s) ==
  /\ pc[s] = "d_asleep" /\ Woken("debug") /\ Goto(s, "d_lock")
  /\ UNCHANGED <<opened, valid, ev, ctx, main, queue, screen, asked, overlap, crashed>>

DbgLock(s) ==
  /\ pc[s] = "d_lock" /\ Locked("debug", s) /\ Goto(s, "d_return")
  /\ UNCHANGED <<opened, valid, ev, ctx, main, queue, screen, asked, overlap, crashed>>

\* get_tracemode: the debuggee goes on as the last command says.
DbgReturn(s) ==
  /\ pc[s] = "d_return" /\ Goto(s, "run")
  /\ UNCHANGED <<opened, valid, ev, ctx, main, cond, queue, screen, asked, overlap, crashed>>

(***************************************************************************)
(* thunk_except_event and thunk_proc_event.  m_trc_except and m_trc_proc   *)
(* are set and posted in one step: their handlers print their fields and   *)
(* use them for nothing else.                                              *)
(***************************************************************************)
ExcMain(s) ==
  /\ pc[s] = "e_main" /\ Goto(s, "e_log")
  /\ wxPostEvent("main", setSesId(setExceptEvent(TrcExceptEvent(NoEvent, 0), ev[s]), m_sesId))
  /\ UNCHANGED <<opened, valid, ev, ctx, main, cond, screen, asked, overlap, crashed>>

ExcLog(s) ==
  /\ pc[s] = "e_log" /\ Goto(s, "e_wait")
  /\ wxPostEvent("log", setSesId(setExceptEvent(TrcExceptEvent(NoEvent, 0), ev[s]), m_sesId))
  /\ UNCHANGED <<opened, valid, ev, ctx, main, cond, screen, asked, overlap, crashed>>

ExcWait(s) ==
  /\ pc[s] = "e_wait" /\ Goto(s, "e_asleep")
  /\ WaitIn("except", s)
  /\ UNCHANGED <<opened, valid, ev, ctx, main, queue, screen, asked, overlap, crashed>>

ExcWake(s) ==
  /\ pc[s] = "e_asleep" /\ Woken("except") /\ Goto(s, "e_lock")
  /\ UNCHANGED <<opened, valid, ev, ctx, main, queue, screen, asked, overlap, crashed>>

ExcLock(s) ==
  /\ pc[s] = "e_lock" /\ Locked("except", s) /\ Goto(s, "e_return")
  /\ UNCHANGED <<opened, valid, ev, ctx, main, queue, screen, asked, overlap, crashed>>

\* TRC_EXC_HANDLE when m_userAnswer is set, else TRC_EXC_NOT_HANDLE.
ExcReturn(s) ==
  /\ pc[s] = "e_return" /\ Goto(s, "run")
  /\ UNCHANGED <<opened, valid, ev, ctx, main, cond, queue, screen, asked, overlap, crashed>>

\* Posts to the log; the session of a terminated process becomes invalid.
ProcLog(s) ==
  /\ pc[s] = "p_log" /\ Goto(s, "run")
  /\ wxPostEvent("log", setSesId(setProcEvent(TrcProcEvent(NoEvent, 0), ev[s]), m_sesId))
  /\ valid' = IF ev[s].kind = "terminate" THEN valid \ {s} ELSE valid
  /\ UNCHANGED <<opened, ev, ctx, main, cond, screen, asked, overlap, crashed>>

-----------------------------------------------------------------------------
(***************************************************************************)
(* The handlers of posted events, on the GUI thread.                       *)
(***************************************************************************)
Take(h) ==
  /\ queue # << >> /\ Head(queue).to = h /\ Pumping
  /\ queue' = Tail(queue)

\* CPUFrame::AddItem disassembles at the event's Eip; the list is cleared
\* first and stays empty when the memory cannot be read.
AddItem ==
  /\ Take("cpu")
  /\ LET e == Head(queue)
     IN  shown' = [shown EXCEPT !["cpu"] = IF e.ses \in valid
                                       THEN TrcDebugEvent(e.ev, e.ses) ELSE None]
  /\ UNCHANGED <<tracer, main, cond, regOf, gui, edits, asked, overlap, crashed>>

\* LogFrame::DbgEventToLog, ExceptEventToLog, ProcEventToLog.
ToLog ==
  /\ Take("log")
  /\ UNCHANGED <<tracer, main, cond, screen, asked, overlap, crashed>>

\* trc_get_thread_ctx into an uninitialised structure, which stays so when the
\* tracer does not know the session; and the text of the registers.
trc_get_thread_ctx(ses, tid) == IF ses \in valid THEN ctx[ses][tid] ELSE Junk
OutputBasic(c) == shown' = [shown EXCEPT !["reg"] = c]

\* Mutant: the thread id of an earlier stop is kept (no SetThreadId).
OutputOldThread ==
  /\ Take("reg")
  /\ LET e == Head(queue)
     IN  /\ regOf' = [regOf EXCEPT !.ses = e.ses]
         /\ OutputBasic(trc_get_thread_ctx(e.ses, regOf.tid))
  /\ UNCHANGED <<tracer, main, cond, gui, edits, asked, overlap, crashed>>

SetContextId(r, sesId) == [r EXCEPT !.ses = sesId]
SetThreadId(r, tid) == [r EXCEPT !.tid = tid]

\* RegFrame::Output reads the registers now, not those of the event.
Output ==
  /\ Take("reg")
  /\ LET e == Head(queue)
     IN  /\ regOf' = SetThreadId(SetContextId(regOf, e.ses), e.ev.tid)
         /\ OutputBasic(trc_get_thread_ctx(e.ses, e.ev.tid))
  /\ UNCHANGED <<tracer, main, cond, gui, edits, asked, overlap, crashed>>

\* OutputMemory of f, read now for the first thread of the list, which is NULL
\* for a session that is over.
OutputMemory(f) ==
  /\ Take(f)
  /\ LET e == Head(queue)
     IN  IF e.ses \in valid
         THEN /\ shown' = [shown EXCEPT ![f] = [ses |-> e.ses, n |-> ev[e.ses].n]]
              /\ UNCHANGED crashed
         ELSE crashed' = TRUE /\ UNCHANGED shown
  /\ UNCHANGED <<tracer, main, cond, regOf, gui, edits, asked, overlap>>

MemRefresh == OutputMemory("mem")       \* MemFrame::RefreshMemory
StackRefresh == OutputMemory("stack")   \* StackFrame::RefreshMemory

\* OnExceptHandle opens a message box,
OnExceptHandle ==
  /\ Take("main") /\ Push([f |-> "box"])
  /\ UNCHANGED <<tracer, main, cond, shown, regOf, edits, asked, overlap, crashed>>

Top(f) == gui # << >> /\ Head(gui).f = f
Instead(f) == gui' = <<f>> \o Tail(gui)

\* compares its result with wxID_YES,
Answered(r) ==
  /\ Top("box") /\ Instead([f |-> "except"])
  /\ m_userAnswer' = IF r = wxID_YES THEN 1 ELSE 0
  /\ UNCHANGED <<tracer, m_sesId, m_trc_debug, m_trace_mode, cond, queue, shown,
                 regOf, edits, asked, overlap, crashed>>

\* and signals m_except_condition.
SignalExcept ==
  /\ Top("except") /\ Pop /\ Signal("except")
  /\ UNCHANGED <<tracer, main, queue, shown, regOf, edits, asked, overlap, crashed>>

-----------------------------------------------------------------------------
(***************************************************************************)
(* The user.  Menus and toolbars are disabled while a dialog is open.      *)
(***************************************************************************)
\* OnRun, OnStepInto, OnStepOver, OnTilRet: the mode, then the signal.
Command(m) ==
  /\ gui = << >> /\ Push([f |-> "signal"])
  /\ m_trace_mode' = m
  /\ UNCHANGED <<tracer, m_sesId, m_trc_debug, m_userAnswer, cond, queue, shown,
                 regOf, edits, asked, overlap, crashed>>

\* Mutant: the mode is set and nobody is woken.
SignalDebugNot ==
  /\ Top("signal") /\ Pop
  /\ UNCHANGED <<tracer, main, cond, queue, shown, regOf, edits, asked,
                 overlap, crashed>>

SignalDebug ==
  /\ Top("signal") /\ Pop /\ Signal("debug")
  /\ asked' = asked \cup {s \in Sessions : pc[s] = "d_asleep"}
  /\ UNCHANGED <<tracer, main, queue, shown, regOf, edits, overlap, crashed>>

\* Debugger::close_session, open_session, load.  TRC_SESSION_INVALID passes
\* the test for a session, m_sesId > 0, m_sesId being unsigned: the tracer is
\* told to close a session it does not know.
close_session == m_sesId' = 0 /\ valid' = valid \ {m_sesId}
open_session(ok) ==
  IF ok THEN /\ opened' = opened + 1 /\ m_sesId' = opened + 1
             /\ valid' = valid \cup {opened + 1}
        ELSE m_sesId' = TRC_SESSION_INVALID /\ UNCHANGED <<opened, valid>>
load(loaded) == IF loaded THEN Goto(opened + 1, "run") ELSE UNCHANGED pc

\* OnOpenModule closes the session there is, when its file dialog is confirmed;
\* while that was open events were handled as they are without it,
OpenClose ==
  /\ gui = << >> /\ opened < MaxSes
  /\ Push([f |-> "open"])
  /\ close_session
  /\ overlap' = (overlap \/ (m_sesId \in Sessions /\ pc[m_sesId] \notin {"run", "none"}))
  /\ UNCHANGED <<opened, pc, ev, ctx, m_trc_debug, m_trace_mode, m_userAnswer,
                 cond, queue, shown, regOf, edits, asked, crashed>>

\* opens another, sets the callbacks and loads the target: the session may
\* not open, or the target not load.
OpenNew(ok, loaded) ==
  /\ Top("open") /\ Pop
  /\ open_session(ok) /\ load(ok /\ loaded)
  /\ UNCHANGED <<ev, ctx, m_trc_debug, m_trace_mode, m_userAnswer, cond, queue,
                 shown, regOf, edits, asked, overlap, crashed>>

\* OnLeftDClick on a register value opens EditRegister's dialog.
OnLeftDClick ==
  /\ gui = << >> /\ shown["reg"] # None /\ edits < MaxEdits
  /\ edits' = edits + 1 /\ Push([f |-> "edit"])
  /\ UNCHANGED <<tracer, main, cond, queue, shown, regOf, asked, overlap, crashed>>

\* The user cancels, or the context is read for the frame's thread of now,
EditGet(ok) ==
  /\ Top("edit")
  /\ IF ok
     THEN Instead([f |-> "set", c |-> trc_get_thread_ctx(regOf.ses, regOf.tid)])
     ELSE Pop
  /\ UNCHANGED <<tracer, main, cond, queue, shown, regOf, edits, asked, overlap, crashed>>

\* written back with the register changed,
WhatBasicRegister(c, val) == [c EXCEPT !.reg = val]
EditSet ==
  /\ Top("set") /\ Instead([f |-> "show"])
  /\ ctx' = IF regOf.ses \in valid
            THEN [ctx EXCEPT ![regOf.ses][regOf.tid] = WhatBasicRegister(Head(gui).c, edits)]
            ELSE ctx
  /\ UNCHANGED <<opened, valid, pc, ev, main, cond, queue, shown, regOf, edits,
                 asked, overlap, crashed>>

\* and read again for OutputBasic.
EditShow ==
  /\ Top("show") /\ Pop
  /\ OutputBasic(trc_get_thread_ctx(regOf.ses, regOf.tid))
  /\ UNCHANGED <<tracer, main, cond, queue, regOf, edits, asked, overlap, crashed>>

-----------------------------------------------------------------------------
Thunk(s) ==
  \/ DbgSet(s) \/ DbgSes(s) \/ RefreshModList(s)
  \/ RefreshThreadList(s) \/ DbgPost(s)
  \/ DbgWait(s) \/ DbgWake(s) \/ DbgLock(s) \/ DbgReturn(s)
  \/ ExcMain(s) \/ ExcLog(s) \/ ExcWait(s) \/ ExcWake(s) \/ ExcLock(s) \/ ExcReturn(s)
  \/ ProcLog(s) \/ Finish(s)

Kinds == {"debug", "except", "thread", "terminate"}

\* A handler the GUI thread is in goes on; posted events are handled.
Dispatch ==
  \/ AddItem \/ ToLog \/ Output \/ OnExceptHandle
  \/ MemRefresh \/ StackRefresh
  \/ SignalExcept \/ SignalDebug \/ EditSet \/ EditShow
  \/ \E ok, loaded \in BOOLEAN : OpenNew(ok, loaded)

\* The user closes the dialog in front.
Close == (\E r \in {wxYES, wxNO} : Answered(r)) \/ (\E ok \in BOOLEAN : EditGet(ok))

Next ==
  /\ ~crashed
  /\ \/ \E s \in Sessions : Thunk(s)
     \/ \E s \in Sessions, k \in Kinds, t \in Tids : Report(s, k, t)
     \/ Dispatch \/ Close \/ OpenClose \/ OnLeftDClick
     \/ \E m \in Modes : Command(m)

Spec == Init /\ [][Next]_vars

(***************************************************************************)
(* The threads run, dialogs are closed, and the user gives a command now   *)
(* and then (strong fairness: dialogs come between).                       *)
(***************************************************************************)
FairSpec ==
  /\ Spec
  /\ \A s \in Sessions : WF_vars(~crashed /\ Thunk(s))
  /\ WF_vars(~crashed /\ Dispatch) /\ WF_vars(~crashed /\ Close)
  /\ SF_vars(~crashed /\ \E m \in Modes : Command(m))

-----------------------------------------------------------------------------
(***************************************************************************)
(* Properties.                                                             *)
(***************************************************************************)
\* When the debuggee of the current session stands at a stop and every posted
\* event has been handled, the frames show that stop: the CPU frame its code,
\* the register frame the registers its thread has now, the memory and stack
\* frames memory read at this stop.  (As long as no session was closed while
\* its tracer thread was in a thunk: then two threads share m_trc_debug.)
ViewsShowStop ==
  \A s \in Sessions :
    (/\ s = m_sesId /\ pc[s] = "d_asleep" /\ ~overlap
     /\ queue = << >>
     /\ \A i \in DOMAIN gui : gui[i].f \notin {"set", "show"})
    => /\ shown["cpu"] = TrcDebugEvent(ev[s], s)
       /\ regOf = [ses |-> s, tid |-> ev[s].tid]
       /\ shown["reg"] = ctx[s][ev[s].tid]
       /\ \A f \in {"mem", "stack"} : shown[f] = [ses |-> s, n |-> ev[s].n]

\* A stop is left only because the user gave a command after the tracer
\* thread had posted the stop to every frame and begun to wait: a command
\* given earlier is not remembered.  (Again without overlapping sessions: a
\* second waiter can take the permit meant for the first.)
ResumedByCommand ==
  \A s \in Sessions :
    pc[s] = "d_return" /\ ~overlap => s \in asked /\ m_trace_mode \in Modes

\* While every session that was opened is still known to the tracer, no
\* handler dereferences a NULL list: only an event handled or reported after
\* its session ended can do that.
NoCrashWhileOpen == crashed => \E s \in 1 .. opened : s \notin valid

\* A debuggee that stands at a breakpoint or step is let go - its thunk returns -
\* when the user gives commands again and again.  With overlapping sessions its
\* tracer thread is woken all the same, but it may stay blocked on m_debug_mutex,
\* which another session's thread, woken before it, took along when it returned to
\* its own debuggee; without overlap that cannot happen.
Blocked(s) == overlap /\ pc[s] = "d_lock" /\ cond["debug"].owner \notin {0, s}
StopLeft ==
  \A s \in Sessions : pc[s] = "d_asleep" ~> (pc[s] = "run" \/ crashed \/ Blocked(s))

=============================================================================
