---------------------------- MODULE UiLoopProofs ----------------------------
(***************************************************************************)
(* The debug loop, for any number of sessions, stops, threads and edits:   *)
(* what the frames show at a stop, why a stop is left, and that no list is *)
(* read of a session that is open.                                         *)
(***************************************************************************)
EXTENDS UiLoop, SequenceTheorems, TLAPS

Pcs == {"none", "run", "d_set", "d_ses", "d_mods", "d_threads", "d_post", "d_wait",
        "d_asleep", "d_lock", "d_return", "e_main", "e_log", "e_wait", "e_asleep",
        "e_lock", "e_return", "p_log"}
Event == [ses : Nat, n : Nat, tid : Tids, kind : Kinds \cup {"none"}]
Context == [stop : Int, reg : Int]
Posted == [to : Frames \cup {"main"}, ev : Event, ses : Int]
Handler == [f : {"box", "except", "signal", "open", "edit", "show"}]
             \cup [f : {"set"}, c : Context]
Views == Frames \ {"log"}

TracerType ==
  /\ opened \in 0 .. MaxSes /\ valid \subseteq 1 .. opened
  /\ m_sesId \in 0 .. opened \cup {TRC_SESSION_INVALID}
  /\ pc \in [Sessions -> Pcs] /\ \A s \in Sessions : pc[s] # "none" => s <= opened
  /\ ev \in [Sessions -> Event]
  /\ ctx \in [Sessions -> [Tids -> Context]]

GuiType ==
  /\ m_trc_debug \in [ev : Event, ses : Int]
  /\ cond \in [{"debug", "except"} -> [waiters : Nat, permits : Nat, owner : Nat]]
  /\ queue \in Seq(Posted)
  /\ shown = [f \in Views |-> shown[f]]
  /\ regOf \in [ses : Int, tid : Tids]
  /\ gui \in Seq(Handler) /\ edits \in Nat
  /\ asked \subseteq Sessions /\ overlap \in BOOLEAN

UiType == TracerType /\ GuiType

\* The tracer thread of s is in a thunk of MainFrame.
InThunk(s) == pc[s] \notin {"none", "run"}

\* OnOpenModule is not entered from, and does not enter, another handler.
OpenAlone ==
  \A i \in 1 .. Len(gui) :
    gui[i].f = "open" => Len(gui) = 1 /\ m_sesId = 0 /\ opened < MaxSes

\* The tracer knows the current session or none.  OnOpenModule is in nobody's
\* way, and while sessions do not overlap only the current session's tracer
\* thread is in a thunk.
SessionInv ==
  /\ valid \subseteq {m_sesId}
  /\ OpenAlone
  /\ ~overlap => \A s \in Sessions : InThunk(s) => s = m_sesId /\ s \in valid

\* Why an event can be of a session the tracer does not know.
ClosedInv ==
  /\ overlap => \E s \in 1 .. opened : s \notin valid
  /\ ~overlap => \A i \in 1 .. Len(queue) : queue[i].ses \in 1 .. opened

\* As long as no command was given nobody was asked to go on.
CommandInv ==
  \/ m_trace_mode \in Modes
  \/ asked = {} /\ \A i \in 1 .. Len(gui) : gui[i].f # "signal"

\* The one waiter, and the permit that wakes it.
ResumeInv ==
  ~overlap =>
     /\ \A s \in Sessions : pc[s] = "d_asleep" =>
          cond["debug"].waiters + cond["debug"].permits = 1
     /\ (\A s \in Sessions : pc[s] # "d_asleep") =>
          cond["debug"].waiters = 0 /\ cond["debug"].permits = 0
     /\ \A s \in Sessions : pc[s] = "d_asleep" /\ cond["debug"].permits > 0 => s \in asked
     /\ \A s \in Sessions : pc[s] \in {"d_lock", "d_return"} => s \in asked

\* m_trc_debug while a stop is on its way to the frames.
DebugInv ==
  ~overlap => \A s \in Sessions :
    /\ pc[s] \in {"d_ses", "d_mods", "d_threads", "d_post"} => m_trc_debug.ev = ev[s]
    /\ pc[s] \in {"d_mods", "d_threads", "d_post"} => m_trc_debug.ses = s

\* What frame f shows once it has handled the stop of s.
Shows(f, s) ==
  CASE f = "cpu" -> shown["cpu"] = TrcDebugEvent(ev[s], s)
    [] f = "reg" -> /\ regOf = [ses |-> s, tid |-> ev[s].tid]
                    /\ \/ shown["reg"] = ctx[s][ev[s].tid]
                       \/ Top("show")
    [] OTHER -> shown[f] = [ses |-> s, n |-> ev[s].n]

\* The last event queued for f is the stop of s; with none queued f shows it.
Coming(f, s) ==
  /\ \A i \in 1 .. Len(queue) :
       queue[i].to = f /\ (\A j \in i + 1 .. Len(queue) : queue[j].to # f)
         => queue[i].ev = ev[s] /\ queue[i].ses = s
  /\ (\A i \in 1 .. Len(queue) : queue[i].to # f) => Shows(f, s)

ViewInv ==
  ~overlap => \A s \in Sessions : pc[s] \in {"d_wait", "d_asleep"} =>
    \A f \in Views : Coming(f, s)

UiInv == UiType /\ SessionInv /\ ClosedInv /\ CommandInv /\ ResumeInv /\ DebugInv /\ ViewInv
-----------------------------------------------------------------------------
\* Sequences.

LEMMA Pushed ==
  ASSUME NEW S, NEW q \in Seq(S), NEW x \in S
  PROVE  /\ <<x>> \o q \in Seq(S) /\ Len(<<x>> \o q) = Len(q) + 1
         /\ (<<x>> \o q)[1] = x
         /\ \A i \in 2 .. Len(q) + 1 : (<<x>> \o q)[i] = q[i - 1]
<1>1. <<x>> \in Seq(S) /\ Len(<<x>>) = 1 /\ <<x>>[1] = x
  OBVIOUS
<1>2. /\ <<x>> \o q \in Seq(S) /\ Len(<<x>> \o q) = Len(<<x>>) + Len(q)
      /\ \A i \in 1 .. Len(<<x>>) + Len(q) :
           (<<x>> \o q)[i] = IF i <= Len(<<x>>) THEN <<x>>[i] ELSE q[i - Len(<<x>>)]
  BY <1>1, ConcatProperties
<1>3. Len(q) \in Nat
  OBVIOUS
<1> QED BY <1>1, <1>2, <1>3

LEMMA Popped ==
  ASSUME NEW S, NEW q \in Seq(S), q # << >>
  PROVE  /\ Head(q) \in S /\ Head(q) = q[1] /\ Len(q) \in Nat /\ Len(q) >= 1
         /\ Tail(q) \in Seq(S) /\ Len(Tail(q)) = Len(q) - 1
         /\ \A i \in 1 .. Len(q) - 1 : Tail(q)[i] = q[i + 1]
BY EmptySeq

LEMMA Appended ==
  ASSUME NEW S, NEW q \in Seq(S), NEW x \in S
  PROVE  /\ Append(q, x) \in Seq(S) /\ Len(Append(q, x)) = Len(q) + 1
         /\ Append(q, x)[Len(q) + 1] = x
         /\ \A i \in 1 .. Len(q) : Append(q, x)[i] = q[i]
BY AppendProperties

-----------------------------------------------------------------------------
\* Types.

\* The five clones of m_trc_debug that thunk_dbg_event posts.
Clones == [i \in DOMAIN PostOrder |->
             [to |-> PostOrder[i], ev |-> m_trc_debug.ev, ses |-> m_trc_debug.ses]]

LEMMA ClonesAre ==
  ASSUME GuiType
  PROVE  /\ Clones \in Seq(Posted) /\ Len(Clones) = 5
         /\ \A i \in 1 .. 5 : Clones[i] = [to |-> PostOrder[i], ev |-> m_trc_debug.ev,
                                           ses |-> m_trc_debug.ses]
         /\ PostOrder[1] = "cpu" /\ PostOrder[2] = "log" /\ PostOrder[3] = "reg"
         /\ PostOrder[4] = "mem" /\ PostOrder[5] = "stack"
<1>1. DOMAIN PostOrder = 1 .. 5 /\ \A i \in 1 .. 5 : PostOrder[i] \in Frames
  BY DEF PostOrder, Frames
<1>2. \A i \in 1 .. 5 : Clones[i] \in Posted
  BY <1>1 DEF Clones, GuiType, Posted
<1>3. Clones \in Seq(Posted) /\ Len(Clones) = 5
  BY <1>1, <1>2, IsASeq DEF Clones
<1> QED BY <1>1, <1>3 DEF Clones, PostOrder

\* A step that moves the tracer thread of s and nothing else of the tracer.
LEMMA MovedType ==
  ASSUME TracerType, NEW s \in Sessions, NEW to \in Pcs, pc[s] # "none",
         pc' = [pc EXCEPT ![s] = to], UNCHANGED <<opened, m_sesId, ev, ctx>>,
         valid' \subseteq valid
  PROVE  TracerType'
BY DEF TracerType

LEMMA CondType ==
  ASSUME GuiType, NEW s \in Sessions, NEW c \in {"debug", "except"},
         \/ WaitIn(c, s) \/ Woken(c) \/ Locked(c, s) \/ cond' = Abandoned(s)
  PROVE  cond' \in [{"debug", "except"} -> [waiters : Nat, permits : Nat, owner : Nat]]
<1>1. s \in Nat /\ cond \in [{"debug", "except"} -> [waiters : Nat, permits : Nat, owner : Nat]]
  BY UiAssumption DEF GuiType, Sessions
<1>2. CASE WaitIn(c, s) BY <1>1, <1>2 DEF WaitIn
<1>3. CASE Woken(c) BY <1>1, <1>3 DEF Woken
<1>4. CASE Locked(c, s) BY <1>1, <1>4 DEF Locked
<1>5. CASE cond' = Abandoned(s) BY <1>1, <1>5 DEF Abandoned
<1> QED BY <1>2, <1>3, <1>4, <1>5

LEMMA SignalType ==
  ASSUME GuiType, NEW c \in {"debug", "except"}, Signal(c)
  PROVE  cond' \in [{"debug", "except"} -> [waiters : Nat, permits : Nat, owner : Nat]]
<1>1. cond \in [{"debug", "except"} -> [waiters : Nat, permits : Nat, owner : Nat]]
  BY DEF GuiType
<1>2. CASE cond[c].waiters > 0
  <2>1. cond[c].waiters - 1 \in Nat /\ cond[c].permits + 1 \in Nat
    BY <1>1, <1>2
  <2> QED BY <1>1, <1>2, <2>1 DEF Signal
<1>3. CASE ~(cond[c].waiters > 0)
  BY <1>1, <1>3 DEF Signal
<1> QED BY <1>2, <1>3

LEMMA PostType ==
  ASSUME UiType, NEW h \in Frames \cup {"main"}, NEW s \in Sessions,
         queue' = Append(queue, [to |-> h, ev |-> ev[s], ses |-> m_sesId])
  PROVE  queue' \in Seq(Posted)
<1>1. [to |-> h, ev |-> ev[s], ses |-> m_sesId] \in Posted
  BY UiAssumption DEF UiType, TracerType, Posted, TRC_SESSION_INVALID
<1> QED BY <1>1, Appended DEF UiType, GuiType

LEMMA TypeThunk ==
  ASSUME UiType, NEW s \in Sessions, Thunk(s)
  PROVE  UiType'
<1>1. CASE DbgSet(s)
  <2>1. TracerType' BY <1>1, MovedType DEF DbgSet, Goto, UiType, Pcs
  <2>2. GuiType' BY <1>1 DEF DbgSet, UiType, GuiType, TracerType, setDebugEvent, screen
  <2> QED BY <2>1, <2>2 DEF UiType
<1>2. CASE DbgSes(s)
  <2>1. TracerType' BY <1>2, MovedType DEF DbgSes, Goto, UiType, Pcs
  <2>2. m_sesId \in Int BY UiAssumption DEF UiType, TracerType, TRC_SESSION_INVALID
  <2>3. GuiType' BY <1>2, <2>2 DEF DbgSes, UiType, GuiType, setSesId, screen
  <2> QED BY <2>1, <2>3 DEF UiType
<1>3. CASE RefreshModList(s) \/ RefreshThreadList(s)
  <2>1. TracerType'
    BY <1>3, MovedType DEF RefreshModList, RefreshThreadList, RefreshList, Goto, UiType, Pcs, main
  <2>2. GuiType'
    BY <1>3 DEF RefreshModList, RefreshThreadList, RefreshList, UiType, GuiType, screen, main
  <2> QED BY <2>1, <2>2 DEF UiType
<1>4. CASE DbgPost(s)
  <2>1. TracerType' BY <1>4, MovedType DEF DbgPost, Goto, UiType, Pcs, main
  <2>2. queue' = queue \o Clones BY <1>4 DEF DbgPost, Clones
  <2>3. queue' \in Seq(Posted) BY <2>2, ClonesAre, ConcatProperties DEF UiType, GuiType
  <2>4. GuiType' BY <1>4, <2>3 DEF DbgPost, UiType, GuiType, screen, main
  <2> QED BY <2>1, <2>4 DEF UiType
<1>5. CASE DbgWait(s)
  <2>1. TracerType' BY <1>5, MovedType DEF DbgWait, Goto, UiType, Pcs, main
  <2>2. GuiType' BY <1>5, CondType DEF DbgWait, UiType, GuiType, screen, main
  <2> QED BY <2>1, <2>2 DEF UiType
<1>6. CASE DbgWake(s)
  <2>1. TracerType' BY <1>6, MovedType DEF DbgWake, Goto, UiType, Pcs, main
  <2>2. GuiType' BY <1>6, CondType DEF DbgWake, UiType, GuiType, screen, main
  <2> QED BY <2>1, <2>2 DEF UiType
<1>7. CASE DbgLock(s)
  <2>1. TracerType' BY <1>7, MovedType DEF DbgLock, Goto, UiType, Pcs, main
  <2>2. GuiType' BY <1>7, CondType DEF DbgLock, UiType, GuiType, screen, main
  <2> QED BY <2>1, <2>2 DEF UiType
<1>8. CASE DbgReturn(s) \/ ExcReturn(s)
  <2>1. TracerType' BY <1>8, MovedType DEF DbgReturn, ExcReturn, Goto, UiType, Pcs, main
  <2>2. GuiType' BY <1>8 DEF DbgReturn, ExcReturn, UiType, GuiType, screen, main
  <2> QED BY <2>1, <2>2 DEF UiType
<1>9. CASE ExcMain(s) \/ ExcLog(s)
  <2>1. TracerType' BY <1>9, MovedType DEF ExcMain, ExcLog, Goto, UiType, Pcs, main
  <2>2. queue' \in Seq(Posted)
    BY <1>9, PostType
       DEF ExcMain, ExcLog, wxPostEvent, setSesId, setExceptEvent, TrcExceptEvent, Frames
  <2>3. GuiType' BY <1>9, <2>2 DEF ExcMain, ExcLog, UiType, GuiType, screen, main
  <2> QED BY <2>1, <2>3 DEF UiType
<1>10. CASE ExcWait(s)
  <2>1. TracerType' BY <1>10, MovedType DEF ExcWait, Goto, UiType, Pcs, main
  <2>2. GuiType' BY <1>10, CondType DEF ExcWait, UiType, GuiType, screen, main
  <2> QED BY <2>1, <2>2 DEF UiType
<1>11. CASE ExcWake(s)
  <2>1. TracerType' BY <1>11, MovedType DEF ExcWake, Goto, UiType, Pcs, main
  <2>2. GuiType' BY <1>11, CondType DEF ExcWake, UiType, GuiType, screen, main
  <2> QED BY <2>1, <2>2 DEF UiType
<1>12. CASE ExcLock(s)
  <2>1. TracerType' BY <1>12, MovedType DEF ExcLock, Goto, UiType, Pcs, main
  <2>2. GuiType' BY <1>12, CondType DEF ExcLock, UiType, GuiType, screen, main
  <2> QED BY <2>1, <2>2 DEF UiType
<1>13. CASE ProcLog(s)
  <2>1. TracerType' BY <1>13, MovedType DEF ProcLog, Goto, UiType, Pcs, main
  <2>2. queue' \in Seq(Posted)
    BY <1>13, PostType
       DEF ProcLog, wxPostEvent, setSesId, setProcEvent, TrcProcEvent, Frames
  <2>3. GuiType' BY <1>13, <2>2 DEF ProcLog, UiType, GuiType, screen, main
  <2> QED BY <2>1, <2>3 DEF UiType
<1>14. CASE Finish(s)
  <2>1. TracerType' BY <1>14, MovedType DEF Finish, Goto, UiType, Pcs, main
  <2>2. GuiType' BY <1>14, CondType DEF Finish, UiType, GuiType, screen, main
  <2> QED BY <2>1, <2>2 DEF UiType
<1> QED BY <1>1, <1>2, <1>3, <1>4, <1>5, <1>6, <1>7, <1>8, <1>9, <1>10, <1>11,
           <1>12, <1>13, <1>14 DEF Thunk

LEMMA TypeReport ==
  ASSUME UiType, NEW s \in Sessions, NEW kind \in Kinds, NEW tid \in Tids,
         Report(s, kind, tid)
  PROVE  UiType'
<1>1. /\ ev \in [Sessions -> Event] /\ ctx \in [Sessions -> [Tids -> Context]]
      /\ s \in Nat /\ ev[s].n + 1 \in Nat
  BY UiAssumption DEF UiType, TracerType, Sessions, Event
<1>2. [ses |-> s, n |-> ev[s].n + 1, tid |-> tid, kind |-> kind] \in Event
  BY <1>1 DEF Event
<1>3. ev' \in [Sessions -> Event]
  BY <1>1, <1>2 DEF Report
<1>4. [t \in Tids |-> [ctx[s][t] EXCEPT !.stop = ev[s].n + 1]] \in [Tids -> Context]
  <2>1. \A c \in Context, n \in Nat : [c EXCEPT !.stop = n] \in Context
    BY DEF Context
  <2>2. \A t \in Tids : ctx[s][t] \in Context
    BY <1>1
  <2> QED BY <1>1, <2>1, <2>2
<1>5. ctx' \in [Sessions -> [Tids -> Context]]
  BY <1>1, <1>4 DEF Report
<1>6. \E to \in Pcs : pc' = [pc EXCEPT ![s] = to]
  <2>1. CASE kind = "debug" BY <2>1 DEF Report, Goto, Pcs
  <2>2. CASE kind = "except" BY <2>2 DEF Report, Goto, Pcs
  <2>3. CASE kind \notin {"debug", "except"} BY <2>3 DEF Report, Goto, Pcs
  <2> QED BY <2>1, <2>2, <2>3
<1>7. pc[s] = "run"
  BY DEF Report
<1>8. TracerType'
  BY <1>3, <1>5, <1>6, <1>7 DEF Report, UiType, TracerType, main
<1>9. GuiType'
  BY DEF Report, UiType, GuiType, main, screen
<1> QED BY <1>8, <1>9 DEF UiType

\* The GUI thread enters, changes or leaves a handler.
LEMMA HandlerType ==
  ASSUME gui \in Seq(Handler), NEW h \in Handler,
         \/ Push(h) \/ (gui # << >> /\ (Pop \/ Instead(h)))
  PROVE  gui' \in Seq(Handler)
<1>1. CASE Push(h) BY <1>1, Pushed DEF Push
<1>2. CASE gui # << >> /\ Pop BY <1>2, Popped DEF Pop
<1>3. CASE gui # << >> /\ Instead(h)
  BY <1>3, Popped, Pushed DEF Instead
<1> QED BY <1>1, <1>2, <1>3

LEMMA TakenIs ==
  ASSUME GuiType, NEW h, Take(h)
  PROVE  /\ Head(queue) \in Posted /\ Head(queue) = queue[1] /\ queue[1].to = h
         /\ queue' \in Seq(Posted) /\ Len(queue) >= 1 /\ Len(queue') = Len(queue) - 1
         /\ \A i \in 1 .. Len(queue) - 1 : queue'[i] = queue[i + 1]
BY Popped DEF GuiType, Take

LEMMA ContextRead ==
  ASSUME TracerType, NEW ses, NEW tid \in Tids
  PROVE  trc_get_thread_ctx(ses, tid) \in Context
<1>1. Junk \in Context
  BY DEF Junk, Context
<1>2. ses \in valid => ses \in Sessions
  BY UiAssumption DEF TracerType, Sessions
<1> QED BY <1>1, <1>2 DEF trc_get_thread_ctx, TracerType

LEMMA TypeDispatch ==
  ASSUME UiType, SessionInv, Dispatch
  PROVE  UiType'
<1> USE DEF tracer, main, screen
<1>0. gui \in Seq(Handler) BY DEF UiType, GuiType
<1>1. CASE AddItem
  <2>1. TracerType' BY <1>1 DEF AddItem, UiType, TracerType
  <2>2. shown' = [f \in Views |-> shown'[f]]
    BY <1>1 DEF AddItem, UiType, GuiType
  <2>3. GuiType' BY <1>1, <2>2, TakenIs DEF AddItem, UiType, GuiType
  <2> QED BY <2>1, <2>3 DEF UiType
<1>2. CASE ToLog
  <2>1. TracerType' BY <1>2 DEF ToLog, UiType, TracerType
  <2>3. GuiType' BY <1>2, TakenIs DEF ToLog, UiType, GuiType
  <2> QED BY <2>1, <2>3 DEF UiType
<1>3. CASE Output
  <2>1. TracerType' BY <1>3 DEF Output, UiType, TracerType
  <2>2. shown' = [f \in Views |-> shown'[f]]
    BY <1>3 DEF Output, OutputBasic, UiType, GuiType
  <2>3. Head(queue).ses \in Int /\ Head(queue).ev.tid \in Tids
    BY <1>3, TakenIs DEF Output, UiType, Posted, Event
  <2>4. regOf' \in [ses : Int, tid : Tids]
    BY <1>3, <2>3 DEF Output, SetThreadId, SetContextId, UiType, GuiType
  <2>5. GuiType' BY <1>3, <2>2, <2>4, TakenIs DEF Output, UiType, GuiType
  <2> QED BY <2>1, <2>5 DEF UiType
<1>4. CASE OnExceptHandle
  <2>1. TracerType' BY <1>4 DEF OnExceptHandle, UiType, TracerType
  <2>2. gui' \in Seq(Handler)
    BY <1>0, <1>4, HandlerType DEF OnExceptHandle, Handler
  <2>3. GuiType' BY <1>4, <2>2, TakenIs DEF OnExceptHandle, UiType, GuiType
  <2> QED BY <2>1, <2>3 DEF UiType
<1>5. ASSUME NEW f \in {"mem", "stack"}, OutputMemory(f) PROVE UiType'
  <2>1. TracerType' BY <1>5 DEF OutputMemory, UiType, TracerType
  <2>2. shown' = [v \in Views |-> shown'[v]]
    BY <1>5 DEF OutputMemory, UiType, GuiType
  <2>3. GuiType' BY <1>5, <2>2, TakenIs DEF OutputMemory, UiType, GuiType
  <2> QED BY <2>1, <2>3 DEF UiType
<1>6. CASE SignalExcept
  <2>1. TracerType' BY <1>6 DEF SignalExcept, UiType, TracerType
  <2>2. gui' \in Seq(Handler)
    BY <1>0, <1>6, Popped DEF SignalExcept, Pop, Top
  <2>3. cond' \in [{"debug", "except"} -> [waiters : Nat, permits : Nat, owner : Nat]]
    BY <1>6, SignalType DEF SignalExcept, UiType
  <2>4. GuiType' BY <1>6, <2>2, <2>3 DEF SignalExcept, UiType, GuiType
  <2> QED BY <2>1, <2>4 DEF UiType
<1>7. CASE SignalDebug
  <2>1. TracerType' BY <1>7 DEF SignalDebug, UiType, TracerType
  <2>2. gui' \in Seq(Handler)
    BY <1>0, <1>7, Popped DEF SignalDebug, Pop, Top
  <2>3. cond' \in [{"debug", "except"} -> [waiters : Nat, permits : Nat, owner : Nat]]
    BY <1>7, SignalType DEF SignalDebug, UiType
  <2>4. GuiType' BY <1>7, <2>2, <2>3 DEF SignalDebug, UiType, GuiType
  <2> QED BY <2>1, <2>4 DEF UiType
<1>8. CASE EditSet
  <2>1. gui # << >> /\ Head(gui) \in Handler /\ Head(gui).f = "set"
    BY <1>0, <1>8, Popped DEF EditSet, Top
  <2>2. Head(gui).c \in Context /\ edits \in Int
    BY <2>1 DEF Handler, UiType, GuiType
  <2>3. WhatBasicRegister(Head(gui).c, edits) \in Context
    BY <2>2 DEF WhatBasicRegister, Context
  <2>4. regOf.tid \in Tids /\ (regOf.ses \in valid => regOf.ses \in Sessions)
    BY UiAssumption DEF UiType, GuiType, TracerType, Sessions
  <2>5. ctx' \in [Sessions -> [Tids -> Context]]
    BY <1>8, <2>3, <2>4 DEF EditSet, UiType, TracerType
  <2>6. TracerType' BY <1>8, <2>5 DEF EditSet, UiType, TracerType
  <2>7. gui' \in Seq(Handler)
    BY <1>0, <1>8, <2>1, HandlerType DEF EditSet, Handler
  <2>8. GuiType' BY <1>8, <2>7 DEF EditSet, UiType, GuiType
  <2> QED BY <2>6, <2>8 DEF UiType
<1>9. CASE EditShow
  <2>1. TracerType' BY <1>9 DEF EditShow, UiType, TracerType
  <2>2. shown' = [f \in Views |-> shown'[f]]
    BY <1>9 DEF EditShow, OutputBasic, UiType, GuiType
  <2>3. gui' \in Seq(Handler)
    BY <1>0, <1>9, Popped DEF EditShow, Pop, Top
  <2>4. GuiType' BY <1>9, <2>2, <2>3 DEF EditShow, UiType, GuiType
  <2> QED BY <2>1, <2>4 DEF UiType
<1>10. ASSUME NEW ok \in BOOLEAN, NEW loaded \in BOOLEAN, OpenNew(ok, loaded)
       PROVE  UiType'
  <2>1. gui # << >> /\ Head(gui) = gui[1] /\ Len(gui) \in Nat /\ Len(gui) >= 1
        /\ Head(gui).f = "open"
    BY <1>0, <1>10, Popped DEF OpenNew, Top
  <2>2. opened < MaxSes /\ opened \in Nat /\ MaxSes \in Nat
    BY <2>1, <1>10, UiAssumption DEF SessionInv, OpenAlone, UiType, TracerType
  <2>3. /\ opened' \in 0 .. MaxSes /\ opened <= opened' /\ valid' \subseteq 1 .. opened'
        /\ m_sesId' \in 0 .. opened' \cup {TRC_SESSION_INVALID}
    <3>1. valid \subseteq 1 .. opened
      BY DEF UiType, TracerType
    <3>2. CASE ok
      <4>1. /\ opened' = opened + 1 /\ m_sesId' = opened + 1
            /\ valid' = valid \cup {opened + 1}
        BY <1>10, <3>2 DEF OpenNew, open_session
      <4> QED BY <2>2, <3>1, <4>1
    <3>3. CASE ~ok
      <4>1. opened' = opened /\ m_sesId' = TRC_SESSION_INVALID /\ valid' = valid
        BY <1>10, <3>3 DEF OpenNew, open_session
      <4> QED BY <2>2, <3>1, <4>1
    <3> QED BY <3>2, <3>3
  <2>4. pc' \in [Sessions -> Pcs] /\ \A s \in Sessions : pc'[s] # "none" => s <= opened'
    <3>1. CASE ok /\ loaded
      BY <1>10, <2>2, <3>1 DEF OpenNew, open_session, load, Goto, UiType, TracerType, Sessions, Pcs
    <3>2. CASE ~(ok /\ loaded)
      BY <1>10, <2>2, <2>3, <3>2 DEF OpenNew, load, UiType, TracerType, Sessions
    <3> QED BY <3>1, <3>2
  <2>5. TracerType' BY <1>10, <2>3, <2>4 DEF OpenNew, UiType, TracerType
  <2>6. gui' \in Seq(Handler)
    BY <1>0, <1>10, <2>1, Popped DEF OpenNew, Pop
  <2>7. GuiType' BY <1>10, <2>6 DEF OpenNew, UiType, GuiType
  <2> QED BY <2>5, <2>7 DEF UiType
<1> QED BY <1>1, <1>2, <1>3, <1>4, <1>5, <1>6, <1>7, <1>8, <1>9, <1>10
        DEF Dispatch, MemRefresh, StackRefresh

LEMMA TypeUser ==
  ASSUME UiType, Close \/ OpenClose \/ OnLeftDClick \/ (\E m \in Modes : Command(m))
  PROVE  UiType'
<1> USE DEF tracer, main, screen
<1>0. gui \in Seq(Handler) BY DEF UiType, GuiType
<1>1. ASSUME NEW r \in {wxYES, wxNO}, Answered(r) PROVE UiType'
  <2>1. TracerType' BY <1>1 DEF Answered, UiType, TracerType
  <2>2. gui' \in Seq(Handler)
    BY <1>0, <1>1, HandlerType DEF Answered, Handler, Top
  <2>3. GuiType' BY <1>1, <2>2 DEF Answered, UiType, GuiType
  <2> QED BY <2>1, <2>3 DEF UiType
<1>2. ASSUME NEW ok \in BOOLEAN, EditGet(ok) PROVE UiType'
  <2>1. TracerType' BY <1>2 DEF EditGet, UiType, TracerType
  <2> DEFINE h == [f |-> "set", c |-> trc_get_thread_ctx(regOf.ses, regOf.tid)]
  <2>2. h \in Handler
    <3>1. trc_get_thread_ctx(regOf.ses, regOf.tid) \in Context
      BY ContextRead DEF UiType, GuiType
    <3> QED BY <3>1 DEF Handler
  <2>3. gui # << >> /\ (Pop \/ Instead(h))
    BY <1>2 DEF EditGet, Top
  <2> HIDE DEF h
  <2>4. gui' \in Seq(Handler)
    BY <1>0, <2>2, <2>3, HandlerType
  <2>5. GuiType' BY <1>2, <2>4 DEF EditGet, UiType, GuiType
  <2> QED BY <2>1, <2>5 DEF UiType
<1>3. CASE OpenClose
  <2>1. gui' \in Seq(Handler)
    BY <1>0, <1>3, HandlerType DEF OpenClose, Handler
  <2>2. TracerType'
    BY <1>3, UiAssumption DEF OpenClose, close_session, UiType, TracerType
  <2>3. overlap' \in BOOLEAN
    BY <1>3, Zenon DEF OpenClose
  <2>4. GuiType' BY <1>3, <2>1, <2>3 DEF OpenClose, UiType, GuiType
  <2> QED BY <2>2, <2>4 DEF UiType
<1>4. CASE OnLeftDClick
  <2>1. TracerType' BY <1>4 DEF OnLeftDClick, UiType, TracerType
  <2>2. gui' \in Seq(Handler)
    BY <1>0, <1>4, HandlerType DEF OnLeftDClick, Handler
  <2>3. GuiType' BY <1>4, <2>2 DEF OnLeftDClick, UiType, GuiType
  <2> QED BY <2>1, <2>3 DEF UiType
<1>5. ASSUME NEW m \in Modes, Command(m) PROVE UiType'
  <2>1. TracerType' BY <1>5 DEF Command, UiType, TracerType
  <2>2. gui' \in Seq(Handler)
    BY <1>0, <1>5, HandlerType DEF Command, Handler
  <2>3. GuiType' BY <1>5, <2>2 DEF Command, UiType, GuiType
  <2> QED BY <2>1, <2>3 DEF UiType
<1> QED BY <1>1, <1>2, <1>3, <1>4, <1>5 DEF Close

LEMMA TypeStep ==
  ASSUME UiType, SessionInv, [Next]_vars
  PROVE  UiType'
<1>1. CASE UNCHANGED vars
  BY <1>1 DEF vars, UiType, TracerType, GuiType
<1> QED BY <1>1, TypeThunk, TypeReport, TypeDispatch, TypeUser DEF Next

LEMMA TypeInit == Init => UiType
<1> SUFFICES ASSUME Init PROVE UiType
  OBVIOUS
<1>1. NoEvent \in Event
  BY UiAssumption DEF NoEvent, Event
<1>2. Start \in Context /\ Fresh \in [waiters : Nat, permits : Nat, owner : Nat]
  BY DEF Start, Context, Fresh
<1>3. TracerType
  BY <1>1, <1>2, UiAssumption DEF Init, TracerType, Pcs
<1>4. << >> \in Seq(Posted) /\ << >> \in Seq(Handler)
  OBVIOUS
<1>5. /\ m_trc_debug \in [ev : Event, ses : Int]
      /\ cond \in [{"debug", "except"} -> [waiters : Nat, permits : Nat, owner : Nat]]
      /\ regOf \in [ses : Int, tid : Tids]
  BY <1>1, <1>2, UiAssumption DEF Init, TrcDebugEvent
<1>6. shown = [f \in Views |-> shown[f]]
  BY DEF Init, Views
<1>7. overlap \in BOOLEAN
  BY DEF Init
<1>8. GuiType
  BY <1>4, <1>5, <1>6, <1>7 DEF Init, GuiType
<1> QED BY <1>3, <1>8 DEF UiType

-----------------------------------------------------------------------------
\* Sessions.

\* What a step does to the handlers the GUI thread is in.
LEMMA HandlersFrom ==
  ASSUME gui \in Seq(Handler), NEW h \in Handler,
         \/ Push(h) \/ (gui # << >> /\ (Pop \/ Instead(h)))
  PROVE  \A i \in 1 .. Len(gui') : gui'[i] = h \/ \E j \in 1 .. Len(gui) : gui'[i] = gui[j]
<1>1. CASE Push(h)
  <2>1. /\ gui' = <<h>> \o gui /\ Len(gui') = Len(gui) + 1 /\ gui'[1] = h
        /\ \A i \in 2 .. Len(gui) + 1 : gui'[i] = gui[i - 1]
    BY <1>1, Pushed DEF Push
  <2>2. \A i \in 2 .. Len(gui) + 1 : i - 1 \in 1 .. Len(gui)
    OBVIOUS
  <2> QED BY <2>1, <2>2
<1>2. CASE gui # << >> /\ Pop
  <2>1. /\ Len(gui') = Len(gui) - 1 /\ Len(gui) \in Nat
        /\ \A i \in 1 .. Len(gui) - 1 : gui'[i] = gui[i + 1]
    BY <1>2, Popped DEF Pop
  <2> QED BY <2>1
<1>3. CASE gui # << >> /\ Instead(h)
  <2>1. /\ Tail(gui) \in Seq(Handler) /\ Len(Tail(gui)) = Len(gui) - 1 /\ Len(gui) \in Nat
        /\ \A i \in 1 .. Len(gui) - 1 : Tail(gui)[i] = gui[i + 1]
    BY <1>3, Popped
  <2>2. /\ Len(gui') = Len(Tail(gui)) + 1 /\ gui'[1] = h
        /\ \A i \in 2 .. Len(Tail(gui)) + 1 : gui'[i] = Tail(gui)[i - 1]
    BY <1>3, <2>1, Pushed DEF Instead
  <2>3. \A i \in 2 .. Len(gui) : gui'[i] = gui[i]
    BY <2>1, <2>2
  <2> QED BY <2>1, <2>2, <2>3
<1> QED BY <1>1, <1>2, <1>3

LEMMA OpenOnTop ==
  ASSUME gui \in Seq(Handler), OpenAlone, NEW f, Top(f), f # "open"
  PROVE  gui # << >> /\ \A i \in 1 .. Len(gui) : gui[i].f # "open"
BY Popped DEF OpenAlone, Top

LEMMA OpenPumping ==
  ASSUME gui \in Seq(Handler), OpenAlone, Pumping
  PROVE  \A i \in 1 .. Len(gui) : gui[i].f # "open"
<1>1. CASE gui = << >> BY <1>1
<1>2. CASE gui # << >> BY <1>2, Popped DEF OpenAlone, Pumping
<1> QED BY <1>1, <1>2

\* A step of another handler leaves no OnOpenModule behind.
LEMMA NoneOpen ==
  ASSUME gui \in Seq(Handler), \A i \in 1 .. Len(gui) : gui[i].f # "open",
         NEW h \in Handler, h.f # "open",
         \/ Push(h) \/ (gui # << >> /\ (Pop \/ Instead(h)))
  PROVE  OpenAlone'
<1>1. \A i \in 1 .. Len(gui') : gui'[i].f # "open"
  BY HandlersFrom
<1> QED BY <1>1 DEF OpenAlone

LEMMA OpenStep ==
  ASSUME UiType, OpenAlone, [Next]_vars
  PROVE  OpenAlone'
<1> USE DEF tracer, main, screen
<1>0. gui \in Seq(Handler) BY DEF UiType, GuiType
<1>1. CASE UNCHANGED <<gui, m_sesId, opened>>
  BY <1>1 DEF OpenAlone
<1>2. ASSUME NEW s \in Sessions, Thunk(s)
      PROVE  UNCHANGED <<gui, m_sesId, opened>>
  BY <1>2
     DEF Thunk, DbgSet, DbgSes, RefreshModList, RefreshThreadList, RefreshList, DbgPost,
         DbgWait, DbgWake, DbgLock, DbgReturn, ExcMain, ExcLog, ExcWait, ExcWake,
         ExcLock, ExcReturn, ProcLog, Finish
<1>3. ASSUME NEW s \in Sessions, NEW k \in Kinds, NEW t \in Tids, Report(s, k, t)
      PROVE  UNCHANGED <<gui, m_sesId, opened>>
  BY <1>3 DEF Report
<1>4. CASE AddItem \/ ToLog \/ Output \/ MemRefresh \/ StackRefresh
  BY <1>1, <1>4 DEF AddItem, ToLog, Output, MemRefresh, StackRefresh, OutputMemory
<1>5. CASE OnExceptHandle
  <2>1. [f |-> "box"] \in Handler BY DEF Handler
  <2> QED BY <1>0, <1>5, <2>1, OpenPumping, NoneOpen DEF OnExceptHandle, Take
<1>6. ASSUME Top("except") \/ Top("signal") \/ Top("show") \/ Top("edit"), Pop
      PROVE  OpenAlone'
  <2>1. [f |-> "box"] \in Handler BY DEF Handler
  <2> QED BY <1>0, <1>6, <2>1, OpenOnTop, NoneOpen
<1>7. CASE SignalExcept \/ SignalDebug \/ EditShow
  BY <1>6, <1>7 DEF SignalExcept, SignalDebug, EditShow
<1>8. CASE EditSet
  <2>1. [f |-> "show"] \in Handler BY DEF Handler
  <2> QED BY <1>0, <1>8, <2>1, OpenOnTop, NoneOpen DEF EditSet
<1>9. ASSUME NEW ok \in BOOLEAN, NEW loaded \in BOOLEAN, OpenNew(ok, loaded)
      PROVE  OpenAlone'
  <2>1. gui # << >> /\ Head(gui).f = "open" /\ Pop
    BY <1>9 DEF OpenNew, Top
  <2>2. Len(gui) = 1
    BY <1>0, <2>1, Popped DEF OpenAlone
  <2>3. Len(gui') = 0
    BY <1>0, <2>1, <2>2, Popped DEF Pop
  <2> QED BY <2>3 DEF OpenAlone
<1>10. ASSUME NEW r \in {wxYES, wxNO}, Answered(r)
       PROVE  OpenAlone'
  <2>1. [f |-> "except"] \in Handler BY DEF Handler
  <2> QED BY <1>0, <1>10, <2>1, OpenOnTop, NoneOpen DEF Answered
<1>11. ASSUME NEW ok \in BOOLEAN, EditGet(ok)
       PROVE  OpenAlone'
  <2> DEFINE h == [f |-> "set", c |-> trc_get_thread_ctx(regOf.ses, regOf.tid)]
  <2>1. h \in Handler /\ h.f # "open"
    BY ContextRead DEF UiType, GuiType, Handler
  <2>2. Top("edit") /\ (Pop \/ Instead(h))
    BY <1>11 DEF EditGet
  <2> HIDE DEF h
  <2> QED BY <1>0, <2>1, <2>2, OpenOnTop, NoneOpen
<1>12. CASE OpenClose
  <2>1. gui = << >> /\ gui' = <<[f |-> "open"]>> \o gui
    BY <1>12 DEF OpenClose, Push
  <2>2. [f |-> "open"] \in Handler BY DEF Handler
  <2>3. Len(gui') = 1
    BY <1>0, <2>1, <2>2, Pushed
  <2>4. m_sesId' = 0 /\ opened' < MaxSes
    BY <1>12 DEF OpenClose, close_session
  <2> QED BY <2>3, <2>4 DEF OpenAlone
<1>13. CASE OnLeftDClick
  <2>1. [f |-> "edit"] \in Handler BY DEF Handler
  <2> QED BY <1>0, <1>13, <2>1, NoneOpen DEF OnLeftDClick
<1>14. ASSUME NEW m \in Modes, Command(m)
       PROVE  OpenAlone'
  <2>1. [f |-> "signal"] \in Handler BY DEF Handler
  <2> QED BY <1>0, <1>14, <2>1, NoneOpen DEF Command
<1>15. CASE UNCHANGED vars
  BY <1>1, <1>15 DEF vars
<1> QED BY <1>1, <1>2, <1>3, <1>4, <1>5, <1>7, <1>8, <1>9, <1>10, <1>11, <1>12, <1>13,
           <1>14, <1>15 DEF Next, Dispatch, Close

\* A tracer thread moves alone, and its session stays known while it is in a
\* thunk.
LEMMA ThunkMoves ==
  ASSUME UiType, NEW s \in Sessions, Thunk(s)
  PROVE  /\ UNCHANGED <<m_sesId, opened, overlap, ev, ctx, gui, m_trace_mode, shown, regOf>>
         /\ \A o \in Sessions : o # s => pc'[o] = pc[o]
         /\ valid' \subseteq valid
         /\ InThunk(s)' => InThunk(s) /\ valid' = valid
<1> USE DEF main, screen, Goto, InThunk
<1>1. pc \in [Sessions -> Pcs]
  BY DEF UiType, TracerType
<1>2. CASE ProcLog(s) BY <1>1, <1>2 DEF ProcLog
<1>3. CASE Finish(s) BY <1>1, <1>3 DEF Finish
<1>4. CASE ~ProcLog(s) /\ ~Finish(s)
  BY <1>1, <1>4
     DEF Thunk, DbgSet, DbgSes, RefreshModList, RefreshThreadList, RefreshList, DbgPost,
         DbgWait, DbgWake, DbgLock, DbgReturn, ExcMain, ExcLog, ExcWait, ExcWake,
         ExcLock, ExcReturn
<1> QED BY <1>2, <1>3, <1>4

\* The steps of the GUI thread other than those of OnOpenModule.
Handling ==
  \/ AddItem \/ ToLog \/ Output \/ OnExceptHandle \/ MemRefresh \/ StackRefresh
  \/ SignalExcept \/ SignalDebug \/ EditSet \/ EditShow
  \/ Close \/ OnLeftDClick \/ \E m \in Modes : Command(m)

LEMMA HandlingMoves ==
  ASSUME Handling
  PROVE  UNCHANGED <<m_sesId, opened, valid, pc, ev, overlap, m_trc_debug>>
BY DEF Handling, AddItem, ToLog, Output, OnExceptHandle, MemRefresh, StackRefresh,
       OutputMemory, SignalExcept, SignalDebug, EditSet, EditShow, Close, Answered,
       EditGet, OnLeftDClick, Command, tracer, main, screen

LEMMA FinishKeeps ==
  ASSUME UiType, NEW s \in Sessions, Thunk(s), ~InThunk(s)
  PROVE  valid' = valid
BY DEF InThunk, Thunk, DbgSet, DbgSes, RefreshModList, RefreshThreadList, RefreshList,
       DbgPost, DbgWait, DbgWake, DbgLock, DbgReturn, ExcMain, ExcLog, ExcWait, ExcWake,
       ExcLock, ExcReturn, ProcLog, Finish, main, screen

LEMMA SessionStep ==
  ASSUME UiType, SessionInv, [Next]_vars
  PROVE  SessionInv'
<1>0. /\ OpenAlone' /\ valid \subseteq {m_sesId} /\ valid \subseteq Sessions
      /\ pc \in [Sessions -> Pcs] /\ opened \in Nat
      /\ ~overlap => \A s \in Sessions : InThunk(s) => s = m_sesId /\ s \in valid
  BY OpenStep, UiAssumption DEF SessionInv, UiType, TracerType, Sessions
<1>1. ASSUME NEW s \in Sessions, Thunk(s) PROVE SessionInv'
  <2>1. /\ UNCHANGED <<m_sesId, overlap>> /\ valid' \subseteq valid
        /\ \A o \in Sessions : o # s => (InThunk(o)' <=> InThunk(o))
        /\ InThunk(s)' => InThunk(s) /\ valid' = valid
    BY <1>1, ThunkMoves DEF InThunk
  <2>2. ASSUME ~overlap', NEW o \in Sessions, InThunk(o)'
        PROVE  o = m_sesId' /\ o \in valid'
    <3>1. InThunk(o) /\ o = m_sesId /\ o \in valid
      BY <1>0, <2>1, <2>2
    <3>2. CASE o = s BY <2>1, <2>2, <3>1, <3>2
    <3>3. CASE o # s
      <4>1. o \in valid'
        <5>1. ~InThunk(s)
          BY <1>0, <2>1, <2>2, <3>1, <3>3
        <5> QED BY <1>1, <3>1, <5>1, FinishKeeps
      <4> QED BY <2>1, <3>1, <4>1
    <3> QED BY <3>2, <3>3
  <2> QED BY <1>0, <2>1, <2>2 DEF SessionInv
<1>2. ASSUME NEW s \in Sessions, NEW k \in Kinds, NEW t \in Tids, Report(s, k, t)
      PROVE  SessionInv'
  <2>1. /\ s \in valid /\ \A o \in Sessions : o # s => pc'[o] = pc[o]
        /\ UNCHANGED <<m_sesId, valid, overlap>>
    BY <1>0, <1>2 DEF Report, Goto, main, screen
  <2> QED BY <1>0, <2>1 DEF SessionInv, InThunk
<1>3. CASE Handling
  BY <1>0, <1>3, HandlingMoves DEF SessionInv, InThunk
<1>4. CASE OpenClose
  <2>1. /\ valid' = valid \ {m_sesId} /\ pc' = pc
        /\ ~overlap' => ~overlap /\ (m_sesId \in Sessions => ~InThunk(m_sesId))
    BY <1>4 DEF OpenClose, close_session, InThunk
  <2>2. valid' = {}
    BY <1>0, <2>1
  <2>3. ~overlap' => \A s \in Sessions : ~InThunk(s)'
    BY <1>0, <2>1 DEF InThunk
  <2> QED BY <1>0, <2>2, <2>3 DEF SessionInv
<1>5. ASSUME NEW ok \in BOOLEAN, NEW loaded \in BOOLEAN, OpenNew(ok, loaded)
      PROVE  SessionInv'
  <2>1. gui \in Seq(Handler) /\ gui # << >> /\ Head(gui).f = "open" /\ overlap' = overlap
    BY <1>5 DEF OpenNew, Top, UiType, GuiType
  <2>2. m_sesId = 0
    BY <2>1, Popped DEF SessionInv, OpenAlone
  <2>3. valid = {} /\ (~overlap => \A s \in Sessions : ~InThunk(s))
    BY <1>0, <2>2 DEF Sessions
  <2>4. valid' \subseteq {m_sesId'}
    <3>1. CASE ok BY <1>5, <2>3, <3>1 DEF OpenNew, open_session
    <3>2. CASE ~ok BY <1>5, <2>3, <3>2 DEF OpenNew, open_session
    <3> QED BY <3>1, <3>2
  <2>5. pc' = pc \/ pc' = [pc EXCEPT ![opened + 1] = "run"]
    BY <1>5 DEF OpenNew, load, Goto
  <2>6. ~overlap' => \A s \in Sessions : ~InThunk(s)'
    BY <1>0, <2>1, <2>3, <2>5 DEF InThunk
  <2> QED BY <1>0, <2>4, <2>6 DEF SessionInv
<1>6. CASE UNCHANGED vars
  BY <1>6, <1>0 DEF vars, SessionInv, InThunk
<1> QED BY <1>1, <1>2, <1>3, <1>4, <1>5, <1>6 DEF Next, Dispatch, Handling

-----------------------------------------------------------------------------
\* A list is read of a session the tracer does not know only after a session
\* has ended.

\* What a step of a tracer thread appends to the queue.
LEMMA QueueThunk ==
  ASSUME UiType, NEW s \in Sessions, Thunk(s)
  PROVE  \A i \in 1 .. Len(queue') :
           \/ i \in 1 .. Len(queue) /\ queue'[i] = queue[i]
           \/ /\ pc[s] \notin {"d_wait", "d_asleep"} /\ InThunk(s)
              /\ queue'[i].ses = m_sesId
           \/ /\ pc[s] = "d_post" /\ queue'[i].ses = m_trc_debug.ses
<1> USE DEF main, screen, InThunk
<1>0. queue \in Seq(Posted)
  BY DEF UiType, GuiType
<1>1. CASE queue' = queue
  BY <1>0, <1>1
<1>2. ASSUME NEW h \in Frames \cup {"main"}, pc[s] \in {"e_main", "e_log", "p_log"},
             queue' = Append(queue, [to |-> h, ev |-> ev[s], ses |-> m_sesId])
      PROVE  \A i \in 1 .. Len(queue') :
               \/ i \in 1 .. Len(queue) /\ queue'[i] = queue[i]
               \/ pc[s] \notin {"d_wait", "d_asleep"} /\ InThunk(s) /\ queue'[i].ses = m_sesId
  <2>1. [to |-> h, ev |-> ev[s], ses |-> m_sesId] \in Posted
    BY UiAssumption DEF UiType, TracerType, Posted, TRC_SESSION_INVALID
  <2> DEFINE x == [to |-> h, ev |-> ev[s], ses |-> m_sesId]
  <2>2. x.ses = m_sesId OBVIOUS
  <2> HIDE DEF x
  <2>3. /\ Len(queue') = Len(queue) + 1 /\ queue'[Len(queue) + 1] = x
        /\ \A i \in 1 .. Len(queue) : queue'[i] = queue[i]
    BY <1>0, <1>2, <2>1, Appended DEF x
  <2> QED BY <1>0, <1>2, <2>2, <2>3
<1>3. CASE ExcMain(s) \/ ExcLog(s)
  BY <1>2, <1>3
     DEF ExcMain, ExcLog, wxPostEvent, setSesId, setExceptEvent, TrcExceptEvent, Frames
<1>4. CASE ProcLog(s)
  BY <1>2, <1>4 DEF ProcLog, wxPostEvent, setSesId, setProcEvent, TrcProcEvent, Frames
<1>5. CASE DbgPost(s)
  <2>1. queue' = queue \o Clones /\ pc[s] = "d_post"
    BY <1>5 DEF DbgPost, Clones
  <2>2. /\ Clones \in Seq(Posted) /\ Len(Clones) = 5
        /\ \A i \in 1 .. 5 : Clones[i].ses = m_trc_debug.ses
    BY ClonesAre DEF UiType
  <2>3. /\ Len(queue') = Len(queue) + Len(Clones)
        /\ \A i \in 1 .. Len(queue) + Len(Clones) :
             queue'[i] = IF i <= Len(queue) THEN queue[i] ELSE Clones[i - Len(queue)]
    BY <1>0, <2>1, <2>2, ConcatProperties
  <2>4. Len(queue) \in Nat /\ Len(queue') = Len(queue) + 5
    BY <1>0, <2>2, <2>3
  <2>5. ASSUME NEW i \in 1 .. Len(queue'), i <= Len(queue)
        PROVE  i \in 1 .. Len(queue) /\ queue'[i] = queue[i]
    BY <2>2, <2>3, <2>4, <2>5
  <2>6. ASSUME NEW i \in 1 .. Len(queue'), ~(i <= Len(queue))
        PROVE  queue'[i].ses = m_trc_debug.ses
    <3>1. i - Len(queue) \in 1 .. 5
      BY <2>4, <2>6
    <3>2. queue'[i] = Clones[i - Len(queue)]
      BY <2>2, <2>3, <2>4, <2>6
    <3> QED BY <2>2, <3>1, <3>2
  <2> QED BY <2>1, <2>5, <2>6
<1>6. CASE ~ExcMain(s) /\ ~ExcLog(s) /\ ~ProcLog(s) /\ ~DbgPost(s)
  BY <1>1, <1>6
     DEF Thunk, DbgSet, DbgSes, RefreshModList, RefreshThreadList, RefreshList,
         DbgWait, DbgWake, DbgLock, DbgReturn, ExcWait, ExcWake,
         ExcLock, ExcReturn, Finish
<1> QED BY <1>3, <1>4, <1>5, <1>6

\* The one thread that is in a thunk has m_trc_debug for itself.
LEMMA DebugStep ==
  ASSUME UiType, SessionInv, SessionInv', DebugInv, [Next]_vars
  PROVE  DebugInv'
<1>0. /\ pc \in [Sessions -> Pcs] /\ m_trc_debug \in [ev : Event, ses : Int]
      /\ ev \in [Sessions -> Event]
      /\ ~overlap => \A s \in Sessions : InThunk(s) => s = m_sesId
  BY DEF UiType, TracerType, GuiType, SessionInv
<1>1. ASSUME NEW s \in Sessions, Thunk(s) PROVE DebugInv'
  <2>1. SUFFICES ASSUME ~overlap', NEW o \in Sessions
        PROVE  /\ pc'[o] \in {"d_ses", "d_mods", "d_threads", "d_post"} =>
                    m_trc_debug'.ev = ev'[o]
               /\ pc'[o] \in {"d_mods", "d_threads", "d_post"} => m_trc_debug'.ses = o
    BY DEF DebugInv
  <2>2. ~overlap /\ ev' = ev /\ (o # s => pc'[o] = pc[o])
    BY <1>1, <2>1, ThunkMoves
  <2>3. CASE o = s
    <3>1. CASE DbgSet(s)
      BY <1>0, <2>2, <2>3, <3>1 DEF DbgSet, Goto, setDebugEvent
    <3>2. CASE DbgSes(s)
      <4>1. s = m_sesId
        BY <1>0, <2>2, <3>2 DEF DbgSes, InThunk
      <4> QED BY <1>0, <2>2, <2>3, <3>2, <4>1 DEF DbgSes, Goto, setSesId, DebugInv
    <3>3. CASE ~DbgSet(s) /\ ~DbgSes(s)
      <4>1. /\ m_trc_debug' = m_trc_debug
            /\ pc'[s] \in {"d_ses", "d_mods", "d_threads", "d_post"} =>
                 pc[s] \in {"d_mods", "d_threads"} /\ pc'[s] \in {"d_threads", "d_post"}
        BY <1>0, <1>1, <3>3
           DEF Thunk, RefreshModList, RefreshThreadList, RefreshList, DbgPost, Goto, main,
               DbgWait, DbgWake, DbgLock, DbgReturn, ExcMain, ExcLog, ExcWait, ExcWake,
               ExcLock, ExcReturn, ProcLog, Finish
      <4> QED BY <2>2, <2>3, <4>1 DEF DebugInv
    <3> QED BY <3>1, <3>2, <3>3
  <2>4. CASE o # s
    <3>1. CASE ~InThunk(o)
      BY <2>2, <2>4, <3>1 DEF InThunk
    <3>2. CASE InThunk(o)
      <4>1. ~InThunk(s)
        BY <1>0, <2>2, <2>4, <3>2
      <4>2. m_trc_debug' = m_trc_debug
        BY <1>1, <4>1
           DEF Thunk, DbgSet, DbgSes, RefreshModList, RefreshThreadList, RefreshList,
               DbgPost, main, InThunk,
               DbgWait, DbgWake, DbgLock, DbgReturn, ExcMain, ExcLog, ExcWait, ExcWake,
               ExcLock, ExcReturn, ProcLog, Finish
      <4> QED BY <2>2, <2>4, <4>2 DEF DebugInv
    <3> QED BY <3>1, <3>2
  <2> QED BY <2>3, <2>4
<1>2. ASSUME NEW s \in Sessions, NEW k \in Kinds, NEW t \in Tids, Report(s, k, t)
      PROVE  DebugInv'
  <2>1. /\ pc'[s] \in {"d_set", "e_main", "p_log"}
        /\ UNCHANGED <<m_trc_debug, overlap>>
        /\ \A o \in Sessions : o # s => pc'[o] = pc[o] /\ ev'[o] = ev[o]
    BY <1>0, <1>2 DEF Report, Goto, main, screen
  <2> QED BY <2>1 DEF DebugInv
<1>3. CASE Handling
  BY <1>3, HandlingMoves DEF DebugInv
<1>4. CASE OpenClose \/ (\E ok, loaded \in BOOLEAN : OpenNew(ok, loaded))
  <2>1. UNCHANGED <<m_trc_debug, ev>>
    BY <1>4 DEF OpenClose, OpenNew
  <2>2. overlap => overlap'
    <3>1. CASE OpenClose BY <3>1 DEF OpenClose
    <3>2. CASE \E ok, loaded \in BOOLEAN : OpenNew(ok, loaded) BY <3>2 DEF OpenNew
    <3> QED BY <1>4, <3>1, <3>2
  <2>3. pc' = pc \/ pc' = [pc EXCEPT ![opened + 1] = "run"]
    BY <1>4 DEF OpenClose, OpenNew, load, Goto
  <2>4. \A o \in Sessions : pc'[o] = pc[o] \/ pc'[o] = "run"
    BY <1>0, <2>3
  <2> QED BY <2>1, <2>2, <2>4 DEF DebugInv
<1>5. CASE UNCHANGED vars
  BY <1>5 DEF vars, DebugInv
<1> QED BY <1>1, <1>2, <1>3, <1>4, <1>5 DEF Next, Dispatch, Handling

LEMMA ClosedStep ==
  ASSUME UiType, UiType', SessionInv, DebugInv, ClosedInv, [Next]_vars
  PROVE  ClosedInv'
<1>0. /\ queue \in Seq(Posted) /\ opened \in Nat /\ valid \subseteq 1 .. opened
      /\ m_sesId \in 0 .. opened \cup {TRC_SESSION_INVALID}
      /\ ~overlap => \A s \in Sessions : InThunk(s) => s = m_sesId /\ s \in valid
  BY UiAssumption DEF UiType, TracerType, GuiType, SessionInv
<1>1. ASSUME NEW s \in Sessions, Thunk(s) PROVE ClosedInv'
  <2>1. UNCHANGED <<opened, overlap>> /\ valid' \subseteq valid
    BY <1>1, ThunkMoves
  <2>2. ASSUME ~overlap, NEW i \in 1 .. Len(queue')
        PROVE  queue'[i].ses \in 1 .. opened
    <3>1. CASE i \in 1 .. Len(queue) /\ queue'[i] = queue[i]
      BY <2>2, <3>1 DEF ClosedInv
    <3>2. CASE InThunk(s) /\ queue'[i].ses = m_sesId
      BY <1>0, <2>2, <3>2
    <3>3. CASE pc[s] = "d_post" /\ queue'[i].ses = m_trc_debug.ses
      <4>1. m_trc_debug.ses = s /\ s \in valid
        BY <1>0, <2>2, <3>3 DEF DebugInv, InThunk
      <4> QED BY <1>0, <3>3, <4>1
    <3> QED BY <1>1, <2>2, <3>1, <3>2, <3>3, QueueThunk
  <2> QED BY <2>1, <2>2 DEF ClosedInv
<1>2. ASSUME NEW h, Take(h), UNCHANGED <<opened, valid, overlap>> PROVE ClosedInv'
  <2>1. /\ Len(queue') = Len(queue) - 1 /\ Len(queue) \in Nat
        /\ \A i \in 1 .. Len(queue) - 1 : queue'[i] = queue[i + 1]
    BY <1>0, <1>2, TakenIs DEF UiType
  <2> QED BY <1>2, <2>1 DEF ClosedInv
<1>3. CASE AddItem \/ ToLog \/ Output \/ OnExceptHandle \/ MemRefresh \/ StackRefresh
  BY <1>2, <1>3
     DEF AddItem, ToLog, Output, OnExceptHandle, MemRefresh, StackRefresh, OutputMemory,
         tracer
<1>4. CASE UNCHANGED <<opened, valid, overlap, queue>>
  BY <1>4 DEF ClosedInv
<1>5. CASE \/ SignalExcept \/ SignalDebug \/ EditSet \/ EditShow
           \/ Close \/ OnLeftDClick \/ \E m \in Modes : Command(m)
  BY <1>4, <1>5
     DEF SignalExcept, SignalDebug, EditSet, EditShow, Close, Answered, EditGet,
         OnLeftDClick, Command, tracer
<1>6. ASSUME NEW s \in Sessions, NEW k \in Kinds, NEW t \in Tids, Report(s, k, t)
      PROVE  ClosedInv'
  BY <1>4, <1>6 DEF Report
<1>7. CASE OpenClose
  <2>1. /\ UNCHANGED <<opened, queue>> /\ valid' = valid \ {m_sesId}
        /\ overlap' => overlap \/ m_sesId \in Sessions
        /\ ~overlap' => ~overlap
    BY <1>7 DEF OpenClose, close_session
  <2>2. m_sesId \in Sessions => m_sesId \in 1 .. opened
    BY <1>0, UiAssumption DEF Sessions, TRC_SESSION_INVALID
  <2> QED BY <2>1, <2>2 DEF ClosedInv
<1>8. ASSUME NEW ok \in BOOLEAN, NEW loaded \in BOOLEAN, OpenNew(ok, loaded)
      PROVE  ClosedInv'
  <2>1. UNCHANGED <<overlap, queue>>
    BY <1>8 DEF OpenNew
  <2>2. (opened' = opened /\ valid' = valid)
          \/ (opened' = opened + 1 /\ valid' = valid \cup {opened + 1})
    BY <1>8 DEF OpenNew, open_session
  <2> QED BY <1>0, <2>1, <2>2 DEF ClosedInv
<1>9. CASE UNCHANGED vars
  BY <1>4, <1>9 DEF vars
<1> QED BY <1>1, <1>3, <1>5, <1>6, <1>7, <1>8, <1>9 DEF Next, Dispatch

-----------------------------------------------------------------------------
\* A stop is left on command.

LEMMA CommandStep ==
  ASSUME UiType, CommandInv, [Next]_vars
  PROVE  CommandInv'
<1> USE DEF tracer, main, screen
<1>0. gui \in Seq(Handler) /\ asked \subseteq Sessions
  BY DEF UiType, GuiType
<1>1. ASSUME NEW m \in Modes, Command(m) PROVE CommandInv'
  BY <1>1 DEF Command, CommandInv
<1>2. CASE m_trace_mode \in Modes /\ ~(\E m \in Modes : Command(m))
  <2>1. m_trace_mode' = m_trace_mode
    BY <1>2, ThunkMoves
       DEF Next, Dispatch, Close, Report, AddItem, ToLog, Output, OnExceptHandle, MemRefresh,
           StackRefresh, OutputMemory, SignalExcept, SignalDebug, EditSet, EditShow, OpenNew,
           Answered, EditGet, OpenClose, OnLeftDClick, vars
  <2> QED BY <1>2, <2>1 DEF CommandInv
<1>3. CASE asked = {} /\ \A i \in 1 .. Len(gui) : gui[i].f # "signal"
  <2>1. ASSUME asked' = {}, gui' = gui PROVE CommandInv'
    BY <1>3, <2>1 DEF CommandInv
  <2>2. ASSUME asked' = {}, NEW h \in Handler, h.f # "signal",
               \/ Push(h) \/ (gui # << >> /\ (Pop \/ Instead(h)))
        PROVE  CommandInv'
    <3>1. \A i \in 1 .. Len(gui') : gui'[i].f # "signal"
      BY <1>0, <1>3, <2>2, HandlersFrom
    <3> QED BY <2>2, <3>1 DEF CommandInv
  <2>3. ASSUME NEW s \in Sessions, Thunk(s) PROVE CommandInv'
    <3>1. asked' \subseteq asked /\ gui' = gui
      BY <2>3
         DEF Thunk, DbgSet, DbgSes, RefreshModList, RefreshThreadList, RefreshList, DbgPost,
             DbgWait, DbgWake, DbgLock, DbgReturn, ExcMain, ExcLog, ExcWait, ExcWake,
             ExcLock, ExcReturn, ProcLog, Finish
    <3>2. asked' = {}
      BY <1>3, <3>1
    <3> QED BY <2>1, <3>1, <3>2
  <2>4. ASSUME NEW s \in Sessions, NEW k \in Kinds, NEW t \in Tids, Report(s, k, t)
        PROVE  CommandInv'
    BY <1>3, <2>1, <2>4 DEF Report
  <2>5. CASE AddItem \/ ToLog \/ Output \/ MemRefresh \/ StackRefresh
    BY <1>3, <2>1, <2>5 DEF AddItem, ToLog, Output, MemRefresh, StackRefresh, OutputMemory
  <2>6. CASE OnExceptHandle
    <3>1. [f |-> "box"] \in Handler BY DEF Handler
    <3> QED BY <1>3, <2>2, <2>6, <3>1 DEF OnExceptHandle
  <2>7. CASE SignalExcept \/ EditShow \/ (\E ok, loaded \in BOOLEAN : OpenNew(ok, loaded))
    <3>1. [f |-> "box"] \in Handler BY DEF Handler
    <3>2. gui # << >> /\ Pop /\ asked' = asked
      BY <2>7 DEF SignalExcept, EditShow, OpenNew, Top
    <3> QED BY <1>3, <2>2, <3>1, <3>2
  <2>8. ~SignalDebug
    BY <1>0, <1>3, Popped DEF SignalDebug, Top
  <2>9. CASE EditSet
    <3>1. [f |-> "show"] \in Handler BY DEF Handler
    <3> QED BY <1>3, <2>2, <2>9, <3>1 DEF EditSet, Top
  <2>10. ASSUME NEW r \in {wxYES, wxNO}, Answered(r) PROVE CommandInv'
    <3>1. [f |-> "except"] \in Handler BY DEF Handler
    <3> QED BY <1>3, <2>2, <2>10, <3>1 DEF Answered, Top
  <2>11. ASSUME NEW ok \in BOOLEAN, EditGet(ok) PROVE CommandInv'
    <3> DEFINE h == [f |-> "set", c |-> trc_get_thread_ctx(regOf.ses, regOf.tid)]
    <3>1. h \in Handler /\ h.f # "signal"
      BY ContextRead DEF UiType, GuiType, Handler
    <3>2. gui # << >> /\ (Pop \/ Instead(h)) /\ asked' = asked
      BY <2>11 DEF EditGet, Top
    <3> HIDE DEF h
    <3> QED BY <1>3, <2>2, <3>1, <3>2
  <2>12. CASE OpenClose
    <3>1. [f |-> "open"] \in Handler BY DEF Handler
    <3> QED BY <1>3, <2>2, <2>12, <3>1 DEF OpenClose
  <2>13. CASE OnLeftDClick
    <3>1. [f |-> "edit"] \in Handler BY DEF Handler
    <3> QED BY <1>3, <2>2, <2>13, <3>1 DEF OnLeftDClick
  <2>14. CASE UNCHANGED vars
    BY <1>3, <2>1, <2>14 DEF vars
  <2> QED BY <1>1, <2>3, <2>4, <2>5, <2>6, <2>7, <2>8, <2>9, <2>10, <2>11, <2>12, <2>13,
             <2>14 DEF Next, Dispatch, Close
<1> QED BY <1>1, <1>2, <1>3 DEF CommandInv

LEMMA ResumeStep ==
  ASSUME UiType, SessionInv, SessionInv', ResumeInv, [Next]_vars
  PROVE  ResumeInv'
<1> USE DEF tracer, main, screen
<1>0. /\ pc \in [Sessions -> Pcs] /\ asked \subseteq Sessions
      /\ cond \in [{"debug", "except"} -> [waiters : Nat, permits : Nat, owner : Nat]]
      /\ ~overlap => \A s \in Sessions : InThunk(s) => s = m_sesId
  BY DEF UiType, TracerType, GuiType, SessionInv
\* The debug condition keeps its counts, nobody falls asleep or wakes.
<1>1. ASSUME cond'["debug"].waiters = cond["debug"].waiters,
             cond'["debug"].permits = cond["debug"].permits,
             overlap => overlap', asked' = asked,
             \A s \in Sessions : pc'[s] = "d_asleep" <=> pc[s] = "d_asleep",
             \A s \in Sessions : pc'[s] \in {"d_lock", "d_return"} =>
                                   pc[s] \in {"d_lock", "d_return"}
      PROVE  ResumeInv'
  BY <1>1 DEF ResumeInv
<1>2. ASSUME NEW s \in Sessions, Thunk(s) PROVE ResumeInv'
  <2>0. /\ overlap' = overlap /\ \A o \in Sessions : o # s => pc'[o] = pc[o]
    BY <1>2, ThunkMoves
  <2>1. CASE DbgWait(s)
    <3>1. SUFFICES ASSUME ~overlap PROVE ResumeInv'
      BY <2>0 DEF ResumeInv
    <3>2. \A o \in Sessions : o # s => ~InThunk(o)
      BY <1>0, <2>1, <3>1 DEF DbgWait, InThunk
    <3>3. \A o \in Sessions : pc[o] # "d_asleep"
      BY <2>1, <3>2 DEF DbgWait, InThunk
    <3>4. cond["debug"].waiters = 0 /\ cond["debug"].permits = 0
      BY <3>1, <3>3 DEF ResumeInv
    <3>5. cond'["debug"].waiters = 1 /\ cond'["debug"].permits = 0
      BY <1>0, <2>1, <3>4 DEF DbgWait, WaitIn
    <3>6. /\ pc'[s] = "d_asleep"
          /\ \A o \in Sessions : o # s => pc'[o] \notin {"d_asleep", "d_lock", "d_return"}
      BY <1>0, <2>0, <2>1, <3>2 DEF DbgWait, Goto, InThunk
    <3> QED BY <3>5, <3>6 DEF ResumeInv
  <2>2. CASE DbgWake(s)
    <3>1. SUFFICES ASSUME ~overlap PROVE ResumeInv'
      BY <2>0 DEF ResumeInv
    <3>2. \A o \in Sessions : o # s => ~InThunk(o)
      BY <1>0, <2>2, <3>1 DEF DbgWake, InThunk
    <3>3. /\ pc[s] = "d_asleep" /\ cond["debug"].permits > 0 /\ asked' = asked
          /\ cond'["debug"].waiters = cond["debug"].waiters
          /\ cond'["debug"].permits = cond["debug"].permits - 1
      BY <1>0, <2>2 DEF DbgWake, Woken
    <3>4. cond["debug"].waiters + cond["debug"].permits = 1 /\ s \in asked
      BY <3>1, <3>3 DEF ResumeInv
    <3>5. cond'["debug"].waiters = 0 /\ cond'["debug"].permits = 0
      BY <1>0, <3>3, <3>4
    <3>6. /\ pc'[s] = "d_lock"
          /\ \A o \in Sessions : o # s => pc'[o] \notin {"d_asleep", "d_lock", "d_return"}
      BY <1>0, <2>0, <2>2, <3>2 DEF DbgWake, Goto, InThunk
    <3> QED BY <3>3, <3>4, <3>5, <3>6 DEF ResumeInv
  <2>3. CASE DbgLock(s)
    <3>1. /\ cond'["debug"].waiters = cond["debug"].waiters
          /\ cond'["debug"].permits = cond["debug"].permits /\ asked' = asked
      BY <1>0, <2>3 DEF DbgLock, Locked
    <3>2. pc[s] = "d_lock" /\ pc'[s] = "d_return"
      BY <1>0, <2>3 DEF DbgLock, Goto
    <3> QED BY <1>1, <2>0, <3>1, <3>2
  <2>4. CASE Finish(s)
    <3>1. /\ cond'["debug"].waiters = cond["debug"].waiters
          /\ cond'["debug"].permits = cond["debug"].permits /\ asked' = asked
      BY <1>0, <2>4 DEF Finish, Abandoned
    <3>2. pc[s] = "run" /\ pc'[s] = "none"
      BY <1>0, <2>4 DEF Finish, Goto
    <3> QED BY <1>1, <2>0, <3>1, <3>2
  <2>5. CASE ExcWait(s) \/ ExcWake(s) \/ ExcLock(s)
    <3>1. cond'["debug"] = cond["debug"] /\ asked' = asked
      BY <1>0, <2>5 DEF ExcWait, ExcWake, ExcLock, WaitIn, Woken, Locked
    <3>2. /\ pc[s] \in {"e_wait", "e_asleep", "e_lock"}
          /\ pc'[s] \in {"e_asleep", "e_lock", "e_return"}
      BY <1>0, <2>5 DEF ExcWait, ExcWake, ExcLock, Goto
    <3> QED BY <1>1, <2>0, <3>1, <3>2
  <2>6. CASE \/ DbgSet(s) \/ DbgSes(s) \/ RefreshModList(s) \/ RefreshThreadList(s)
             \/ DbgPost(s) \/ DbgReturn(s) \/ ExcMain(s) \/ ExcLog(s) \/ ExcReturn(s)
             \/ ProcLog(s)
    <3>1. cond' = cond /\ asked' = asked
      BY <2>6 DEF DbgSet, DbgSes, RefreshModList, RefreshThreadList, RefreshList, DbgPost,
                  DbgReturn, ExcMain, ExcLog, ExcReturn, ProcLog
    <3>2. pc[s] # "d_asleep" /\ pc'[s] \notin {"d_asleep", "d_lock", "d_return"}
      BY <1>0, <2>6
         DEF DbgSet, DbgSes, RefreshModList, RefreshThreadList, RefreshList, DbgPost,
             DbgReturn, ExcMain, ExcLog, ExcReturn, ProcLog, Goto
    <3> QED BY <1>1, <2>0, <3>1, <3>2
  <2> QED BY <1>2, <2>1, <2>2, <2>3, <2>4, <2>5, <2>6 DEF Thunk
<1>3. ASSUME NEW s \in Sessions, NEW k \in Kinds, NEW t \in Tids, Report(s, k, t)
      PROVE  ResumeInv'
  <2>1. /\ pc[s] = "run" /\ pc'[s] \in {"d_set", "e_main", "p_log"}
        /\ \A o \in Sessions : o # s => pc'[o] = pc[o]
    BY <1>0, <1>3 DEF Report, Goto
  <2>2. UNCHANGED <<cond, asked, overlap>>
    BY <1>3 DEF Report
  <2> QED BY <1>1, <2>1, <2>2
<1>4. CASE SignalDebug
  <2>0. UNCHANGED <<pc, overlap>> /\ asked' = asked \cup {s \in Sessions : pc[s] = "d_asleep"}
    BY <1>4 DEF SignalDebug
  <2>1. CASE cond["debug"].waiters > 0
    <3>1. /\ cond'["debug"].waiters = cond["debug"].waiters - 1
          /\ cond'["debug"].permits = cond["debug"].permits + 1
      BY <1>0, <1>4, <2>1 DEF SignalDebug, Signal
    <3>2. cond["debug"].waiters \in Nat /\ cond["debug"].permits \in Nat
      BY <1>0
    <3> QED BY <2>0, <2>1, <3>1, <3>2 DEF ResumeInv
  <2>2. CASE ~(cond["debug"].waiters > 0)
    <3>1. cond' = cond
      BY <1>4, <2>2 DEF SignalDebug, Signal
    <3> QED BY <2>0, <3>1 DEF ResumeInv
  <2> QED BY <2>1, <2>2
<1>5. CASE SignalExcept
  <2>1. cond'["debug"] = cond["debug"]
    BY <1>0, <1>5 DEF SignalExcept, Signal
  <2>2. UNCHANGED <<pc, asked, overlap>>
    BY <1>5 DEF SignalExcept
  <2> QED BY <1>1, <2>1, <2>2
<1>6. CASE \/ AddItem \/ ToLog \/ Output \/ OnExceptHandle \/ MemRefresh \/ StackRefresh
           \/ EditSet \/ EditShow \/ Close \/ OnLeftDClick \/ (\E m \in Modes : Command(m))
           \/ UNCHANGED vars
  <2>1. UNCHANGED <<pc, cond, asked, overlap>>
    BY <1>6
       DEF AddItem, ToLog, Output, OnExceptHandle, MemRefresh, StackRefresh, OutputMemory,
           EditSet, EditShow, Close, Answered, EditGet, OnLeftDClick, Command, vars
  <2> QED BY <1>1, <2>1
<1>7. CASE OpenClose
  <2>1. UNCHANGED <<pc, cond, asked>> /\ (overlap => overlap')
    BY <1>7 DEF OpenClose
  <2> QED BY <1>1, <2>1
<1>8. ASSUME NEW ok \in BOOLEAN, NEW loaded \in BOOLEAN, OpenNew(ok, loaded)
      PROVE  ResumeInv'
  <2>1. UNCHANGED <<cond, asked, overlap>>
    BY <1>8 DEF OpenNew
  <2>2. gui \in Seq(Handler) /\ gui # << >> /\ Head(gui).f = "open"
    BY <1>8 DEF OpenNew, Top, UiType, GuiType
  <2>3. m_sesId = 0
    BY <2>2, Popped DEF SessionInv, OpenAlone
  <2>4. SUFFICES ASSUME ~overlap PROVE ResumeInv'
    BY <2>1 DEF ResumeInv
  <2>5. \A s \in Sessions : ~InThunk(s)
    BY <1>0, <2>3, <2>4 DEF Sessions
  <2>6. pc' = pc \/ pc' = [pc EXCEPT ![opened + 1] = "run"]
    BY <1>8 DEF OpenNew, load, Goto
  <2>7. \A s \in Sessions : pc'[s] = pc[s] \/ pc'[s] = "run"
    BY <1>0, <2>6
  <2> QED BY <1>1, <2>1, <2>5, <2>7 DEF InThunk
<1> QED BY <1>2, <1>3, <1>4, <1>5, <1>6, <1>7, <1>8 DEF Next, Dispatch

-----------------------------------------------------------------------------
\* The frames show the stop.

\* A handler takes the first event of the queue: frame f goes on showing what
\* it shows, or the event was its own and it shows that.
LEMMA ComingTaken ==
  ASSUME GuiType, NEW f, NEW s, NEW h, Take(h), Coming(f, s), ev' = ev,
         h # f /\ Shows(f, s) => Shows(f, s)',
         h = f /\ queue[1].ev = ev[s] /\ queue[1].ses = s => Shows(f, s)'
  PROVE  Coming(f, s)'
<1>1. /\ queue[1].to = h /\ Len(queue) \in Nat /\ Len(queue) >= 1
      /\ Len(queue') = Len(queue) - 1
      /\ \A i \in 1 .. Len(queue) - 1 : queue'[i] = queue[i + 1]
  BY TakenIs DEF GuiType
<1>2. ASSUME NEW i \in 1 .. Len(queue'), queue'[i].to = f,
             \A j \in i + 1 .. Len(queue') : queue'[j].to # f
      PROVE  queue'[i].ev = ev'[s] /\ queue'[i].ses = s
  <2>1. queue'[i] = queue[i + 1] /\ i + 1 \in 1 .. Len(queue)
    BY <1>1
  <2>2. ASSUME NEW j \in i + 2 .. Len(queue) PROVE queue[j].to # f
    <3>1. j - 1 \in i + 1 .. Len(queue') /\ queue'[j - 1] = queue[j]
      BY <1>1
    <3> QED BY <1>2, <3>1
  <2>3. queue[i + 1].to = f /\ \A j \in (i + 1) + 1 .. Len(queue) : queue[j].to # f
    BY <1>2, <2>1, <2>2
  <2> QED BY <2>1, <2>3 DEF Coming
<1>3. ASSUME \A i \in 1 .. Len(queue') : queue'[i].to # f
      PROVE  Shows(f, s)'
  <2>1. ASSUME NEW j \in 2 .. Len(queue) PROVE queue[j].to # f
    <3>1. j - 1 \in 1 .. Len(queue') /\ queue'[j - 1] = queue[j]
      BY <1>1
    <3> QED BY <1>3, <3>1
  <2>2. CASE h = f
    <3>1. 1 \in 1 .. Len(queue) /\ \A j \in 1 + 1 .. Len(queue) : queue[j].to # f
      BY <1>1, <2>1
    <3>2. queue[1].ev = ev[s] /\ queue[1].ses = s
      BY <1>1, <2>2, <3>1 DEF Coming
    <3> QED BY <2>2, <3>2
  <2>3. CASE h # f
    <3>1. \A j \in 1 .. Len(queue) : queue[j].to # f
      BY <1>1, <2>1, <2>3
    <3> QED BY <2>3, <3>1 DEF Coming
  <2> QED BY <2>2, <2>3
<1> QED BY <1>2, <1>3 DEF Coming

LEMMA ComingSame ==
  ASSUME NEW f, NEW s, Coming(f, s), queue' = queue, ev' = ev,
         Shows(f, s) => Shows(f, s)'
  PROVE  Coming(f, s)'
BY DEF Coming

\* The five events of DbgPost are the last ones for their frames.
LEMMA ComingPosted ==
  ASSUME UiType, NEW s \in Sessions, DbgPost(s), m_trc_debug.ev = ev[s],
         m_trc_debug.ses = s, NEW f \in Views
  PROVE  Coming(f, s)'
<1>1. queue' = queue \o Clones /\ ev' = ev /\ queue \in Seq(Posted)
  BY DEF DbgPost, Clones, UiType, GuiType
<1>2. /\ Clones \in Seq(Posted) /\ Len(Clones) = 5
      /\ \A i \in 1 .. 5 : Clones[i].ev = ev[s] /\ Clones[i].ses = s
                             /\ Clones[i].to = PostOrder[i]
      /\ PostOrder[1] = "cpu" /\ PostOrder[3] = "reg"
      /\ PostOrder[4] = "mem" /\ PostOrder[5] = "stack"
  BY ClonesAre DEF UiType
<1>3. /\ Len(queue) \in Nat /\ Len(queue') = Len(queue) + Len(Clones)
      /\ \A i \in 1 .. Len(queue) + Len(Clones) :
           queue'[i] = IF i <= Len(queue) THEN queue[i] ELSE Clones[i - Len(queue)]
  <2>1. Len(queue) \in Nat
    BY <1>1
  <2>2. queue' = queue \o Clones /\ queue \in Seq(Posted) /\ Clones \in Seq(Posted)
    BY <1>1, <1>2
  <2>3. /\ Len(queue') = Len(queue) + Len(Clones)
        /\ \A i \in 1 .. Len(queue) + Len(Clones) :
             queue'[i] = IF i <= Len(queue) THEN queue[i] ELSE Clones[i - Len(queue)]
    BY ONLY <2>2, ConcatProperties
  <2> QED BY <2>1, <2>3
<1>4. ASSUME NEW k \in 1 .. 5
      PROVE  /\ queue'[Len(queue) + k] = Clones[k]
             /\ Len(queue) + k \in 1 .. Len(queue')
  <2>1. /\ Len(queue) + k \in 1 .. Len(queue) + Len(Clones)
        /\ ~(Len(queue) + k <= Len(queue)) /\ (Len(queue) + k) - Len(queue) = k
    BY <1>2, <1>3
  <2> QED BY <1>3, <2>1
<1>5. PICK k \in 1 .. 5 : PostOrder[k] = f
  <2>1. f \in {"cpu", "reg", "mem", "stack"}
    BY DEF Views, Frames
  <2>2. 1 \in 1 .. 5 /\ 3 \in 1 .. 5 /\ 4 \in 1 .. 5 /\ 5 \in 1 .. 5
    OBVIOUS
  <2> QED BY <1>2, <2>1, <2>2
<1>6. queue'[Len(queue) + k].to = f /\ Len(queue) + k \in 1 .. Len(queue')
  BY <1>2, <1>4, <1>5
<1>7. ASSUME NEW i \in 1 .. Len(queue'),
             \A j \in i + 1 .. Len(queue') : queue'[j].to # f
      PROVE  queue'[i].ev = ev[s] /\ queue'[i].ses = s
  <2>1. i > Len(queue)
    <3>1. SUFFICES ASSUME i <= Len(queue) PROVE FALSE
      BY <1>3
    <3>2. Len(queue) + k \in i + 1 .. Len(queue')
      BY <1>3, <1>5, <1>6, <3>1
    <3> QED BY <1>6, <1>7, <3>2
  <2>2. i - Len(queue) \in 1 .. 5 /\ queue'[i] = Clones[i - Len(queue)]
    BY <1>2, <1>3, <2>1
  <2> QED BY <1>2, <2>2
<1> QED BY <1>1, <1>6, <1>7 DEF Coming

\* The GUI thread at work while the current session stands at a stop.
LEMMA ViewHandling ==
  ASSUME UiType, Handling, NEW s \in Sessions, s \in valid, NEW f \in Views, Coming(f, s)
  PROVE  Coming(f, s)'
<1> USE DEF tracer, main, screen
<1>0. /\ GuiType /\ ev' = ev /\ valid' = valid
      /\ shown = [v \in Views |-> shown[v]] /\ gui \in Seq(Handler)
      /\ regOf \in [ses : Int, tid : Tids]
      /\ f \in {"cpu", "reg", "mem", "stack"}
  BY HandlingMoves DEF UiType, GuiType, Views, Frames
\* Frame f is not touched, and no register edit is under way.
<1>1. ASSUME shown'[f] = shown[f], UNCHANGED <<regOf, ctx>>, ~Top("show"), Shows(f, s)
      PROVE  Shows(f, s)'
  BY <1>0, <1>1 DEF Shows
<1>2. Pumping => ~Top("show")
  BY DEF Pumping, Top
<1>3. CASE AddItem
  <2>1. /\ \A v \in Views : v # "cpu" => shown'[v] = shown[v]
        /\ UNCHANGED <<regOf, ctx>> /\ Take("cpu") /\ Pumping
    BY <1>0, <1>3 DEF AddItem, Take
  <2>2. ASSUME f = "cpu", queue[1].ev = ev[s], queue[1].ses = s PROVE Shows(f, s)'
    <3>1. Head(queue) = queue[1]
      BY <1>0, <2>1, TakenIs
    <3>2. "cpu" \in Views
      BY DEF Views, Frames
    <3>3. shown'["cpu"] = TrcDebugEvent(ev[s], s)
      BY <1>0, <1>3, <2>2, <3>1, <3>2 DEF AddItem
    <3> QED BY <1>0, <2>2, <3>3 DEF Shows
  <2>3. "cpu" # f /\ Shows(f, s) => Shows(f, s)'
    BY <1>1, <1>2, <2>1
  <2> QED BY <1>0, <2>1, <2>2, <2>3, ComingTaken
<1>4. CASE ToLog
  <2>1. UNCHANGED <<shown, regOf, ctx>> /\ Take("log") /\ Pumping
    BY <1>4 DEF ToLog, Take
  <2>2. Shows(f, s) => Shows(f, s)'
    BY <1>1, <1>2, <2>1
  <2> QED BY <1>0, <2>1, <2>2, ComingTaken
<1>5. CASE Output
  <2>1. /\ \A v \in Views : v # "reg" => shown'[v] = shown[v]
        /\ ctx' = ctx /\ Take("reg") /\ Pumping
    BY <1>0, <1>5 DEF Output, OutputBasic, Take
  <2>2. ASSUME f = "reg", queue[1].ev = ev[s], queue[1].ses = s PROVE Shows(f, s)'
    <3>1. Head(queue) = queue[1]
      BY <1>0, <2>1, TakenIs
    <3>2. "reg" \in Views
      BY DEF Views, Frames
    <3>3. shown'["reg"] = ctx[s][ev[s].tid]
      BY <1>0, <1>5, <2>2, <3>1, <3>2 DEF Output, OutputBasic, trc_get_thread_ctx
    <3>4. regOf' = [ses |-> s, tid |-> ev[s].tid]
      BY <1>0, <1>5, <2>2, <3>1 DEF Output, SetThreadId, SetContextId
    <3> QED BY <1>0, <2>1, <2>2, <3>3, <3>4 DEF Shows
  <2>3. "reg" # f /\ Shows(f, s) => Shows(f, s)'
    BY <1>0, <2>1 DEF Shows
  <2> QED BY <1>0, <2>1, <2>2, <2>3, ComingTaken
<1>6. ASSUME NEW m \in {"mem", "stack"}, OutputMemory(m) PROVE Coming(f, s)'
  <2>1. /\ \A v \in Views : v # m => shown'[v] = shown[v]
        /\ UNCHANGED <<regOf, ctx>> /\ Take(m) /\ Pumping
    BY <1>0, <1>6 DEF OutputMemory, Take
  <2>2. ASSUME m = f, queue[1].ev = ev[s], queue[1].ses = s PROVE Shows(f, s)'
    <3>1. Head(queue) = queue[1]
      BY <1>0, <2>1, TakenIs
    <3>2. shown'[f] = [ses |-> s, n |-> ev[s].n]
      BY <1>0, <1>6, <2>2, <3>1 DEF OutputMemory
    <3> QED BY <1>0, <1>6, <2>2, <3>2 DEF Shows
  <2>3. m # f /\ Shows(f, s) => Shows(f, s)'
    BY <1>1, <1>2, <2>1
  <2> QED BY <1>0, <2>1, <2>2, <2>3, ComingTaken
<1>7. CASE OnExceptHandle
  <2>1. UNCHANGED <<shown, regOf, ctx>> /\ Take("main") /\ Pumping
    BY <1>7 DEF OnExceptHandle, Take
  <2>2. Shows(f, s) => Shows(f, s)'
    BY <1>1, <1>2, <2>1
  <2> QED BY <1>0, <2>1, <2>2, ComingTaken
<1>8. CASE \/ SignalExcept \/ SignalDebug \/ Close \/ OnLeftDClick
           \/ \E m \in Modes : Command(m)
  <2>1. UNCHANGED <<shown, regOf, ctx, queue>>
    BY <1>8 DEF SignalExcept, SignalDebug, Close, Answered, EditGet, OnLeftDClick, Command
  <2>2. ~Top("show")
    BY <1>8 DEF SignalExcept, SignalDebug, Close, Answered, EditGet, OnLeftDClick, Command,
                Top
  <2>3. Shows(f, s) => Shows(f, s)'
    BY <1>1, <2>1, <2>2
  <2> QED BY <1>0, <2>1, <2>3, ComingSame
<1>9. CASE EditSet
  <2>1. UNCHANGED <<shown, regOf, queue>> /\ gui # << >> /\ Instead([f |-> "show"])
    BY <1>9 DEF EditSet, Top
  <2>2. Top("show")'
    <3>1. [f |-> "show"] \in Handler /\ Tail(gui) \in Seq(Handler)
      BY <1>0, <2>1, Popped DEF Handler
    <3>2. gui' \in Seq(Handler) /\ gui'[1] = [f |-> "show"] /\ Len(gui') = Len(Tail(gui)) + 1
      BY <2>1, <3>1, Pushed DEF Instead
    <3>3. gui' # << >>
      BY <3>1, <3>2
    <3> QED BY <3>2, <3>3, Popped DEF Top
  <2>3. Shows(f, s) => Shows(f, s)'
    BY <1>0, <2>1, <2>2 DEF Shows
  <2> QED BY <1>0, <2>1, <2>3, ComingSame
<1>10. CASE EditShow
  <2>1. /\ \A v \in Views : v # "reg" => shown'[v] = shown[v]
        /\ UNCHANGED <<regOf, ctx, queue>>
    BY <1>0, <1>10 DEF EditShow, OutputBasic
  <2>2. ASSUME f = "reg", Shows(f, s) PROVE Shows(f, s)'
    <3>1. regOf.ses = s /\ regOf.tid = ev[s].tid /\ regOf' = [ses |-> s, tid |-> ev[s].tid]
      BY <2>1, <2>2 DEF Shows
    <3>2. "reg" \in Views
      BY DEF Views, Frames
    <3>3. shown'["reg"] = ctx[s][ev[s].tid]
      BY <1>0, <1>10, <3>1, <3>2 DEF EditShow, OutputBasic, trc_get_thread_ctx
    <3> QED BY <1>0, <2>1, <2>2, <3>1, <3>3 DEF Shows
  <2>3. Shows(f, s) => Shows(f, s)'
    <3>1. CASE f # "reg" BY <1>0, <2>1, <3>1 DEF Shows
    <3> QED BY <2>2, <3>1
  <2> QED BY <1>0, <2>1, <2>3, ComingSame
<1> QED BY <1>3, <1>4, <1>5, <1>6, <1>7, <1>8, <1>9, <1>10
        DEF Handling, MemRefresh, StackRefresh

LEMMA ViewStep ==
  ASSUME UiType, SessionInv, SessionInv', DebugInv, ViewInv, [Next]_vars
  PROVE  ViewInv'
<1>0. /\ pc \in [Sessions -> Pcs] /\ valid \subseteq {m_sesId}
      /\ ~overlap => \A s \in Sessions : InThunk(s) => s = m_sesId /\ s \in valid
  BY DEF UiType, TracerType, SessionInv
<1>1. SUFFICES ASSUME ~overlap', NEW s \in Sessions, pc'[s] \in {"d_wait", "d_asleep"},
                      NEW f \in Views
               PROVE  Coming(f, s)'
  BY DEF ViewInv
<1>2. s = m_sesId' /\ s \in valid'
  BY <1>1 DEF SessionInv, InThunk
<1>3. ASSUME NEW o \in Sessions, Thunk(o) PROVE Coming(f, s)'
  <2>0. /\ UNCHANGED <<overlap, ev, ctx, gui, shown, regOf>> /\ (o # s => pc'[s] = pc[s])
    BY <1>3, ThunkMoves
  <2>1. ASSUME queue' = queue, Coming(f, s) PROVE Coming(f, s)'
    <3>1. Shows(f, s) => Shows(f, s)'
      BY <2>0 DEF Shows, Top
    <3> QED BY <2>0, <2>1, <3>1, ComingSame
  <2>2. CASE o # s
    <3>1. Coming(f, s) /\ ~InThunk(o)
      BY <1>0, <1>1, <2>0, <2>2 DEF ViewInv, InThunk
    <3>2. queue' = queue
      BY <1>3, <3>1
         DEF InThunk, Thunk, DbgSet, DbgSes, RefreshModList, RefreshThreadList, RefreshList,
             DbgPost, DbgWait, DbgWake, DbgLock, DbgReturn, ExcMain, ExcLog, ExcWait,
             ExcWake, ExcLock, ExcReturn, ProcLog, Finish
    <3> QED BY <2>1, <3>1, <3>2
  <2>3. CASE o = s
    <3>1. DbgPost(s) \/ DbgWait(s)
      BY <1>0, <1>1, <1>3, <2>3
         DEF Thunk, DbgSet, DbgSes, RefreshModList, RefreshThreadList, RefreshList, Goto,
             DbgWake, DbgLock, DbgReturn, ExcMain, ExcLog, ExcWait,
             ExcWake, ExcLock, ExcReturn, ProcLog, Finish
    <3>2. CASE DbgPost(s)
      <4>1. m_trc_debug.ev = ev[s] /\ m_trc_debug.ses = s
        BY <1>1, <2>0, <3>2 DEF DbgPost, DebugInv
      <4> QED BY <3>2, <4>1, ComingPosted
    <3>3. CASE DbgWait(s)
      <4>1. Coming(f, s) /\ queue' = queue
        BY <1>1, <2>0, <3>3 DEF DbgWait, ViewInv
      <4> QED BY <2>1, <4>1
    <3> QED BY <3>1, <3>2, <3>3
  <2> QED BY <2>2, <2>3
<1>4. ASSUME NEW o \in Sessions, NEW k \in Kinds, NEW t \in Tids, Report(o, k, t)
      PROVE  FALSE
  <2>1. /\ o \in valid /\ pc[o] = "run" /\ UNCHANGED <<overlap, m_sesId, valid>>
        /\ pc'[o] \in {"d_set", "e_main", "p_log"}
    BY <1>0, <1>4 DEF Report, Goto, main, screen
  <2> QED BY <1>0, <1>1, <1>2, <2>1
<1>5. CASE Handling
  <2>1. UNCHANGED <<pc, overlap, valid>>
    BY <1>5, HandlingMoves
  <2>2. Coming(f, s) /\ s \in valid
    BY <1>1, <1>2, <2>1 DEF ViewInv
  <2> QED BY <1>5, <2>2, ViewHandling
<1>6. ~OpenClose
  BY <1>0, <1>1, <1>2 DEF OpenClose, close_session, Sessions
<1>7. ASSUME NEW ok \in BOOLEAN, NEW loaded \in BOOLEAN, OpenNew(ok, loaded)
      PROVE  FALSE
  <2>1. gui \in Seq(Handler) /\ gui # << >> /\ Head(gui).f = "open" /\ overlap' = overlap
    BY <1>7 DEF OpenNew, Top, UiType, GuiType
  <2>2. m_sesId = 0
    BY <2>1, Popped DEF SessionInv, OpenAlone
  <2>3. ~InThunk(s)
    BY <1>0, <1>1, <2>1, <2>2 DEF Sessions
  <2>4. pc' = pc \/ pc' = [pc EXCEPT ![opened + 1] = "run"]
    BY <1>7 DEF OpenNew, load, Goto
  <2> QED BY <1>0, <1>1, <2>3, <2>4 DEF InThunk
<1>8. CASE UNCHANGED vars
  <2>1. Coming(f, s)
    BY <1>1, <1>8 DEF vars, ViewInv
  <2>2. Shows(f, s) => Shows(f, s)'
    BY <1>8 DEF vars, Shows, Top
  <2>3. queue' = queue /\ ev' = ev
    BY <1>8 DEF vars
  <2> QED BY <2>1, <2>2, <2>3, ComingSame
<1> QED BY <1>3, <1>4, <1>5, <1>6, <1>7, <1>8 DEF Next, Dispatch, Handling

-----------------------------------------------------------------------------
LEMMA UiInvariant == Spec => []UiInv
<1>1. Init => UiInv
  <2> SUFFICES ASSUME Init PROVE UiInv
    OBVIOUS
  <2>1. UiType BY TypeInit
  <2>2. queue = << >> /\ gui = << >> /\ Len(<< >>) = 0 /\ overlap = FALSE
        /\ \A s \in Sessions : pc[s] = "none"
    BY DEF Init
  <2>3. SessionInv /\ DebugInv /\ ViewInv
    BY <2>2 DEF Init, SessionInv, OpenAlone, InThunk, DebugInv, ViewInv
  <2>4. ClosedInv /\ CommandInv
    BY <2>2 DEF Init, ClosedInv, CommandInv
  <2>5. cond["debug"].waiters = 0 /\ cond["debug"].permits = 0
    BY DEF Init, Fresh
  <2>6. ResumeInv
    BY <2>2, <2>5 DEF ResumeInv
  <2> QED BY <2>1, <2>3, <2>4, <2>6 DEF UiInv
<1>2. UiInv /\ [Next]_vars => UiInv'
  BY TypeStep, SessionStep, DebugStep, ClosedStep, CommandStep, ResumeStep, ViewStep DEF UiInv
<1> QED BY <1>1, <1>2, PTL DEF Spec

\* Any number of sessions, stops, threads and edits: a debuggee that stands at
\* a stop while sessions do not overlap is shown, by every frame, at that
\* stop, once the posted events are handled.
THEOREM ViewsAreCurrent == Spec => []ViewsShowStop
<1>1. UiInv => ViewsShowStop
  <2> SUFFICES ASSUME UiInv, NEW s \in Sessions, pc[s] = "d_asleep", ~overlap,
                      queue = << >>, \A i \in DOMAIN gui : gui[i].f \notin {"set", "show"}
               PROVE  /\ shown["cpu"] = TrcDebugEvent(ev[s], s)
                      /\ regOf = [ses |-> s, tid |-> ev[s].tid]
                      /\ shown["reg"] = ctx[s][ev[s].tid]
                      /\ \A f \in {"mem", "stack"} : shown[f] = [ses |-> s, n |-> ev[s].n]
    BY DEF ViewsShowStop
  <2>1. \A f \in Views : Coming(f, s)
    BY DEF UiInv, ViewInv
  <2>2. \A f \in Views : Shows(f, s)
    BY <2>1 DEF Coming
  <2>3. Views = {"cpu", "reg", "mem", "stack"}
    BY DEF Views, Frames
  <2>4. ~Top("show")
    <3>1. gui \in Seq(Handler)
      BY DEF UiInv, UiType, GuiType
    <3>2. gui # << >> => Head(gui) = gui[1] /\ 1 \in DOMAIN gui
      BY <3>1, Popped, LenProperties
    <3> QED BY <3>2 DEF Top
  <2> QED BY <2>2, <2>3, <2>4 DEF Shows
<1> QED BY <1>1, UiInvariant, PTL

\* While sessions do not overlap a stop is left only by a command that was
\* given after the tracer thread began to wait.
THEOREM StopsAreLeftOnCommand == Spec => []ResumedByCommand
<1>1. UiInv => ResumedByCommand
  BY DEF UiInv, CommandInv, ResumeInv, ResumedByCommand
<1> QED BY <1>1, UiInvariant, PTL

\* A NULL list is dereferenced only after a session was closed or ended.
THEOREM OpenSessionsAreSafe == Spec => []NoCrashWhileOpen
<1>1. Init => NoCrashWhileOpen
  BY DEF Init, NoCrashWhileOpen
<1>2. UiInv /\ UiInv' /\ NoCrashWhileOpen /\ [Next]_vars => NoCrashWhileOpen'
  <2> SUFFICES ASSUME UiInv, UiInv', NoCrashWhileOpen, [Next]_vars, crashed'
               PROVE  \E s \in 1 .. opened' : s \notin valid'
    BY DEF NoCrashWhileOpen
  <2>1. CASE UNCHANGED vars
    BY <2>1 DEF vars, NoCrashWhileOpen
  <2>2. CASE ~crashed /\ overlap'
    BY <2>2 DEF UiInv, ClosedInv
  <2>3. CASE Next /\ ~crashed /\ ~overlap'
    <3>1. \/ \E s \in Sessions : RefreshModList(s) \/ RefreshThreadList(s)
          \/ OutputMemory("mem") \/ OutputMemory("stack")
      BY <2>3
         DEF Next, Thunk, Dispatch, MemRefresh, StackRefresh, Close, Report,
             DbgSet, DbgSes, DbgPost, DbgWait, DbgWake, DbgLock, DbgReturn, ExcMain, ExcLog,
             ExcWait, ExcWake, ExcLock, ExcReturn, ProcLog, Finish, AddItem, ToLog, Output,
             OnExceptHandle, SignalExcept, SignalDebug, EditSet, EditShow, OpenNew, Answered,
             EditGet, OpenClose, OnLeftDClick, Command
    <3>2. ASSUME NEW s \in Sessions, RefreshModList(s) \/ RefreshThreadList(s)
          PROVE  FALSE
      <4>1. InThunk(s) /\ m_sesId \notin valid /\ overlap' = overlap
        BY <3>2 DEF RefreshModList, RefreshThreadList, RefreshList, InThunk
      <4> QED BY <2>3, <4>1 DEF UiInv, SessionInv
    <3>3. ASSUME NEW f, OutputMemory(f)
          PROVE  \E s \in 1 .. opened' : s \notin valid'
      <4>1. /\ Head(queue) = queue[1] /\ 1 \in 1 .. Len(queue)
        BY <3>3, TakenIs DEF OutputMemory, UiInv, UiType, GuiType
      <4>2. Head(queue).ses \notin valid /\ UNCHANGED <<opened, valid, overlap>>
        BY <2>3, <3>3 DEF OutputMemory, tracer
      <4>3. queue[1].ses \in 1 .. opened
        BY <2>3, <4>1, <4>2 DEF UiInv, ClosedInv
      <4> QED BY <4>1, <4>2, <4>3
    <3> QED BY <3>1, <3>2, <3>3
  <2> QED BY <2>1, <2>2, <2>3 DEF Next
<1> QED BY <1>1, <1>2, UiInvariant, PTL DEF Spec

=============================================================================
