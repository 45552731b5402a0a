------------------------------ MODULE Channel ------------------------------
(***************************************************************************)
(* The rendezvous channel of the kernel driver (src/kernel/sys/channel.c). *)
(* Threads of the debugged process report debug events through             *)
(* channel_send_recv and stay stopped until they are answered; threads of  *)
(* the debugger take an event with channel_recv and answer it with         *)
(* channel_send.  dbg_delete_item tears the channel down with              *)
(* channel_release and, after the last reference is gone, channel_free.    *)
(*                                                                         *)
(* One action is one access to shared memory or one call of the kernel.    *)
(***************************************************************************)
EXTENDS Naturals, FiniteSets

CONSTANTS
  Senders,      \* threads that report events (debuggee threads, term. thread)
  Debuggers,    \* threads of the debugger process
  Killable,     \* threads that may be terminated while they wait (user APC)
  NoThread,     \* the value NULL of chan->thread
  MaxCalls,     \* bound: events one sender reports
  MayRelease,   \* TRUE when the session may be deleted
  Disciplined   \* TRUE when the debugger alternates get_msg and countinue

Threads == Senders \cup Debuggers

ASSUME ThreadsAssumption ==
  /\ IsFiniteSet(Senders) /\ IsFiniteSet(Debuggers)
  /\ Senders \cap Debuggers = {}
  /\ NoThread \notin Threads
  /\ Killable \subseteq Threads
ASSUME BoundsAssumption ==
  /\ MaxCalls \in Nat
  /\ MayRelease \in BOOLEAN
  /\ Disciplined \in BOOLEAN

VARIABLES
  ev,        \* the four notification events: signalled or not
  state,     \* chan->state
  thread,    \* chan->thread: the debugger thread that owns the transaction
  released,  \* chan->released
  waiters,   \* chan->waiters
  snd, rcv,  \* the two halves of chan->data: event and answer
  closing,   \* progress of dbg_delete_item, channel_release, channel_free
  pc,        \* where each thread stands in its channel call
  succs,     \* the variable succs of the thread's call (its return value)
  killed,    \* the thread's wait was ended by STATUS_USER_APC
  calls,     \* number of events a sender has reported so far
  reply,     \* recv_msg: the answer a sender copied out of the channel
  held       \* the event a debugger thread has taken and not yet answered

chan   == <<state, thread, released, waiters>>
data   == <<snd, rcv>>
locals == <<succs, killed, calls, reply, held>>
vars   == <<ev, chan, data, closing, pc, locals>>

Events == {"send", "recv", "rcvd", "repl"}
States == {"NULL", "SENT", "RECVED", "REPLAYED"}

\* An event is named by its reporter and its number; an answer by the event
\* it answers.
NoMsg == << >>
Msgs  == Senders \X (1 .. MaxCalls)
Msg(s) == <<s, calls[s]>>

SenderPC ==
  {"idle", "dead", "s_enter", "s_wait", "s_check", "s_cas", "s_clear",
   "s_copy", "s_signal", "s_reply", "s_result", "s_fetch", "s_reset",
   "s_disown", "s_null", "s_ready", "leave"}
DebuggerPC ==
  {"idle", "dead", "r_enter", "r_wait", "r_check", "r_cas", "r_own",
   "r_clear", "r_copy", "r_signal", "a_enter", "a_wait", "a_check", "a_own",
   "a_cas", "a_clear", "a_copy", "a_signal", "leave"}

-----------------------------------------------------------------------------
\* channel_alloc, and no thread in a call.
Init ==
  /\ ev = [e \in Events |-> e = "send"]
  /\ state = "NULL" /\ thread = NoThread /\ released = FALSE /\ waiters = 0
  /\ snd = NoMsg /\ rcv = NoMsg
  /\ closing = "no"
  /\ pc = [t \in Threads |-> "idle"]
  /\ succs = [t \in Threads |-> FALSE]
  /\ killed = [t \in Threads |-> FALSE]
  /\ calls = [s \in Senders |-> 0]
  /\ reply = [s \in Senders |-> NoMsg]
  /\ held = [d \in Debuggers |-> NoMsg]

Go(t, from, to) == pc[t] = from /\ pc' = [pc EXCEPT ![t] = to]
KeSetEvent(e)   == ev' = [ev EXCEPT ![e] = TRUE]
KeClearEvent(e) == ev' = [ev EXCEPT ![e] = FALSE]

-----------------------------------------------------------------------------
\* Plausible faults of single steps.  Next uses none of them: each stands in
\* for the step it is named after to show that a property notices the fault.

EnterUncounted(t, from, to) ==          \* lock_inc forgotten
  /\ Go(t, from, to)
  /\ succs' = [succs EXCEPT ![t] = FALSE]
  /\ UNCHANGED <<ev, chan, data, closing, killed, calls, reply, held>>

SendCasBlind(s) ==                      \* assignment instead of cmpxchg
  /\ Go(s, "s_cas", "s_clear") /\ state' = "SENT"
  /\ UNCHANGED <<ev, thread, released, waiters, data, closing, locals>>

SendResetSkipped(s) ==                  \* repl_event left signalled
  /\ Go(s, "s_reset", "s_disown")
  /\ UNCHANGED <<ev, chan, data, closing, locals>>

RecvCasBlind(d) ==                      \* assignment instead of cmpxchg
  /\ Go(d, "r_cas", "r_own") /\ state' = "RECVED"
  /\ UNCHANGED <<ev, thread, released, waiters, data, closing, locals>>

RecvClearSkipped(d) ==                  \* recv_event left signalled
  /\ Go(d, "r_clear", "r_copy")
  /\ UNCHANGED <<ev, chan, data, closing, locals>>

RecvSignalSkipped(d) ==                 \* rcvd_event not signalled
  /\ Go(d, "r_signal", "leave")
  /\ succs' = [succs EXCEPT ![d] = TRUE]
  /\ UNCHANGED <<ev, chan, data, closing, killed, calls, reply, held>>

ReleaseEventButRcvd(e, next) ==         \* rcvd_event forgotten
  /\ closing = e /\ closing' = next
  /\ IF e = "rcvd" THEN UNCHANGED ev ELSE KeSetEvent(e)
  /\ UNCHANGED <<chan, data, pc, locals>>

FreeUnpolled ==                         \* waiters not awaited
  /\ closing = "released"
  /\ \A t \in Threads : pc[t] \notin {"s_enter", "r_enter", "a_enter"}
  /\ closing' = "freed"
  /\ UNCHANGED <<ev, chan, data, pc, locals>>

-----------------------------------------------------------------------------
\* Steps that the three calls share

\* lock_inc(&chan->waiters), the first statement of the three calls.
Enter(t, from, to) ==
  /\ Go(t, from, to)
  /\ waiters' = waiters + 1
  /\ succs' = [succs EXCEPT ![t] = FALSE]
  /\ UNCHANGED <<ev, state, thread, released, data, closing,
                 killed, calls, reply, held>>

\* KeWaitForSingleObject in UserMode returns when the event is signalled.
KeWait(t, e, from, to) ==
  /\ ev[e] /\ Go(t, from, to)
  /\ UNCHANGED <<ev, chan, data, closing, locals>>

\* A thread that would block and is being terminated is sent out of the wait
\* with STATUS_USER_APC.
UserApc(t, e, from, to) ==
  /\ t \in Killable /\ ~ev[e] /\ Go(t, from, to)
  /\ killed' = [killed EXCEPT ![t] = TRUE]
  /\ UNCHANGED <<ev, chan, data, closing, succs, calls, reply, held>>

\* if (chan->released != 0) break;
CheckReleased(t, from, to) ==
  /\ Go(t, from, IF released THEN "leave" ELSE to)
  /\ UNCHANGED <<ev, chan, data, closing, locals>>

\* lock_dec(&chan->waiters) and return; a thread that was terminated is gone.
Leave(t) ==
  /\ Go(t, "leave", IF killed[t] THEN "dead" ELSE "idle")
  /\ waiters' = waiters - 1
  /\ UNCHANGED <<ev, state, thread, released, data, closing, locals>>

-----------------------------------------------------------------------------
\* channel_send_recv

\* A hook finds the session still active and reports an event.
CallSendRecv(s) ==
  /\ closing = "no" /\ calls[s] < MaxCalls
  /\ Go(s, "idle", "s_enter")
  /\ calls' = [calls EXCEPT ![s] = @ + 1]
  /\ UNCHANGED <<ev, chan, data, closing, succs, killed, reply, held>>

\* lock_cmpxchg(state, CH_SENT, CH_NULL); on failure "continue" leaves the
\* do { } while (0), so the call gives up.
SendCas(s) ==
  /\ IF state = "NULL"
       THEN Go(s, "s_cas", "s_clear") /\ state' = "SENT"
       ELSE Go(s, "s_cas", "leave") /\ UNCHANGED state
  /\ UNCHANGED <<ev, thread, released, waiters, data, closing, locals>>

SendClear(s) ==
  /\ Go(s, "s_clear", "s_copy") /\ KeClearEvent("send")
  /\ UNCHANGED <<chan, data, closing, locals>>

SendCopy(s) ==
  /\ Go(s, "s_copy", "s_signal") /\ snd' = Msg(s)
  /\ UNCHANGED <<ev, chan, rcv, closing, locals>>

SendSignal(s) ==
  /\ Go(s, "s_signal", "s_reply") /\ KeSetEvent("recv")
  /\ UNCHANGED <<chan, data, closing, locals>>

\* After the wait: succs = 1 unless the channel was released.  An aborted
\* wait skips this step and leaves succs = 0.
SendResult(s) ==
  /\ Go(s, "s_result", "s_fetch")
  /\ succs' = [succs EXCEPT ![s] = ~released]
  /\ UNCHANGED <<ev, chan, data, closing, killed, calls, reply, held>>

SendFetch(s) ==
  /\ Go(s, "s_fetch", "s_reset") /\ reply' = [reply EXCEPT ![s] = rcv]
  /\ UNCHANGED <<ev, chan, data, closing, succs, killed, calls, held>>

SendReset(s) ==
  /\ Go(s, "s_reset", "s_disown") /\ KeClearEvent("repl")
  /\ UNCHANGED <<chan, data, closing, locals>>

SendDisown(s) ==
  /\ Go(s, "s_disown", "s_null") /\ thread' = NoThread
  /\ UNCHANGED <<ev, state, released, waiters, data, closing, locals>>

SendNull(s) ==
  /\ Go(s, "s_null", "s_ready") /\ state' = "NULL"
  /\ UNCHANGED <<ev, thread, released, waiters, data, closing, locals>>

SendReady(s) ==
  /\ Go(s, "s_ready", "leave") /\ KeSetEvent("send")
  /\ UNCHANGED <<chan, data, closing, locals>>

channel_send_recv(s) ==
  \/ Enter(s, "s_enter", "s_wait")
  \/ KeWait(s, "send", "s_wait", "s_check")
  \/ CheckReleased(s, "s_check", "s_cas")
  \/ SendCas(s) \/ SendClear(s) \/ SendCopy(s) \/ SendSignal(s)
  \/ KeWait(s, "repl", "s_reply", "s_result")
  \/ SendResult(s) \/ SendFetch(s) \/ SendReset(s)
  \/ SendDisown(s) \/ SendNull(s) \/ SendReady(s)

-----------------------------------------------------------------------------
\* channel_recv

\* dbg_get_message: find the active session and receive.
CallRecv(d) ==
  /\ closing = "no" /\ (Disciplined => held[d] = NoMsg)
  /\ Go(d, "idle", "r_enter")
  /\ UNCHANGED <<ev, chan, data, closing, locals>>

RecvCas(d) ==
  /\ IF state = "SENT"
       THEN Go(d, "r_cas", "r_own") /\ state' = "RECVED"
       ELSE Go(d, "r_cas", "r_wait") /\ UNCHANGED state
  /\ UNCHANGED <<ev, thread, released, waiters, data, closing, locals>>

RecvOwn(d) ==
  /\ IF thread = NoThread
       THEN Go(d, "r_own", "r_clear") /\ thread' = d
       ELSE Go(d, "r_own", "r_wait") /\ UNCHANGED thread
  /\ UNCHANGED <<ev, state, released, waiters, data, closing, locals>>

RecvClear(d) ==
  /\ Go(d, "r_clear", "r_copy") /\ KeClearEvent("recv")
  /\ UNCHANGED <<chan, data, closing, locals>>

RecvCopy(d) ==
  /\ Go(d, "r_copy", "r_signal") /\ held' = [held EXCEPT ![d] = snd]
  /\ UNCHANGED <<ev, chan, data, closing, succs, killed, calls, reply>>

RecvSignal(d) ==
  /\ Go(d, "r_signal", "leave") /\ KeSetEvent("rcvd")
  /\ succs' = [succs EXCEPT ![d] = TRUE]
  /\ UNCHANGED <<chan, data, closing, killed, calls, reply, held>>

channel_recv(d) ==
  \/ Enter(d, "r_enter", "r_wait")
  \/ KeWait(d, "recv", "r_wait", "r_check")
  \/ CheckReleased(d, "r_check", "r_cas")
  \/ RecvCas(d) \/ RecvOwn(d) \/ RecvClear(d) \/ RecvCopy(d) \/ RecvSignal(d)

-----------------------------------------------------------------------------
\* channel_send

\* dbg_countinue: find the active session and answer.
CallSend(d) ==
  /\ closing = "no" /\ (Disciplined => held[d] # NoMsg)
  /\ Go(d, "idle", "a_enter")
  /\ UNCHANGED <<ev, chan, data, closing, locals>>

AnswerOwn(d) ==
  /\ Go(d, "a_own", IF thread = d THEN "a_cas" ELSE "a_wait")
  /\ UNCHANGED <<ev, chan, data, closing, locals>>

AnswerCas(d) ==
  /\ IF state = "RECVED"
       THEN Go(d, "a_cas", "a_clear") /\ state' = "REPLAYED"
       ELSE Go(d, "a_cas", "a_wait") /\ UNCHANGED state
  /\ UNCHANGED <<ev, thread, released, waiters, data, closing, locals>>

AnswerClear(d) ==
  /\ Go(d, "a_clear", "a_copy") /\ KeClearEvent("rcvd")
  /\ UNCHANGED <<chan, data, closing, locals>>

AnswerCopy(d) ==
  /\ Go(d, "a_copy", "a_signal")
  /\ rcv' = held[d]
  /\ held' = [held EXCEPT ![d] = NoMsg]
  /\ UNCHANGED <<ev, chan, snd, closing, succs, killed, calls, reply>>

AnswerSignal(d) ==
  /\ Go(d, "a_signal", "leave") /\ KeSetEvent("repl")
  /\ succs' = [succs EXCEPT ![d] = TRUE]
  /\ UNCHANGED <<chan, data, closing, killed, calls, reply, held>>

channel_send(d) ==
  \/ Enter(d, "a_enter", "a_wait")
  \/ KeWait(d, "rcvd", "a_wait", "a_check")
  \/ CheckReleased(d, "a_check", "a_own")
  \/ AnswerOwn(d) \/ AnswerCas(d) \/ AnswerClear(d) \/ AnswerCopy(d)
  \/ AnswerSignal(d)

-----------------------------------------------------------------------------
\* Tearing the session down

\* dbg_delete_item: item->active = 0 hides the session from new callers.
Deactivate ==
  /\ MayRelease /\ closing = "no" /\ closing' = "inactive"
  /\ UNCHANGED <<ev, chan, data, pc, locals>>

SetReleased ==
  /\ closing = "inactive" /\ closing' = "send"
  /\ released' = TRUE
  /\ UNCHANGED <<ev, state, thread, waiters, data, pc, locals>>

\* channel_release signals the four events in this order.
ReleaseEvent(e, next) ==
  /\ closing = e /\ closing' = next /\ KeSetEvent(e)
  /\ UNCHANGED <<chan, data, pc, locals>>

channel_release ==
  \/ SetReleased
  \/ ReleaseEvent("send", "recv") \/ ReleaseEvent("recv", "rcvd")
  \/ ReleaseEvent("rcvd", "repl") \/ ReleaseEvent("repl", "released")

\* channel_free polls waiters.  A caller that has found the session and not
\* yet counted itself in waiters holds a reference to it, which keeps
\* dbg_deref_item from calling channel_free.
channel_free ==
  /\ closing = "released" /\ waiters = 0
  /\ \A t \in Threads : pc[t] \notin {"s_enter", "r_enter", "a_enter"}
  /\ closing' = "freed"
  /\ UNCHANGED <<ev, chan, data, pc, locals>>

\* A thread is terminated: outside the channel, or in one of its waits.
Die(t) ==
  /\ t \in Killable /\ Go(t, "idle", "dead")
  /\ killed' = [killed EXCEPT ![t] = TRUE]
  /\ UNCHANGED <<ev, chan, data, closing, succs, calls, reply, held>>

KillSender(s) == \/ Die(s)
                 \/ UserApc(s, "send", "s_wait", "leave")
                 \/ UserApc(s, "repl", "s_reply", "s_fetch")
KillDebugger(d) == \/ Die(d)
                   \/ UserApc(d, "recv", "r_wait", "leave")
                   \/ UserApc(d, "rcvd", "a_wait", "leave")

Sender(s)   == \/ CallSendRecv(s) \/ channel_send_recv(s) \/ Leave(s)
               \/ KillSender(s)
Debugger(d) == \/ CallRecv(d) \/ channel_recv(d)
               \/ CallSend(d) \/ channel_send(d) \/ Leave(d)
               \/ KillDebugger(d)
Teardown    == Deactivate \/ channel_release \/ channel_free

Next == \/ \E s \in Senders : Sender(s)
        \/ \E d \in Debuggers : Debugger(d)
        \/ Teardown

Spec == Init /\ [][Next]_vars

\* Every thread that is inside a call keeps running, and KeSetEvent satisfies
\* every wait in progress, so a wait on an event that is signalled again and
\* again ends: strong fairness of each thread.  The debugger runs its loop of
\* get_msg and countinue, and a release that was begun is carried through.
\* Nothing is assumed of new events, kills or the decision to delete.
Fairness ==
  /\ \A s \in Senders : SF_vars(channel_send_recv(s) \/ Leave(s))
  /\ \A d \in Debuggers :
       SF_vars(\/ CallRecv(d) \/ channel_recv(d)
               \/ CallSend(d) \/ channel_send(d) \/ Leave(d))
  /\ WF_vars(channel_release)

FairSpec == Spec /\ Fairness
-----------------------------------------------------------------------------
\* Every variable has its type.
TypeOK ==
  /\ ev \in [Events -> BOOLEAN]
  /\ state \in States
  /\ thread \in Debuggers \cup {NoThread}
  /\ released \in BOOLEAN
  /\ waiters \in Nat
  /\ snd \in Msgs \cup {NoMsg} /\ rcv \in Msgs \cup {NoMsg}
  /\ closing \in Events \cup {"no", "inactive", "released", "freed"}
  /\ pc \in [Threads -> SenderPC \cup DebuggerPC]
  /\ \A s \in Senders : pc[s] \in SenderPC
  /\ \A d \in Debuggers : pc[d] \in DebuggerPC
  /\ succs \in [Threads -> BOOLEAN]
  /\ killed \in [Threads -> BOOLEAN]
  /\ calls \in [Senders -> 0 .. MaxCalls]
  /\ reply \in [Senders -> Msgs \cup {NoMsg}]
  /\ held \in [Debuggers -> Msgs \cup {NoMsg}]

\* The sender has won the compare-exchange and not yet reset chan->state.
InTransaction(s) ==
  pc[s] \in {"s_clear", "s_copy", "s_signal", "s_reply", "s_result",
             "s_fetch", "s_reset", "s_disown", "s_null"}

\* The thread is counted in chan->waiters.
Inside(t) == pc[t] \notin {"idle", "dead", "s_enter", "r_enter", "a_enter"}

\* chan->waiters is the number of threads inside the three calls.
WaitersCount == waiters = Cardinality({t \in Threads : Inside(t)})

\* channel_send_recv runs its transactions one at a time, and chan->state is
\* CH_NULL exactly between transactions, whatever is killed or released.
OneTransaction ==
  /\ \A s1, s2 \in Senders :
       InTransaction(s1) /\ InTransaction(s2) => s1 = s2
  /\ state # "NULL" <=> \E s \in Senders : InTransaction(s)

\* A channel_send_recv that returns 1 has copied out the answer to the very
\* event it sent, never an answer left over from another transaction.
ReplyMatches ==
  \A s \in Senders :
    /\ succs[s]
    /\ pc[s] \in {"s_reset", "s_disown", "s_null", "s_ready", "leave", "idle"}
    => reply[s] = Msg(s)

\* The debugger thread is between winning both compare-exchanges of
\* channel_recv, or the one of channel_send, and its signal to the other side.
\* Until the release it is then the thread recorded in chan->thread, in the
\* state it has established: two debugger threads never serve one event.
OneOwner ==
  ~released =>
    \A d \in Debuggers :
      /\ pc[d] \in {"r_clear", "r_copy", "r_signal", "a_cas"} =>
           thread = d /\ state = "RECVED"
      /\ pc[d] \in {"a_clear", "a_copy", "a_signal"} =>
           thread = d /\ state = "REPLAYED"

\* Until the release, a debugger thread that has taken an event owns the
\* transaction, and the reporter of that very event is waiting for its answer.
TakerOwnsTransaction ==
  ~released =>
    \A d \in Debuggers : held[d] # NoMsg =>
      /\ thread = d
      /\ state \in {"RECVED", "REPLAYED"}
      /\ \E s \in Senders : pc[s] = "s_reply" /\ Msg(s) = held[d]

\* Until the release, no thread copies into a half of chan->data while
\* another thread copies into it or out of it: the memcpys need no lock.
BufferUnshared ==
  ~released =>
    \A t, u \in Threads : t # u =>
      /\ pc[t] = "s_copy" => pc[u] \notin {"s_copy", "r_copy"}
      /\ pc[t] = "a_copy" => pc[u] \notin {"a_copy", "s_fetch"}

\* channel_free's polling of waiters lets no thread touch a freed channel.
NoUseAfterFree ==
  closing = "freed" => \A t \in Threads : pc[t] \in {"idle", "dead"}

\* A sender that has won the channel gets its answer: the four events never
\* end up in a combination that leaves everybody waiting.
EventAnswered ==
  \A s \in Senders :
    pc[s] = "s_clear" ~> pc[s] = "leave" /\ succs[s]

\* What channel_release guarantees when several threads race with it: a
\* reporter that has won the channel before repl_event is signalled leaves,
\* whatever the other reporters clear, and so does a debugger thread, if it is
\* the only one.  (A reporter that wins later, or waits for send_event then, is
\* not let out when another one has cleared the event again.)
ReleaseDrains ==
  /\ \A s \in Senders :
       closing = "repl" /\ InTransaction(s) ~> pc[s] \in {"idle", "dead"}
  /\ \A d \in Debuggers :
       closing = "released" /\ Debuggers = {d} ~> pc[d] \in {"idle", "dead"}

\* "send debug event and wait replay": channel_send_recv gives up only when
\* the channel was released or the caller is being terminated.
EventDelivered ==
  \A s \in Senders :
    pc[s] = "leave" /\ ~succs[s] => released \/ killed[s]
=============================================================================
