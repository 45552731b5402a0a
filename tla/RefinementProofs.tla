-------------------------- MODULE RefinementProofs --------------------------
(***************************************************************************)
(* Channel implements Rendezvous, for any number of senders and one        *)
(* debugger thread, when no reporting thread is terminated.                *)
(***************************************************************************)
EXTENDS ChannelRefinement, ChannelProofs

ChannelInv == TransactionInv /\ OwnerInv /\ AnswerInv

-----------------------------------------------------------------------------
\* Every event that is or was in the channel has been let out by its reporter.

Asking(s) == pc[s] \in {"s_enter", "s_wait", "s_check", "s_cas"}

\* The number of events that s has let out, or given up.
Out(s) == IF Asking(s) THEN calls[s] - 1 ELSE calls[s]

Past(m) == \A s \in Senders, n \in 1 .. MaxCalls : m = <<s, n>> => n <= Out(s)

PastInv == /\ Past(snd) /\ Past(rcv)
           /\ \A d \in Debuggers : Past(held[d])

LEMMA OutType ==
  ASSUME TypeButWaiters
  PROVE  \A s \in Senders : Out(s) \in Int
BY BoundsAssumption DEF TypeButWaiters, Out

LEMMA OutGrows ==
  ASSUME TypeButWaiters, [Next]_vars, NEW o \in Senders
  PROVE  Out(o) <= Out(o)'
<1> USE ThreadsAssumption, BoundsAssumption DEF Go, chan, data, locals
<1>1. calls[o] \in Int /\ pc \in [Threads -> SenderPC \cup DebuggerPC] /\ o \in Threads
      /\ calls \in [Senders -> 0 .. MaxCalls]
  BY DEF TypeButWaiters, Threads
<1>2. CASE pc'[o] = pc[o] /\ calls'[o] = calls[o]
  BY <1>1, <1>2 DEF Out, Asking
<1>3. CASE calls' = calls /\ ~Asking(o)'
  BY <1>1, <1>3 DEF Out
<1>4. CASE calls' = calls /\ Asking(o)
  BY <1>1, <1>4 DEF Out
<1>5. CASE ~Asking(o) /\ calls'[o] = calls[o] + 1
  BY <1>1, <1>5 DEF Out
<1>6. ASSUME NEW s \in Senders, Sender(s)
      PROVE  Out(o) <= Out(o)'
  <2>1. CASE o # s
    <3>1. pc'[o] = pc[o] /\ calls'[o] = calls[o]
      BY <1>1, <1>6, <2>1
         DEF Sender, channel_send_recv, KillSender, CallSendRecv, Enter, KeWait,
             CheckReleased, SendCas, SendClear, SendCopy, SendSignal, SendResult,
             SendFetch, SendReset, SendDisown, SendNull, SendReady, Leave, Die, UserApc
    <3> QED BY <3>1, <1>2
  <2>2. CASE o = s /\ CallSendRecv(s)
    <3>1. ~Asking(o) /\ calls'[o] = calls[o] + 1
      BY <1>1, <2>2 DEF CallSendRecv, Asking
    <3> QED BY <3>1, <1>5
  <2>3. CASE o = s /\ ~CallSendRecv(s)
    <3>1. calls' = calls /\ (~Asking(o)' \/ Asking(o))
      BY <1>1, <1>6, <2>3
         DEF Asking, Sender, channel_send_recv, KillSender, Enter, KeWait,
             CheckReleased, SendCas, SendClear, SendCopy, SendSignal, SendResult,
             SendFetch, SendReset, SendDisown, SendNull, SendReady, Leave, Die, UserApc
    <3> QED BY <3>1, <1>3, <1>4
  <2> QED BY <2>1, <2>2, <2>3
<1>7. ASSUME NEW d \in Debuggers, Debugger(d)
      PROVE  Out(o) <= Out(o)'
  <2>1. o # d
    OBVIOUS
  <2>2. pc'[o] = pc[o] /\ calls'[o] = calls[o]
    BY <1>1, <1>7, <2>1
       DEF Debugger, channel_recv, channel_send, KillDebugger, CallRecv, CallSend,
           Enter, KeWait, CheckReleased, RecvCas, RecvOwn, RecvClear, RecvCopy,
           RecvSignal, AnswerOwn, AnswerCas, AnswerClear, AnswerCopy, AnswerSignal,
           Leave, Die, UserApc
  <2> QED BY <2>2, <1>2
<1>8. CASE Teardown \/ UNCHANGED vars
  <2>1. pc' = pc /\ calls' = calls
    BY <1>8 DEF Teardown, Deactivate, channel_release, SetReleased, ReleaseEvent,
                channel_free, vars
  <2> QED BY <2>1, <1>2
<1> QED BY <1>6, <1>7, <1>8 DEF Next

\* What a step can put into the channel and the callers' hands.
LEMMA MessagesMove ==
  ASSUME TypeButWaiters, [Next]_vars
  PROVE  /\ \/ snd' = snd
            \/ \E s \in Senders : pc[s] = "s_copy" /\ snd' = Msg(s)
         /\ \/ rcv' = rcv
            \/ \E d \in Debuggers : rcv' = held[d]
         /\ \A d \in Debuggers : held'[d] \in {held[d], snd, NoMsg}
<1> USE DEF Go, chan, data, locals
<1>0. held \in [Debuggers -> Msgs \cup {NoMsg}]
  BY DEF TypeButWaiters
<1>1. ASSUME NEW s \in Senders, Sender(s)
      PROVE  /\ snd' = snd \/ (pc[s] = "s_copy" /\ snd' = Msg(s))
             /\ rcv' = rcv /\ held' = held
  BY <1>1
     DEF Sender, channel_send_recv, KillSender, CallSendRecv, Enter, KeWait,
         CheckReleased, SendCas, SendClear, SendCopy, SendSignal, SendResult,
         SendFetch, SendReset, SendDisown, SendNull, SendReady, Leave, Die, UserApc
<1>2. ASSUME NEW d \in Debuggers, Debugger(d)
      PROVE  /\ snd' = snd
             /\ rcv' = rcv \/ rcv' = held[d]
             /\ \A f \in Debuggers : held'[f] \in {held[f], snd, NoMsg}
  <2>1. CASE RecvCopy(d) BY <1>0, <2>1 DEF RecvCopy
  <2>2. CASE AnswerCopy(d) BY <1>0, <2>2 DEF AnswerCopy
  <2>3. CASE ~RecvCopy(d) /\ ~AnswerCopy(d)
    <3>1. snd' = snd /\ rcv' = rcv /\ held' = held
      BY <1>2, <2>3
         DEF Debugger, channel_recv, channel_send, KillDebugger, CallRecv, CallSend,
             Enter, KeWait, CheckReleased, RecvCas, RecvOwn, RecvClear,
             RecvSignal, AnswerOwn, AnswerCas, AnswerClear, AnswerSignal,
             Leave, Die, UserApc
    <3> QED BY <3>1
  <2> QED BY <2>1, <2>2, <2>3
<1>3. CASE Teardown \/ UNCHANGED vars
  <2>1. snd' = snd /\ rcv' = rcv /\ held' = held
    BY <1>3 DEF Teardown, Deactivate, channel_release, SetReleased, ReleaseEvent,
                channel_free, vars
  <2> QED BY <2>1
<1> QED BY <1>1, <1>2, <1>3 DEF Next

LEMMA PastStep ==
  ASSUME TypeButWaiters, TypeButWaiters', PastInv, [Next]_vars
  PROVE  PastInv'
<1>1. \A s \in Senders : Out(s) \in Int /\ Out(s)' \in Int /\ Out(s) <= Out(s)'
  BY OutType, OutGrows DEF TypeButWaiters, Out
<1> DEFINE Later(m) == \A s \in Senders, n \in 1 .. MaxCalls : m = <<s, n>> => n <= Out(s)'
<1>2. ASSUME NEW m, Past(m)
      PROVE  Later(m)
  BY <1>1, <1>2 DEF Past
<1>3. ASSUME NEW s \in Senders, pc[s] = "s_copy"
      PROVE  Later(Msg(s))
  <2>1. Out(s) = calls[s]
    BY <1>3 DEF Out, Asking
  <2> QED BY <1>1, <2>1 DEF Msg
<1>4. Later(NoMsg)
  BY DEF NoMsg
<1>5. Later(snd')
  BY <1>2, <1>3, MessagesMove DEF PastInv
<1>6. Later(rcv')
  BY <1>2, MessagesMove DEF PastInv
<1>7. \A d \in Debuggers : Later(held'[d])
  BY <1>2, <1>4, MessagesMove DEF PastInv
<1> QED BY <1>5, <1>6, <1>7 DEF PastInv, Past

-----------------------------------------------------------------------------
\* What Rendezvous promises beyond the invariants of ChannelProofs: an event
\* that is being taken has no answer yet, its taker no other event, and only
\* the release ends a call without an answer.
PromiseInv ==
  /\ \A d \in Debuggers : pc[d] \in {"r_cas", "r_own", "r_clear", "r_copy"} => snd # NoMsg
  /\ ~released => \A s \in Senders : InTransaction(s) /\ rcv = Msg(s) => state = "REPLAYED"
  /\ ~released => \A d \in Debuggers : pc[d] \in {"r_own", "r_clear", "r_copy"} =>
       held[d] = NoMsg
  /\ \A s \in Senders :
       pc[s] \in {"s_fetch", "s_reset", "s_disown", "s_null"} /\ ~succs[s] => released

\* A new event is not the one that was answered last.
LEMMA NewEventUnanswered ==
  ASSUME TypeButWaiters, PastInv, NEW s \in Senders, pc[s] = "s_cas"
  PROVE  rcv # Msg(s)
<1>1. Out(s) = calls[s] - 1 /\ calls[s] \in Int
  BY BoundsAssumption DEF Out, Asking, TypeButWaiters
<1>2. rcv \in Msgs \cup {NoMsg}
  BY DEF TypeButWaiters
<1>3. SUFFICES ASSUME rcv = <<s, calls[s]>>
      PROVE  FALSE
  BY DEF Msg
<1>4. rcv \in Msgs
  BY <1>2, <1>3 DEF NoMsg
<1>5. calls[s] \in 1 .. MaxCalls
  BY <1>3, <1>4 DEF Msgs
<1>6. calls[s] <= Out(s)
  BY <1>3, <1>5 DEF PastInv, Past
<1> QED BY <1>1, <1>6

LEMMA PromiseSend ==
  ASSUME Killable \cap Senders = {}, ChannelInv, PastInv, PromiseInv,
         NEW s \in Senders, Sender(s)
  PROVE  PromiseInv'
<1> USE ThreadsAssumption
    DEF ChannelInv, TransactionInv, TypeButWaiters, OneTransaction, InTransaction,
        PromiseInv, Msg, Go, chan, data, locals, Threads
<1>1. CASE CallSendRecv(s) BY <1>1 DEF CallSendRecv
<1>2. CASE Enter(s, "s_enter", "s_wait") BY <1>2 DEF Enter
<1>3. CASE KeWait(s, "send", "s_wait", "s_check") BY <1>3 DEF KeWait
<1>4. CASE CheckReleased(s, "s_check", "s_cas") BY <1>4 DEF CheckReleased
<1>5. CASE SendCas(s)
  <2>1. rcv # Msg(s)
    BY <1>5, NewEventUnanswered DEF SendCas
  <2>2. CASE state = "NULL"
    <3>1. \A o \in Senders : o # s => ~InTransaction(o) /\ pc'[o] = pc[o]
      BY <1>5, <2>2 DEF SendCas
    <3>2. \A o \in Senders : Msg(o)' = Msg(o) /\ pc'[s] = "s_clear"
      BY <1>5, <2>2 DEF SendCas
    <3> QED BY <1>5, <2>1, <2>2, <3>1, <3>2 DEF SendCas
  <2>3. CASE state # "NULL"
    BY <1>5, <2>3 DEF SendCas
  <2> QED BY <2>2, <2>3
<1>6. CASE SendClear(s) BY <1>6 DEF SendClear
<1>7. CASE SendCopy(s) BY <1>7, MsgNotNull DEF SendCopy, NoMsg
<1>8. CASE SendSignal(s) BY <1>8 DEF SendSignal
<1>9. CASE KeWait(s, "repl", "s_reply", "s_result") BY <1>9 DEF KeWait
<1>10. CASE SendResult(s)
  <2>1. /\ pc[s] = "s_result" /\ pc'[s] = "s_fetch" /\ (~succs'[s] => released)
        /\ \A o \in Senders : o # s => pc'[o] = pc[o] /\ succs'[o] = succs[o]
        /\ \A d \in Debuggers : pc'[d] = pc[d]
        /\ UNCHANGED <<state, released, snd, rcv, calls, held>>
    BY <1>10 DEF SendResult
  <2> QED BY <2>1
<1>11. CASE SendFetch(s) BY <1>11 DEF SendFetch
<1>12. CASE SendReset(s) BY <1>12 DEF SendReset
<1>13. CASE SendDisown(s) BY <1>13 DEF SendDisown
<1>14. CASE SendNull(s)
  <2>1. \A o \in Senders : o # s => ~InTransaction(o)
    BY <1>14 DEF SendNull
  <2>2. \A o \in Senders : ~InTransaction(o)'
    BY <1>14, <2>1 DEF SendNull
  <2> QED BY <1>14, <2>2 DEF SendNull
<1>15. CASE SendReady(s) BY <1>15 DEF SendReady
<1>16. CASE Leave(s) BY <1>16 DEF Leave
<1>17. CASE KillSender(s) BY <1>17 DEF KillSender, Die, UserApc
<1> QED BY <1>1, <1>2, <1>3, <1>4, <1>5, <1>6, <1>7, <1>8, <1>9, <1>10,
           <1>11, <1>12, <1>13, <1>14, <1>15, <1>16, <1>17
        DEF Sender, channel_send_recv

LEMMA PromiseDebug ==
  ASSUME ChannelInv, PromiseInv, NEW d \in Debuggers, Debugger(d)
  PROVE  PromiseInv'
<1> USE ThreadsAssumption
    DEF ChannelInv, TransactionInv, TypeButWaiters, OneTransaction, InTransaction,
        PromiseInv, Msg, Go, chan, data, locals
<1>1. CASE CallRecv(d) BY <1>1 DEF CallRecv
<1>2. CASE Enter(d, "r_enter", "r_wait") BY <1>2 DEF Enter
<1>3. CASE KeWait(d, "recv", "r_wait", "r_check") BY <1>3 DEF KeWait
<1>4. CASE CheckReleased(d, "r_check", "r_cas") BY <1>4, MsgNotNull DEF CheckReleased, AnswerInv
<1>5. CASE RecvCas(d)
  <2>1. /\ \A o \in Threads : o # d => pc'[o] = pc[o]
        /\ pc[d] = "r_cas" /\ pc'[d] \in {"r_own", "r_wait"}
        /\ UNCHANGED <<released, snd, rcv, calls, held, succs>>
    BY <1>5 DEF RecvCas, Threads
  <2>2. \A s \in Senders : InTransaction(s)' = InTransaction(s) /\ Msg(s)' = Msg(s)
    BY <2>1 DEF Threads
  <2>3. CASE state = "SENT"
    <3>1. ~released => \A s \in Senders : ~(InTransaction(s) /\ rcv = Msg(s))
      BY <2>3
    <3>2. ~released => held[d] = NoMsg
      BY <2>3 DEF AnswerInv
    <3> QED BY <2>1, <2>2, <3>1, <3>2 DEF Threads
  <2>4. CASE state # "SENT"
    <3>1. state' = state /\ pc'[d] = "r_wait"
      BY <1>5, <2>4 DEF RecvCas, Threads
    <3> QED BY <2>1, <2>2, <3>1 DEF Threads
  <2> QED BY <2>3, <2>4
<1>6. CASE RecvOwn(d)
  <2>1. /\ \A o \in Threads : o # d => pc'[o] = pc[o]
        /\ pc[d] = "r_own" /\ pc'[d] \in {"r_clear", "r_wait"}
        /\ UNCHANGED <<state, released, snd, rcv, calls, held, succs>>
    BY <1>6 DEF RecvOwn, Threads
  <2> QED BY <2>1 DEF Threads
<1>7. CASE RecvClear(d) BY <1>7 DEF RecvClear
<1>8. CASE RecvCopy(d)
  <2>1. /\ \A o \in Threads : o # d => pc'[o] = pc[o]
        /\ pc[d] = "r_copy" /\ pc'[d] = "r_signal"
        /\ \A f \in Debuggers : f # d => held'[f] = held[f]
        /\ UNCHANGED <<state, released, snd, rcv, calls, succs>>
    BY <1>8 DEF RecvCopy, Threads
  <2> QED BY <2>1 DEF Threads
<1>9. CASE RecvSignal(d) BY <1>9 DEF RecvSignal
<1>10. CASE CallSend(d) BY <1>10 DEF CallSend
<1>11. CASE Enter(d, "a_enter", "a_wait") BY <1>11 DEF Enter
<1>12. CASE KeWait(d, "rcvd", "a_wait", "a_check") BY <1>12 DEF KeWait
<1>13. CASE CheckReleased(d, "a_check", "a_own") BY <1>13 DEF CheckReleased
<1>14. CASE AnswerOwn(d) BY <1>14 DEF AnswerOwn
<1>15. CASE AnswerCas(d)
  <2>1. /\ \A o \in Threads : o # d => pc'[o] = pc[o]
        /\ pc[d] = "a_cas" /\ pc'[d] \in {"a_clear", "a_wait"}
        /\ state' \in {state, "REPLAYED"}
        /\ UNCHANGED <<released, snd, rcv, calls, held, succs>>
    BY <1>15 DEF AnswerCas, Threads
  <2> QED BY <2>1 DEF Threads
<1>16. CASE AnswerClear(d) BY <1>16 DEF AnswerClear
<1>17. CASE AnswerCopy(d) BY <1>17 DEF AnswerCopy, OwnerInv
<1>18. CASE AnswerSignal(d) BY <1>18 DEF AnswerSignal
<1>19. CASE Leave(d) BY <1>19 DEF Leave
<1>20. CASE KillDebugger(d)
  <2>1. /\ \A o \in Threads : o # d => pc'[o] = pc[o]
        /\ pc'[d] \in {"dead", "leave"}
        /\ UNCHANGED <<state, released, snd, rcv, calls, held, succs>>
    BY <1>20 DEF KillDebugger, Die, UserApc, Threads
  <2> QED BY <2>1 DEF Threads
<1> QED BY <1>1, <1>2, <1>3, <1>4, <1>5, <1>6, <1>7, <1>8, <1>9, <1>10,
           <1>11, <1>12, <1>13, <1>14, <1>15, <1>16, <1>17, <1>18, <1>19, <1>20
        DEF Debugger, channel_recv, channel_send

LEMMA PromiseInvariant ==
  ASSUME Killable \cap Senders = {}, OneDebugger
  PROVE  Spec => [](ChannelInv /\ PastInv /\ PromiseInv)
<1>1. Init => PastInv /\ PromiseInv
  <2> SUFFICES ASSUME Init PROVE PastInv /\ PromiseInv
    OBVIOUS
  <2>1. PastInv BY DEF Init, PastInv, Past, NoMsg
  <2>2. PromiseInv BY ThreadsAssumption DEF Init, PromiseInv, InTransaction, Threads
  <2> QED BY <2>1, <2>2
<1>2. ChannelInv /\ ChannelInv' /\ PastInv /\ PromiseInv /\ [Next]_vars
        => PastInv' /\ PromiseInv'
  <2> SUFFICES ASSUME ChannelInv, ChannelInv', PastInv, PromiseInv, [Next]_vars
               PROVE  PastInv' /\ PromiseInv'
    OBVIOUS
  <2>1. PastInv'
    BY PastStep DEF ChannelInv, TransactionInv
  <2>2. CASE Teardown \/ UNCHANGED vars
    BY <2>1, <2>2
       DEF Teardown, Deactivate, channel_release, SetReleased, ReleaseEvent,
           channel_free, vars, PromiseInv, InTransaction, Msg, chan, data, locals
  <2> QED BY <2>1, <2>2, PromiseSend, PromiseDebug DEF Next
<1>3. Spec => []ChannelInv
  BY AnswerInvariant DEF ChannelInv
<1> QED BY <1>1, <1>2, <1>3, PTL DEF Spec

-----------------------------------------------------------------------------
\* Every step of Channel is a step of Rendezvous or none.

\* The phase and the answer of a sender depend on the sender alone.
LEMMA SameSender ==
  ASSUME NEW o \in Senders, pc'[o] = pc[o], succs'[o] = succs[o], reply'[o] = reply[o]
  PROVE  Phase(o)' = Phase(o) /\ Got(o)' = Got(o)
BY DEF Phase, Got, InTransaction

LEMMA OtherSenders ==
  ASSUME TypeButWaiters, NEW s \in Senders, Sender(s), NEW o \in Senders, o # s
  PROVE  Phase(o)' = Phase(o) /\ Got(o)' = Got(o)
<1>1. /\ pc \in [Threads -> SenderPC \cup DebuggerPC] /\ succs \in [Threads -> BOOLEAN]
      /\ reply \in [Senders -> Msgs \cup {NoMsg}] /\ s \in Threads /\ o \in Threads
  BY DEF TypeButWaiters, Threads
<1>2. pc'[o] = pc[o]
  BY <1>1
     DEF Sender, channel_send_recv, KillSender, CallSendRecv, Enter, KeWait, Go,
         CheckReleased, SendCas, SendClear, SendCopy, SendSignal, SendResult,
         SendFetch, SendReset, SendDisown, SendNull, SendReady, Leave, Die, UserApc
<1>3. succs' = succs \/ \E b : succs' = [succs EXCEPT ![s] = b]
  BY DEF Sender, channel_send_recv, KillSender, CallSendRecv, Enter, KeWait, locals,
         CheckReleased, SendCas, SendClear, SendCopy, SendSignal, SendResult,
         SendFetch, SendReset, SendDisown, SendNull, SendReady, Leave, Die, UserApc
<1>4. succs'[o] = succs[o]
  BY <1>1, <1>3
<1>5. reply'[o] = reply[o]
  BY <1>1
     DEF Sender, channel_send_recv, KillSender, CallSendRecv, Enter, KeWait, locals,
         CheckReleased, SendCas, SendClear, SendCopy, SendSignal, SendResult,
         SendFetch, SendReset, SendDisown, SendNull, SendReady, Leave, Die, UserApc
<1> QED BY <1>2, <1>4, <1>5, SameSender

\* How a step of one sender shows in the functions of the refinement mapping.
LEMMA OneSenderMoves ==
  ASSUME NEW s \in Senders,
         \A o \in Senders : o # s => Phase(o)' = Phase(o) /\ Got(o)' = Got(o)
  PROVE  /\ [o \in Senders |-> Phase(o)'] =
              [[o \in Senders |-> Phase(o)] EXCEPT ![s] = Phase(s)']
         /\ [o \in Senders |-> Got(o)'] =
              [[o \in Senders |-> Got(o)] EXCEPT ![s] = Got(s)']
         /\ Phase(s)' = Phase(s) =>
              [o \in Senders |-> Phase(o)'] = [o \in Senders |-> Phase(o)]
         /\ Got(s)' = Got(s) =>
              [o \in Senders |-> Got(o)'] = [o \in Senders |-> Got(o)]
OBVIOUS

LEMMA SenderSteps ==
  ASSUME Killable \cap Senders = {}, ChannelInv, PromiseInv, NEW s \in Senders, Sender(s)
  PROVE  [R!Next]_(R!vars)
<1>1. /\ pc \in [Threads -> SenderPC \cup DebuggerPC] /\ succs \in [Threads -> BOOLEAN]
      /\ reply \in [Senders -> Msgs \cup {NoMsg}] /\ s \in Threads /\ s \notin Killable
  BY DEF ChannelInv, TransactionInv, TypeButWaiters, Threads
<1>2. \A o \in Senders : o # s => Phase(o)' = Phase(o) /\ Got(o)' = Got(o)
  BY OtherSenders DEF ChannelInv, TransactionInv
<1>3. /\ [o \in Senders |-> Phase(o)'] =
           [[o \in Senders |-> Phase(o)] EXCEPT ![s] = Phase(s)']
      /\ [o \in Senders |-> Got(o)'] =
           [[o \in Senders |-> Got(o)] EXCEPT ![s] = Got(s)']
      /\ Phase(s)' = Phase(s) =>
           [o \in Senders |-> Phase(o)'] = [o \in Senders |-> Phase(o)]
      /\ Got(s)' = Got(s) =>
           [o \in Senders |-> Got(o)'] = [o \in Senders |-> Got(o)]
  BY <1>2, OneSenderMoves
<1> USE DEF Go, chan, data, locals
<1>4. ASSUME UNCHANGED <<calls, held, rcv, released>>,
             Phase(s)' = Phase(s), Got(s)' = Got(s)
      PROVE  UNCHANGED R!vars
  BY <1>3, <1>4 DEF R!vars
<1>5. CASE CallSendRecv(s)
  <2>1. Phase(s) = "idle" /\ Phase(s)' = "asking" /\ Got(s)' = NoMsg
    BY <1>1, <1>5 DEF CallSendRecv, Phase, Got, InTransaction
  <2>2. R!Report(s)
    BY <1>3, <1>5, <2>1 DEF CallSendRecv, R!Report, R!Go
  <2> QED BY <2>2 DEF R!Next
<1>6. CASE Enter(s, "s_enter", "s_wait")
  BY <1>1, <1>4, <1>6 DEF Enter, Phase, Got, InTransaction
<1>7. CASE KeWait(s, "send", "s_wait", "s_check")
  BY <1>1, <1>4, <1>7 DEF KeWait, Phase, Got, InTransaction
<1>8. CASE CheckReleased(s, "s_check", "s_cas") /\ ~released
  BY <1>1, <1>4, <1>8 DEF CheckReleased, Phase, Got, InTransaction
<1>9. CASE CheckReleased(s, "s_check", "s_cas") /\ released
  <2>1. ~succs[s]
    BY <1>9 DEF CheckReleased, ChannelInv, AnswerInv
  <2>2. Phase(s) = "asking" /\ Phase(s)' = "over" /\ Got(s)' = Got(s)
    BY <1>1, <1>9, <2>1 DEF CheckReleased, Phase, Got, InTransaction
  <2>3. R!Refuse(s)
    BY <1>3, <1>9, <2>2 DEF CheckReleased, R!Refuse, R!Go
  <2> QED BY <2>3 DEF R!Next
<1>10. CASE SendCas(s) /\ state = "NULL"
  <2>1. Phase(s) = "asking" /\ Phase(s)' = "in" /\ Got(s)' = Got(s)
    BY <1>1, <1>10 DEF SendCas, Phase, Got, InTransaction
  <2>2. \A o \in Senders : Phase(o) # "in"
    BY <1>10 DEF ChannelInv, TransactionInv, OneTransaction, Phase
  <2>3. R!Begin(s)
    BY <1>3, <1>10, <2>1, <2>2 DEF SendCas, R!Begin, R!Go
  <2> QED BY <2>3 DEF R!Next
<1>11. CASE SendCas(s) /\ state # "NULL"
  <2>1. ~succs[s]
    BY <1>11 DEF SendCas, ChannelInv, AnswerInv
  <2>2. Phase(s) = "asking" /\ Phase(s)' = "over" /\ Got(s)' = Got(s)
    BY <1>1, <1>11, <2>1 DEF SendCas, Phase, Got, InTransaction
  <2>3. PICK o \in Senders : InTransaction(o)
    BY <1>11 DEF ChannelInv, TransactionInv, OneTransaction
  <2>4. Phase(o) = "in"
    BY <2>3 DEF Phase, InTransaction
  <2>5. R!Refuse(s)
    BY <1>3, <1>11, <2>2, <2>4 DEF SendCas, R!Refuse, R!Go
  <2> QED BY <2>5 DEF R!Next
<1>12. CASE SendClear(s) \/ SendCopy(s) \/ SendSignal(s)
  BY <1>1, <1>4, <1>12 DEF SendClear, SendCopy, SendSignal, Phase, Got, InTransaction
<1>13. CASE KeWait(s, "repl", "s_reply", "s_result") \/ SendResult(s)
  BY <1>1, <1>4, <1>13 DEF KeWait, SendResult, Phase, Got, InTransaction
<1>14. CASE SendFetch(s) /\ succs[s]
  <2>1. Phase(s) = "in" /\ Phase(s)' = "in" /\ Got(s)' = rcv
    BY <1>1, <1>14 DEF SendFetch, Phase, Got, InTransaction
  <2>2. rcv = Msg(s)
    BY <1>14 DEF SendFetch, ChannelInv, AnswerInv
  <2>3. R!Return(s)
    BY <1>3, <1>14, <2>1, <2>2 DEF SendFetch, R!Return, R!Msg, Msg
  <2> QED BY <2>3 DEF R!Next
<1>15. CASE SendFetch(s) /\ ~succs[s]
  BY <1>1, <1>4, <1>15 DEF SendFetch, Phase, Got, InTransaction
<1>16. CASE SendReset(s) \/ SendDisown(s)
  BY <1>1, <1>4, <1>16 DEF SendReset, SendDisown, Phase, Got, InTransaction
<1>17. CASE SendNull(s)
  <2>1. Phase(s) = "in" /\ Phase(s)' = "over" /\ Got(s)' = Got(s)
    BY <1>1, <1>17 DEF SendNull, Phase, Got, InTransaction
  <2>2. Got(s) = Msg(s) \/ released
    BY <1>17 DEF SendNull, Got, ChannelInv, AnswerInv, ReplyMatches, PromiseInv
  <2>3. R!End(s)
    BY <1>3, <1>17, <2>1, <2>2 DEF SendNull, R!End, R!Go, R!Msg, Msg
  <2> QED BY <2>3 DEF R!Next
<1>18. CASE SendReady(s)
  BY <1>1, <1>4, <1>18 DEF SendReady, Phase, Got, InTransaction
<1>19. CASE Leave(s)
  <2>1. Phase(s) = "over" /\ Phase(s)' = "idle" /\ Got(s)' = Got(s)
    BY <1>1, <1>19 DEF Leave, Phase, Got, InTransaction
  <2>2. R!Leave(s)
    BY <1>3, <1>19, <2>1 DEF Leave, R!Leave, R!Go
  <2> QED BY <2>2 DEF R!Next
<1>20. ~KillSender(s)
  BY <1>1 DEF KillSender, Die, UserApc
<1> QED BY <1>5, <1>6, <1>7, <1>8, <1>9, <1>10, <1>11, <1>12, <1>13, <1>14, <1>15,
           <1>16, <1>17, <1>18, <1>19, <1>20
        DEF Sender, channel_send_recv

LEMMA DebuggerSteps ==
  ASSUME OneDebugger, ChannelInv, PastInv, PromiseInv, NEW d \in Debuggers, Debugger(d)
  PROVE  [R!Next]_(R!vars)
<1>1. /\ pc \in [Threads -> SenderPC \cup DebuggerPC] /\ succs \in [Threads -> BOOLEAN]
      /\ held \in [Debuggers -> Msgs \cup {NoMsg}] /\ snd \in Msgs \cup {NoMsg}
      /\ d \in Threads /\ d \notin Senders
  BY ThreadsAssumption DEF ChannelInv, TransactionInv, TypeButWaiters, Threads
<1> USE DEF Go, chan, data, locals
<1>2. \A o \in Senders : pc'[o] = pc[o]
  BY <1>1
     DEF Debugger, channel_recv, channel_send, KillDebugger, CallRecv, CallSend,
         Enter, KeWait, CheckReleased, RecvCas, RecvOwn, RecvClear, RecvCopy,
         RecvSignal, AnswerOwn, AnswerCas, AnswerClear, AnswerCopy, AnswerSignal,
         Leave, Die, UserApc, Threads
<1>3. succs' = succs \/ \E b : succs' = [succs EXCEPT ![d] = b]
  BY DEF Debugger, channel_recv, channel_send, KillDebugger, CallRecv, CallSend,
         Enter, KeWait, CheckReleased, RecvCas, RecvOwn, RecvClear, RecvCopy,
         RecvSignal, AnswerOwn, AnswerCas, AnswerClear, AnswerCopy, AnswerSignal,
         Leave, Die, UserApc
<1>4. \A o \in Senders : succs'[o] = succs[o]
  BY <1>1, <1>3 DEF Threads
<1>5. reply' = reply /\ calls' = calls /\ released' = released
  BY DEF Debugger, channel_recv, channel_send, KillDebugger, CallRecv, CallSend,
         Enter, KeWait, CheckReleased, RecvCas, RecvOwn, RecvClear, RecvCopy,
         RecvSignal, AnswerOwn, AnswerCas, AnswerClear, AnswerCopy, AnswerSignal,
         Leave, Die, UserApc
<1>6. \A o \in Senders : Phase(o)' = Phase(o) /\ Got(o)' = Got(o)
  BY <1>2, <1>4, <1>5, SameSender
<1>7. /\ [o \in Senders |-> Phase(o)'] = [o \in Senders |-> Phase(o)]
      /\ [o \in Senders |-> Got(o)'] = [o \in Senders |-> Got(o)]
  BY <1>6
<1>8. CASE RecvCopy(d) /\ ~released
  <2>1. pc[d] = "r_copy"
    BY <1>8 DEF RecvCopy
  <2>2. PICK s \in Senders : pc[s] = "s_reply" /\ snd = Msg(s)
    BY <1>8, <2>1 DEF ChannelInv, AnswerInv
  <2>3. Phase(s) = "in" /\ InTransaction(s)
    BY <2>2 DEF Phase, InTransaction
  <2>4. state = "RECVED"
    BY <1>8, <2>1 DEF ChannelInv, OwnerInv
  <2>5. rcv # Msg(s)
    BY <1>8, <2>3, <2>4 DEF PromiseInv
  <2>6. \A o \in Debuggers : held[o] = NoMsg
    BY <1>8, <2>1 DEF PromiseInv, OneDebugger
  <2>7. R!Take(d, s)
    BY <1>5, <1>7, <1>8, <2>2, <2>3, <2>5, <2>6 DEF RecvCopy, R!Take, R!Msg, Msg
  <2> QED BY <2>7 DEF R!Next
<1>9. CASE RecvCopy(d) /\ released
  <2>1. snd \in Msgs
    BY <1>1, <1>9 DEF RecvCopy, PromiseInv
  <2>2. PICK s \in Senders, n \in 1 .. MaxCalls : snd = <<s, n>>
    BY <2>1 DEF Msgs
  <2>3. n <= Out(s)
    BY <2>2 DEF PastInv, Past
  <2>4. calls[s] \in Nat /\ MaxCalls \in Nat
    BY BoundsAssumption DEF ChannelInv, TransactionInv, TypeButWaiters
  <2>5. n \in 1 .. calls[s]
    BY <2>2, <2>3, <2>4 DEF Out
  <2>6. held' = [held EXCEPT ![d] = <<s, n>>]
    BY <1>9, <2>2 DEF RecvCopy
  <2>7. \E o \in Senders : \E k \in 1 .. calls[o] : held' = [held EXCEPT ![d] = <<o, k>>]
    BY <2>5, <2>6
  <2>8. rcv' = rcv
    BY <1>9 DEF RecvCopy
  <2>9. R!TakeLate(d)
    BY <1>5, <1>7, <1>9, <2>7, <2>8 DEF R!TakeLate
  <2> QED BY <2>9 DEF R!Next
<1>10. CASE AnswerCopy(d)
  <2>1. ~released => \E s \in Senders : pc[s] = "s_reply" /\ Msg(s) = held[d]
    BY <1>10 DEF AnswerCopy, ChannelInv, AnswerInv
  <2>2. ~released => \E s \in Senders : Phase(s) = "in" /\ Msg(s) = held[d]
    BY <2>1 DEF Phase, InTransaction
  <2>3. R!Answer(d)
    BY <1>5, <1>7, <1>10, <2>2 DEF AnswerCopy, R!Answer, R!Msg, Msg
  <2> QED BY <2>3 DEF R!Next
<1>11. CASE ~RecvCopy(d) /\ ~AnswerCopy(d)
  <2>1. held' = held /\ rcv' = rcv
    BY <1>11
       DEF Debugger, channel_recv, channel_send, KillDebugger, CallRecv, CallSend,
           Enter, KeWait, CheckReleased, RecvCas, RecvOwn, RecvClear,
           RecvSignal, AnswerOwn, AnswerCas, AnswerClear, AnswerSignal,
           Leave, Die, UserApc
  <2> QED BY <1>5, <1>7, <2>1 DEF R!vars
<1> QED BY <1>8, <1>9, <1>10, <1>11

LEMMA TeardownSteps ==
  ASSUME ChannelInv, Teardown \/ UNCHANGED vars
  PROVE  [R!Next]_(R!vars)
<1> USE DEF chan, data, locals
<1>1. UNCHANGED <<pc, succs, reply, calls, held, rcv>>
  BY DEF Teardown, Deactivate, channel_release, SetReleased, ReleaseEvent, channel_free,
         vars
<1>2. \A o \in Senders : Phase(o)' = Phase(o) /\ Got(o)' = Got(o)
  BY <1>1, SameSender
<1>3. /\ [o \in Senders |-> Phase(o)'] = [o \in Senders |-> Phase(o)]
      /\ [o \in Senders |-> Got(o)'] = [o \in Senders |-> Got(o)]
  BY <1>2
<1>4. CASE released' = released
  BY <1>1, <1>3, <1>4 DEF R!vars
<1>5. CASE released' # released
  <2>1. SetReleased
    BY <1>5 DEF Teardown, Deactivate, channel_release, ReleaseEvent, channel_free, vars
  <2>2. released' = TRUE /\ released = FALSE
    BY <1>5, <2>1 DEF SetReleased, ChannelInv, TransactionInv, TypeButWaiters
  <2>3. R!Close
    BY <1>1, <1>3, <2>2 DEF R!Close
  <2> QED BY <2>3 DEF R!Next
<1> QED BY <1>4, <1>5

\* Any number of senders and one debugger thread, no reporting thread
\* terminated: channel_send_recv, channel_recv, channel_send and
\* channel_release together behave like the single steps of Rendezvous.
THEOREM ChannelImplements ==
  ASSUME Killable \cap Senders = {}, OneDebugger
  PROVE  Spec => ImplementsRendezvous
<1>1. Init => R!Init
  <2> SUFFICES ASSUME Init PROVE R!Init
    OBVIOUS
  <2>1. \A s \in Senders : pc[s] = "idle" /\ succs[s] = FALSE
    BY DEF Init, Threads
  <2>2. \A s \in Senders : Phase(s) = "idle" /\ Got(s) = NoMsg
    BY <2>1 DEF Phase, Got, InTransaction
  <2> QED BY <2>2 DEF Init, R!Init
<1>2. ChannelInv /\ PastInv /\ PromiseInv /\ [Next]_vars => [R!Next]_(R!vars)
  BY SenderSteps, DebuggerSteps, TeardownSteps DEF Next
<1> QED BY <1>1, <1>2, PromiseInvariant, PTL DEF Spec, ImplementsRendezvous, R!Spec

=============================================================================
