--------------------------- MODULE ChannelProofs ---------------------------
(***************************************************************************)
(* Theorems about Channel for every set of threads.                        *)
(***************************************************************************)
EXTENDS Channel, FiniteSetTheorems, TLAPS

USE DEF Threads

\* Every variable except waiters keeps its type in a step.
TypeButWaiters ==
  /\ ev \in [Events -> BOOLEAN]
  /\ state \in States
  /\ thread \in Debuggers \cup {NoThread}
  /\ released \in BOOLEAN
  /\ snd \in Msgs \cup {NoMsg} /\ rcv \in Msgs \cup {NoMsg}
  /\ closing \in Events \cup {"no", "inactive", "released", "freed"}
  /\ pc \in [Threads -> SenderPC \cup DebuggerPC]
  /\ \A s \in Senders : pc[s] \in SenderPC
  /\ \A d \in Debuggers : pc[d] \in DebuggerPC
  /\ succs \in [Threads -> BOOLEAN]
  /\ killed \in [Threads -> BOOLEAN]
  /\ calls \in [Senders -> 0 .. MaxCalls]
  /\ \A s \in Senders : pc[s] \notin {"idle", "dead"} => calls[s] >= 1
  /\ reply \in [Senders -> Msgs \cup {NoMsg}]
  /\ held \in [Debuggers -> Msgs \cup {NoMsg}]

LEMMA TypeSend ==
  ASSUME TypeButWaiters, NEW s \in Senders, Sender(s)
  PROVE  TypeButWaiters'
<1> USE ThreadsAssumption, BoundsAssumption
    DEF TypeButWaiters, Go, KeSetEvent, KeClearEvent, Events, States,
        SenderPC, chan, data, locals
<1>1. CASE CallSendRecv(s) BY <1>1 DEF CallSendRecv
<1>2. CASE Enter(s, "s_enter", "s_wait") BY <1>2 DEF Enter
<1>3. CASE KeWait(s, "send", "s_wait", "s_check") BY <1>3 DEF KeWait
<1>4. CASE CheckReleased(s, "s_check", "s_cas") BY <1>4 DEF CheckReleased
<1>5. CASE SendCas(s) BY <1>5 DEF SendCas
<1>6. CASE SendClear(s) BY <1>6 DEF SendClear
<1>7. CASE SendCopy(s) BY <1>7 DEF SendCopy, Msg, Msgs
<1>8. CASE SendSignal(s) BY <1>8 DEF SendSignal
<1>9. CASE KeWait(s, "repl", "s_reply", "s_result") BY <1>9 DEF KeWait
<1>10. CASE SendResult(s) BY <1>10 DEF SendResult
<1>11. CASE SendFetch(s) BY <1>11 DEF SendFetch
<1>12. CASE SendReset(s) BY <1>12 DEF SendReset
<1>13. CASE SendDisown(s) BY <1>13 DEF SendDisown
<1>14. CASE SendNull(s) BY <1>14 DEF SendNull
<1>15. CASE SendReady(s) BY <1>15 DEF SendReady
<1>16. CASE Leave(s) BY <1>16 DEF Leave
<1>17. CASE KillSender(s)
  <2>1. CASE Die(s) BY <2>1 DEF Die
  <2>2. CASE UserApc(s, "send", "s_wait", "leave") BY <2>2 DEF UserApc
  <2>3. CASE UserApc(s, "repl", "s_reply", "s_fetch") BY <2>3 DEF UserApc
  <2> QED BY <1>17, <2>1, <2>2, <2>3 DEF KillSender
<1> QED BY <1>1, <1>2, <1>3, <1>4, <1>5, <1>6, <1>7, <1>8, <1>9, <1>10,
           <1>11, <1>12, <1>13, <1>14, <1>15, <1>16, <1>17
        DEF Sender, channel_send_recv

LEMMA TypeDebug ==
  ASSUME TypeButWaiters, NEW d \in Debuggers, Debugger(d)
  PROVE  TypeButWaiters'
<1> USE ThreadsAssumption, BoundsAssumption
    DEF TypeButWaiters, Go, KeSetEvent, KeClearEvent, Events, States,
        DebuggerPC, chan, data, locals
<1>1. CASE CallRecv(d) BY <1>1 DEF CallRecv
<1>2. CASE Enter(d, "r_enter", "r_wait") BY <1>2 DEF Enter
<1>3. CASE KeWait(d, "recv", "r_wait", "r_check") BY <1>3 DEF KeWait
<1>4. CASE CheckReleased(d, "r_check", "r_cas") BY <1>4 DEF CheckReleased
<1>5. CASE RecvCas(d) BY <1>5 DEF RecvCas
<1>6. CASE RecvOwn(d) BY <1>6 DEF RecvOwn
<1>7. CASE RecvClear(d) BY <1>7 DEF RecvClear
<1>8. CASE RecvCopy(d) BY <1>8 DEF RecvCopy
<1>9. CASE RecvSignal(d) BY <1>9 DEF RecvSignal
<1>10. CASE CallSend(d) BY <1>10 DEF CallSend
<1>11. CASE Enter(d, "a_enter", "a_wait") BY <1>11 DEF Enter
<1>12. CASE KeWait(d, "rcvd", "a_wait", "a_check") BY <1>12 DEF KeWait
<1>13. CASE CheckReleased(d, "a_check", "a_own") BY <1>13 DEF CheckReleased
<1>14. CASE AnswerOwn(d) BY <1>14 DEF AnswerOwn
<1>15. CASE AnswerCas(d) BY <1>15 DEF AnswerCas
<1>16. CASE AnswerClear(d) BY <1>16 DEF AnswerClear
<1>17. CASE AnswerCopy(d) BY <1>17 DEF AnswerCopy
<1>18. CASE AnswerSignal(d) BY <1>18 DEF AnswerSignal
<1>19. CASE Leave(d) BY <1>19 DEF Leave
<1>20. CASE Die(d) BY <1>20 DEF Die
<1>21. CASE UserApc(d, "recv", "r_wait", "leave") BY <1>21 DEF UserApc
<1>22. CASE UserApc(d, "rcvd", "a_wait", "leave") BY <1>22 DEF UserApc
<1> QED BY <1>1, <1>2, <1>3, <1>4, <1>5, <1>6, <1>7, <1>8, <1>9, <1>10,
           <1>11, <1>12, <1>13, <1>14, <1>15, <1>16, <1>17, <1>18, <1>19, <1>20,
           <1>21, <1>22
        DEF Debugger, channel_recv, channel_send, KillDebugger

LEMMA TypeTeardown ==
  ASSUME TypeButWaiters, Teardown
  PROVE  TypeButWaiters'
BY DEF TypeButWaiters, Teardown, Deactivate, channel_release, SetReleased,
       ReleaseEvent, channel_free, KeSetEvent, Events, chan, data, locals

LEMMA TypeStep == TypeButWaiters /\ [Next]_vars => TypeButWaiters'
<1> SUFFICES ASSUME TypeButWaiters, [Next]_vars PROVE TypeButWaiters'
    OBVIOUS
<1>1. CASE UNCHANGED vars
  BY <1>1 DEF vars, chan, data, locals, TypeButWaiters
<1> QED BY <1>1, TypeSend, TypeDebug, TypeTeardown DEF Next

LEMMA TypeInit == Init => TypeButWaiters
<1> SUFFICES ASSUME Init PROVE TypeButWaiters
    OBVIOUS
<1>1. ev \in [Events -> BOOLEAN]
  BY DEF Init
<1>2. /\ pc \in [Threads -> SenderPC \cup DebuggerPC]
      /\ \A s \in Senders : pc[s] = "idle"
      /\ \A d \in Debuggers : pc[d] \in DebuggerPC
  BY DEF Init, SenderPC, DebuggerPC
<1>3. calls \in [Senders -> 0 .. MaxCalls]
  BY BoundsAssumption DEF Init
<1> QED BY <1>1, <1>2, <1>3 DEF Init, TypeButWaiters, States, SenderPC

-----------------------------------------------------------------------------
\* chan->waiters counts the threads inside the three calls.

Counted == {t \in Threads : Inside(t)}

LEMMA CountedFinite ==
  /\ IsFiniteSet(Counted)
  /\ Cardinality(Counted) \in Nat
<1>1. IsFiniteSet(Threads)
  BY ThreadsAssumption, FS_Union
<1>2. Counted \subseteq Threads
  BY DEF Counted
<1> QED BY <1>1, <1>2, FS_Subset, FS_CardinalityType

\* The three ways a step can move a thread with respect to the count.
LEMMA CountSame ==
  ASSUME WaitersCount, waiters' = waiters,
         \A t \in Threads : Inside(t)' <=> Inside(t)
  PROVE  WaitersCount'
<1>1. Counted' = Counted
  BY DEF Counted
<1> QED BY <1>1 DEF WaitersCount, Counted

LEMMA CountUp ==
  ASSUME WaitersCount, NEW t \in Threads, ~Inside(t), Inside(t)',
         \A u \in Threads \ {t} : Inside(u)' <=> Inside(u),
         waiters' = waiters + 1
  PROVE  WaitersCount'
<1>1. Counted' = Counted \cup {t} /\ t \notin Counted
  BY DEF Counted
<1>2. Cardinality(Counted') = Cardinality(Counted) + 1
  BY <1>1, CountedFinite, FS_AddElement
<1> QED BY <1>2 DEF WaitersCount, Counted

LEMMA CountDown ==
  ASSUME WaitersCount, NEW t \in Threads, Inside(t), ~Inside(t)',
         \A u \in Threads \ {t} : Inside(u)' <=> Inside(u),
         waiters' = waiters - 1
  PROVE  WaitersCount'
<1>1. Counted' = Counted \ {t} /\ t \in Counted
  BY DEF Counted
<1>2. Cardinality(Counted') = Cardinality(Counted) - 1
  BY <1>1, CountedFinite, FS_RemoveElement
<1> QED BY <1>2 DEF WaitersCount, Counted

LEMMA CountEnter ==
  ASSUME TypeButWaiters, WaitersCount, NEW t \in Threads, NEW from, NEW to,
         from \in {"s_enter", "r_enter", "a_enter"},
         to \in {"s_wait", "r_wait", "a_wait"},
         Enter(t, from, to)
  PROVE  WaitersCount'
<1>1. ~Inside(t) /\ Inside(t)'
  BY DEF Enter, Go, Inside, TypeButWaiters
<1>2. \A u \in Threads \ {t} : Inside(u)' <=> Inside(u)
  BY DEF Enter, Go, Inside, TypeButWaiters
<1> QED BY <1>1, <1>2, CountUp DEF Enter

LEMMA CountLeave ==
  ASSUME TypeButWaiters, WaitersCount, NEW t \in Threads, Leave(t)
  PROVE  WaitersCount'
<1>1. Inside(t) /\ ~Inside(t)'
  BY DEF Leave, Go, Inside, TypeButWaiters
<1>2. \A u \in Threads \ {t} : Inside(u)' <=> Inside(u)
  BY DEF Leave, Go, Inside, TypeButWaiters
<1> QED BY <1>1, <1>2, CountDown DEF Leave

LEMMA CountSend ==
  ASSUME TypeButWaiters, WaitersCount, NEW s \in Senders, Sender(s)
  PROVE  WaitersCount'
<1>1. CASE Enter(s, "s_enter", "s_wait")
  BY <1>1, CountEnter
<1>2. CASE Leave(s)
  BY <1>2, CountLeave
<1>3. CASE ~Enter(s, "s_enter", "s_wait") /\ ~Leave(s)
  <2>1. waiters' = waiters /\ \A t \in Threads : Inside(t)' <=> Inside(t)
    BY <1>3 DEF Sender, channel_send_recv, CallSendRecv, KeWait,
       CheckReleased, SendCas, SendClear, SendCopy, SendSignal, SendResult,
       SendFetch, SendReset, SendDisown, SendNull, SendReady, KillSender,
       Die, UserApc, Go, Inside, TypeButWaiters, chan
  <2> QED BY <2>1, CountSame
<1> QED BY <1>1, <1>2, <1>3

LEMMA CountDebug ==
  ASSUME TypeButWaiters, WaitersCount, NEW d \in Debuggers, Debugger(d)
  PROVE  WaitersCount'
<1>1. CASE Enter(d, "r_enter", "r_wait") \/ Enter(d, "a_enter", "a_wait")
  BY <1>1, CountEnter
<1>2. CASE Leave(d)
  BY <1>2, CountLeave
<1>3. CASE \/ CallRecv(d)
           \/ channel_recv(d) /\ ~Enter(d, "r_enter", "r_wait")
  <2>1. waiters' = waiters /\ \A t \in Threads : Inside(t)' <=> Inside(t)
    BY <1>3 DEF channel_recv, CallRecv, KeWait, CheckReleased, RecvCas,
       RecvOwn, RecvClear, RecvCopy, RecvSignal, Go, Inside, TypeButWaiters,
       chan
  <2> QED BY <2>1, CountSame
<1>4. CASE \/ CallSend(d)
           \/ channel_send(d) /\ ~Enter(d, "a_enter", "a_wait")
  <2>1. waiters' = waiters /\ \A t \in Threads : Inside(t)' <=> Inside(t)
    BY <1>4 DEF channel_send, CallSend, KeWait, CheckReleased, AnswerOwn,
       AnswerCas, AnswerClear, AnswerCopy, AnswerSignal, Go, Inside,
       TypeButWaiters, chan
  <2> QED BY <2>1, CountSame
<1>5. CASE KillDebugger(d)
  <2>1. waiters' = waiters /\ \A t \in Threads : Inside(t)' <=> Inside(t)
    BY <1>5 DEF KillDebugger, Die, UserApc, Go, Inside, TypeButWaiters, chan
  <2> QED BY <2>1, CountSame
<1> QED BY <1>1, <1>2, <1>3, <1>4, <1>5 DEF Debugger

\* A freed channel is empty, and the count that channel_free polls is right.
FreeInv == TypeButWaiters /\ WaitersCount /\ NoUseAfterFree

LEMMA FreeInit == Init => FreeInv
<1> SUFFICES ASSUME Init PROVE FreeInv
    OBVIOUS
<1>1. Counted = {}
  BY DEF Init, Counted, Inside
<1>2. WaitersCount
  BY <1>1, FS_EmptySet DEF WaitersCount, Counted, Init
<1>3. NoUseAfterFree
  BY DEF NoUseAfterFree, Init
<1> QED BY <1>2, <1>3, TypeInit DEF FreeInv

LEMMA FreeStep == FreeInv /\ [Next]_vars => FreeInv'
<1> SUFFICES ASSUME FreeInv, [Next]_vars PROVE FreeInv'
    OBVIOUS
<1>1. TypeButWaiters'
  BY TypeStep DEF FreeInv
<1>2. WaitersCount'
  <2>1. CASE UNCHANGED vars
    BY <2>1, CountSame DEF FreeInv, vars, chan, Inside
  <2>2. CASE Teardown
    <3>1. waiters' = waiters /\ \A t \in Threads : Inside(t)' <=> Inside(t)
      BY <2>2 DEF Teardown, Deactivate, channel_release, SetReleased,
         ReleaseEvent, channel_free, Inside, chan
    <3> QED BY <3>1, CountSame DEF FreeInv
  <2> QED BY <2>1, <2>2, CountSend, CountDebug DEF Next, FreeInv
<1>3. NoUseAfterFree'
  <2>1. CASE closing = "freed"
    <3>1. \A t \in Threads : pc[t] \in {"idle", "dead"}
      BY <2>1 DEF FreeInv, NoUseAfterFree
    <3>2. \A t \in Threads : pc'[t] \in {"idle", "dead"}
      <4>1. CASE UNCHANGED vars
        BY <4>1, <3>1 DEF vars
      <4>2. CASE Teardown
        BY <2>1, <4>2 DEF Teardown, Deactivate, channel_release, SetReleased,
           ReleaseEvent, channel_free
      <4>3. ASSUME NEW s \in Senders, Sender(s)
            PROVE  \A t \in Threads : pc'[t] \in {"idle", "dead"}
        BY <2>1, <3>1, <4>3 DEF Sender, channel_send_recv, CallSendRecv,
           Enter, Leave, KeWait, CheckReleased, SendCas, SendClear, SendCopy,
           SendSignal, SendResult, SendFetch, SendReset, SendDisown, SendNull,
           SendReady, KillSender, Die, UserApc, Go, FreeInv, TypeButWaiters
      <4>4. ASSUME NEW d \in Debuggers, Debugger(d)
            PROVE  \A t \in Threads : pc'[t] \in {"idle", "dead"}
        BY <2>1, <3>1, <4>4 DEF Debugger, channel_recv, channel_send,
           CallRecv, CallSend, Enter, Leave, KeWait, CheckReleased, RecvCas,
           RecvOwn, RecvClear, RecvCopy, RecvSignal, AnswerOwn, AnswerCas,
           AnswerClear, AnswerCopy, AnswerSignal, KillDebugger, Die, UserApc,
           Go, FreeInv, TypeButWaiters
      <4> QED BY <4>1, <4>2, <4>3, <4>4 DEF Next
    <3> QED BY <3>2 DEF NoUseAfterFree
  <2>2. CASE closing # "freed" /\ closing' = "freed"
    <3>1. channel_free
      BY <2>2 DEF Next, vars, Teardown, Deactivate, channel_release,
         SetReleased, ReleaseEvent, Sender, channel_send_recv, CallSendRecv,
         Enter, Leave, KeWait, CheckReleased, SendCas, SendClear, SendCopy,
         SendSignal, SendResult, SendFetch, SendReset, SendDisown, SendNull,
         SendReady, KillSender, Die, UserApc, Debugger, channel_recv,
         channel_send, CallRecv, CallSend, RecvCas, RecvOwn, RecvClear,
         RecvCopy, RecvSignal, AnswerOwn, AnswerCas, AnswerClear, AnswerCopy,
         AnswerSignal, KillDebugger
    <3>2. Counted = {}
      BY <3>1, CountedFinite, FS_EmptySet
         DEF channel_free, FreeInv, WaitersCount, Counted
    <3>3. \A t \in Threads : ~Inside(t)
      BY <3>2 DEF Counted
    <3> QED BY <3>1, <3>3 DEF channel_free, Inside, NoUseAfterFree
  <2> QED BY <2>1, <2>2 DEF NoUseAfterFree
<1> QED BY <1>1, <1>2, <1>3 DEF FreeInv

LEMMA FreeInvariant == Spec => []FreeInv
BY FreeInit, FreeStep, PTL DEF Spec

\* Every variable has its type; in particular the lock_dec of a call never
\* takes chan->waiters below zero.
THEOREM TypeCorrect == Spec => []TypeOK
<1>1. FreeInv => TypeOK
  BY CountedFinite DEF FreeInv, TypeButWaiters, TypeOK, WaitersCount, Counted
<1> QED BY <1>1, FreeInvariant, PTL

\* No thread is in a call of a channel that channel_free has given back.
THEOREM FreeIsSafe == Spec => []NoUseAfterFree
<1>1. FreeInv => NoUseAfterFree
  BY DEF FreeInv
<1> QED BY <1>1, FreeInvariant, PTL

-----------------------------------------------------------------------------
\* One transaction at a time, whatever is killed or released.

TransactionInv == TypeButWaiters /\ OneTransaction

LEMMA TransactionSend ==
  ASSUME TransactionInv, NEW s \in Senders, Sender(s)
  PROVE  OneTransaction'
<1> USE DEF TransactionInv, TypeButWaiters, OneTransaction, InTransaction, Go,
            chan
<1>1. CASE CallSendRecv(s) BY <1>1 DEF CallSendRecv
<1>2. CASE Enter(s, "s_enter", "s_wait") BY <1>2 DEF Enter
<1>3. CASE KeWait(s, "send", "s_wait", "s_check") BY <1>3 DEF KeWait
<1>4. CASE CheckReleased(s, "s_check", "s_cas") BY <1>4 DEF CheckReleased
<1>5. CASE SendCas(s) BY <1>5 DEF SendCas
<1>6. CASE SendClear(s) BY <1>6 DEF SendClear
<1>7. CASE SendCopy(s) BY <1>7 DEF SendCopy
<1>8. CASE SendSignal(s) BY <1>8 DEF SendSignal
<1>9. CASE KeWait(s, "repl", "s_reply", "s_result") BY <1>9 DEF KeWait
<1>10. CASE SendResult(s) BY <1>10 DEF SendResult
<1>11. CASE SendFetch(s) BY <1>11 DEF SendFetch
<1>12. CASE SendReset(s) BY <1>12 DEF SendReset
<1>13. CASE SendDisown(s) BY <1>13 DEF SendDisown
<1>14. CASE SendNull(s) BY <1>14 DEF SendNull
<1>15. CASE SendReady(s) BY <1>15 DEF SendReady
<1>16. CASE Leave(s) BY <1>16 DEF Leave
<1>17. CASE Die(s) BY <1>17 DEF Die
<1>18. CASE UserApc(s, "send", "s_wait", "leave") BY <1>18 DEF UserApc
<1>19. CASE UserApc(s, "repl", "s_reply", "s_fetch") BY <1>19 DEF UserApc
<1> QED BY <1>1, <1>2, <1>3, <1>4, <1>5, <1>6, <1>7, <1>8, <1>9, <1>10,
           <1>11, <1>12, <1>13, <1>14, <1>15, <1>16, <1>17, <1>18, <1>19
        DEF Sender, channel_send_recv, KillSender

LEMMA TransactionDebug ==
  ASSUME TransactionInv, NEW d \in Debuggers, Debugger(d)
  PROVE  OneTransaction'
<1>1. \A s \in Senders : pc'[s] = pc[s]
  BY ThreadsAssumption
     DEF TransactionInv, TypeButWaiters, Go, Debugger, channel_recv,
         channel_send, CallRecv, CallSend, Enter, Leave, KeWait,
         CheckReleased, RecvCas, RecvOwn, RecvClear, RecvCopy, RecvSignal,
         AnswerOwn, AnswerCas, AnswerClear, AnswerCopy, AnswerSignal,
         KillDebugger, Die, UserApc
<1>2. state' # "NULL" <=> state # "NULL"
  BY DEF Debugger, channel_recv, channel_send, CallRecv, CallSend, Enter,
         Leave, KeWait, CheckReleased, RecvCas, RecvOwn, RecvClear, RecvCopy,
         RecvSignal, AnswerOwn, AnswerCas, AnswerClear, AnswerCopy,
         AnswerSignal, KillDebugger, Die, UserApc, chan
<1> QED BY <1>1, <1>2 DEF TransactionInv, OneTransaction, InTransaction

LEMMA TransactionStep ==
  TransactionInv /\ [Next]_vars => TransactionInv'
<1> SUFFICES ASSUME TransactionInv, [Next]_vars PROVE TransactionInv'
    OBVIOUS
<1>1. TypeButWaiters'
  BY TypeStep DEF TransactionInv
<1>2. CASE UNCHANGED vars
  BY <1>1, <1>2 DEF TransactionInv, OneTransaction, InTransaction, vars, chan
<1>3. CASE Teardown
  BY <1>1, <1>3
     DEF TransactionInv, OneTransaction, InTransaction, Teardown, Deactivate,
         channel_release, SetReleased, ReleaseEvent, channel_free, chan
<1> QED BY <1>1, <1>2, <1>3, TransactionSend, TransactionDebug
        DEF Next, TransactionInv

LEMMA TransactionInvariant == Spec => []TransactionInv
<1>1. Init => TransactionInv
  BY TypeInit DEF Init, TransactionInv, OneTransaction, InTransaction
<1> QED BY <1>1, TransactionStep, PTL DEF Spec

\* Any number of senders: the compare-exchange on chan->state admits one
\* transaction at a time, also when senders are terminated or the channel is
\* released in the middle of one.
THEOREM TransactionsExclude == Spec => []OneTransaction
<1>1. TransactionInv => OneTransaction
  BY DEF TransactionInv
<1> QED BY <1>1, TransactionInvariant, PTL

-----------------------------------------------------------------------------
\* The debugger thread that has won a transaction keeps it, when no reporting
\* thread is terminated in its wait.

\* What keeps the ownership of a transaction exclusive until the release.
OwnerInv ==
  /\ closing \in Events \cup {"released", "freed"} => released
  /\ ~released =>
     /\ state \in {"NULL", "SENT"} => thread = NoThread
     /\ \A d \in Debuggers : pc[d] = "r_own" =>
          state = "RECVED" /\ thread = NoThread
     /\ \A d, f \in Debuggers :
          pc[d] = "r_own" /\ pc[f] = "r_own" => d = f
     /\ \A d \in Debuggers :
          pc[d] \in {"r_clear", "r_copy", "r_signal", "a_cas"} =>
            thread = d /\ state = "RECVED"
     /\ \A d \in Debuggers : pc[d] \in {"a_clear", "a_copy", "a_signal"} =>
          thread = d /\ state = "REPLAYED"
     /\ \A d \in Debuggers :
          pc[d] \in {"a_check", "a_own"} /\ thread = d => state = "RECVED"
     /\ ev["rcvd"] => /\ thread # NoThread
                      /\ state = "RECVED" \/ pc[thread] = "a_clear"
     /\ ev["repl"] =>
          /\ state = "REPLAYED"
          /\ \A d \in Debuggers : pc[d] \notin {"a_clear", "a_copy", "a_signal"}
          /\ \A s \in Senders : pc[s] \notin {"s_disown", "s_null"}
     /\ \A s \in Senders :
          pc[s] \in {"s_result", "s_fetch", "s_reset", "s_disown", "s_null"} =>
            /\ state = "REPLAYED"
            /\ \A d \in Debuggers :
                 pc[d] \notin {"a_clear", "a_copy", "a_signal"}
     /\ \A s \in Senders : pc[s] = "s_null" => thread = NoThread

LEMMA OwnerSend ==
  ASSUME Killable \cap Senders = {}, TransactionInv, OwnerInv, NEW s \in Senders, Sender(s)
  PROVE  OwnerInv'
<1> USE ThreadsAssumption
    DEF TransactionInv, TypeButWaiters, OneTransaction, InTransaction,
        OwnerInv, Events, Go, KeSetEvent, KeClearEvent, chan, data, locals
<1>1. CASE CallSendRecv(s) BY <1>1 DEF CallSendRecv
<1>2. CASE Enter(s, "s_enter", "s_wait") BY <1>2 DEF Enter
<1>3. CASE KeWait(s, "send", "s_wait", "s_check") BY <1>3 DEF KeWait
<1>4. CASE CheckReleased(s, "s_check", "s_cas") BY <1>4 DEF CheckReleased
<1>5. CASE SendCas(s) BY <1>5 DEF SendCas
<1>6. CASE SendClear(s) BY <1>6 DEF SendClear
<1>7. CASE SendCopy(s) BY <1>7 DEF SendCopy
<1>8. CASE SendSignal(s) BY <1>8 DEF SendSignal
<1>9. CASE KeWait(s, "repl", "s_reply", "s_result") BY <1>9 DEF KeWait
<1>10. CASE SendResult(s) BY <1>10 DEF SendResult
<1>11. CASE SendFetch(s) BY <1>11 DEF SendFetch
<1>12. CASE SendReset(s) BY <1>12 DEF SendReset
<1>13. CASE SendDisown(s) BY <1>13 DEF SendDisown
<1>14. CASE SendNull(s) BY <1>14 DEF SendNull
<1>15. CASE SendReady(s) BY <1>15 DEF SendReady
<1>16. CASE Leave(s) BY <1>16 DEF Leave
<1>17. CASE Die(s) BY <1>17 DEF Die
<1>18. CASE UserApc(s, "send", "s_wait", "leave") BY <1>18 DEF UserApc
<1>19. CASE UserApc(s, "repl", "s_reply", "s_fetch") BY <1>19 DEF UserApc
<1> QED BY <1>1, <1>2, <1>3, <1>4, <1>5, <1>6, <1>7, <1>8, <1>9, <1>10,
           <1>11, <1>12, <1>13, <1>14, <1>15, <1>16, <1>17, <1>18, <1>19
        DEF Sender, channel_send_recv, KillSender

LEMMA OwnerDebug ==
  ASSUME Killable \cap Senders = {}, TransactionInv, OwnerInv, NEW d \in Debuggers, Debugger(d)
  PROVE  OwnerInv'
<1> USE ThreadsAssumption
    DEF TransactionInv, TypeButWaiters, OneTransaction, InTransaction,
        OwnerInv, Events, Go, KeSetEvent, KeClearEvent, chan, data, locals
<1>1. CASE CallRecv(d) BY <1>1 DEF CallRecv
<1>2. CASE Enter(d, "r_enter", "r_wait") BY <1>2 DEF Enter
<1>3. CASE KeWait(d, "recv", "r_wait", "r_check") BY <1>3 DEF KeWait
<1>4. CASE CheckReleased(d, "r_check", "r_cas") BY <1>4 DEF CheckReleased
<1>5. CASE RecvCas(d) BY <1>5 DEF RecvCas
<1>6. CASE RecvOwn(d) BY <1>6 DEF RecvOwn
<1>7. CASE RecvClear(d) BY <1>7 DEF RecvClear
<1>8. CASE RecvCopy(d) BY <1>8 DEF RecvCopy
<1>9. CASE RecvSignal(d) BY <1>9 DEF RecvSignal
<1>10. CASE CallSend(d) BY <1>10 DEF CallSend
<1>11. CASE Enter(d, "a_enter", "a_wait") BY <1>11 DEF Enter
<1>12. CASE KeWait(d, "rcvd", "a_wait", "a_check") BY <1>12 DEF KeWait
<1>13. CASE CheckReleased(d, "a_check", "a_own") BY <1>13 DEF CheckReleased
<1>14. CASE AnswerOwn(d) BY <1>14 DEF AnswerOwn
<1>15. CASE AnswerCas(d) BY <1>15 DEF AnswerCas
<1>16. CASE AnswerClear(d) BY <1>16 DEF AnswerClear
<1>17. CASE AnswerCopy(d) BY <1>17 DEF AnswerCopy
<1>18. CASE AnswerSignal(d) BY <1>18 DEF AnswerSignal
<1>19. CASE Leave(d) BY <1>19 DEF Leave
<1>20. CASE Die(d) BY <1>20 DEF Die
<1>21. CASE UserApc(d, "recv", "r_wait", "leave") BY <1>21 DEF UserApc
<1>22. CASE UserApc(d, "rcvd", "a_wait", "leave") BY <1>22 DEF UserApc
<1> QED BY <1>1, <1>2, <1>3, <1>4, <1>5, <1>6, <1>7, <1>8, <1>9, <1>10,
           <1>11, <1>12, <1>13, <1>14, <1>15, <1>16, <1>17, <1>18, <1>19, <1>20,
           <1>21, <1>22
        DEF Debugger, channel_recv, channel_send, KillDebugger

LEMMA OwnerStep ==
  ASSUME Killable \cap Senders = {}, TransactionInv, OwnerInv, [Next]_vars
  PROVE  OwnerInv'
<1>1. CASE UNCHANGED vars
  BY <1>1 DEF TransactionInv, TypeButWaiters, OneTransaction, InTransaction,
        OwnerInv, Events, Go, KeSetEvent, KeClearEvent, chan, data, locals, vars
<1>2. CASE Teardown
  BY <1>2
     DEF TransactionInv, TypeButWaiters, OneTransaction, InTransaction,
        OwnerInv, Events, Go, KeSetEvent, KeClearEvent, chan, data, locals, Teardown,
         Deactivate, channel_release, SetReleased, ReleaseEvent, channel_free
<1> QED BY <1>1, <1>2, OwnerSend, OwnerDebug DEF Next

LEMMA OwnerInvariant ==
  ASSUME Killable \cap Senders = {}
  PROVE  Spec => [](TransactionInv /\ OwnerInv)
<1>1. Init => OwnerInv
  BY ThreadsAssumption DEF Init, OwnerInv, Events
<1>2. TransactionInv /\ OwnerInv /\ [Next]_vars => OwnerInv'
  BY OwnerStep
<1> QED BY <1>1, <1>2, TransactionInvariant, PTL DEF Spec

\* Any number of senders and debugger threads: until the release, and unless a
\* reporting thread is terminated in its wait, the compare-exchanges of
\* channel_recv and channel_send leave an event to the one debugger thread
\* that took it.
THEOREM OwnersExclude ==
  ASSUME Killable \cap Senders = {}
  PROVE  Spec => []OneOwner
<1>1. OwnerInv => OneOwner
  BY DEF OwnerInv, OneOwner
<1> QED BY <1>1, OwnerInvariant, PTL

-----------------------------------------------------------------------------
\* With one debugger thread the answer a sender gets is its own.

OneDebugger == \A d, f \in Debuggers : d = f

\* Where the event and its answer are while their reporter waits.
AnswerInv ==
  /\ ~released =>
     /\ \A s \in Senders : pc[s] \in {"s_clear", "s_copy", "s_signal"} =>
          state = "SENT" /\ ~ev["recv"]
     /\ \A s \in Senders : pc[s] = "s_signal" => snd = Msg(s)
     /\ ev["recv"] => \E s \in Senders :
          /\ pc[s] = "s_reply" /\ snd = Msg(s)
          /\ \/ state = "SENT"
             \/ \E d \in Debuggers : pc[d] \in {"r_own", "r_clear"}
     /\ \A d \in Debuggers :
          pc[d] \in {"r_check", "r_cas", "r_own", "r_clear"} => ev["recv"]
     /\ \A d \in Debuggers : pc[d] = "r_copy" =>
          \E s \in Senders : pc[s] = "s_reply" /\ snd = Msg(s)
     /\ \A d \in Debuggers : held[d] # NoMsg =>
          /\ thread = d /\ state \in {"RECVED", "REPLAYED"}
          /\ \E s \in Senders : pc[s] = "s_reply" /\ Msg(s) = held[d]
     /\ \A d \in Debuggers :
          thread = d /\ state = "RECVED" /\ pc[d] \notin {"r_clear", "r_copy"}
            => held[d] # NoMsg
     /\ \A d \in Debuggers :
          pc[d] \in {"a_clear", "a_copy"} => held[d] # NoMsg
     /\ \A d \in Debuggers : pc[d] = "a_signal" =>
          /\ held[d] = NoMsg
          /\ \E s \in Senders : pc[s] = "s_reply" /\ rcv = Msg(s)
     /\ ev["repl"] =>
          /\ \A d \in Debuggers : held[d] = NoMsg
          /\ \E s \in Senders :
               /\ pc[s] \in {"s_reply", "s_result", "s_fetch", "s_reset"}
               /\ rcv = Msg(s)
     /\ \A s \in Senders : pc[s] \in {"s_result", "s_fetch"} => rcv = Msg(s)
  /\ \A s \in Senders : succs[s] /\ pc[s] = "s_fetch" =>
       /\ rcv = Msg(s) /\ state = "REPLAYED"
       /\ \A d \in Debuggers : pc[d] \notin {"a_clear", "a_copy"}
  /\ \A s \in Senders :
       pc[s] \in {"s_wait", "s_check", "s_cas", "s_clear", "s_copy",
                  "s_signal", "s_reply", "s_result"} => ~succs[s]
  /\ ReplyMatches

LEMMA MsgNotNull == \A s : Msg(s) # NoMsg
BY DEF Msg, NoMsg

LEMMA AnswerSend ==
  ASSUME Killable \cap Senders = {}, OneDebugger,
         TransactionInv, OwnerInv, AnswerInv, NEW s \in Senders, Sender(s)
  PROVE  AnswerInv'
<1> USE ThreadsAssumption
    DEF OneDebugger, TransactionInv, TypeButWaiters, OneTransaction,
        InTransaction, OwnerInv, AnswerInv, ReplyMatches, Msg, NoMsg, Events,
        Go, KeSetEvent, KeClearEvent, chan, data, locals
<1>1. CASE CallSendRecv(s) BY <1>1 DEF CallSendRecv
<1>2. CASE Enter(s, "s_enter", "s_wait") BY <1>2 DEF Enter
<1>3. CASE KeWait(s, "send", "s_wait", "s_check") BY <1>3 DEF KeWait
<1>4. CASE CheckReleased(s, "s_check", "s_cas") BY <1>4 DEF CheckReleased
<1>5. CASE SendCas(s) BY <1>5 DEF SendCas
<1>6. CASE SendClear(s) BY <1>6 DEF SendClear
<1>7. CASE SendCopy(s) BY <1>7 DEF SendCopy
<1>8. CASE SendSignal(s) BY <1>8 DEF SendSignal
<1>9. CASE KeWait(s, "repl", "s_reply", "s_result") BY <1>9 DEF KeWait
<1>10. CASE SendResult(s) BY <1>10 DEF SendResult
<1>11. CASE SendFetch(s) BY <1>11 DEF SendFetch
<1>12. CASE SendReset(s) BY <1>12 DEF SendReset
<1>13. CASE SendDisown(s) BY <1>13 DEF SendDisown
<1>14. CASE SendNull(s) BY <1>14 DEF SendNull
<1>15. CASE SendReady(s) BY <1>15 DEF SendReady
<1>16. CASE Leave(s) BY <1>16 DEF Leave
<1>17. CASE Die(s) BY <1>17 DEF Die
<1>18. CASE UserApc(s, "send", "s_wait", "leave") BY <1>18 DEF UserApc
<1>19. CASE UserApc(s, "repl", "s_reply", "s_fetch") BY <1>19 DEF UserApc
<1> QED BY <1>1, <1>2, <1>3, <1>4, <1>5, <1>6, <1>7, <1>8, <1>9, <1>10,
           <1>11, <1>12, <1>13, <1>14, <1>15, <1>16, <1>17, <1>18, <1>19
        DEF Sender, channel_send_recv, KillSender

\* What channel_recv copies out of the channel is an event, and its taker owns
\* the transaction.
LEMMA TakenEvent ==
  ASSUME TypeButWaiters, OwnerInv, AnswerInv, ~released,
         NEW d \in Debuggers, RecvCopy(d)
  PROVE  held'[d] # NoMsg /\ thread = d /\ state = "RECVED"
<1>1. pc[d] = "r_copy" BY DEF RecvCopy, Go
<1>2. PICK s \in Senders : snd = Msg(s) BY <1>1 DEF AnswerInv
<1>3. held'[d] = snd BY DEF RecvCopy, TypeButWaiters
<1>4. thread = d /\ state = "RECVED" BY <1>1 DEF OwnerInv
<1> QED BY <1>2, <1>3, <1>4, MsgNotNull

LEMMA AnswerDebug ==
  ASSUME Killable \cap Senders = {}, OneDebugger,
         TransactionInv, OwnerInv, AnswerInv, NEW d \in Debuggers, Debugger(d)
  PROVE  AnswerInv'
<1> USE ThreadsAssumption
    DEF OneDebugger, TransactionInv, TypeButWaiters, OneTransaction,
        InTransaction, OwnerInv, AnswerInv, ReplyMatches, Msg, NoMsg, Events,
        Go, KeSetEvent, KeClearEvent, chan, data, locals
<1>1. CASE CallRecv(d) BY <1>1 DEF CallRecv
<1>2. CASE Enter(d, "r_enter", "r_wait") BY <1>2 DEF Enter
<1>3. CASE KeWait(d, "recv", "r_wait", "r_check") BY <1>3 DEF KeWait
<1>4. CASE CheckReleased(d, "r_check", "r_cas") BY <1>4 DEF CheckReleased
<1>5. CASE RecvCas(d) BY <1>5 DEF RecvCas
<1>6. CASE RecvOwn(d) BY <1>6 DEF RecvOwn
<1>7. CASE RecvClear(d) BY <1>7 DEF RecvClear
<1>8. CASE RecvCopy(d)
  <2> USE <1>8 DEF RecvCopy
  <2>1. \A s \in Senders : Msg(s) # NoMsg
    BY MsgNotNull
  <2>2. \A s \in Senders : Msg(s)' = Msg(s)
    OBVIOUS
  <2>3. ~released => \E s \in Senders : pc[s] = "s_reply" /\ snd = Msg(s)
    OBVIOUS
  <2>4. ~released => held'[d] # NoMsg /\ thread = d /\ state = "RECVED"
    BY TakenEvent
  <2>5. \A f \in Debuggers : f = d
    OBVIOUS
  <2>6. /\ \A s \in Senders : pc'[s] = pc[s]
        /\ pc[d] = "r_copy" /\ pc'[d] = "r_signal" /\ held'[d] = snd
        /\ UNCHANGED <<ev, chan, data, succs, calls, reply>>
    OBVIOUS
  <2> QED BY <2>1, <2>2, <2>3, <2>4, <2>5, <2>6
<1>9. CASE RecvSignal(d) BY <1>9 DEF RecvSignal
<1>10. CASE CallSend(d) BY <1>10 DEF CallSend
<1>11. CASE Enter(d, "a_enter", "a_wait") BY <1>11 DEF Enter
<1>12. CASE KeWait(d, "rcvd", "a_wait", "a_check") BY <1>12 DEF KeWait
<1>13. CASE CheckReleased(d, "a_check", "a_own") BY <1>13 DEF CheckReleased
<1>14. CASE AnswerOwn(d) BY <1>14 DEF AnswerOwn
<1>15. CASE AnswerCas(d) BY <1>15 DEF AnswerCas
<1>16. CASE AnswerClear(d) BY <1>16 DEF AnswerClear
<1>17. CASE AnswerCopy(d) BY <1>17 DEF AnswerCopy
<1>18. CASE AnswerSignal(d) BY <1>18 DEF AnswerSignal
<1>19. CASE Leave(d) BY <1>19 DEF Leave
<1>20. CASE Die(d) BY <1>20 DEF Die
<1>21. CASE UserApc(d, "recv", "r_wait", "leave") BY <1>21 DEF UserApc
<1>22. CASE UserApc(d, "rcvd", "a_wait", "leave") BY <1>22 DEF UserApc
<1> QED BY <1>1, <1>2, <1>3, <1>4, <1>5, <1>6, <1>7, <1>8, <1>9, <1>10,
           <1>11, <1>12, <1>13, <1>14, <1>15, <1>16, <1>17, <1>18, <1>19, <1>20,
           <1>21, <1>22
        DEF Debugger, channel_recv, channel_send, KillDebugger

LEMMA AnswerStep ==
  ASSUME Killable \cap Senders = {}, OneDebugger,
         TransactionInv, OwnerInv, AnswerInv, [Next]_vars
  PROVE  AnswerInv'
<1>1. CASE UNCHANGED vars
  BY <1>1 DEF OneDebugger, TransactionInv, TypeButWaiters, OneTransaction, InTransaction,
        OwnerInv, AnswerInv, ReplyMatches, Msg, NoMsg, Events,
        Go, KeSetEvent, KeClearEvent, chan, data, locals, vars
<1>2. CASE Teardown
  BY <1>2
     DEF OneDebugger, TransactionInv, TypeButWaiters, OneTransaction,
        InTransaction, OwnerInv, AnswerInv, ReplyMatches, Msg, NoMsg, Events,
        Go, KeSetEvent, KeClearEvent, chan, data, locals, Teardown,
         Deactivate, channel_release, SetReleased, ReleaseEvent, channel_free
<1> QED BY <1>1, <1>2, AnswerSend, AnswerDebug DEF Next

LEMMA AnswerInvariant ==
  ASSUME Killable \cap Senders = {}, OneDebugger
  PROVE  Spec => [](TransactionInv /\ OwnerInv /\ AnswerInv)
<1>1. Init => AnswerInv
  BY ThreadsAssumption DEF Init, AnswerInv, ReplyMatches, Events
<1>2. TransactionInv /\ OwnerInv /\ AnswerInv /\ [Next]_vars => AnswerInv'
  BY AnswerStep
<1> QED BY <1>1, <1>2, OwnerInvariant, PTL DEF Spec

\* Any number of senders, one debugger thread: a channel_send_recv that
\* returns 1 brings the answer to its own event.
THEOREM AnswersAreOwn ==
  ASSUME Killable \cap Senders = {}, OneDebugger
  PROVE  Spec => []ReplyMatches
<1>1. AnswerInv => ReplyMatches
  BY DEF AnswerInv
<1> QED BY <1>1, AnswerInvariant, PTL

\* Any number of senders, one debugger thread: the reporter of a taken event
\* is waiting for the answer.
THEOREM TakersOwn ==
  ASSUME Killable \cap Senders = {}, OneDebugger
  PROVE  Spec => []TakerOwnsTransaction
<1>1. AnswerInv => TakerOwnsTransaction
  BY DEF AnswerInv, TakerOwnsTransaction
<1> QED BY <1>1, AnswerInvariant, PTL

\* Any number of senders, one debugger thread: the copies into and out of
\* chan->data never overlap before the release.
THEOREM BuffersUnshared ==
  ASSUME Killable \cap Senders = {}, OneDebugger
  PROVE  Spec => []BufferUnshared
<1>1. TransactionInv /\ OwnerInv /\ AnswerInv => BufferUnshared
  <2> SUFFICES ASSUME TransactionInv, OwnerInv, AnswerInv, ~released,
                      NEW t \in Threads, NEW u \in Threads, t # u
               PROVE  /\ pc[t] = "s_copy" => pc[u] \notin {"s_copy", "r_copy"}
                      /\ pc[t] = "a_copy" => pc[u] \notin {"a_copy", "s_fetch"}
      BY DEF BufferUnshared
  <2>1. pc[t] = "s_copy" => t \in Senders
    BY DEF TransactionInv, TypeButWaiters, DebuggerPC
  <2>2. pc[t] = "a_copy" => t \in Debuggers
    BY DEF TransactionInv, TypeButWaiters, SenderPC
  <2>3. /\ pc[u] \in {"s_copy", "s_fetch"} => u \in Senders
        /\ pc[u] \in {"r_copy", "a_copy"} => u \in Debuggers
    BY DEF TransactionInv, TypeButWaiters, SenderPC, DebuggerPC
  <2> QED BY <2>1, <2>2, <2>3
          DEF TransactionInv, OneTransaction, InTransaction, OwnerInv,
              AnswerInv, OneDebugger
<1> QED BY <1>1, AnswerInvariant, PTL
=============================================================================
