----------------------------- MODULE Rendezvous -----------------------------
(***************************************************************************)
(* What the channel promises to the hooks of the driver and to the         *)
(* debugger, without its events, its compare-exchanges and its buffers.    *)
(* A reporter has an event in the channel for itself; one debugger thread  *)
(* takes it, the same thread answers it, and the reporter goes on with the *)
(* answer to its own event.  Only a closed channel, or the death of the    *)
(* reporter, ends a transaction without an answer.                         *)
(***************************************************************************)
EXTENDS Naturals

CONSTANTS
  Senders, Debuggers,
  Mortal,    \* reporters that may be terminated
  MaxCalls,  \* bound: events of one reporter
  NoMsg

VARIABLES
  phase,   \* per reporter: "idle", "asking", "in" (its event is out) or "over"
  count,   \* events it has reported
  got,     \* the answer it goes on with
  taken,   \* per debugger thread: the event it has taken
  answer,  \* the event that was answered last
  open     \* the channel is not released

vars == <<phase, count, got, taken, answer, open>>

Msg(s) == <<s, count[s]>>

Init ==
  /\ phase = [s \in Senders |-> "idle"] /\ count = [s \in Senders |-> 0]
  /\ got = [s \in Senders |-> NoMsg] /\ taken = [d \in Debuggers |-> NoMsg]
  /\ answer = NoMsg /\ open = TRUE

Go(s, from, to) == phase[s] = from /\ phase' = [phase EXCEPT ![s] = to]

Report(s) ==
  /\ Go(s, "idle", "asking") /\ count[s] < MaxCalls
  /\ count' = [count EXCEPT ![s] = @ + 1] /\ got' = [got EXCEPT ![s] = NoMsg]
  /\ UNCHANGED <<taken, answer, open>>

\* One event at a time.
Begin(s) ==
  /\ Go(s, "asking", "in") /\ \A o \in Senders : phase[o] # "in"
  /\ UNCHANGED <<count, got, taken, answer, open>>

\* A report is refused only for one of these three reasons.
Refuse(s) ==
  /\ Go(s, "asking", "over")
  /\ ~open \/ s \in Mortal \/ \E o \in Senders : phase[o] = "in"
  /\ UNCHANGED <<count, got, taken, answer, open>>

\* While the channel is open an event is taken once, and before its answer.
Take(d, s) ==
  /\ open /\ phase[s] = "in" /\ answer # Msg(s)
  /\ \A o \in Debuggers : taken[o] = NoMsg
  /\ taken' = [taken EXCEPT ![d] = Msg(s)]
  /\ UNCHANGED <<phase, count, got, answer, open>>

\* While the channel is open the taker answers, and its reporter waits.
Answer(d) ==
  /\ open => \E s \in Senders : phase[s] = "in" /\ taken[d] = Msg(s)
  /\ answer' = taken[d] /\ taken' = [taken EXCEPT ![d] = NoMsg]
  /\ UNCHANGED <<phase, count, got, open>>

\* A debugger thread that passed the test of released before the release may
\* still take the event that is in the buffer.
TakeLate(d) ==
  /\ ~open
  /\ \E s \in Senders : \E n \in 1 .. count[s] : taken' = [taken EXCEPT ![d] = <<s, n>>]
  /\ UNCHANGED <<phase, count, got, answer, open>>

\* The reporter copies the answer: always the one to its own event.
Return(s) ==
  /\ phase[s] = "in" /\ answer = Msg(s) /\ got' = [got EXCEPT ![s] = answer]
  /\ UNCHANGED <<phase, count, taken, answer, open>>

End(s) ==
  /\ Go(s, "in", "over")
  /\ got[s] = Msg(s) \/ ~open \/ s \in Mortal
  /\ UNCHANGED <<count, got, taken, answer, open>>

Leave(s) == Go(s, "over", "idle") /\ UNCHANGED <<count, got, taken, answer, open>>

Close == open /\ open' = FALSE /\ UNCHANGED <<phase, count, got, taken, answer>>

Next ==
  \/ \E s \in Senders : \/ Report(s) \/ Begin(s) \/ Refuse(s) \/ Return(s)
                        \/ End(s) \/ Leave(s)
                        \/ \E d \in Debuggers : Take(d, s)
  \/ \E d \in Debuggers : Answer(d) \/ TakeLate(d)
  \/ Close

Spec == Init /\ [][Next]_vars

=============================================================================
