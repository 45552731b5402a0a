------------------------- MODULE ChannelRefinement -------------------------
(***************************************************************************)
(* Channel implements Rendezvous: the phase of a reporter is read off its  *)
(* program counter, the answers from chan->data and the callers' buffers.  *)
(***************************************************************************)
EXTENDS Channel

Phase(s) ==
  CASE pc[s] \in {"idle", "dead"} -> "idle"
    [] pc[s] \in {"s_enter", "s_wait", "s_check", "s_cas"} -> "asking"
    [] InTransaction(s) -> "in"
    [] OTHER -> "over"

\* A call that returns 1 has its answer from the copy on.
Got(s) ==
  IF succs[s] /\ pc[s] \in {"s_reset", "s_disown", "s_null", "s_ready", "leave",
                            "idle", "dead"}
  THEN reply[s] ELSE NoMsg

R == INSTANCE Rendezvous WITH
       Mortal <- Killable,
       phase <- [s \in Senders |-> Phase(s)], count <- calls,
       got <- [s \in Senders |-> Got(s)],
       taken <- held, answer <- rcv, open <- ~released

\* channel_send_recv, channel_recv, channel_send and channel_release together
\* keep the promise of Rendezvous: whatever the interleaving of their single
\* steps, an event is taken once, answered by its taker, and its reporter goes
\* on with its own answer.
ImplementsRendezvous == R!Spec

=============================================================================
