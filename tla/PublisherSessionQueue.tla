------------------------ MODULE PublisherSessionQueue ------------------------
(***************************************************************************)
(* A publisher session implements the queue of one plus one that           *)
(* publisher.h describes: how the state of the session represents it.      *)
(***************************************************************************)
EXTENDS PublisherSession

(* A context that is about to write, or has seen a write complete.         *)
Holder(s, label) == {c \in Context : at[c] = label /\ on[c] = s}

(* What is current: a buffer about to be written, the one of the write     *)
(* under way, or the one whose completion is being handled.                *)
CurrentBuffers(s) ==
  {w.buf : w \in writes[s]}
    \cup {arg[c] : c \in Holder(s, "write") \cup Holder(s, "takeNext")}

CurrentOf(s) ==
  IF CurrentBuffers(s) = {} THEN NoBuffer ELSE CHOOSE b \in CurrentBuffers(s) : TRUE

LeftOf(s) ==
  IF Holder(s, "write") # {} THEN ChunksOf(CurrentOf(s))
  ELSE IF writes[s] # {} THEN (CHOOSE w \in writes[s] : TRUE).left
  ELSE 0

(* The restoring store of sendProtocolHandshakeResponse() hides for a      *)
(* moment that the session is canceled.                                    *)
PhaseOf(s) ==
  IF state_[s] = "Canceled" \/ at[s] = "restore" THEN "closed"
  ELSE IF state_[s] = "Running" \/ Holder(s, "write") # {} \/ at[s] = "setRunning"
  THEN "open"
  ELSE "new"

Queue == INSTANCE SendQueue
  WITH Connection <- Session,
       Element <- 1 .. MaxSends,
       phase <- [s \in Session |-> PhaseOf(s)],
       current <- [s \in Session |-> CurrentOf(s)],
       left <- [s \in Session |-> LeftOf(s)],
       next <- next_buffer_to_send_

(* When nobody sends before the handshake is through, what a session does  *)
(* with the buffers it is given is what publisher.h says of its queue:     *)
(* one is sent at a time and whole, the handshake first, one waits, the    *)
(* newest replaces it, and only the end of the connection loses one.       *)
ImplementsQueue == Queue!QueueSpec
=============================================================================
