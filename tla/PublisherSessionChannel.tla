----------------------- MODULE PublisherSessionChannel -----------------------
(***************************************************************************)
(* A publisher session is the channel of SendChannel, whatever the user    *)
(* sends while the handshake is open, and whoever cancels it when.         *)
(***************************************************************************)
EXTENDS PublisherSession

Responding(s) ==
  at[s] \in {"setRunning", "restore"} \/ (at[s] = "write" /\ arg[s] = Handshake)

(* The restoring store of sendProtocolHandshakeResponse() hides for a      *)
(* moment that the session is canceled.                                    *)
ChannelPhase(s) ==
  IF state_[s] = "Canceled" \/ at[s] = "restore"
  THEN IF Responding(s) THEN "aborted" ELSE "closed"
  ELSE IF Responding(s) THEN "responding"
  ELSE IF state_[s] = "Running" THEN "open" ELSE "new"

(* What is being sent: the writes that are under way, those a context is   *)
(* about to start unless it finds the session canceled, and the one whose  *)
(* completion is being handled.                                            *)
ChannelWrites(s) ==
  {[buf |-> w.buf, left |-> w.left] : w \in writes[s]}
    \cup {[buf |-> arg[c], left |-> ChunksOf(arg[c])] :
            c \in {d \in Context :
                     at[d] = "write" /\ on[d] = s /\ state_[s] # "Canceled"}}
    \cup {[buf |-> arg[c], left |-> 0] :
            c \in {d \in Context : at[d] = "takeNext" /\ on[d] = s}}

Channel == INSTANCE SendChannel
  WITH Connection <- Session,
       Element <- 1 .. MaxSends,
       phase <- [s \in Session |-> ChannelPhase(s)],
       sending <- [s \in Session |->
                     sending_in_progress_[s] /\ ChannelPhase(s) # "closed"],
       writes <- [s \in Session |-> ChannelWrites(s)],
       next <- [s \in Session |->
                  IF ChannelPhase(s) \in {"aborted", "closed"}
                  THEN NoBuffer ELSE next_buffer_to_send_[s]]

(* Whatever threads send and cancel when, a session does with its messages *)
(* what SendChannel says: messages given before the handshake response is  *)
(* through may be written while another write is under way, and no others. *)
ImplementsChannel == Channel!ChannelSpec
=============================================================================
