----------------------------- MODULE SendChannel -----------------------------
(***************************************************************************)
(* What a publisher session does with the messages it is given, without    *)
(* its threads and locks: SendQueue's one element that is sent and one     *)
(* that waits, as long as send() is quiet during the handshake, and what   *)
(* becomes of it when it is not.  The response of the handshake is sent,   *)
(* and so is the element that waited for it, while the flag that says so   *)
(* is not set: the next element then does not wait.                        *)
(*                                                                         *)
(* PublisherSessionChannel maps a PublisherSession to this.  Pieces of     *)
(* several writes leave in any order here, and in fewer orders there.      *)
(***************************************************************************)
EXTENDS Integers, Sequences

CONSTANTS
  Connection,  \* the connections of a publisher
  Element,     \* what send() can be given, each once
  NoBuffer,    \* no element
  Handshake,   \* the handshake response, one piece
  Chunks       \* pieces of any other element

VARIABLES
  phase,    \* "new", "responding", "open", "aborted" or "closed"
  sending,  \* sending_in_progress_
  writes,   \* the elements that are being sent, with the pieces left of each
  next,     \* the element that waits
  wire      \* the pieces the network has taken

channelVars == <<phase, sending, writes, next, wire>>

ChannelInit ==
  /\ phase = [c \in Connection |-> "new"]
  /\ sending = [c \in Connection |-> FALSE]
  /\ writes = [c \in Connection |-> {}]
  /\ next = [c \in Connection |-> NoBuffer]
  /\ wire = [c \in Connection |-> <<>>]

Fresh(b, pieces) == [buf |-> b, left |-> pieces]

(* The write of the response is started before the state says so.          *)
Respond(c) ==
  /\ phase[c] = "new"
  /\ phase' = [phase EXCEPT ![c] = "responding"]
  /\ writes' = [writes EXCEPT ![c] = @ \cup {Fresh(Handshake, 1)}]
  /\ UNCHANGED <<sending, next, wire>>

Run(c) ==
  /\ phase[c] = "responding"
  /\ phase' = [phase EXCEPT ![c] = "open"]
  /\ UNCHANGED <<sending, writes, next, wire>>

StartWrite(c, b) ==
  /\ writes' = [writes EXCEPT ![c] = @ \cup {Fresh(b, Chunks)}]
  /\ UNCHANGED next

Keep(c, b) ==
  /\ next' = [next EXCEPT ![c] = b]
  /\ UNCHANGED <<sending, writes>>

Ended(c) == phase[c] \in {"aborted", "closed"}

(* Faulty variant: the flag is not set.                                    *)
GiveUnflagged(c, b) ==
  /\ \/ phase[c] \in {"open", "aborted"} /\ ~ sending[c]
        /\ StartWrite(c, b) /\ UNCHANGED sending
     \/ ~ Ended(c) /\ (phase[c] # "open" \/ sending[c]) /\ Keep(c, b)
     \/ Ended(c) /\ UNCHANGED <<sending, writes, next>>
  /\ UNCHANGED <<phase, wire>>

(* An element is sent, or waits in the place of an older one.  A session   *)
(* that was canceled while it responded looks open for a moment.           *)
Give(c, b) ==
  /\ \/ phase[c] \in {"open", "aborted"} /\ ~ sending[c]
        /\ StartWrite(c, b)
        /\ sending' = [sending EXCEPT ![c] = TRUE]
     \/ ~ Ended(c) /\ (phase[c] # "open" \/ sending[c]) /\ Keep(c, b)
     \/ Ended(c) /\ UNCHANGED <<sending, writes, next>>
  /\ UNCHANGED <<phase, wire>>

Carry(c, w) ==
  /\ w \in writes[c] /\ w.left > 0
  /\ writes' = [writes EXCEPT ![c] = (@ \ {w}) \cup {[w EXCEPT !.left = @ - 1]}]
  /\ wire' = [wire EXCEPT ![c] = Append(@, w.buf)]
  /\ UNCHANGED <<phase, sending, next>>

(* A write is complete: on to the element that waits, the flag as it is.   *)
Complete(c, w) ==
  /\ phase[c] = "open"
  /\ w \in writes[c] /\ w.left = 0
  /\ IF next[c] # NoBuffer
     THEN /\ writes' = [writes EXCEPT ![c] = (@ \ {w}) \cup {Fresh(next[c], Chunks)}]
          /\ UNCHANGED sending
     ELSE /\ writes' = [writes EXCEPT ![c] = @ \ {w}]
          /\ sending' = [sending EXCEPT ![c] = FALSE]
  /\ next' = [next EXCEPT ![c] = NoBuffer]
  /\ UNCHANGED <<phase, wire>>

(* A connection that ends, or has ended, may leave the rest unsent, and    *)
(* the element that waits for good.                                        *)
Close(c) ==
  /\ \E p \in {"aborted", "closed"} :
       /\ p = "aborted" => phase[c] \in {"responding", "aborted"}
       /\ phase' = [phase EXCEPT ![c] = p]
  /\ \E rest \in SUBSET writes[c] : writes' = [writes EXCEPT ![c] = rest]
  /\ sending' = [sending EXCEPT ![c] = @ /\ phase'[c] = "aborted"]
  /\ next' = [next EXCEPT ![c] = NoBuffer]
  /\ UNCHANGED wire

ChannelNext ==
  \E c \in Connection :
    \/ Respond(c) \/ Run(c) \/ Close(c)
    \/ \E w \in writes[c] : Carry(c, w) \/ Complete(c, w)
    \/ \E b \in Element : Give(c, b)

ChannelSpec == ChannelInit /\ [][ChannelNext]_channelVars
=============================================================================
