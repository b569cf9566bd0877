------------------------------ MODULE SendQueue ------------------------------
(***************************************************************************)
(* What publisher.h promises of each connection, without the threads, the  *)
(* locks and the asynchronous writes behind it: send() feeds a queue of    *)
(* one element "currently sent to the subscriber" and one "kept in queue   *)
(* as next element", which a newer one replaces.  The current element      *)
(* leaves in whole before the next takes its place; the first is the       *)
(* protocol handshake.                                                     *)
(***************************************************************************)
EXTENDS Integers, Sequences

CONSTANTS
  Connection,  \* the connections of a publisher
  Element,     \* what send() can be given
  NoBuffer,    \* no element
  Handshake,   \* the handshake response, one piece
  Chunks       \* pieces of any other element

VARIABLES
  phase,    \* "new", "open" or "closed"
  current,  \* the element that is sent
  left,     \* its pieces the network has not taken
  next,     \* the next element
  wire      \* the pieces the network has taken

queueVars == <<phase, current, left, next, wire>>

QueueInit ==
  /\ phase = [c \in Connection |-> "new"]
  /\ current = [c \in Connection |-> NoBuffer]
  /\ left = [c \in Connection |-> 0]
  /\ next = [c \in Connection |-> NoBuffer]
  /\ wire = [c \in Connection |-> <<>>]

(* The element becomes the current one.                                    *)
Begin(c, b, pieces) ==
  /\ current' = [current EXCEPT ![c] = b]
  /\ left' = [left EXCEPT ![c] = pieces]

Open(c) ==
  /\ phase[c] = "new"
  /\ phase' = [phase EXCEPT ![c] = "open"]
  /\ Begin(c, Handshake, 1)
  /\ UNCHANGED <<next, wire>>

(* An element is sent if there is no current one, or else is the next.     *)
Give(c, b) ==
  /\ IF phase[c] = "open" /\ current[c] = NoBuffer
     THEN Begin(c, b, Chunks) /\ UNCHANGED next
     ELSE next' = [next EXCEPT ![c] = b] /\ UNCHANGED <<current, left>>
  /\ UNCHANGED <<phase, wire>>

Carry(c) ==
  /\ left[c] > 0
  /\ left' = [left EXCEPT ![c] = @ - 1]
  /\ wire' = [wire EXCEPT ![c] = Append(@, current[c])]
  /\ UNCHANGED <<phase, current, next>>

(* Nothing of the current element is left: on to the next.                 *)
Advance(c) ==
  /\ current[c] # NoBuffer /\ left[c] = 0
  /\ IF next[c] # NoBuffer THEN Begin(c, next[c], Chunks) ELSE Begin(c, NoBuffer, 0)
  /\ next' = [next EXCEPT ![c] = NoBuffer]
  /\ UNCHANGED <<phase, wire>>

(* A connection that ends, or has ended, may leave the rest unsent.        *)
Close(c) ==
  /\ phase' = [phase EXCEPT ![c] = "closed"]
  /\ Begin(c, NoBuffer, 0) \/ UNCHANGED <<current, left>>
  /\ UNCHANGED <<next, wire>>

QueueNext ==
  \E c \in Connection :
    \/ Open(c) \/ Carry(c) \/ Advance(c) \/ Close(c)
    \/ \E b \in Element : Give(c, b)

QueueSpec == QueueInit /\ [][QueueNext]_queueVars
=============================================================================
