----------------------------- MODULE Connection -----------------------------
(***************************************************************************)
(* From send() to the callback: a subscriber session (SubscriberSession)   *)
(* that connects, again and again, to a publisher, whose side of each      *)
(* connection is the channel of SendChannel, which PublisherSession is     *)
(* checked to implement.  In between is TCP: the pieces of a connection    *)
(* arrive in their order, until it ends and the rest is lost.  The user    *)
(* calls send() at any time, also while connections are in the handshake.  *)
(*                                                                         *)
(* Both sides are of this version (headers of 12 bytes, protocol version   *)
(* 0) and messages are not empty.  The subscriber is not canceled:         *)
(* SubscriberSession tells what then happens, and nothing of it reaches    *)
(* the publisher but the end of the connection, which may come at any time *)
(* here too.                                                               *)
(***************************************************************************)
EXTENDS SubscriberSession

CONSTANTS
  MaxConnections,       \* bound: connections in a behaviour
  MaxMessages,          \* bound: calls of send()
  NoBuffer, Handshake,
  Chunks                \* pieces of a message on the wire

ASSUME ConnectionAssumption ==
  /\ MaxConnections \in Nat \ {0} /\ MaxMessages \in Nat
  /\ Chunks \in Nat \ {0}
  /\ Handshake \notin Nat /\ NoBuffer \notin Nat /\ Handshake # NoBuffer

VARIABLES
  phase, sending, writes, next, wire,  \* the publisher's side, see SendChannel
  publisher_sessions_,  \* connections in the publisher's list
  sent,       \* the latest message given to send()
  todo,       \* connections the loop of send() has still to visit
  peer,       \* the latest connection that was established
  requested,  \* connections that carry the subscriber's handshake
  consumed,   \* pieces of it the subscriber has read
  received,   \* data_buffer: the pieces of the payload last read
  delivered,  \* the last message the callback was called with
  early,      \* history: given a message before the response was through
  outOfTurn   \* history: begun to write before the write before was through

queueVars == <<phase, sending, writes, next, wire>>
senderVars == <<publisher_sessions_, sent, todo>>
readerVars == <<peer, requested, consumed, received>>
turnVars == <<early, outOfTurn>>
allVars == <<vars, queueVars, senderVars, readerVars, delivered, turnVars>>

Connections == 1 .. MaxConnections
Message == 1 .. MaxMessages

Channel == INSTANCE SendChannel WITH Connection <- Connections, Element <- Message

ConnectionInit ==
  /\ Init
  /\ Channel!ChannelInit
  /\ publisher_sessions_ = {} /\ sent = 0 /\ todo = {}
  /\ peer = 0 /\ requested = {} /\ consumed = 0 /\ received = <<>>
  /\ delivered = 0
  /\ early = {} /\ outOfTurn = {}

-----------------------------------------------------------------------------
(* The publisher.                                                          *)

PublisherFrame == UNCHANGED <<vars, readerVars, delivered>>

(* A session is started, and then put into the list.                       *)
AcceptClient(c) ==
  /\ c \in 1 .. peer \ publisher_sessions_
  /\ publisher_sessions_' = publisher_sessions_ \cup {c}
  /\ UNCHANGED <<queueVars, sent, todo, turnVars>> /\ PublisherFrame

(* send() locks the list: sessions that are accepted now do not get the    *)
(* message.                                                                *)
Send ==
  /\ todo = {} /\ sent < MaxMessages
  /\ sent' = sent + 1
  /\ todo' = {c \in publisher_sessions_ : ~ Channel!Ended(c)}
  /\ UNCHANGED <<queueVars, publisher_sessions_, turnVars>> /\ PublisherFrame

(* Faulty variant: a message is dropped if another one is being sent.      *)
SendDataBufferDropped(c) ==
  /\ c \in todo
  /\ IF writes[c] = {} THEN Channel!Give(c, sent) ELSE UNCHANGED queueVars
  /\ todo' = todo \ {c}
  /\ UNCHANGED <<publisher_sessions_, sent, turnVars>> /\ PublisherFrame

(* The response of the handshake is not through: its completion has not    *)
(* been handled.                                                           *)
Responding(c) ==
  \/ phase[c] \in {"new", "responding", "aborted"}
  \/ \E w \in writes[c] : w.buf = Handshake

(* What the history tells of a message given to a connection.              *)
NoteTurn(c) ==
  /\ early' = IF Responding(c) THEN early \cup {c} ELSE early
  /\ outOfTurn' = IF writes'[c] # writes[c] /\ (writes[c] # {} \/ Channel!Ended(c))
                  THEN outOfTurn \cup {c} ELSE outOfTurn

(* Faulty variant: a message that is sent at once is stored as well.       *)
SendDataBufferTwice(c) ==
  /\ c \in todo
  /\ IF phase[c] = "open" /\ ~ sending[c]
     THEN /\ writes' = [writes EXCEPT ![c] = @ \cup {Channel!Fresh(sent, Chunks)}]
          /\ sending' = [sending EXCEPT ![c] = TRUE]
          /\ next' = [next EXCEPT ![c] = sent]
          /\ UNCHANGED <<phase, wire>>
     ELSE Channel!Give(c, sent)
  /\ NoteTurn(c)
  /\ todo' = todo \ {c}
  /\ UNCHANGED <<publisher_sessions_, sent>> /\ PublisherFrame

SendDataBuffer(c) ==
  /\ c \in todo
  /\ Channel!Give(c, sent)
  /\ NoteTurn(c)
  /\ todo' = todo \ {c}
  /\ UNCHANGED <<publisher_sessions_, sent>> /\ PublisherFrame

(* sendProtocolHandshakeResponse().                                        *)
Respond(c) ==
  /\ \/ c \in requested /\ Channel!Respond(c)
     \/ Channel!Run(c)
  /\ UNCHANGED <<senderVars, turnVars>> /\ PublisherFrame

Write(c) ==
  /\ \E w \in writes[c] : Channel!Carry(c, w) \/ Channel!Complete(c, w)
  /\ UNCHANGED <<senderVars, turnVars>> /\ PublisherFrame

(* cancel(), an error, or the end of the network.                          *)
CloseConnection(c) ==
  /\ c \in 1 .. peer
  /\ Channel!Close(c)
  /\ UNCHANGED <<senderVars, turnVars>> /\ PublisherFrame

-----------------------------------------------------------------------------
(* The subscriber, with what its operations do to the connection.          *)

SubscriberFrame == UNCHANGED <<queueVars, senderVars, turnVars>>

Arrived == SubSeq(wire[peer], consumed + 1, Len(wire[peer]))

(* A frame begins with the first piece of a message; the middle of one     *)
(* says anything when it is taken for a header.                            *)
BeginsFrame(i) == \A j \in 1 .. i - 1 : wire[peer][j] # wire[peer][i]

(* Faulty variant: the length of a message, whatever the header says.      *)
FrameLengthsOfMessages ==
  IF BeginsFrame(consumed + 1) THEN {Chunks} ELSE 1 .. Len(Arrived)

(* The length of the frame, by the data_size of its header, which comes    *)
(* with its first piece.                                                   *)
FrameLengths ==
  IF BeginsFrame(consumed + 1)
  THEN {IF Arrived[1] = Handshake THEN 1 ELSE Chunks}
  ELSE 1 .. Len(Arrived)

Connected ==
  /\ stage = "connect" /\ peer < MaxConnections
  /\ OperationSucceeds
  /\ peer' = peer + 1 /\ consumed' = 0 /\ received' = <<>>
  /\ UNCHANGED <<requested, delivered>> /\ SubscriberFrame

HandshakeRequested ==
  /\ stage = "handshake"
  /\ OperationSucceeds
  /\ requested' = requested \cup {peer}
  /\ UNCHANGED <<peer, consumed, received, delivered>> /\ SubscriberFrame

HeaderArrives ==
  /\ stage \in {"headerLength", "headerContent"}
  /\ Arrived # <<>>
  /\ OperationSucceeds
  /\ UNCHANGED <<readerVars, delivered>> /\ SubscriberFrame

PayloadArrives ==
  /\ Started("payload") /\ Arrived # <<>>
  /\ \E length \in FrameLengths :
       /\ length <= Len(Arrived)
       /\ received' = SubSeq(Arrived, 1, length)
       /\ consumed' = consumed + length
  /\ OperationSucceeds
  /\ UNCHANGED <<peer, requested, delivered>> /\ SubscriberFrame

(* What does not involve the publisher.                                    *)
OtherSucceeds ==
  /\ stage \in {"resolve", "wait"}
  /\ OperationSucceeds
  /\ UNCHANGED <<readerVars, delivered>> /\ SubscriberFrame

(* An established connection only fails when either side has ended it;     *)
(* what had arrived may then be lost.                                      *)
Fails ==
  /\ stage # "connect" /\ socket = "connected" => Channel!Ended(peer)
  /\ OperationFailed
  /\ UNCHANGED <<readerVars, delivered>> /\ SubscriberFrame

(* A header of this version has 12 bytes, and messages are not empty.      *)
FrameRead ==
  /\ ReadCompleted
  /\ BeginsFrame(consumed + 1) =>
       /\ stage = "headerLength" => frame'.size = 12
       /\ stage = "headerContent" => stage' # "headerLength"
  /\ UNCHANGED <<readerVars, delivered>> /\ SubscriberFrame

(* The type in the header tells the handshake response from a message.     *)
PayloadHandled ==
  /\ PayloadReceived
  /\ BeginsFrame(consumed - Len(received) + 1) =>
       /\ stage' = "tasks"
       /\ Len(tasks') = IF received[1] = Handshake THEN 1 ELSE 2
  /\ UNCHANGED <<readerVars, delivered>> /\ SubscriberFrame

CallbackCalled ==
  /\ CallbackRuns
  /\ delivered' = IF received[1] \in Message THEN received[1] ELSE delivered
  /\ UNCHANGED readerVars /\ SubscriberFrame

Elsewhere ==
  /\ \/ StartOperation \/ Start \/ Advance \/ ResolveFailed \/ ConnectionFailed
     \/ TimerFired \/ SessionClosed \/ StrandTask \/ CallbackReturns
  /\ UNCHANGED <<readerVars, delivered>> /\ SubscriberFrame

SubscriberStep ==
  \/ Connected \/ HandshakeRequested \/ HeaderArrives \/ PayloadArrives
  \/ OtherSucceeds \/ Fails \/ FrameRead \/ PayloadHandled \/ CallbackCalled
  \/ Elsewhere

(* Time only counts while the session waits.                               *)
TimePasses ==
  /\ stage = "wait"
  /\ SecondPasses
  /\ UNCHANGED <<readerVars, delivered>> /\ SubscriberFrame

ConnectionNext ==
  \/ Send \/ SubscriberStep \/ TimePasses
  \/ \E c \in Connections :
       \/ AcceptClient(c) \/ SendDataBuffer(c) \/ Respond(c) \/ Write(c)
       \/ CloseConnection(c)

ConnectionSpec == ConnectionInit /\ [][ConnectionNext]_allVars

(* Both sides run on, callbacks return, TCP delivers.                      *)
ConnectionFairSpec ==
  /\ ConnectionSpec
  /\ WF_allVars(SubscriberStep)
  /\ \A c \in Connections :
       WF_allVars(SendDataBuffer(c)) /\ WF_allVars(Respond(c)) /\ WF_allVars(Write(c))

-----------------------------------------------------------------------------
(* Properties.                                                             *)

(* The writes of a connection take turns, unless send() was called before  *)
(* the completion of its handshake response was handled: nothing else lets *)
(* a message go past the flag sending_in_progress_.                        *)
OutOfTurnOnlyWhenEarly == outOfTurn \subseteq early

(* The callback gets the messages in the order of send(), none twice, over *)
(* all the connections the session makes one after another, also those     *)
(* sent during a handshake, as long as the writes of the connection that   *)
(* brings the message take turns.                                          *)
DeliveredInOrder ==
  [][CallbackCalled /\ peer \notin outOfTurn => received[1] > delivered]_allVars

(* What the subscriber takes for one frame by the length in its header is  *)
(* one frame of the publisher, from its first piece to its last, as long   *)
(* as the writes of the connection take turns.                             *)
FramesReadWhole ==
  peer \notin outOfTurn => \A i \in 1 .. Len(received) : received[i] = received[1]

(* The last message that was sent over a connection reaches the callback,  *)
(* unless the connection ends or its writes do not take turns, however the *)
(* reads interleave with writes: neither side waits for the other, and     *)
(* only a newer message replaces it.                                       *)
NewestIsDelivered ==
  \A b \in Message, c \in Connections :
    (peer = c /\ sent = b /\ c \in todo)
      ~> \/ delivered >= b \/ c \in outOfTurn
         \/ Channel!Ended(c) \/ socket # "connected" \/ peer # c
=============================================================================
