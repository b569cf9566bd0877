-------------------------- MODULE Connection_proofs --------------------------
(***************************************************************************)
(* Theorems about the way of a message from send() to the callback, for    *)
(* any numbers of connections and messages and any number of pieces to a   *)
(* message, whenever send() is called.                                     *)
(***************************************************************************)
EXTENDS Connection, SubscriberSession_proofs

-----------------------------------------------------------------------------
(* Where frames begin on the wire.                                         *)

(* A frame may begin behind e pieces: the handshake response is one piece, *)
(* every message after it Chunks.                                          *)
FrameStart(e) == e = 0 \/ \E k \in 0 .. e : e = 1 + k * Chunks

PiecesAt(e) == IF e = 0 THEN 1 ELSE Chunks

-----------------------------------------------------------------------------
(* A connection whose writes take turns, seen as a queue.                  *)

BufferOf(W) == IF W = {} THEN NoBuffer ELSE (CHOOSE w \in W : TRUE).buf
PiecesLeft(W) == IF W = {} THEN 0 ELSE (CHOOSE w \in W : TRUE).left

(* The element that is sent, and its pieces the network has not taken.     *)
Current(c) == BufferOf(writes[c])
Left(c) == PiecesLeft(writes[c])

TakesTurns(c) == c \notin outOfTurn

OneWrite(c) == writes[c] = {} \/ \E w \in writes[c] : writes[c] = {w}

-----------------------------------------------------------------------------
(* The inductive invariant.                                                *)

Given == 1 .. sent \cup {Handshake}

ChannelsOK ==
  /\ phase \in [Connections -> {"new", "responding", "open", "aborted", "closed"}]
  /\ sending \in [Connections -> BOOLEAN]
  /\ writes \in [Connections -> SUBSET [buf : Given, left : Nat]]
  /\ next \in [Connections -> 1 .. sent \cup {NoBuffer}]
  /\ wire \in [Connections -> Seq(Given)]
  /\ sent \in 0 .. MaxMessages /\ peer \in 0 .. MaxConnections
  /\ publisher_sessions_ \subseteq 1 .. peer /\ todo \subseteq publisher_sessions_
  /\ requested \subseteq 1 .. peer
  /\ todo # {} => sent > 0
  /\ \A c \in Connections : c > peer => phase[c] = "new" /\ writes[c] = {} /\ next[c] = NoBuffer

(* What is on the wire is whole frames, newer behind older, and the last   *)
(* one, behind p pieces, as far as it has left.                            *)
FramesOn(c, p) ==
  /\ p \in 0 .. Len(wire[c]) /\ FrameStart(p)
  /\ Len(wire[c]) <= p + PiecesAt(p)
  /\ \A i \in 1 .. Len(wire[c]) : IF i = 1 THEN wire[c][i] = Handshake
                                          ELSE wire[c][i] \in Message
  /\ \A e \in 0 .. Len(wire[c]), i \in 1 .. Len(wire[c]) :
       FrameStart(e) /\ e < i /\ i <= e + PiecesAt(e) => wire[c][i] = wire[c][e + 1]
  /\ \A e \in 0 .. Len(wire[c]), i, j \in 2 .. Len(wire[c]) :
       FrameStart(e) /\ i <= e /\ e < j => wire[c][i] < wire[c][j]

(* The queue behind it: the rest of the frame, and a newer element.        *)
QueueBehind(c, p) ==
  /\ Current(c) = NoBuffer =>
       /\ Left(c) = 0
       /\ phase[c] = "open" =>
            p # 0 /\ Len(wire[c]) = p /\ next[c] = NoBuffer /\ ~ sending[c]
  /\ Current(c) # NoBuffer =>
       /\ Left(c) = p + PiecesAt(p) - Len(wire[c])
       /\ p = 0 <=> Current(c) = Handshake
       /\ \A i \in p + 1 .. Len(wire[c]) : wire[c][i] = Current(c)
  /\ Current(c) \in Message => \A i \in 2 .. p : wire[c][i] < Current(c)
  /\ next[c] \in Message =>
       /\ \A i \in 2 .. Len(wire[c]) : wire[c][i] < next[c]
       /\ Current(c) \in Message => Current(c) < next[c]
  /\ phase[c] = "new" => Len(wire[c]) = 0 /\ Current(c) = NoBuffer
  /\ phase[c] = "responding" => Current(c) # NoBuffer

Stream(c) == \E p \in 0 .. Len(wire[c]) : FramesOn(c, p) /\ QueueBehind(c, p)

(* All that connection c was given is older than b.                        *)
OlderThan(c, b) ==
  /\ \A i \in 2 .. Len(wire[c]) : wire[c][i] < b
  /\ Current(c) \in Message => Current(c) < b
  /\ next[c] \in Message => next[c] < b

InTurn(c) ==
  TakesTurns(c) =>
    OneWrite(c) /\ Stream(c) /\ (c \in todo => OlderThan(c, sent))

Streams == \A c \in Connections : InTurn(c)

(* The flag is right where no message was given too early.                 *)
FlagRight(c) ==
  /\ phase[c] \in {"new", "responding"} => next[c] = NoBuffer /\ ~ sending[c]
  /\ phase[c] \in {"responding", "open"} =>
       \/ Current(c) = Handshake /\ next[c] = NoBuffer /\ ~ sending[c]
       \/ Current(c) \in Message /\ sending[c]
       \/ Current(c) = NoBuffer /\ ~ sending[c]

Flags == outOfTurn \subseteq early /\ \A c \in Connections : c \notin early => FlagRight(c)

(* All that is still to be read from the connection is newer than b.       *)
NewerToCome(b) ==
  peer \in Connections /\ TakesTurns(peer) =>
    /\ \A i \in consumed + 1 .. Len(wire[peer]) : i > 1 => wire[peer][i] > b
    /\ Current(peer) \in Message /\ Left(peer) > 0 => Current(peer) > b
    /\ next[peer] \in Message => next[peer] > b
    /\ peer \in todo => sent > b

ForCallback ==
  \/ stage = "tasks" /\ tasks = <<"callback", "read">>
  \/ stage = "callback" /\ operation = "none"

FrameArrived == stage = "payload" /\ operation = "completed"

(* The payload last read has not been given to the callback.               *)
Pending == FrameArrived \/ ForCallback

Established ==
  \/ stage \in {"handshake", "tasks", "callback"} \cup Reads
  \/ stage = "connect" /\ operation = "completed"

ReaderOK ==
  /\ ~ canceled_
  /\ Established => peer \in Connections
  /\ consumed \in Nat
  /\ peer \in Connections =>
       consumed <= Len(wire[peer]) /\ (TakesTurns(peer) => FrameStart(consumed))
  /\ received \in Seq(Given)
  /\ Pending => received # <<>>
  /\ FrameArrived => Len(received) <= consumed
  /\ FrameArrived /\ TakesTurns(peer) => BeginsFrame(consumed - Len(received) + 1)

(* Where the last payload stands between those given and those to come.    *)
DeliveryOK ==
  /\ delivered \in 0 .. sent /\ NewerToCome(delivered)
  /\ Pending /\ TakesTurns(peer) /\ received[1] \in Message =>
       delivered < received[1] /\ NewerToCome(received[1])
  /\ ForCallback /\ TakesTurns(peer) => received[1] \in Message

ConnectionInv ==
  IInv /\ ChannelsOK /\ Streams /\ Flags /\ ReaderOK /\ FramesReadWhole /\ DeliveryOK
-----------------------------------------------------------------------------
(* The boundaries of frames.                                               *)

LEMMA FirstFrame == FrameStart(0) /\ \A e \in Nat : PiecesAt(e) \in Nat \ {0}
BY ConnectionAssumption DEF FrameStart, PiecesAt

(* Behind a frame the next one begins.                                     *)
LEMMA NextFrame ==
  ASSUME NEW e \in Nat, FrameStart(e)
  PROVE  e + PiecesAt(e) \in Nat /\ FrameStart(e + PiecesAt(e))
<1>1. Chunks \in Nat /\ Chunks > 0
  BY ConnectionAssumption
<1>2. CASE e = 0
  BY <1>1, <1>2 DEF FrameStart, PiecesAt
<1>3. CASE e # 0
  <2>1. PICK k \in 0 .. e : e = 1 + k * Chunks
    BY <1>3 DEF FrameStart
  <2>2. k + 1 \in 0 .. e + Chunks
    BY <1>1
  <2>3. e + Chunks = 1 + (k + 1) * Chunks
    BY <1>1, <2>1
  <2>4. FrameStart(e + Chunks)
    BY <2>2, <2>3 DEF FrameStart
  <2>5. PiecesAt(e) = Chunks
    BY <1>3 DEF PiecesAt
  <2>6. QED
    BY <1>1, <2>4, <2>5
<1>4. QED
  BY <1>2, <1>3

(* Frames do not overlap.                                                  *)
LEMMA FramesApart ==
  ASSUME NEW e \in Nat, NEW p \in Nat, FrameStart(e), FrameStart(p), e < p
  PROVE  e + PiecesAt(e) <= p
<1>1. Chunks \in Nat /\ Chunks > 0
  BY ConnectionAssumption
<1>2. PICK m \in 0 .. p : p = 1 + m * Chunks
  BY DEF FrameStart
<1>3. CASE e = 0
  <2>1. m * Chunks >= 0
    BY <1>1
  <2>2. QED
    BY <1>1, <1>2, <1>3 DEF PiecesAt
<1>4. CASE e # 0
  <2>1. PICK k \in 0 .. e : e = 1 + k * Chunks
    BY <1>4 DEF FrameStart
  <2>2. k < m
    <3>1. \A x, y, z \in Nat : x <= y => x * z <= y * z
      OBVIOUS
    <3>2. m <= k => m * Chunks <= k * Chunks
      BY <1>1, <3>1
    <3>3. QED
      BY <1>1, <1>2, <2>1, <3>2
  <2>3. PICK d \in Nat : m = k + 1 + d
    <3>1. m - k - 1 \in Nat /\ m = k + 1 + (m - k - 1)
      BY <2>2
    <3>2. QED
      BY <3>1
  <2>4. m * Chunks = k * Chunks + Chunks + d * Chunks
    BY <1>1, <2>3
  <2>5. d * Chunks \in Nat
    BY <1>1
  <2>6. QED
    BY <1>1, <1>2, <1>4, <2>1, <2>4, <2>5 DEF PiecesAt
<1>5. QED
  BY <1>3, <1>4
-----------------------------------------------------------------------------
(* Either side by itself.                                                  *)

(* What the subscriber does with a connection is what a session does.      *)
LEMMA SubscriberSide == ConnectionNext => [Next]_vars
<1> SUFFICES ASSUME ConnectionNext PROVE [Next]_vars
  OBVIOUS
<1>1. CASE Send \/ \E c \in Connections :
             \/ AcceptClient(c) \/ SendDataBuffer(c) \/ Respond(c) \/ Write(c)
             \/ CloseConnection(c)
  BY <1>1 DEF Send, AcceptClient, SendDataBuffer, Respond, Write, CloseConnection, PublisherFrame
<1>2. CASE SubscriberStep
  <2>1. \/ Operation \/ ReadCompleted \/ PayloadReceived \/ CallbackRuns
        \/ StartOperation \/ Start \/ Advance \/ ResolveFailed \/ ConnectionFailed
        \/ TimerFired \/ SessionClosed \/ StrandTask \/ CallbackReturns
    BY <1>2 DEF SubscriberStep, Connected, HandshakeRequested, HeaderArrives, PayloadArrives,
                OtherSucceeds, Fails, FrameRead, PayloadHandled, CallbackCalled, Elsewhere, Operation
  <2>2. QED
    BY <2>1 DEF Next, ChainStep, PeerStep
<1>3. CASE TimePasses
  BY <1>3 DEF TimePasses, Next
<1>4. QED
  BY <1>1, <1>2, <1>3 DEF ConnectionNext

(* What a step of the subscriber leaves alone.                             *)
LEMMA SubscriberLeaves ==
  SubscriberStep \/ TimePasses => UNCHANGED <<queueVars, senderVars, turnVars>>
BY DEF SubscriberStep, Connected, HandshakeRequested, HeaderArrives, PayloadArrives, OtherSucceeds,
       Fails, FrameRead, PayloadHandled, CallbackCalled, Elsewhere, TimePasses, SubscriberFrame

LEMMA Distinct ==
  /\ Message \subseteq Nat /\ Handshake \notin Message /\ NoBuffer \notin Message
  /\ NoBuffer # Handshake /\ Chunks \in Nat \ {0}
BY ConnectionAssumption DEF Message

(* What was given is a message or the response.                            *)
LEMMA GivenIsKnown ==
  ASSUME ChannelsOK
  PROVE  /\ sent \in Nat /\ 1 .. sent \subseteq Message /\ NoBuffer \notin Given
         /\ \A b \in Given : b # Handshake => b \in Message /\ b <= sent
BY ConnectionAssumption DEF ChannelsOK, Given, Message

-----------------------------------------------------------------------------
(* The publisher's steps on one connection.                                *)

ChannelStep(c) ==
  \/ Channel!Respond(c) \/ Channel!Run(c) \/ Channel!Close(c)
  \/ \E w \in writes[c] : Channel!Carry(c, w) \/ Channel!Complete(c, w)

PublisherStep(c) ==
  \/ AcceptClient(c) \/ SendDataBuffer(c) \/ Respond(c) \/ Write(c) \/ CloseConnection(c)

LEMMA PublisherIsChannel ==
  ASSUME ChannelsOK, NEW c \in Connections, PublisherStep(c)
  PROVE  /\ UNCHANGED <<vars, readerVars, delivered, sent>>
         /\ todo' \subseteq todo /\ outOfTurn \subseteq outOfTurn' /\ early \subseteq early'
         /\ \/ UNCHANGED <<queueVars, turnVars>>
            \/ c <= peer /\ ChannelStep(c) /\ UNCHANGED turnVars
            \/ /\ c \in todo /\ c \notin todo' /\ c <= peer /\ sent \in 1 .. sent
               /\ Channel!Give(c, sent) /\ NoteTurn(c)
         /\ publisher_sessions_' \subseteq 1 .. peer /\ todo' \subseteq publisher_sessions_'
<1>1. CASE SendDataBuffer(c)
  BY <1>1 DEF SendDataBuffer, PublisherFrame, ChannelsOK, NoteTurn
<1>2. CASE AcceptClient(c)
  BY <1>2 DEF AcceptClient, PublisherFrame, ChannelsOK, turnVars
<1>3. CASE Respond(c) \/ Write(c) \/ CloseConnection(c)
  <2>1. UNCHANGED <<vars, readerVars, delivered, senderVars, turnVars>>
    BY <1>3 DEF Respond, Write, CloseConnection, PublisherFrame
  <2>2. ChannelStep(c)
    BY <1>3 DEF Respond, Write, CloseConnection, ChannelStep
  <2>3. c <= peer
    <3>1. peer \in Nat /\ c \in Nat
      BY ConnectionAssumption DEF ChannelsOK, Connections
    <3>2. c \in 1 .. peer \/ phase[c] # "new" \/ writes[c] # {}
      BY <1>3 DEF Respond, Write, CloseConnection, ChannelsOK, Channel!Run
    <3>3. QED
      BY <3>1, <3>2 DEF ChannelsOK
  <2>4. QED
    BY <2>1, <2>2, <2>3 DEF senderVars, turnVars, ChannelsOK
<1>4. QED
  BY <1>1, <1>2, <1>3 DEF PublisherStep
(* A step of one connection is none of another.                            *)
LEMMA OthersKept ==
  ASSUME ChannelsOK, NEW c \in Connections, NEW d \in Connections, c # d,
         ChannelStep(c) \/ Channel!Give(c, sent)
  PROVE  /\ phase'[d] = phase[d] /\ sending'[d] = sending[d] /\ writes'[d] = writes[d]
         /\ next'[d] = next[d] /\ wire'[d] = wire[d]
<1> USE DEF ChannelsOK
<1>1. CASE Channel!Respond(c) \/ Channel!Run(c)
  BY <1>1 DEF Channel!Respond, Channel!Run
<1>2. CASE Channel!Close(c)
  BY <1>2 DEF Channel!Close
<1>3. ASSUME NEW w \in writes[c], Channel!Carry(c, w)
      PROVE  /\ phase'[d] = phase[d] /\ sending'[d] = sending[d] /\ writes'[d] = writes[d]
             /\ next'[d] = next[d] /\ wire'[d] = wire[d]
  BY <1>3 DEF Channel!Carry
<1>4. ASSUME NEW w \in writes[c], Channel!Complete(c, w)
      PROVE  /\ phase'[d] = phase[d] /\ sending'[d] = sending[d] /\ writes'[d] = writes[d]
             /\ next'[d] = next[d] /\ wire'[d] = wire[d]
  BY <1>4 DEF Channel!Complete
<1>5. CASE Channel!Give(c, sent)
  BY <1>5 DEF Channel!Give, Channel!StartWrite, Channel!Keep
<1>6. QED
  BY <1>1, <1>2, <1>3, <1>4, <1>5 DEF ChannelStep

-----------------------------------------------------------------------------
(* Types.                                                                  *)

LEMMA ChannelsInit == ConnectionInit => ChannelsOK
BY ConnectionAssumption DEF ConnectionInit, Channel!ChannelInit, ChannelsOK

ChannelTypes ==
  /\ phase \in [Connections -> {"new", "responding", "open", "aborted", "closed"}]
  /\ sending \in [Connections -> BOOLEAN]
  /\ writes \in [Connections -> SUBSET [buf : Given, left : Nat]]
  /\ next \in [Connections -> 1 .. sent \cup {NoBuffer}]
  /\ wire \in [Connections -> Seq(Given)]

LEMMA Replaced ==
  ASSUME NEW S, NEW R, NEW f \in [S -> SUBSET R], NEW x \in S, NEW X \in SUBSET R
  PROVE  [f EXCEPT ![x] = X] \in [S -> SUBSET R]
OBVIOUS

LEMMA OnePieceLess ==
  ASSUME NEW S, NEW w \in [buf : S, left : Nat], w.left > 0
  PROVE  [w EXCEPT !.left = @ - 1] \in [buf : S, left : Nat]
<1>1. w.buf \in S /\ w.left \in Nat /\ w.left - 1 \in Nat
  OBVIOUS
<1>2. [w EXCEPT !.left = @ - 1] = [buf |-> w.buf, left |-> w.left - 1]
  OBVIOUS
<1>3. QED
  BY <1>1, <1>2

LEMMA TypesKept ==
  ASSUME ChannelsOK, NEW c \in Connections, sent' = sent,
         ChannelStep(c) \/ (Channel!Give(c, sent) /\ sent \in 1 .. sent)
  PROVE  ChannelTypes'
<1> USE DEF ChannelsOK
<1>1. Given' = Given /\ Handshake \in Given /\ 1 .. sent \subseteq Given /\ Chunks \in Nat
  BY Distinct DEF Given
<1> DEFINE R == [buf : Given, left : Nat]
<1>w. writes \in [Connections -> SUBSET R] /\ writes[c] \in SUBSET R
  OBVIOUS
<1>2. CASE Channel!Respond(c) \/ Channel!Run(c)
  <2>1. writes[c] \cup {Channel!Fresh(Handshake, 1)} \in SUBSET R
    BY <1>1 DEF Channel!Fresh
  <2>2. writes' \in [Connections -> SUBSET R]
    BY <1>2, <1>w, <2>1, Replaced DEF Channel!Respond, Channel!Run
  <2>3. QED
    BY <1>1, <1>2, <2>2 DEF Channel!Respond, Channel!Run, ChannelTypes
<1>3. CASE Channel!Close(c)
  <2>1. /\ phase' \in [Connections -> {"new", "responding", "open", "aborted", "closed"}]
        /\ wire' = wire
    BY <1>3 DEF Channel!Close
  <2>2. sending' \in [Connections -> BOOLEAN]
    BY <1>3 DEF Channel!Close
  <2>3. next' \in [Connections -> 1 .. sent \cup {NoBuffer}]
    BY <1>3 DEF Channel!Close
  <2>4. writes' \in [Connections -> SUBSET R]
    <3>1. PICK rest \in SUBSET writes[c] : writes' = [writes EXCEPT ![c] = rest]
      BY <1>3 DEF Channel!Close
    <3>2. rest \in SUBSET R
      BY <1>w
    <3>3. QED
      BY <1>w, <3>1, <3>2, Replaced
  <2>5. QED
    BY <1>1, <2>1, <2>2, <2>3, <2>4 DEF ChannelTypes
<1>4. ASSUME NEW w \in writes[c], Channel!Carry(c, w) PROVE ChannelTypes'
  <2>1. w \in [buf : Given, left : Nat] /\ w.left > 0
    BY <1>4 DEF Channel!Carry
  <2>2. (writes[c] \ {w}) \cup {[w EXCEPT !.left = @ - 1]} \in SUBSET R
    BY <1>w, <2>1, OnePieceLess
  <2>3. writes' \in [Connections -> SUBSET R]
    BY <1>4, <1>w, <2>2, Replaced DEF Channel!Carry
  <2>4. wire' \in [Connections -> Seq(Given)]
    BY <1>4, <2>1 DEF Channel!Carry
  <2>5. QED
    BY <1>1, <1>4, <2>3, <2>4 DEF Channel!Carry, ChannelTypes
<1>5. ASSUME NEW w \in writes[c], Channel!Complete(c, w) PROVE ChannelTypes'
  <2>1. next[c] # NoBuffer => Channel!Fresh(next[c], Chunks) \in R
    BY <1>1 DEF Channel!Fresh
  <2>2. /\ writes[c] \ {w} \in SUBSET R
        /\ next[c] # NoBuffer =>
             (writes[c] \ {w}) \cup {Channel!Fresh(next[c], Chunks)} \in SUBSET R
    BY <1>w, <2>1
  <2>3. writes' \in [Connections -> SUBSET R]
    BY <1>5, <1>w, <2>2, Replaced DEF Channel!Complete
  <2>4. QED
    BY <1>1, <1>5, <2>3 DEF Channel!Complete, ChannelTypes
<1>6. ASSUME Channel!Give(c, sent), sent \in 1 .. sent PROVE ChannelTypes'
  <2>1. writes[c] \cup {Channel!Fresh(sent, Chunks)} \in SUBSET R
    BY <1>1, <1>6, <1>w DEF Channel!Fresh
  <2>2. writes' \in [Connections -> SUBSET R]
    BY <1>6, <1>w, <2>1, Replaced DEF Channel!Give, Channel!StartWrite, Channel!Keep
  <2>3. QED
    BY <1>1, <1>6, <2>2 DEF Channel!Give, Channel!StartWrite, Channel!Keep, ChannelTypes
<1>7. QED
  BY <1>2, <1>3, <1>4, <1>5, <1>6 DEF ChannelStep

(* Connections that are not established have been given nothing.           *)
LEMMA PublisherTypes ==
  ASSUME ChannelsOK, NEW c \in Connections, PublisherStep(c)
  PROVE  ChannelsOK'
<1>1. /\ UNCHANGED <<vars, readerVars, delivered, sent>> /\ todo' \subseteq todo
      /\ publisher_sessions_' \subseteq 1 .. peer /\ todo' \subseteq publisher_sessions_'
  BY PublisherIsChannel
<1>2. CASE UNCHANGED <<queueVars, turnVars>>
  BY <1>1, <1>2 DEF ChannelsOK, readerVars, queueVars, Given
<1>3. CASE ~ UNCHANGED <<queueVars, turnVars>>
  <2>1. c <= peer /\ (ChannelStep(c) \/ (Channel!Give(c, sent) /\ sent \in 1 .. sent))
    BY <1>3, PublisherIsChannel
  <2>2. ChannelTypes'
    BY <1>1, <2>1, TypesKept
  <2>3. ASSUME NEW d \in Connections, d > peer
        PROVE  phase'[d] = "new" /\ writes'[d] = {} /\ next'[d] = NoBuffer
    <3>1. d # c
      BY <2>1, <2>3, ConnectionAssumption DEF ChannelsOK, Connections
    <3>2. phase[d] = "new" /\ writes[d] = {} /\ next[d] = NoBuffer
      BY <2>3 DEF ChannelsOK
    <3>3. QED
      BY <2>1, <3>1, <3>2, OthersKept
  <2>4. QED
    BY <1>1, <2>2, <2>3 DEF ChannelsOK, ChannelTypes, readerVars
<1>4. QED
  BY <1>2, <1>3

-----------------------------------------------------------------------------
(* What the steps are to a queue, while writes take turns.                 *)

LEMMA QueueHead ==
  /\ BufferOf({}) = NoBuffer /\ PiecesLeft({}) = 0
  /\ \A w : BufferOf({w}) = w.buf /\ PiecesLeft({w}) = w.left
BY DEF BufferOf, PiecesLeft

LEMMA HeadNow ==
  ASSUME NEW c, NEW v
  PROVE  /\ writes[c] = {v} => Current(c) = v.buf /\ Left(c) = v.left
         /\ writes[c] = {} => Current(c) = NoBuffer /\ Left(c) = 0
         /\ writes'[c] = {v} => OneWrite(c)' /\ Current(c)' = v.buf /\ Left(c)' = v.left
         /\ writes'[c] = {} => OneWrite(c)' /\ Current(c)' = NoBuffer /\ Left(c)' = 0
         /\ writes'[c] = writes[c] => /\ Current(c)' = Current(c) /\ Left(c)' = Left(c)
                                      /\ OneWrite(c) => OneWrite(c)'
BY QueueHead DEF Current, Left, OneWrite

LEMMA FreshHead ==
  ASSUME NEW c, NEW b, NEW n, writes'[c] = {Channel!Fresh(b, n)}
  PROVE  OneWrite(c)' /\ Current(c)' = b /\ Left(c)' = n
<1> DEFINE v == Channel!Fresh(b, n)
<1>1. v.buf = b /\ v.left = n
  BY DEF Channel!Fresh
<1>2. writes'[c] = {v}
  OBVIOUS
<1> HIDE DEF v
<1>3. QED
  BY <1>1, <1>2, HeadNow

Opens(c) ==
  /\ phase[c] = "new" /\ phase'[c] = "responding" /\ sending'[c] = sending[c]
  /\ Current(c)' = Handshake /\ Left(c)' = 1 /\ next'[c] = next[c] /\ wire'[c] = wire[c]

Runs(c) ==
  /\ phase[c] = "responding" /\ phase'[c] = "open" /\ sending'[c] = sending[c]
  /\ Current(c)' = Current(c) /\ Left(c)' = Left(c)
  /\ next'[c] = next[c] /\ wire'[c] = wire[c]

Carries(c) ==
  /\ phase'[c] = phase[c] /\ sending'[c] = sending[c]
  /\ Current(c) \in Given /\ Left(c) > 0
  /\ Current(c)' = Current(c) /\ Left(c)' = Left(c) - 1
  /\ next'[c] = next[c] /\ wire'[c] = Append(wire[c], Current(c))

Advances(c) ==
  /\ phase[c] = "open" /\ phase'[c] = "open" /\ Current(c) \in Given /\ Left(c) = 0
  /\ IF next[c] # NoBuffer
     THEN Current(c)' = next[c] /\ Left(c)' = Chunks /\ sending'[c] = sending[c]
     ELSE Current(c)' = NoBuffer /\ Left(c)' = 0 /\ ~ sending'[c]
  /\ next'[c] = NoBuffer /\ wire'[c] = wire[c]

Ends(c) ==
  /\ phase'[c] \in {"aborted", "closed"} /\ next'[c] = NoBuffer /\ wire'[c] = wire[c]
  /\ \/ Current(c)' = Current(c) /\ Left(c)' = Left(c)
     \/ Current(c)' = NoBuffer /\ Left(c)' = 0

Gives(c, b) ==
  /\ phase'[c] = phase[c] /\ wire'[c] = wire[c]
  /\ \/ /\ phase[c] = "open" /\ Current(c) = NoBuffer /\ ~ sending[c]
        /\ Current(c)' = b /\ Left(c)' = Chunks /\ next'[c] = next[c] /\ sending'[c]
     \/ /\ phase[c] # "open" \/ sending[c]
        /\ Current(c)' = Current(c) /\ Left(c)' = Left(c) /\ next'[c] = b
        /\ sending'[c] = sending[c]
     \/ /\ phase[c] \in {"aborted", "closed"} \/ Current(c) = b
        /\ Current(c)' = Current(c) /\ Left(c)' = Left(c) /\ next'[c] = next[c]
        /\ sending[c] => sending'[c]

LEMMA StepOfQueue ==
  ASSUME ChannelsOK, NEW c \in Connections, ChannelStep(c), OneWrite(c),
         phase[c] = "new" => writes[c] = {}
  PROVE  /\ OneWrite(c)'
         /\ Opens(c) \/ Runs(c) \/ Carries(c) \/ Advances(c) \/ Ends(c)
<1> USE DEF ChannelsOK
<1>1. CASE Channel!Respond(c)
  <2> DEFINE v == Channel!Fresh(Handshake, 1)
  <2>1. v.buf = Handshake /\ v.left = 1
    BY DEF Channel!Fresh
  <2> HIDE DEF v
  <2>2. writes'[c] = {v}
    BY <1>1 DEF Channel!Respond, v
  <2>3. OneWrite(c)' /\ Current(c)' = Handshake /\ Left(c)' = 1
    BY <2>1, <2>2, HeadNow
  <2>4. QED
    BY <1>1, <2>3 DEF Channel!Respond, Opens
<1>2. CASE Channel!Run(c)
  BY <1>2, HeadNow DEF Channel!Run, Runs
<1>3. CASE Channel!Close(c)
  <2>1. PICK rest \in SUBSET writes[c] : writes' = [writes EXCEPT ![c] = rest]
    BY <1>3 DEF Channel!Close
  <2>2. writes'[c] = {} \/ writes'[c] = writes[c]
    BY <2>1 DEF OneWrite
  <2>3. phase'[c] \in {"aborted", "closed"} /\ next'[c] = NoBuffer /\ wire'[c] = wire[c]
    BY <1>3 DEF Channel!Close
  <2>4. QED
    BY <2>2, <2>3, HeadNow DEF Ends
<1>4. ASSUME NEW w \in writes[c], Channel!Carry(c, w) PROVE OneWrite(c)' /\ Carries(c)
  <2> DEFINE v == [w EXCEPT !.left = @ - 1]
  <2>1. writes[c] = {w} /\ w \in [buf : Given, left : Nat] /\ w.left > 0
    BY <1>4 DEF Channel!Carry, OneWrite
  <2>2. v.buf = w.buf /\ v.left = w.left - 1
    BY <2>1
  <2> HIDE DEF v
  <2>3. writes'[c] = {v}
    BY <1>4, <2>1 DEF Channel!Carry, v
  <2>4. OneWrite(c)' /\ Current(c)' = v.buf /\ Left(c)' = v.left
    BY <2>3, HeadNow
  <2>5. Current(c) = w.buf /\ Left(c) = w.left
    BY <2>1, HeadNow
  <2>6. QED
    BY <1>4, <2>1, <2>2, <2>4, <2>5 DEF Channel!Carry, Carries
<1>5. ASSUME NEW w \in writes[c], Channel!Complete(c, w) PROVE OneWrite(c)' /\ Advances(c)
  <2>1. writes[c] = {w} /\ w \in [buf : Given, left : Nat] /\ w.left = 0
    BY <1>5 DEF Channel!Complete, OneWrite
  <2>2. Current(c) = w.buf /\ Left(c) = 0 /\ w.buf \in Given
    BY <2>1, HeadNow
  <2>3. CASE next[c] # NoBuffer
    <3>1. writes'[c] = {Channel!Fresh(next[c], Chunks)}
      BY <1>5, <2>1, <2>3 DEF Channel!Complete
    <3>2. OneWrite(c)' /\ Current(c)' = next[c] /\ Left(c)' = Chunks
      BY <3>1, FreshHead
    <3>3. QED
      BY <1>5, <2>2, <2>3, <3>2 DEF Channel!Complete, Advances
  <2>4. CASE next[c] = NoBuffer
    <3>1. writes'[c] = {}
      BY <1>5, <2>1, <2>4 DEF Channel!Complete
    <3>2. OneWrite(c)' /\ Current(c)' = NoBuffer /\ Left(c)' = 0
      BY <3>1, HeadNow
    <3>3. QED
      BY <1>5, <2>2, <2>4, <3>2 DEF Channel!Complete, Advances
  <2>5. QED
    BY <2>3, <2>4
<1>6. QED
  BY <1>1, <1>2, <1>3, <1>4, <1>5 DEF ChannelStep

LEMMA GiveToQueue ==
  ASSUME ChannelsOK, NEW c \in Connections, Channel!Give(c, sent), NoteTurn(c),
         OneWrite(c), TakesTurns(c)'
  PROVE  OneWrite(c)' /\ Gives(c, sent)
<1> USE DEF ChannelsOK
<1> DEFINE v == Channel!Fresh(sent, Chunks)
<1>0. v.buf = sent /\ v.left = Chunks
  BY DEF Channel!Fresh
<1>1. phase'[c] = phase[c] /\ wire'[c] = wire[c]
  BY DEF Channel!Give
<1>2. writes'[c] # writes[c] => writes[c] = {} /\ phase[c] \notin {"aborted", "closed"}
  BY DEF NoteTurn, TakesTurns, Channel!Ended
<1>3. CASE /\ phase[c] \in {"open", "aborted"} /\ ~ sending[c] /\ Channel!StartWrite(c, sent)
           /\ sending' = [sending EXCEPT ![c] = TRUE]
  <2>1. writes'[c] = writes[c] \cup {v} /\ next'[c] = next[c] /\ sending'[c]
    BY <1>3 DEF Channel!StartWrite
  <2> HIDE DEF v
  <2>2. CASE writes'[c] = writes[c]
    <3>1. v \in writes[c]
      BY <2>1, <2>2
    <3>2. writes[c] = {v}
      BY <3>1 DEF OneWrite
    <3>3. Current(c) = sent
      BY <1>0, <3>2, HeadNow
    <3>4. QED
      BY <1>1, <2>1, <2>2, <3>3, HeadNow DEF Gives
  <2>3. CASE writes'[c] # writes[c]
    <3>1. writes[c] = {} /\ phase[c] = "open" /\ writes'[c] = {v}
      BY <1>2, <1>3, <2>1, <2>3
    <3>2. /\ OneWrite(c)' /\ Current(c)' = sent /\ Left(c)' = Chunks
          /\ Current(c) = NoBuffer
      BY <1>0, <3>1, HeadNow
    <3>3. QED
      BY <1>1, <1>3, <2>1, <3>1, <3>2 DEF Gives
  <2>4. QED
    BY <2>2, <2>3
<1>4. CASE ~ Channel!Ended(c) /\ (phase[c] # "open" \/ sending[c]) /\ Channel!Keep(c, sent)
  BY <1>1, <1>4, HeadNow DEF Channel!Keep, Gives
<1>5. CASE Channel!Ended(c) /\ UNCHANGED <<sending, writes, next>>
  BY <1>1, <1>5, HeadNow DEF Channel!Ended, Gives
<1>6. QED
  BY <1>3, <1>4, <1>5 DEF Channel!Give
-----------------------------------------------------------------------------
(* The publisher's side keeps the streams.                                 *)

LEMMA HeadTypes ==
  ASSUME ChannelsOK, NEW c \in Connections, OneWrite(c)
  PROVE  Current(c) \in Given \cup {NoBuffer} /\ Left(c) \in Nat
<1>1. CASE writes[c] = {}
  BY <1>1, HeadNow
<1>2. ASSUME NEW w \in writes[c], writes[c] = {w}
      PROVE  Current(c) \in Given \cup {NoBuffer} /\ Left(c) \in Nat
  <2>1. w \in [buf : Given, left : Nat]
    BY DEF ChannelsOK
  <2>2. Current(c) = w.buf /\ Left(c) = w.left
    BY <1>2, HeadNow
  <2>3. QED
    BY <2>1, <2>2
<1>3. QED
  BY <1>1, <1>2 DEF OneWrite

LEMMA StreamKept ==
  ASSUME NEW c, Stream(c), phase'[c] = phase[c], sending'[c] = sending[c],
         Current(c)' = Current(c), Left(c)' = Left(c), next'[c] = next[c], wire'[c] = wire[c]
  PROVE  Stream(c)'
<1>1. PICK p \in 0 .. Len(wire[c]) : FramesOn(c, p) /\ QueueBehind(c, p)
  BY DEF Stream
<1>2. FramesOn(c, p)'
  BY <1>1 DEF FramesOn
<1>3. QueueBehind(c, p)'
  BY <1>1 DEF QueueBehind
<1>4. QED
  BY <1>2, <1>3 DEF Stream

(* The handshake response is the first frame.                              *)
LEMMA OpenStream ==
  ASSUME ChannelsOK, NEW c \in Connections, Stream(c), Opens(c)
  PROVE  Stream(c)'
<1>1. PICK p \in 0 .. Len(wire[c]) : FramesOn(c, p) /\ QueueBehind(c, p)
  BY DEF Stream
<1>2. /\ phase[c] = "new" /\ phase'[c] = "responding" /\ Current(c)' = Handshake
      /\ Left(c)' = 1 /\ next'[c] = next[c] /\ wire'[c] = wire[c]
  BY DEF Opens
<1>3. Len(wire[c]) = 0
  BY <1>1, <1>2 DEF QueueBehind
<1>4. p = 0 /\ FramesOn(c, 0)'
  BY <1>1, <1>2, <1>3 DEF FramesOn
<1>5. QueueBehind(c, 0)'
  BY <1>2, <1>3, Distinct DEF QueueBehind, PiecesAt
<1>6. QED
  BY <1>3, <1>2, <1>4, <1>5 DEF Stream

(* The state says that the response is sent.                               *)
LEMMA RunStream ==
  ASSUME ChannelsOK, NEW c \in Connections, Stream(c), Runs(c)
  PROVE  Stream(c)'
<1>1. PICK p \in 0 .. Len(wire[c]) : FramesOn(c, p) /\ QueueBehind(c, p)
  BY DEF Stream
<1>2. /\ phase[c] = "responding" /\ phase'[c] = "open" /\ Current(c)' = Current(c)
      /\ Left(c)' = Left(c) /\ next'[c] = next[c] /\ wire'[c] = wire[c]
  BY DEF Runs
<1>3. FramesOn(c, p)'
  BY <1>1, <1>2 DEF FramesOn
<1>4. QueueBehind(c, p)'
  BY <1>1, <1>2 DEF QueueBehind
<1>5. QED
  BY <1>2, <1>3, <1>4 DEF Stream

(* A newer element becomes the current one, or the next one.               *)
LEMMA GiveStream ==
  ASSUME ChannelsOK, NEW c \in Connections, NEW b \in Message, Stream(c),
         OlderThan(c, b), Gives(c, b)
  PROVE  Stream(c)'
<1>1. PICK p \in 0 .. Len(wire[c]) : FramesOn(c, p) /\ QueueBehind(c, p)
  BY DEF Stream
<1>2. phase'[c] = phase[c] /\ wire'[c] = wire[c]
  BY DEF Gives
<1>3. FramesOn(c, p)'
  BY <1>1, <1>2 DEF FramesOn
<1>b. b # NoBuffer /\ b # Handshake
  BY Distinct
<1>4. CASE /\ phase[c] = "open" /\ Current(c) = NoBuffer /\ ~ sending[c]
           /\ Current(c)' = b /\ Left(c)' = Chunks /\ next'[c] = next[c] /\ sending'[c]
  <2>1. p # 0 /\ Len(wire[c]) = p /\ next[c] = NoBuffer
    BY <1>1, <1>4 DEF QueueBehind
  <2>2. p \in Nat /\ Left(c)' = p + PiecesAt(p) - Len(wire'[c])
    BY <1>2, <1>4, <2>1, Distinct DEF PiecesAt
  <2>3. \A i \in 2 .. p : wire'[c][i] < b
    BY <1>2, <2>1 DEF OlderThan
  <2>4. \A i \in p + 1 .. Len(wire'[c]) : wire'[c][i] = b
    BY <1>2, <2>1, <2>2
  <2>5. QueueBehind(c, p)'
    BY <1>2, <1>4, <1>b, <2>1, <2>2, <2>3, <2>4, Distinct DEF QueueBehind
  <2>6. QED
    BY <1>2, <1>3, <2>5 DEF Stream
<1>5. CASE /\ phase[c] # "open" \/ sending[c]
           /\ Current(c)' = Current(c) /\ Left(c)' = Left(c) /\ next'[c] = b
           /\ sending'[c] = sending[c]
  <2>1. QueueBehind(c, p)'
    BY <1>1, <1>2, <1>5, <1>b DEF QueueBehind, OlderThan
  <2>2. QED
    BY <1>2, <1>3, <2>1 DEF Stream
<1>6. CASE /\ phase[c] \in {"aborted", "closed"} \/ Current(c) = b
           /\ Current(c)' = Current(c) /\ Left(c)' = Left(c) /\ next'[c] = next[c]
           /\ sending[c] => sending'[c]
  <2>1. QueueBehind(c, p)'
    BY <1>1, <1>2, <1>6, <1>b DEF QueueBehind
  <2>2. QED
    BY <1>2, <1>3, <2>1 DEF Stream
<1>7. QED
  BY <1>4, <1>5, <1>6 DEF Gives

(* A piece of the current element goes to the end of the wire.             *)
LEMMA CarryStream ==
  ASSUME ChannelsOK, NEW c \in Connections, OneWrite(c), Stream(c), Carries(c)
  PROVE  Stream(c)'
<1>1. PICK p \in 0 .. Len(wire[c]) : FramesOn(c, p) /\ QueueBehind(c, p)
  BY DEF Stream
<1> DEFINE w == wire[c]
           n == Len(wire[c])
           b == Current(c)
<1>2. /\ phase'[c] = phase[c] /\ sending'[c] = sending[c]
      /\ Current(c)' = b /\ next'[c] = next[c]
      /\ wire'[c] = Append(w, b) /\ Left(c)' = Left(c) - 1 /\ Left(c) > 0
  BY DEF Carries
<1>3. w \in Seq(Given) /\ n \in Nat /\ p \in 0 .. n /\ FrameStart(p)
  BY <1>1 DEF ChannelsOK, FramesOn
<1>4. b \in Given /\ b # NoBuffer /\ Left(c) \in Nat
  BY HeadTypes, GivenIsKnown DEF Carries
<1>5. /\ Left(c) = p + PiecesAt(p) - n /\ (p = 0 <=> b = Handshake)
      /\ \A i \in p + 1 .. n : w[i] = b
  BY <1>1, <1>4 DEF QueueBehind
<1>6. PiecesAt(p) \in Nat /\ n + 1 <= p + PiecesAt(p)
  <2>1. p \in Nat
    BY <1>3
  <2>2. PiecesAt(p) \in Nat
    BY <2>1, FirstFrame
  <2>3. Left(c) > 0
    BY <1>2
  <2>4. Left(c) = p + PiecesAt(p) - n
    BY <1>5
  <2>5. QED
    BY <1>3, <2>1, <2>2, <2>3, <2>4
<1>7. /\ Len(wire'[c]) = n + 1 /\ wire'[c][n + 1] = b
      /\ \A i \in 1 .. n : wire'[c][i] = w[i]
  BY <1>2, <1>3, <1>4
<1>8. \A i \in p + 1 .. n + 1 : wire'[c][i] = b
  BY <1>3, <1>5, <1>7
<1>9. \A i \in 2 .. p : w[i] < b
  <2>1. CASE b = Handshake
    BY <1>5, <2>1
  <2>2. CASE b # Handshake
    BY <1>1, <1>4, <2>2, GivenIsKnown DEF QueueBehind
  <2>3. QED
    BY <2>1, <2>2
(* The frame of the new piece is the one that begins behind p.             *)
<1>10. ASSUME NEW e \in 0 .. n + 1, FrameStart(e)
       PROVE  /\ e < n + 1 => e <= p
              /\ n + 1 <= e + PiecesAt(e) /\ e < n + 1 => e = p
  <2>1. e > p => e >= n + 1
    <3>1. HAVE e > p
    <3>2. p + PiecesAt(p) <= e
      BY <1>3, <1>10, <3>1, FramesApart
    <3>3. QED
      BY <1>3, <1>6, <3>2
  <2>2. e < p => e + PiecesAt(e) <= p
    BY <1>3, <1>10, FramesApart
  <2>3. PiecesAt(e) \in Nat
    BY FirstFrame
  <2>4. QED
    BY <1>3, <2>1, <2>2, <2>3
<1>11. FramesOn(c, p)'
  <2>1. p \in 0 .. n + 1 /\ n + 1 <= p + PiecesAt(p)
    BY <1>3, <1>6
  <2>2. ASSUME NEW i \in 1 .. n + 1
        PROVE  IF i = 1 THEN wire'[c][i] = Handshake ELSE wire'[c][i] \in Message
    <3>1. CASE i <= n
      <4>1. i \in 1 .. n /\ wire'[c][i] = w[i]
        BY <1>3, <1>7, <3>1
      <4>2. IF i = 1 THEN w[i] = Handshake ELSE w[i] \in Message
        BY <1>1, <4>1 DEF FramesOn
      <4>3. QED
        BY <4>1, <4>2
    <3>2. CASE i = n + 1 /\ n = 0
      BY <1>3, <1>5, <1>7, <3>2
    <3>3. CASE i = n + 1 /\ n # 0
      <4>1. p # 0
        BY <1>3, <1>6, <3>3 DEF PiecesAt
      <4>2. b \in Message
        BY <1>4, <1>5, <4>1, GivenIsKnown
      <4>3. i # 1
        BY <1>3, <3>3
      <4>4. QED
        BY <1>7, <3>3, <4>2, <4>3
    <3>4. QED
      BY <1>3, <3>1, <3>2, <3>3
  <2>3. ASSUME NEW e \in 0 .. n + 1, NEW i \in 1 .. n + 1,
               FrameStart(e), e < i, i <= e + PiecesAt(e)
        PROVE  wire'[c][i] = wire'[c][e + 1]
    <3>1. CASE i <= n
      <4>1. e \in 0 .. n /\ i \in 1 .. n /\ e + 1 \in 1 .. n
        BY <1>3, <2>3, <3>1
      <4>2. w[i] = w[e + 1]
        BY <1>1, <2>3, <4>1 DEF FramesOn
      <4>3. QED
        BY <1>7, <4>1, <4>2
    <3>2. CASE i = n + 1
      <4>1. e = p
        BY <1>10, <2>3, <3>2
      <4>2. QED
        BY <1>3, <1>8, <3>2, <4>1
    <3>3. QED
      BY <1>3, <3>1, <3>2
  <2>4. ASSUME NEW e \in 0 .. n + 1, NEW i \in 2 .. n + 1, NEW j \in 2 .. n + 1,
               FrameStart(e), i <= e, e < j
        PROVE  wire'[c][i] < wire'[c][j]
    <3>1. CASE j <= n
      <4>1. e \in 0 .. n /\ i \in 2 .. n /\ j \in 2 .. n
        BY <1>3, <2>4, <3>1
      <4>2. w[i] < w[j]
        BY <1>1, <2>4, <4>1 DEF FramesOn
      <4>3. QED
        BY <1>3, <1>7, <4>1, <4>2
    <3>2. CASE j = n + 1
      <4>1. e <= p
        BY <1>10, <2>4, <3>2
      <4>2. i \in 2 .. p /\ i \in 1 .. n
        BY <1>3, <2>4, <4>1
      <4>3. QED
        BY <1>7, <1>9, <3>2, <4>2
    <3>3. QED
      BY <1>3, <3>1, <3>2
  <2>5. QED
    BY <1>3, <1>7, <2>1, <2>2, <2>3, <2>4 DEF FramesOn
<1>12. QueueBehind(c, p)'
  <2>1. phase[c] # "new"
    BY <1>1, <1>4 DEF QueueBehind
  <2>2. Left(c)' = p + PiecesAt(p) - Len(wire'[c])
    BY <1>2, <1>3, <1>5, <1>6, <1>7
  <2>3. \A i \in 2 .. p : wire'[c][i] < b
    BY <1>3, <1>7, <1>9
  <2>4. ASSUME next[c] \in Message
        PROVE  (\A i \in 2 .. n + 1 : wire'[c][i] < next[c]) /\ (b \in Message => b < next[c])
    <3>1. (\A i \in 2 .. n : w[i] < next[c]) /\ (b \in Message => b < next[c])
      BY <1>1, <2>4 DEF QueueBehind
    <3>2. b \notin Message => n + 1 = 1
      BY <1>3, <1>4, <1>5, <1>6, GivenIsKnown DEF PiecesAt
    <3>3. QED
      BY <1>3, <1>7, <3>1, <3>2
  <2>5. QED
    BY <1>2, <1>4, <1>5, <1>7, <1>8, <2>1, <2>2, <2>3, <2>4 DEF QueueBehind
<1>13. QED
  BY <1>3, <1>7, <1>11, <1>12 DEF Stream
(* The frame is complete: the next one begins where it ends.               *)
LEMMA AdvanceStream ==
  ASSUME ChannelsOK, NEW c \in Connections, Stream(c), Advances(c)
  PROVE  Stream(c)'
<1>1. PICK p \in 0 .. Len(wire[c]) : FramesOn(c, p) /\ QueueBehind(c, p)
  BY DEF Stream
<1> DEFINE n == Len(wire[c])
<1>2. /\ Current(c) # NoBuffer /\ Left(c) = 0
      /\ phase[c] = "open" /\ phase'[c] = phase[c] /\ wire'[c] = wire[c]
      /\ next'[c] = NoBuffer /\ Current(c)' = next[c]
      /\ Left(c)' = IF next[c] # NoBuffer THEN Chunks ELSE 0
      /\ next[c] = NoBuffer => ~ sending'[c]
  BY GivenIsKnown DEF Advances
<1>3. n \in Nat /\ p \in Nat
  BY DEF ChannelsOK
<1>4. n = p + PiecesAt(p) /\ n # 0
  <2>1. 0 = p + PiecesAt(p) - n
    BY <1>1, <1>2 DEF QueueBehind
  <2>2. PiecesAt(p) \in Nat \ {0}
    BY <1>3, FirstFrame
  <2>3. QED
    BY <1>3, <2>1, <2>2
<1>5. FrameStart(n)
  BY <1>1, <1>3, <1>4, NextFrame DEF FramesOn
<1>6. PiecesAt(n) = Chunks
  BY <1>4 DEF PiecesAt
<1>7. FramesOn(c, n)'
  <2>1. n \in 0 .. n /\ n <= n + PiecesAt(n)
    BY <1>3, <1>6, Distinct
  <2>2. FramesOn(c, n)
    BY <1>1, <1>5, <2>1 DEF FramesOn
  <2>3. QED
    BY <1>2, <2>2 DEF FramesOn
<1>8. QueueBehind(c, n)'
  <2>1. phase[c] # "new"
    BY <1>1, <1>2 DEF QueueBehind
  <2>2. CASE next[c] = NoBuffer
    BY <1>2, <1>4, <2>1, <2>2, Distinct DEF QueueBehind
  <2>3. CASE next[c] # NoBuffer
    <3>1. next[c] \in Message /\ next[c] # Handshake
      BY <2>3, Distinct, GivenIsKnown DEF ChannelsOK
    <3>2. \A i \in 2 .. n : wire[c][i] < next[c]
      BY <1>1, <3>1 DEF QueueBehind
    <3>3. \A i \in n + 1 .. n : wire'[c][i] = next[c]
      BY <1>3
    <3>4. Left(c)' = n + PiecesAt(n) - Len(wire'[c])
      BY <1>2, <1>3, <1>6, <2>3, Distinct
    <3>5. QED
      BY <1>2, <1>4, <2>1, <2>3, <3>1, <3>2, <3>3, <3>4, Distinct DEF QueueBehind
  <2>4. QED
    BY <2>2, <2>3
<1>9. QED
  BY <1>2, <1>3, <1>7, <1>8 DEF Stream

(* A connection that ends may end within a frame.                          *)
LEMMA CloseStream ==
  ASSUME ChannelsOK, NEW c \in Connections, Stream(c), Ends(c)
  PROVE  Stream(c)'
<1>1. PICK p \in 0 .. Len(wire[c]) : FramesOn(c, p) /\ QueueBehind(c, p)
  BY DEF Stream
<1>2. phase'[c] \in {"aborted", "closed"} /\ next'[c] = NoBuffer /\ wire'[c] = wire[c]
  BY DEF Ends
<1>3. \/ Current(c)' = Current(c) /\ Left(c)' = Left(c)
      \/ Current(c)' = NoBuffer /\ Left(c)' = 0
  BY DEF Ends
<1>4. FramesOn(c, p)'
  BY <1>1, <1>2 DEF FramesOn
<1>5. CASE Current(c)' = Current(c) /\ Left(c)' = Left(c)
  <2>1. QueueBehind(c, p)'
    BY <1>1, <1>2, <1>5, Distinct DEF QueueBehind
  <2>2. QED
    BY <1>2, <1>4, <2>1 DEF Stream
<1>6. CASE Current(c)' = NoBuffer /\ Left(c)' = 0
  <2>1. QueueBehind(c, p)'
    BY <1>1, <1>2, <1>6, Distinct DEF QueueBehind
  <2>2. QED
    BY <1>2, <1>4, <2>1 DEF Stream
<1>7. QED
  BY <1>3, <1>5, <1>6

(* A newer element than all of them stays newer.                           *)
LEMMA StaysOlder ==
  ASSUME ChannelsOK, NEW c \in Connections, NEW b \in Nat, OneWrite(c), Stream(c)',
         OlderThan(c, b), Opens(c) \/ Runs(c) \/ Carries(c) \/ Advances(c) \/ Ends(c)
  PROVE  /\ \A i \in 2 .. Len(wire'[c]) : wire'[c][i] < b
         /\ Current(c)' \in Message => Current(c)' < b
         /\ next'[c] \in Message => next'[c] < b
<1>1. /\ \A i \in 2 .. Len(wire[c]) : wire[c][i] < b
      /\ Current(c) \in Message => Current(c) < b
      /\ next[c] \in Message => next[c] < b
  BY DEF OlderThan
<1>2. CASE Opens(c) \/ Runs(c)
  BY <1>1, <1>2, Distinct DEF Opens, Runs
<1>3. CASE Carries(c)
  <2>1. /\ wire'[c] = Append(wire[c], Current(c)) /\ Current(c) \in Given
        /\ Current(c)' = Current(c) /\ next'[c] = next[c]
    BY <1>3 DEF Carries
  <2>2. /\ Len(wire[c]) \in Nat /\ Len(wire'[c]) = Len(wire[c]) + 1
        /\ wire'[c][Len(wire[c]) + 1] = Current(c)
        /\ \A i \in 1 .. Len(wire[c]) : wire'[c][i] = wire[c][i]
    BY <2>1 DEF ChannelsOK
  <2>3. ASSUME NEW i \in 2 .. Len(wire'[c]) PROVE wire'[c][i] < b
    <3>1. wire'[c][i] \in Message
      BY DEF Stream, FramesOn
    <3>2. CASE i = Len(wire[c]) + 1
      BY <1>1, <2>2, <3>1, <3>2
    <3>3. CASE i # Len(wire[c]) + 1
      <4>1. i \in 2 .. Len(wire[c])
        BY <2>2, <3>3
      <4>2. QED
        BY <1>1, <2>2, <4>1
    <3>4. QED
      BY <3>2, <3>3
  <2>4. QED
    BY <1>1, <2>1, <2>3
<1>4. CASE Advances(c)
  BY <1>1, <1>4, Distinct DEF Advances
<1>5. CASE Ends(c)
  BY <1>1, <1>5, Distinct DEF Ends
<1>6. QED
  BY <1>2, <1>3, <1>4, <1>5

(* Nothing is sent where the queue has no head.                            *)
LEMMA NoWrite ==
  ASSUME ChannelsOK, NEW c \in Connections, OneWrite(c)
  PROVE  /\ Current(c) = NoBuffer => writes[c] = {}
         /\ Current(c) = Handshake => \E w \in writes[c] : w.buf = Handshake
<1>1. CASE writes[c] = {}
  BY <1>1, HeadNow, Distinct
<1>2. ASSUME NEW w \in writes[c], writes[c] = {w}
      PROVE  /\ Current(c) = NoBuffer => writes[c] = {}
             /\ Current(c) = Handshake => \E x \in writes[c] : x.buf = Handshake
  <2>1. w \in [buf : Given, left : Nat]
    BY DEF ChannelsOK
  <2>2. Current(c) = w.buf /\ w.buf \in Given
    BY <1>2, <2>1, HeadNow
  <2>3. QED
    BY <2>2, GivenIsKnown
<1>3. QED
  BY <1>1, <1>2 DEF OneWrite

(* A connection that takes turns takes a step of a queue.                  *)
LEMMA TurnTaken ==
  ASSUME ChannelsOK, Streams, NEW c \in Connections, ChannelStep(c), TakesTurns(c)
  PROVE  /\ OneWrite(c) /\ Stream(c) /\ OneWrite(c)'
         /\ Opens(c) \/ Runs(c) \/ Carries(c) \/ Advances(c) \/ Ends(c)
<1>1. OneWrite(c) /\ Stream(c)
  BY DEF Streams, InTurn
<1>2. phase[c] = "new" => writes[c] = {}
  BY <1>1, NoWrite DEF Stream, QueueBehind
<1>3. QED
  BY <1>1, <1>2, StepOfQueue

(* Nothing of a connection changes but what is to be sent over it.         *)
LEMMA TurnsKept ==
  ASSUME NEW c, InTurn(c), phase'[c] = phase[c], sending'[c] = sending[c],
         writes'[c] = writes[c], next'[c] = next[c], wire'[c] = wire[c],
         sent' = sent, c \in todo' => c \in todo, TakesTurns(c)' => TakesTurns(c)
  PROVE  InTurn(c)'
<1> SUFFICES ASSUME TakesTurns(c)'
             PROVE  OneWrite(c)' /\ Stream(c)' /\ (c \in todo' => OlderThan(c, sent)')
  BY DEF InTurn
<1>1. OneWrite(c) /\ Stream(c) /\ (c \in todo => OlderThan(c, sent))
  BY DEF InTurn
<1>2. OneWrite(c)' /\ Current(c)' = Current(c) /\ Left(c)' = Left(c)
  BY <1>1, HeadNow
<1>3. Stream(c)'
  BY <1>1, <1>2, StreamKept
<1>4. c \in todo' => OlderThan(c, sent)'
  BY <1>1, <1>2 DEF OlderThan
<1>5. QED
  BY <1>2, <1>3, <1>4

LEMMA PublisherStream ==
  ASSUME ChannelsOK, Streams, NEW c \in Connections, PublisherStep(c)
  PROVE  InTurn(c)'
<1>1. /\ UNCHANGED <<vars, readerVars, delivered, sent>>
      /\ todo' \subseteq todo /\ outOfTurn \subseteq outOfTurn'
  BY PublisherIsChannel
<1>2. InTurn(c) /\ (TakesTurns(c)' => TakesTurns(c))
  BY <1>1 DEF Streams, TakesTurns
<1>3. CASE UNCHANGED queueVars
  BY <1>1, <1>2, <1>3, TurnsKept DEF queueVars
<1>4. ASSUME ~ UNCHANGED queueVars, TakesTurns(c)'
      PROVE  OneWrite(c)' /\ Stream(c)' /\ (c \in todo' => OlderThan(c, sent)')
  <2>1. OneWrite(c) /\ Stream(c) /\ (c \in todo => OlderThan(c, sent))
    BY <1>2, <1>4 DEF InTurn
  <2>2. CASE ChannelStep(c)
    <3>1. /\ OneWrite(c)'
          /\ Opens(c) \/ Runs(c) \/ Carries(c) \/ Advances(c) \/ Ends(c)
      BY <1>2, <1>4, <2>2, TurnTaken
    <3>2. Stream(c)'
      BY <2>1, <3>1, OpenStream, RunStream, CarryStream, AdvanceStream, CloseStream
    <3>3. ASSUME c \in todo PROVE OlderThan(c, sent)'
      <4>1. sent \in Nat /\ OlderThan(c, sent)
        BY <2>1, <3>3, GivenIsKnown
      <4>2. /\ \A i \in 2 .. Len(wire'[c]) : wire'[c][i] < sent
            /\ Current(c)' \in Message => Current(c)' < sent
            /\ next'[c] \in Message => next'[c] < sent
        <5> DEFINE b == sent
        <5>1. b \in Nat /\ OlderThan(c, b)
          BY <4>1
        <5> HIDE DEF b
        <5>2. /\ \A i \in 2 .. Len(wire'[c]) : wire'[c][i] < b
              /\ Current(c)' \in Message => Current(c)' < b
              /\ next'[c] \in Message => next'[c] < b
          BY <2>1, <3>1, <3>2, <5>1, StaysOlder
        <5>3. QED
          BY <5>2 DEF b
      <4>3. QED
        BY <1>1, <4>2 DEF OlderThan
    <3>4. QED
      BY <1>1, <3>1, <3>2, <3>3
  <2>3. CASE c \in todo /\ c \notin todo' /\ sent \in 1 .. sent /\ Channel!Give(c, sent) /\ NoteTurn(c)
    <3>1. OneWrite(c)' /\ Gives(c, sent)
      BY <1>4, <2>1, <2>3, GiveToQueue
    <3>2. sent \in Message /\ OlderThan(c, sent)
      BY <2>1, <2>3, GivenIsKnown
    <3>3. Stream(c)'
      BY <2>1, <3>1, <3>2, GiveStream
    <3>4. QED
      BY <2>3, <3>1, <3>3
  <2>4. QED
    BY <1>4, <2>2, <2>3, PublisherIsChannel
<1>5. QED
  BY <1>3, <1>4 DEF InTurn

LEMMA PublisherStreams ==
  ASSUME ChannelsOK, Streams, NEW c \in Connections, PublisherStep(c)
  PROVE  Streams'
<1>1. /\ todo' \subseteq todo /\ sent' = sent /\ outOfTurn \subseteq outOfTurn'
      /\ UNCHANGED queueVars \/ ChannelStep(c) \/ Channel!Give(c, sent)
  BY PublisherIsChannel
<1>2. ASSUME NEW d \in Connections, d # c PROVE InTurn(d)'
  <2>1. /\ phase'[d] = phase[d] /\ sending'[d] = sending[d] /\ writes'[d] = writes[d]
        /\ next'[d] = next[d] /\ wire'[d] = wire[d]
    BY <1>1, <1>2, OthersKept DEF queueVars
  <2>2. InTurn(d) /\ (TakesTurns(d)' => TakesTurns(d))
    BY <1>1 DEF Streams, TakesTurns
  <2>3. QED
    BY <1>1, <2>1, <2>2, TurnsKept
<1>3. QED
  BY <1>2, PublisherStream DEF Streams

(* A message only goes past the flag while the response is not through.    *)
LEMMA EarlyWhenOutOfTurn ==
  ASSUME ChannelsOK, Streams, Flags, NEW c \in Connections, Channel!Give(c, sent),
         NoteTurn(c), c \in outOfTurn', c \notin outOfTurn
  PROVE  c \in early'
<1> SUFFICES ASSUME c \notin early PROVE Responding(c)
  BY DEF NoteTurn
<1>1. OneWrite(c) /\ FlagRight(c)
  BY DEF Flags, Streams, InTurn, TakesTurns
<1>2. writes'[c] # writes[c] /\ (writes[c] # {} \/ Channel!Ended(c))
  BY DEF NoteTurn
<1>3. phase[c] \in {"open", "aborted"} /\ ~ sending[c]
  BY <1>2 DEF Channel!Give, Channel!Keep
<1>4. CASE phase[c] = "aborted"
  BY <1>4 DEF Responding
<1>5. CASE phase[c] = "open"
  <2>1. Current(c) # NoBuffer
    BY <1>1, <1>2, <1>5, NoWrite DEF Channel!Ended
  <2>2. Current(c) = Handshake
    BY <1>1, <1>3, <1>5, <2>1 DEF FlagRight
  <2>3. QED
    BY <1>1, <2>2, NoWrite DEF Responding
<1>6. QED
  BY <1>3, <1>4, <1>5

LEMMA PublisherFlag ==
  ASSUME ChannelsOK, Streams, Flags, NEW c \in Connections, PublisherStep(c),
         c \notin early', c \notin outOfTurn'
  PROVE  FlagRight(c)'
<1>1. /\ outOfTurn \subseteq outOfTurn' /\ early \subseteq early'
      /\ \/ UNCHANGED <<queueVars, turnVars>>
         \/ ChannelStep(c)
         \/ sent \in 1 .. sent /\ Channel!Give(c, sent) /\ NoteTurn(c)
  BY PublisherIsChannel
<1>2. FlagRight(c) /\ OneWrite(c) /\ TakesTurns(c)
  BY <1>1 DEF Flags, Streams, InTurn, TakesTurns
<1>3. CASE UNCHANGED queueVars
  <2>1. phase' = phase /\ sending' = sending /\ next' = next /\ Current(c)' = Current(c)
    BY <1>3, HeadNow DEF queueVars
  <2>2. QED
    BY <1>2, <2>1 DEF FlagRight
<1>4. CASE ChannelStep(c)
  <2>1. Opens(c) \/ Runs(c) \/ Carries(c) \/ Advances(c) \/ Ends(c)
    BY <1>2, <1>4, TurnTaken
  <2>2. next[c] \in 1 .. sent \cup {NoBuffer} /\ 1 .. sent \subseteq Message
    BY GivenIsKnown DEF ChannelsOK
  <2>3. CASE Opens(c)
    BY <1>2, <2>3 DEF Opens, FlagRight
  <2>4. CASE Runs(c)
    BY <1>2, <2>4 DEF Runs, FlagRight
  <2>5. CASE Carries(c)
    BY <1>2, <2>5 DEF Carries, FlagRight
  <2>6. CASE Advances(c)
    BY <1>2, <2>2, <2>6, GivenIsKnown DEF Advances, FlagRight
  <2>7. CASE Ends(c)
    BY <1>2, <2>7 DEF Ends, FlagRight
  <2>8. QED
    BY <2>1, <2>3, <2>4, <2>5, <2>6, <2>7
<1>5. CASE sent \in 1 .. sent /\ Channel!Give(c, sent) /\ NoteTurn(c)
  <2>1. Gives(c, sent) /\ sent \in Message
    BY <1>2, <1>5, GiveToQueue, GivenIsKnown DEF TakesTurns
  <2>2. phase[c] \in {"open", "closed"}
    BY <1>5 DEF NoteTurn, Responding, ChannelsOK
  <2>3. QED
    BY <1>2, <2>1, <2>2, Distinct DEF Gives, FlagRight
<1>6. QED
  BY <1>1, <1>3, <1>4, <1>5

LEMMA PublisherFlags ==
  ASSUME ChannelsOK, Streams, Flags, NEW c \in Connections, PublisherStep(c)
  PROVE  Flags'
<1>1. /\ outOfTurn \subseteq outOfTurn' /\ early \subseteq early' /\ sent' = sent
      /\ \/ UNCHANGED <<queueVars, turnVars>>
         \/ ChannelStep(c) /\ UNCHANGED turnVars
         \/ Channel!Give(c, sent) /\ NoteTurn(c)
  BY PublisherIsChannel
<1>2. outOfTurn' \subseteq outOfTurn \cup {c}
  BY <1>1 DEF turnVars, NoteTurn
<1>3. outOfTurn' \subseteq early'
  <2>1. outOfTurn \subseteq early'
    BY <1>1 DEF Flags
  <2>2. c \in outOfTurn' /\ c \notin outOfTurn => c \in early'
    BY <1>1, EarlyWhenOutOfTurn DEF turnVars
  <2>3. QED
    BY <1>2, <2>1, <2>2
<1>4. ASSUME NEW d \in Connections, d \notin early' PROVE FlagRight(d)'
  <2>1. CASE d = c
    BY <1>3, <1>4, <2>1, PublisherFlag
  <2>2. CASE d # c
    <3>1. FlagRight(d)
      BY <1>1, <1>4 DEF Flags
    <3>2. /\ phase'[d] = phase[d] /\ sending'[d] = sending[d] /\ writes'[d] = writes[d]
          /\ next'[d] = next[d]
      BY <1>1, <2>2, OthersKept DEF queueVars
    <3>3. Current(d)' = Current(d)
      BY <3>2, HeadNow
    <3>4. QED
      BY <3>1, <3>2, <3>3 DEF FlagRight
  <2>3. QED
    BY <2>1, <2>2
<1>5. QED
  BY <1>3, <1>4 DEF Flags

LEMMA FlagsKept ==
  ASSUME Flags, UNCHANGED <<queueVars, turnVars>> PROVE Flags'
<1>1. \A c \in Connections : FlagRight(c)' <=> FlagRight(c)
  BY HeadNow DEF FlagRight, queueVars
<1>2. QED
  BY <1>1 DEF Flags, turnVars

(* A new message is newer than all that was given before.                  *)
LEMMA NewerThanGiven ==
  ASSUME ChannelsOK, NEW c \in Connections, OneWrite(c), Stream(c)
  PROVE  OlderThan(c, sent + 1)
<1>1. ASSUME NEW i \in 2 .. Len(wire[c]) PROVE wire[c][i] < sent + 1
  <2>1. wire[c][i] \in Message
    BY DEF Stream, FramesOn
  <2>2. wire[c][i] \in Given
    BY DEF ChannelsOK
  <2>3. wire[c][i] # Handshake /\ wire[c][i] \in Nat
    BY <2>1, Distinct
  <2>4. wire[c][i] <= sent /\ sent \in Nat
    BY <2>2, <2>3, GivenIsKnown
  <2>5. QED
    BY <2>3, <2>4
<1>2. ASSUME Current(c) \in Message PROVE Current(c) < sent + 1
  <2>1. Current(c) \in Given /\ Current(c) # Handshake /\ Current(c) \in Nat
    BY <1>2, HeadTypes, Distinct
  <2>2. Current(c) <= sent /\ sent \in Nat
    BY <2>1, GivenIsKnown
  <2>3. QED
    BY <2>1, <2>2
<1>3. next[c] \in Message => next[c] < sent + 1
  BY GivenIsKnown, Distinct DEF ChannelsOK
<1>4. QED
  BY <1>1, <1>2, <1>3 DEF OlderThan

LEMMA SendStreams ==
  ASSUME ChannelsOK, Streams, Send PROVE ChannelsOK' /\ Streams'
<1>1. /\ UNCHANGED <<queueVars, turnVars, publisher_sessions_, peer, requested>>
      /\ sent' = sent + 1 /\ sent < MaxMessages /\ todo' \subseteq publisher_sessions_
  BY DEF Send, PublisherFrame, readerVars
<1>2. sent \in Nat /\ MaxMessages \in Nat
  BY ConnectionAssumption DEF ChannelsOK
<1>3. ChannelsOK'
  <2>1. 1 .. sent \subseteq 1 .. sent' /\ Given \subseteq Given'
    BY <1>1, <1>2 DEF Given
  <2>2. [buf : Given, left : Nat] \subseteq [buf : Given', left : Nat]
    BY <2>1
  <2>3. writes' \in [Connections -> SUBSET [buf : Given', left : Nat]]
    BY <1>1, <2>2 DEF ChannelsOK, queueVars
  <2>4. wire' \in [Connections -> Seq(Given')]
    BY <1>1, <2>1 DEF ChannelsOK, queueVars
  <2>5. next' \in [Connections -> 1 .. sent' \cup {NoBuffer}]
    BY <1>1, <2>1 DEF ChannelsOK, queueVars
  <2>6. QED
    BY <1>1, <1>2, <2>3, <2>4, <2>5 DEF ChannelsOK, queueVars
<1>4. ASSUME NEW c \in Connections, TakesTurns(c)'
      PROVE  OneWrite(c)' /\ Stream(c)' /\ OlderThan(c, sent)'
  <2>1. OneWrite(c) /\ Stream(c)
    BY <1>1, <1>4 DEF Streams, InTurn, TakesTurns, turnVars
  <2>2. OneWrite(c)' /\ Current(c)' = Current(c) /\ Left(c)' = Left(c)
    BY <1>1, <2>1, HeadNow DEF queueVars
  <2>3. Stream(c)'
    BY <1>1, <2>1, <2>2, StreamKept DEF queueVars
  <2>4. OlderThan(c, sent + 1)
    BY <2>1, NewerThanGiven
  <2>5. OlderThan(c, sent)'
    BY <1>1, <2>2, <2>4 DEF OlderThan, queueVars
  <2>6. QED
    BY <2>2, <2>3, <2>5
<1>5. QED
  BY <1>3, <1>4 DEF Streams, InTurn

LEMMA SubscriberStreams ==
  ASSUME ChannelsOK, Streams, Flags, ReaderOK, SubscriberStep \/ TimePasses
  PROVE  ChannelsOK' /\ Streams' /\ Flags'
<1>1. UNCHANGED <<queueVars, senderVars, turnVars>>
  BY SubscriberLeaves
<1>2. /\ \/ peer' = peer
         \/ peer' = peer + 1 /\ peer < MaxConnections
      /\ \/ requested' = requested
         \/ requested' = requested \cup {peer} /\ peer' = peer /\ stage = "handshake"
  BY DEF SubscriberStep, Connected, HandshakeRequested, HeaderArrives, PayloadArrives, OtherSucceeds,
         Fails, FrameRead, PayloadHandled, CallbackCalled, Elsewhere, TimePasses, readerVars
<1>3. peer \in Nat /\ MaxConnections \in Nat /\ (stage = "handshake" => peer \in 1 .. peer)
  BY ConnectionAssumption DEF ChannelsOK, ReaderOK, Established, Connections
<1>4. ChannelsOK'
  <2>1. peer' \in 0 .. MaxConnections /\ 1 .. peer \subseteq 1 .. peer'
    BY <1>2, <1>3 DEF ChannelsOK
  <2>2. requested' \subseteq 1 .. peer' /\ publisher_sessions_' \subseteq 1 .. peer'
    BY <1>1, <1>2, <1>3, <2>1 DEF ChannelsOK, senderVars
  <2>3. \A c \in Connections : c > peer' => c > peer
    BY <1>2, <1>3 DEF Connections
  <2>4. Given' = Given
    BY <1>1 DEF Given, senderVars
  <2>5. QED
    BY <1>1, <2>1, <2>2, <2>3, <2>4 DEF ChannelsOK, queueVars, senderVars
<1>5. ASSUME NEW c \in Connections PROVE InTurn(c)'
  BY <1>1, TurnsKept DEF Streams, TakesTurns, queueVars, senderVars, turnVars
<1>6. QED
  BY <1>1, <1>4, <1>5, FlagsKept DEF Streams

LEMMA StreamsInit == ConnectionInit => Streams /\ Flags
<1> SUFFICES ASSUME ConnectionInit PROVE Streams /\ Flags
  OBVIOUS
<1>1. ASSUME NEW c \in Connections
      PROVE  /\ phase[c] = "new" /\ writes[c] = {} /\ next[c] = NoBuffer
             /\ Current(c) = NoBuffer /\ Left(c) = 0 /\ Len(wire[c]) = 0 /\ ~ sending[c]
  <2>1. /\ phase[c] = "new" /\ writes[c] = {} /\ next[c] = NoBuffer /\ wire[c] = <<>>
        /\ sending[c] = FALSE
    BY DEF ConnectionInit, Channel!ChannelInit
  <2>2. QED
    BY <2>1, HeadNow
<1>2. ASSUME NEW c \in Connections PROVE InTurn(c) /\ FlagRight(c)
  <2>1. FramesOn(c, 0)
    <3>1. 0 \in 0 .. Len(wire[c]) /\ FrameStart(0) /\ Len(wire[c]) <= 0 + PiecesAt(0)
      BY <1>1, FirstFrame DEF PiecesAt
    <3>2. 1 .. Len(wire[c]) = {} /\ 2 .. Len(wire[c]) = {}
      BY <1>1
    <3>3. QED
      BY <3>1, <3>2 DEF FramesOn
  <2>2. QueueBehind(c, 0)
    BY <1>1, Distinct DEF QueueBehind
  <2>3. Stream(c) /\ OneWrite(c)
    BY <1>1, <2>1, <2>2 DEF Stream, OneWrite
  <2>4. QED
    BY <1>1, <2>3 DEF InTurn, FlagRight, ConnectionInit
<1>3. QED
  BY <1>2 DEF Streams, Flags, ConnectionInit

-----------------------------------------------------------------------------
(* The subscriber reads whole frames.                                      *)

(* The publisher leaves what was read alone, and sends only what is newer. *)
LEMMA PublisherToCome ==
  ASSUME ChannelsOK, Streams, ReaderOK, NEW c \in Connections, PublisherStep(c),
         NEW b \in 0 .. sent, NewerToCome(b)
  PROVE  NewerToCome(b)'
<1>1. /\ todo' \subseteq todo /\ sent' = sent /\ peer' = peer /\ consumed' = consumed
      /\ outOfTurn \subseteq outOfTurn'
      /\ \/ UNCHANGED queueVars
         \/ ChannelStep(c)
         \/ c \in todo /\ sent \in 1 .. sent /\ Channel!Give(c, sent) /\ NoteTurn(c)
  BY PublisherIsChannel DEF readerVars
<1> SUFFICES ASSUME peer \in Connections, TakesTurns(peer)' PROVE NewerToCome(b)'
  BY <1>1 DEF NewerToCome
<1>2. TakesTurns(peer) /\ OneWrite(peer)
  BY <1>1 DEF TakesTurns, Streams, InTurn
<1>3. /\ \A i \in consumed + 1 .. Len(wire[peer]) : i > 1 => wire[peer][i] > b
      /\ Current(peer) \in Message /\ Left(peer) > 0 => Current(peer) > b
      /\ next[peer] \in Message => next[peer] > b
      /\ peer \in todo => sent > b
      /\ consumed \in Nat /\ consumed <= Len(wire[peer])
  BY <1>2 DEF NewerToCome, ReaderOK
<1>4. CASE c # peer \/ UNCHANGED queueVars
  <2>1. /\ writes'[peer] = writes[peer] /\ next'[peer] = next[peer] /\ wire'[peer] = wire[peer]
    BY <1>1, <1>4, OthersKept DEF queueVars
  <2>2. Current(peer)' = Current(peer) /\ Left(peer)' = Left(peer)
    BY <1>1, <2>1, HeadNow
  <2>3. QED
    BY <1>1, <1>3, <2>1, <2>2 DEF NewerToCome
<1>5. CASE c = peer /\ Carries(c) /\ ChannelStep(c)
  <2>1. /\ wire'[peer] = Append(wire[peer], Current(peer)) /\ Left(peer) > 0
        /\ Current(peer)' = Current(peer) /\ next'[peer] = next[peer]
        /\ Left(peer)' = Left(peer) - 1 /\ Current(peer) \in Given
    BY <1>1, <1>5 DEF Carries, Current, Left
  <2>2. /\ Len(wire[peer]) \in Nat /\ Len(wire'[peer]) = Len(wire[peer]) + 1
        /\ wire'[peer][Len(wire[peer]) + 1] = Current(peer)
        /\ \A i \in 1 .. Len(wire[peer]) : wire'[peer][i] = wire[peer][i]
    BY <2>1 DEF ChannelsOK
  <2>3. \A i \in 2 .. Len(wire'[peer]) : wire'[peer][i] \in Message
    <3>1. InTurn(c)'
      BY PublisherStream
    <3>2. Stream(c)'
      BY <1>1, <1>5, <3>1 DEF InTurn, TakesTurns
    <3>3. QED
      BY <1>5, <3>2 DEF Stream, FramesOn
  <2>4. ASSUME NEW i \in consumed + 1 .. Len(wire'[peer]), i > 1 PROVE wire'[peer][i] > b
    <3>1. CASE i \in consumed + 1 .. Len(wire[peer])
      BY <1>3, <2>2, <2>4, <3>1
    <3>2. CASE i = Len(wire[peer]) + 1
      <4>1. Current(peer) \in Message
        BY <2>2, <2>3, <2>4, <3>2
      <4>2. QED
        BY <1>3, <2>1, <2>2, <3>2, <4>1
    <3>3. QED
      BY <1>3, <2>2, <3>1, <3>2
  <2>5. Left(peer) \in Nat
    BY <1>2, HeadTypes
  <2>6. QED
    BY <1>1, <1>3, <2>1, <2>2, <2>4, <2>5 DEF NewerToCome
<1>6. CASE /\ c = peer
           /\ Opens(c) \/ Runs(c) \/ Advances(c) \/ Ends(c) \/ (c \in todo /\ Gives(c, sent))
  <2>1. wire'[peer] = wire[peer]
    BY <1>6 DEF Opens, Runs, Advances, Ends, Gives
  <2>2. next'[peer] \in Message => next'[peer] > b
    BY <1>3, <1>6, Distinct DEF Opens, Runs, Advances, Ends, Gives
  <2>3. Current(peer)' \in Message /\ Left(peer)' > 0 => Current(peer)' > b
    <3>1. Current(peer)' = Current(c)' /\ Left(peer)' = Left(c)'
      BY <1>1, <1>6 DEF Current, Left
    <3>2. Current(c)' \in Message /\ Left(c)' > 0 => Current(c)' > b
      BY <1>3, <1>6, Distinct DEF Opens, Runs, Advances, Ends, Gives
    <3>3. QED
      BY <3>1, <3>2
  <2>4. QED
    BY <1>1, <1>3, <2>1, <2>2, <2>3 DEF NewerToCome
<1>7. QED
  <2>1. c = peer /\ ChannelStep(c) => Opens(c) \/ Runs(c) \/ Carries(c) \/ Advances(c) \/ Ends(c)
    BY <1>2, TurnTaken
  <2>2. c = peer /\ Channel!Give(c, sent) /\ NoteTurn(c) => Gives(c, sent)
    BY <1>1, <1>2, GiveToQueue
  <2>3. QED
    BY <1>1, <1>4, <1>5, <1>6, <2>1, <2>2

LEMMA SendToCome ==
  ASSUME ChannelsOK, Send, NEW b \in 0 .. sent, NewerToCome(b)
  PROVE  NewerToCome(b)'
<1>1. /\ UNCHANGED queueVars /\ UNCHANGED <<readerVars, turnVars>> /\ sent' = sent + 1 /\ sent \in Nat
  BY DEF Send, PublisherFrame, ChannelsOK
<1>2. sent' > b
  BY <1>1
<1>3. peer' = peer /\ (TakesTurns(peer)' <=> TakesTurns(peer))
  BY <1>1 DEF TakesTurns, readerVars, turnVars
<1>4. Current(peer)' = Current(peer) /\ Left(peer)' = Left(peer)
  BY <1>1, <1>3, HeadNow DEF queueVars
<1>5. QED
  BY <1>1, <1>2, <1>3, <1>4 DEF NewerToCome, queueVars, readerVars

(* What is on the wire stays there.                                        *)
LEMMA WireGrows ==
  ASSUME ChannelsOK, ReaderOK, NEW c \in Connections, PublisherStep(c), peer \in Connections
  PROVE  /\ consumed <= Len(wire'[peer])
         /\ \A i \in 1 .. consumed : wire'[peer][i] = wire[peer][i]
<1>1. consumed \in Nat /\ consumed <= Len(wire[peer]) /\ Len(wire[peer]) \in Nat
  BY DEF ReaderOK, ChannelsOK
<1>2. UNCHANGED queueVars \/ ChannelStep(c) \/ Channel!Give(c, sent)
  BY PublisherIsChannel
<1>3. \/ wire'[peer] = wire[peer]
      \/ \E b \in Given : wire'[peer] = Append(wire[peer], b)
  <2>1. CASE c # peer \/ UNCHANGED queueVars
    BY <1>2, <2>1, OthersKept DEF queueVars
  <2>2. ASSUME c = peer, NEW w \in writes[c], Channel!Carry(c, w)
        PROVE  \E b \in Given : wire'[peer] = Append(wire[peer], b)
    <3>1. w \in [buf : Given, left : Nat]
      BY DEF ChannelsOK
    <3>2. wire'[peer] = Append(wire[peer], w.buf)
      BY <2>2 DEF Channel!Carry, ChannelsOK
    <3>3. QED
      BY <3>1, <3>2
  <2>3. CASE /\ ~ \E w \in writes[c] : Channel!Carry(c, w)
             /\ ChannelStep(c) \/ Channel!Give(c, sent)
    BY <2>3 DEF ChannelStep, Channel!Give, Channel!Respond, Channel!Run, Channel!Close,
                Channel!Complete
  <2>4. QED
    BY <1>2, <2>1, <2>2, <2>3
<1>4. QED
  BY <1>1, <1>3 DEF ChannelsOK

(* What was read is given to send() before, whatever it is.                *)
LEMMA ReceivedGiven ==
  ASSUME ChannelsOK, ReaderOK, Pending
  PROVE  received[1] \in Given /\ Len(received) \in Nat /\ Len(received) >= 1
BY DEF ReaderOK

(* Whoever leaves what was read alone keeps what is known of it.           *)
LEMMA ReaderKept ==
  ASSUME ChannelsOK, ReaderOK, FramesReadWhole, DeliveryOK,
         UNCHANGED <<readerVars, delivered>>, canceled_' = canceled_,
         sent' = sent \/ sent' = sent + 1, outOfTurn \subseteq outOfTurn',
         Pending' => Pending, FrameArrived' => FrameArrived,
         ForCallback' /\ TakesTurns(peer)' => received[1] \in Message,
         Established' => peer \in Connections,
         peer \in Connections => /\ consumed <= Len(wire'[peer])
                                 /\ \A i \in 1 .. consumed : wire'[peer][i] = wire[peer][i],
         NewerToCome(delivered)',
         Pending /\ received[1] \in Message => NewerToCome(received[1])'
  PROVE  (ReaderOK /\ FramesReadWhole /\ DeliveryOK)'
<1>1. /\ peer' = peer /\ consumed' = consumed /\ received' = received /\ delivered' = delivered
      /\ TakesTurns(peer)' => TakesTurns(peer)
  BY DEF readerVars, TakesTurns
<1>2. sent \in Nat /\ sent' \in Nat /\ sent <= sent' /\ Given \subseteq Given'
  BY GivenIsKnown DEF Given
<1>3. ASSUME FrameArrived', TakesTurns(peer)' PROVE BeginsFrame(consumed - Len(received) + 1)'
  <2>1. /\ BeginsFrame(consumed - Len(received) + 1) /\ consumed \in Nat
        /\ Len(received) <= consumed /\ peer \in Connections
    BY <1>1, <1>3 DEF ReaderOK, FrameArrived, Established, Reads
  <2>2. Pending
    BY <1>3 DEF Pending
  <2>3. Len(received) \in Nat /\ Len(received) >= 1
    BY <2>2, ReceivedGiven
  <2> DEFINE i == consumed - Len(received) + 1
  <2>4. i \in 1 .. consumed
    BY <2>1, <2>3
  <2>5. \A j \in 1 .. i - 1 : wire'[peer][j] # wire'[peer][i]
    <3> SUFFICES ASSUME NEW j \in 1 .. i - 1 PROVE wire'[peer][j] # wire'[peer][i]
      OBVIOUS
    <3>1. wire[peer][j] # wire[peer][i]
      BY <2>1 DEF BeginsFrame
    <3>2. j \in 1 .. consumed
      BY <2>1, <2>4
    <3>3. QED
      BY <2>1, <2>4, <3>1, <3>2
  <2>6. QED
    BY <1>1, <2>5 DEF BeginsFrame
<1>4. ReaderOK'
  <2>1. received' \in Seq(Given')
    BY <1>1, <1>2 DEF ReaderOK
  <2>2. peer' \in Connections =>
          consumed' <= Len(wire'[peer']) /\ (TakesTurns(peer)' => FrameStart(consumed'))
    BY <1>1 DEF ReaderOK
  <2>3. Pending' => received' # <<>>
    BY <1>1 DEF ReaderOK
  <2>4. FrameArrived' => Len(received') <= consumed'
    BY <1>1 DEF ReaderOK
  <2>5. ~ canceled_' /\ consumed' \in Nat /\ (Established' => peer' \in Connections)
    BY <1>1 DEF ReaderOK
  <2>6. QED
    BY <1>3, <2>1, <2>2, <2>3, <2>4, <2>5 DEF ReaderOK, FrameStart
<1>5. FramesReadWhole'
  BY <1>1 DEF FramesReadWhole, TakesTurns
<1>6. delivered' \in 0 .. sent'
  BY <1>1, <1>2 DEF DeliveryOK
<1>7. ASSUME Pending', TakesTurns(peer)', received'[1] \in Message
      PROVE  delivered' < received'[1] /\ NewerToCome(received[1])'
  BY <1>1, <1>7 DEF DeliveryOK
<1>8. ForCallback' /\ TakesTurns(peer)' => received'[1] \in Message
  BY <1>1
<1>9. QED
  BY <1>4, <1>5, <1>6, <1>7, <1>8 DEF DeliveryOK

(* The same for a step that leaves the connections alone as well.          *)
LEMMA ToComeKept ==
  ASSUME NEW b, NewerToCome(b), UNCHANGED <<peer, consumed, queueVars, todo, sent, outOfTurn>>
  PROVE  NewerToCome(b)'
<1>1. Current(peer)' = Current(peer) /\ Left(peer)' = Left(peer)
  BY DEF Current, Left, queueVars
<1>2. QED
  BY <1>1 DEF NewerToCome, TakesTurns, queueVars

LEMMA ReaderIdle ==
  ASSUME ChannelsOK, ReaderOK, FramesReadWhole, DeliveryOK,
         UNCHANGED <<readerVars, delivered, queueVars, senderVars, turnVars>>,
         canceled_' = canceled_, Pending' => Pending, FrameArrived' => FrameArrived,
         ForCallback' /\ TakesTurns(peer) => received[1] \in Message,
         Established' => peer \in Connections
  PROVE  (ReaderOK /\ FramesReadWhole /\ DeliveryOK)'
<1>1. UNCHANGED <<peer, consumed, received, delivered, queueVars, todo, sent, outOfTurn>>
  BY DEF readerVars, senderVars, turnVars
<1>2. ReaderOK'
  BY <1>1 DEF ReaderOK, TakesTurns, BeginsFrame, Given, queueVars
<1>3. FramesReadWhole'
  BY <1>1 DEF FramesReadWhole
<1>4. NewerToCome(delivered)'
  <2> DEFINE b == delivered
  <2>1. NewerToCome(b) /\ b' = b
    BY <1>1 DEF DeliveryOK
  <2> HIDE DEF b
  <2>2. QED
    BY <1>1, <2>1, ToComeKept DEF NewerToCome, b
<1>5. ASSUME Pending', TakesTurns(peer)', received'[1] \in Message
      PROVE  delivered' < received'[1] /\ NewerToCome(received[1])'
  <2> DEFINE b == received[1]
  <2>1. NewerToCome(b) /\ delivered < b /\ b' = b
    BY <1>1, <1>5 DEF DeliveryOK, TakesTurns
  <2>2. delivered' < received'[1]
    BY <1>1, <2>1
  <2> HIDE DEF b
  <2>3. QED
    BY <1>1, <2>1, <2>2, ToComeKept DEF NewerToCome, b
<1>6. QED
  BY <1>1, <1>2, <1>3, <1>4, <1>5 DEF DeliveryOK, TakesTurns

LEMMA PublisherReader ==
  ASSUME ChannelsOK, Streams, ReaderOK, FramesReadWhole, DeliveryOK,
         Send \/ \E c \in Connections : PublisherStep(c)
  PROVE  (ReaderOK /\ FramesReadWhole /\ DeliveryOK)'
<1>1. /\ UNCHANGED <<vars, readerVars, delivered>>
      /\ sent' = sent \/ sent' = sent + 1
      /\ outOfTurn \subseteq outOfTurn'
  BY PublisherIsChannel DEF Send, PublisherFrame, turnVars
<1>2. ASSUME NEW b \in 0 .. sent, NewerToCome(b) PROVE NewerToCome(b)'
  BY <1>2, SendToCome, PublisherToCome
<1>3. peer \in Connections => /\ consumed <= Len(wire'[peer])
                              /\ \A i \in 1 .. consumed : wire'[peer][i] = wire[peer][i]
  <2>1. CASE Send
    BY <2>1 DEF Send, queueVars, ReaderOK
  <2>2. CASE \E c \in Connections : PublisherStep(c)
    BY <2>2, WireGrows
  <2>3. QED
    BY <2>1, <2>2
<1>4. NewerToCome(delivered)'
  <2>1. PICK b \in 0 .. sent : b = delivered
    BY DEF DeliveryOK
  <2>2. NewerToCome(b)
    BY <2>1 DEF DeliveryOK
  <2>3. NewerToCome(b)'
    BY <1>2, <2>2
  <2>4. b = delivered'
    BY <1>1, <2>1
  <2>5. QED
    BY <2>3, <2>4 DEF NewerToCome
<1>5. ASSUME Pending, received[1] \in Message PROVE NewerToCome(received[1])'
  <2>0. peer' = peer /\ received' = received
    BY <1>1 DEF readerVars
  <2>1. CASE ~ TakesTurns(peer)
    BY <1>1, <2>0, <2>1 DEF NewerToCome, TakesTurns
  <2>2. CASE TakesTurns(peer)
    <3>1. received[1] \in 0 .. sent /\ NewerToCome(received[1])
      <4>1. NewerToCome(received[1])
        BY <1>5, <2>2 DEF DeliveryOK
      <4>2. received[1] \in Nat /\ received[1] # Handshake
        BY <1>5, Distinct
      <4>3. received[1] <= sent /\ sent \in Nat
        BY <1>5, <4>2, ReceivedGiven, GivenIsKnown
      <4>4. QED
        BY <4>1, <4>2, <4>3
    <3>2. PICK b \in 0 .. sent : b = received[1]
      BY <3>1
    <3>3. NewerToCome(b)'
      BY <1>2, <3>1, <3>2
    <3>4. b = received'[1]
      BY <2>0, <3>2
    <3>5. QED
      BY <3>3, <3>4 DEF NewerToCome
  <2>3. QED
    BY <2>1, <2>2
<1>6. /\ canceled_' = canceled_ /\ (Pending' => Pending) /\ (FrameArrived' => FrameArrived)
      /\ Established' => peer \in Connections
      /\ ForCallback' /\ TakesTurns(peer)' => received[1] \in Message
  <2>1. /\ canceled_' = canceled_ /\ (Pending' <=> Pending) /\ (FrameArrived' <=> FrameArrived)
        /\ (Established' <=> Established) /\ (ForCallback' <=> ForCallback)
    BY <1>1 DEF vars, chainVars, Pending, FrameArrived, ForCallback, Established
  <2>2. TakesTurns(peer)' => TakesTurns(peer)
    BY <1>1 DEF TakesTurns, readerVars
  <2>3. QED
    BY <2>1, <2>2 DEF ReaderOK, DeliveryOK
<1>7. QED
  BY <1>1, <1>3, <1>4, <1>5, <1>6, ReaderKept

-----------------------------------------------------------------------------
(* The subscriber's steps.                                                 *)

(* Nothing of a connection that is just established has been sent.         *)
LEMMA ConnectedReader ==
  ASSUME ChannelsOK, Streams, ReaderOK, FramesReadWhole, DeliveryOK, Connected
  PROVE  (ReaderOK /\ FramesReadWhole /\ DeliveryOK)'
<1>1. /\ stage = "connect" /\ stage' = "connect" /\ canceled_' = canceled_
      /\ peer' = peer + 1 /\ peer < MaxConnections /\ consumed' = 0 /\ received' = <<>>
      /\ delivered' = delivered /\ UNCHANGED <<queueVars, senderVars, turnVars>>
  BY DEF Connected, OperationSucceeds, SubscriberFrame
<1> DEFINE q == peer + 1
<1>2. q \in Connections /\ peer \in Nat /\ q > peer
  BY <1>1, ConnectionAssumption DEF ChannelsOK, Connections
<1>3. phase[q] = "new" /\ next[q] = NoBuffer /\ writes[q] = {} /\ q \notin todo
  BY <1>2 DEF ChannelsOK
<1>4. Current(q) = NoBuffer
  BY <1>3, HeadNow
<1>5. TakesTurns(q) => Len(wire[q]) = 0
  BY <1>2, <1>3 DEF Streams, InTurn, Stream, QueueBehind
<1>6. ~ Pending' /\ ~ ForCallback' /\ ~ FrameArrived'
  BY <1>1 DEF Pending, ForCallback, FrameArrived
<1>7. ReaderOK'
  <2>1. 0 <= Len(wire[q])
    BY <1>2 DEF ChannelsOK
  <2>2. FrameStart(0)'
    BY FirstFrame DEF FrameStart
  <2>3. received' \in Seq(Given')
    BY <1>1
  <2>4. QED
    BY <1>1, <1>2, <1>6, <2>1, <2>2, <2>3 DEF ReaderOK, queueVars, FrameStart
<1>8. FramesReadWhole'
  <2>1. 1 .. Len(received') = {}
    BY <1>1
  <2>2. QED
    BY <2>1 DEF FramesReadWhole
<1>9. NewerToCome(delivered)'
  <2>1. outOfTurn' = outOfTurn /\ writes' = writes
    BY <1>1 DEF turnVars, queueVars
  <2>2. TakesTurns(q) => \A i \in 0 + 1 .. Len(wire[q]) : FALSE
    BY <1>5
  <2>3. NoBuffer \notin Message
    BY Distinct
  <2>4. peer' = q /\ consumed' = 0 /\ wire' = wire /\ next' = next /\ todo' = todo
    BY <1>1 DEF queueVars, senderVars
  <2>5. TakesTurns(peer)' => TakesTurns(q)
    BY <2>1, <2>4 DEF TakesTurns
  <2>6. Current(peer)' = NoBuffer
    BY <1>4, <2>1, <2>4 DEF Current
  <2>7. QED
    BY <1>3, <2>2, <2>3, <2>4, <2>5, <2>6 DEF NewerToCome
<1>10. delivered' \in 0 .. sent'
  BY <1>1 DEF DeliveryOK, senderVars
<1>11. QED
  BY <1>6, <1>7, <1>8, <1>9, <1>10 DEF DeliveryOK

(* What is read of a connection whose writes do not take turns is          *)
(* anything.                                                               *)
LEMMA PayloadRead ==
  ASSUME ChannelsOK, ReaderOK, PayloadArrives
  PROVE  /\ peer \in Connections /\ consumed \in Nat /\ Len(wire[peer]) \in Nat
         /\ Len(Arrived) = Len(wire[peer]) - consumed
         /\ \A i \in 1 .. Len(Arrived) : Arrived[i] = wire[peer][consumed + i]
         /\ \E length \in FrameLengths :
              /\ length \in 1 .. Len(Arrived) /\ consumed' = consumed + length
              /\ received' \in Seq(Given) /\ Len(received') = length
              /\ \A i \in 1 .. length : received'[i] = Arrived[i]
         /\ stage = "payload" /\ stage' = "payload" /\ canceled_' = canceled_
         /\ UNCHANGED <<peer, delivered, queueVars, senderVars, turnVars>>
<1>1. /\ stage = "payload" /\ stage' = "payload" /\ canceled_' = canceled_
      /\ UNCHANGED <<peer, delivered, queueVars, senderVars, turnVars>>
  BY DEF PayloadArrives, Started, OperationSucceeds, SubscriberFrame
<1>2. /\ peer \in Connections /\ consumed \in Nat /\ consumed <= Len(wire[peer])
      /\ wire[peer] \in Seq(Given) /\ Len(wire[peer]) \in Nat
  BY <1>1 DEF ReaderOK, Established, Reads, ChannelsOK
<1>3. /\ Len(Arrived) = Len(wire[peer]) - consumed /\ Arrived \in Seq(Given)
      /\ \A i \in 1 .. Len(Arrived) : Arrived[i] = wire[peer][consumed + i]
  BY <1>2 DEF Arrived
<1>4. PICK length \in FrameLengths :
        /\ length <= Len(Arrived)
        /\ received' = SubSeq(Arrived, 1, length) /\ consumed' = consumed + length
  BY DEF PayloadArrives
<1>5. length \in 1 .. Len(Arrived)
  <2>1. Len(Arrived) \in Nat
    BY <1>2, <1>3
  <2>2. length \in Nat /\ length >= 1
    BY <2>1, Distinct DEF FrameLengths
  <2>3. QED
    BY <1>4, <2>1, <2>2
<1>6. /\ Len(SubSeq(Arrived, 1, length)) = length /\ SubSeq(Arrived, 1, length) \in Seq(Given)
      /\ \A i \in 1 .. length : SubSeq(Arrived, 1, length)[i] = Arrived[i]
  BY <1>3, <1>5
<1>7. QED
  BY <1>1, <1>2, <1>3, <1>4, <1>5, <1>6

LEMMA PayloadReads ==
  ASSUME ChannelsOK, ReaderOK, DeliveryOK, PayloadArrives, ~ TakesTurns(peer)
  PROVE  (ReaderOK /\ FramesReadWhole /\ DeliveryOK)'
<1>1. /\ peer \in Connections /\ consumed \in Nat /\ Len(wire[peer]) \in Nat
      /\ Len(Arrived) = Len(wire[peer]) - consumed
      /\ stage = "payload" /\ stage' = "payload" /\ canceled_' = canceled_
      /\ UNCHANGED <<peer, delivered, queueVars, senderVars, turnVars>>
  BY PayloadRead
<1>2. PICK length \in FrameLengths :
        /\ length \in 1 .. Len(Arrived) /\ consumed' = consumed + length
        /\ received' \in Seq(Given) /\ Len(received') = length
  BY PayloadRead
<1>3. ~ TakesTurns(peer)' /\ Given' = Given /\ wire' = wire /\ peer' = peer
  BY <1>1 DEF TakesTurns, turnVars, Given, senderVars, queueVars
<1>4. consumed' \in Nat /\ consumed' <= Len(wire[peer]) /\ length >= 1 /\ length <= consumed'
  BY <1>1, <1>2
<1>5. received' # <<>>
  BY <1>2, <1>4
<1>6. ReaderOK'
  BY <1>1, <1>2, <1>3, <1>4, <1>5 DEF ReaderOK
<1>7. FramesReadWhole'
  BY <1>3 DEF FramesReadWhole, TakesTurns
<1>8. ~ ForCallback' /\ delivered' \in 0 .. sent' /\ NewerToCome(delivered)'
  BY <1>1, <1>3 DEF ForCallback, DeliveryOK, NewerToCome, senderVars
<1>9. QED
  BY <1>3, <1>6, <1>7, <1>8 DEF DeliveryOK

(* The payload that is read is the next frame, newer than what was read    *)
(* before and older than what comes behind it.                             *)
LEMMA PayloadReader ==
  ASSUME ChannelsOK, Streams, ReaderOK, FramesReadWhole, DeliveryOK, PayloadArrives,
         TakesTurns(peer)
  PROVE  (ReaderOK /\ FramesReadWhole /\ DeliveryOK)'
<1> DEFINE w == wire[peer]
           n == Len(wire[peer])
           e == consumed
           f == PiecesAt(consumed)
<1>1. /\ stage = "payload" /\ stage' = "payload" /\ canceled_' = canceled_
      /\ UNCHANGED <<peer, delivered>> /\ UNCHANGED <<queueVars, senderVars, turnVars>>
      /\ Len(Arrived) = n - e /\ \A i \in 1 .. n - e : Arrived[i] = w[e + i]
  BY PayloadRead
<1>2. /\ peer \in Connections /\ e \in Nat /\ FrameStart(e) /\ e <= n
      /\ w \in Seq(Given) /\ n \in Nat /\ OneWrite(peer) /\ Stream(peer)
  BY <1>1, PayloadRead DEF ReaderOK, ChannelsOK, Streams, InTurn
<1>3. PICK p \in 0 .. n : FramesOn(peer, p) /\ QueueBehind(peer, p)
  BY <1>2 DEF Stream
<1>4. f \in Nat /\ f >= 1 /\ e + f \in Nat /\ FrameStart(e + f)
  BY <1>2, FirstFrame, NextFrame
<1>5. PICK length \in FrameLengths :
        /\ length \in 1 .. Len(Arrived) /\ consumed' = e + length
        /\ received' \in Seq(Given) /\ Len(received') = length
        /\ \A i \in 1 .. length : received'[i] = Arrived[i]
  BY PayloadRead
<1>6. length \in Nat /\ length >= 1 /\ length <= n - e
  BY <1>1, <1>2, <1>5
<1>7. e < n
  BY <1>2, <1>6
<1>8. Arrived[1] = w[e + 1] /\ (w[e + 1] = Handshake <=> e = 0)
      /\ (w[e + 1] # Handshake => w[e + 1] \in Message)
  <2>1. 1 \in 1 .. n - e /\ e + 1 \in 1 .. n /\ (e + 1 = 1 <=> e = 0)
    BY <1>2, <1>7
  <2>2. IF e + 1 = 1 THEN w[e + 1] = Handshake ELSE w[e + 1] \in Message
    BY <1>3, <2>1 DEF FramesOn
  <2>3. QED
    BY <1>1, <2>1, <2>2, Distinct
<1> HIDE DEF f
<1>9. BeginsFrame(e + 1)
  <2> SUFFICES ASSUME NEW j \in 1 .. e PROVE w[j] # w[e + 1]
    BY <1>2 DEF BeginsFrame
  <2>1. e # 0 /\ e + 1 \in 2 .. n /\ j \in 1 .. n /\ w[e + 1] \in Message
    BY <1>2, <1>7, <1>8
  <2>2. CASE j = 1
    BY <1>3, <2>1, <2>2, Distinct DEF FramesOn
  <2>3. CASE j # 1
    <3>1. j \in 2 .. n /\ e \in 0 .. n /\ j <= e /\ e < e + 1
      BY <1>2, <1>7, <2>3
    <3>2. w[j] < w[e + 1]
      BY <1>2, <1>3, <2>1, <3>1 DEF FramesOn
    <3>3. w[j] \in Message
      BY <1>3, <2>1, <2>3 DEF FramesOn
    <3>4. w[j] \in Nat /\ w[e + 1] \in Nat
      BY <2>1, <3>3, Distinct
    <3>5. QED
      BY <3>2, <3>4
  <2>4. QED
    BY <2>2, <2>3
<1>10. length = f
  BY <1>5, <1>8, <1>9 DEF FrameLengths, PiecesAt, f
<1>11. e + f <= n /\ e + f \in 0 .. n /\ consumed' = e + f
  BY <1>2, <1>4, <1>5, <1>6, <1>10
<1>12. /\ Len(received') = f /\ received' \in Seq(Given)
       /\ \A i \in 1 .. f : received'[i] = w[e + i]
  <2>1. \A i \in 1 .. f : i \in 1 .. n - e
    BY <1>2, <1>4, <1>11
  <2>2. QED
    BY <1>1, <1>5, <1>10, <2>1
<1>13. \A i \in 1 .. f : w[e + i] = w[e + 1]
  <2> SUFFICES ASSUME NEW i \in 1 .. f PROVE w[e + i] = w[e + 1]
    OBVIOUS
  <2>1. e \in 0 .. n /\ e + i \in 1 .. n /\ e < e + i /\ e + i <= e + PiecesAt(e)
    BY <1>2, <1>4, <1>11 DEF f
  <2>2. QED
    BY <1>2, <1>3, <2>1 DEF FramesOn
<1>14. FramesReadWhole'
  BY <1>4, <1>12, <1>13 DEF FramesReadWhole
<1>15. ReaderOK'
  <2>1. consumed' = e + f /\ peer' = peer /\ wire' = wire /\ Given' = Given
    BY <1>1, <1>11 DEF queueVars, senderVars, Given
  <2>2. received' # <<>> /\ Len(received') <= consumed'
    BY <1>2, <1>4, <1>12, <2>1
  <2>3. consumed' - Len(received') + 1 = e + 1
    BY <1>2, <1>4, <1>12, <2>1
  <2>4. BeginsFrame(consumed - Len(received) + 1)'
    BY <1>9, <2>1, <2>3 DEF BeginsFrame
  <2>5. FrameStart(consumed)'
    BY <1>4, <2>1 DEF FrameStart
  <2>6. QED
    BY <1>1, <1>2, <1>4, <1>11, <1>12, <2>1, <2>2, <2>4, <2>5 DEF ReaderOK
<1>16. /\ \A i \in e + 1 .. n : i > 1 => w[i] > delivered
       /\ Current(peer) \in Message /\ Left(peer) > 0 => Current(peer) > delivered
       /\ next[peer] \in Message => next[peer] > delivered
       /\ peer \in todo => sent > delivered
  BY <1>2 DEF DeliveryOK, NewerToCome
<1>17. /\ peer' = peer /\ wire' = wire /\ next' = next /\ todo' = todo /\ sent' = sent
       /\ delivered' = delivered /\ Current(peer)' = Current(peer) /\ Left(peer)' = Left(peer)
  BY <1>1 DEF queueVars, senderVars, Current, Left
<1>18. NewerToCome(delivered)'
  <2>1. \A i \in e + f + 1 .. n : i \in e + 1 .. n
    BY <1>2, <1>4
  <2>2. QED
    BY <1>11, <1>16, <1>17, <2>1 DEF NewerToCome
<1>19. ASSUME w[e + 1] \in Message
       PROVE  /\ delivered < w[e + 1]
              /\ \A i \in e + f + 1 .. n : w[i] > w[e + 1]
              /\ Current(peer) \in Message /\ Left(peer) > 0 => Current(peer) > w[e + 1]
              /\ next[peer] \in Message => next[peer] > w[e + 1]
              /\ peer \in todo => sent > w[e + 1]
  <2>1. e > 0 /\ e + 1 \in 2 .. n /\ e + 1 \in e + 1 .. n /\ e + 1 > 1
    BY <1>2, <1>7, <1>8, <1>19, Distinct
  <2>2. w[e + 1] \in Nat /\ sent \in Nat /\ delivered \in Nat
    <3>1. w[e + 1] \in Nat
      BY <1>19, Distinct
    <3>2. sent \in Nat
      BY DEF ChannelsOK
    <3>3. delivered \in Nat
      BY <3>2 DEF DeliveryOK
    <3>4. QED
      BY <3>1, <3>2, <3>3
  <2>3. delivered < w[e + 1]
    BY <1>16, <2>1, <2>2
  <2>4. peer \in todo => w[e + 1] < sent
    BY <1>2, <2>1 DEF Streams, InTurn, OlderThan
  <2>5. ASSUME NEW i \in e + f + 1 .. n PROVE w[i] > w[e + 1]
    <3>1. i \in 2 .. n /\ e + 1 <= e + f /\ e + f < i
      BY <1>2, <1>4, <2>1
    <3>2. w[e + 1] < w[i]
      BY <1>3, <1>4, <1>11, <2>1, <3>1 DEF FramesOn
    <3>3. w[i] \in Nat
      <4>1. i \in 1 .. n /\ i # 1
        BY <3>1
      <4>2. w[i] \in Message
        BY <1>3, <4>1 DEF FramesOn
      <4>3. QED
        BY <4>2, Distinct
    <3>4. QED
      BY <2>2, <3>2, <3>3
  <2>6. ASSUME Current(peer) \in Message, Left(peer) > 0 PROVE Current(peer) > w[e + 1]
    <3>1. p \in Nat /\ FrameStart(p) /\ n < p + PiecesAt(p) /\ PiecesAt(p) \in Nat
      <4>1. Left(peer) = p + PiecesAt(p) - n
        BY <1>3, <2>6, Distinct DEF QueueBehind
      <4>2. PiecesAt(p) \in Nat /\ FrameStart(p)
        BY <1>3, FirstFrame DEF FramesOn
      <4>3. QED
        BY <1>2, <2>6, <4>1, <4>2
    <3>2. e < p
      <4>1. p # e
        BY <1>11, <3>1 DEF f
      <4>2. ~ p < e
        <5>1. p < e => p + PiecesAt(p) <= e
          BY <1>2, <3>1, FramesApart
        <5>2. QED
          BY <1>2, <3>1, <5>1
      <4>3. QED
        BY <1>2, <3>1, <4>1, <4>2
    <3>3. e + 1 \in 2 .. p
      BY <1>2, <2>1, <3>1, <3>2
    <3>4. w[e + 1] < Current(peer)
      BY <1>3, <2>6, <3>3 DEF QueueBehind
    <3>5. QED
      BY <2>2, <2>6, <3>4, Distinct
  <2>7. ASSUME next[peer] \in Message PROVE next[peer] > w[e + 1]
    <3>1. w[e + 1] < next[peer]
      BY <1>3, <2>1, <2>7 DEF QueueBehind
    <3>2. QED
      BY <2>2, <2>7, <3>1, Distinct
  <2>8. QED
    BY <2>2, <2>3, <2>4, <2>5, <2>6, <2>7
<1>20. received'[1] = w[e + 1]
  BY <1>4, <1>12
<1>21. w[e + 1] \in Message => delivered' < received'[1] /\ NewerToCome(received[1])'
  BY <1>11, <1>17, <1>19, <1>20 DEF NewerToCome
<1>22. ~ ForCallback'
  BY <1>1 DEF ForCallback
<1>23. delivered' \in 0 .. sent'
  BY <1>17 DEF DeliveryOK
<1>24. DeliveryOK'
  BY <1>18, <1>20, <1>21, <1>22, <1>23 DEF DeliveryOK
<1>25. QED
  BY <1>14, <1>15, <1>24

(* The callback is called with the payload that stood between those that   *)
(* were given and those to come.                                           *)
LEMMA CallbackReader ==
  ASSUME ChannelsOK, ReaderOK, FramesReadWhole, DeliveryOK, CallbackCalled
  PROVE  /\ (ReaderOK /\ FramesReadWhole /\ DeliveryOK)'
         /\ TakesTurns(peer) => received[1] > delivered
<1>1. /\ stage = "callback" /\ operation = "none"
      /\ stage' = "callback" /\ operation' = "started" /\ canceled_' = canceled_
      /\ delivered' = IF received[1] \in Message THEN received[1] ELSE delivered
      /\ UNCHANGED <<readerVars, queueVars, senderVars, turnVars>>
  BY DEF CallbackCalled, CallbackRuns, SubscriberFrame
<1>2. ForCallback /\ Pending /\ ~ Pending' /\ ~ ForCallback' /\ ~ FrameArrived'
  BY <1>1 DEF ForCallback, Pending, FrameArrived
<1>3. TakesTurns(peer) =>
        received[1] \in Message /\ delivered < received[1] /\ NewerToCome(received[1])
  BY <1>2 DEF DeliveryOK
<1>4. UNCHANGED <<peer, consumed, received, queueVars, todo, sent, outOfTurn>>
  BY <1>1 DEF readerVars, senderVars, turnVars
<1>5. sent \in Nat /\ delivered \in 0 .. sent
  BY DEF ChannelsOK, DeliveryOK
<1>6. received[1] \in Message => received[1] \in 0 .. sent
  <2>1. received[1] \in Message => received[1] \in Nat /\ received[1] # Handshake
    BY Distinct
  <2>2. received[1] \in Given
    BY <1>2, ReceivedGiven
  <2>3. QED
    BY <1>5, <2>1, <2>2, GivenIsKnown
<1>7. delivered' \in 0 .. sent'
  BY <1>1, <1>4, <1>5, <1>6
<1>8. NewerToCome(delivered)'
  <2>1. CASE ~ TakesTurns(peer)
    BY <1>4, <2>1 DEF NewerToCome, TakesTurns
  <2>2. CASE TakesTurns(peer)
    <3> DEFINE b == received[1]
    <3>1. NewerToCome(b) /\ b' = b /\ delivered' = b
      BY <1>1, <1>3, <1>4, <2>2
    <3> HIDE DEF b
    <3>2. NewerToCome(b)'
      BY <1>4, <3>1, ToComeKept
    <3>3. QED
      BY <3>1, <3>2 DEF NewerToCome
  <2>3. QED
    BY <2>1, <2>2
<1>9. DeliveryOK'
  BY <1>2, <1>7, <1>8 DEF DeliveryOK
<1>10. ReaderOK'
  <2>1. Given' = Given /\ Established /\ wire' = wire
    BY <1>1, <1>4 DEF Given, Established, queueVars
  <2>2. QED
    BY <1>1, <1>2, <1>4, <2>1 DEF ReaderOK, FrameStart, TakesTurns
<1>11. FramesReadWhole'
  BY <1>4 DEF FramesReadWhole
<1>12. TakesTurns(peer) => received[1] > delivered
  BY <1>3, <1>5, <1>6
<1>13. QED
  BY <1>9, <1>10, <1>11, <1>12

(* A message is posted for the callback, a handshake response is not.      *)
LEMMA HandledReader ==
  ASSUME IInv, ChannelsOK, ReaderOK, FramesReadWhole, DeliveryOK, PayloadHandled
  PROVE  (ReaderOK /\ FramesReadWhole /\ DeliveryOK)'
<1>1. /\ stage = "payload" /\ operation = "completed" /\ canceled_' = canceled_
      /\ \/ stage' = "tasks" /\ tasks' \in {<<"callback", "read">>, <<"read">>}
         \/ stage' = "failed"
      /\ BeginsFrame(consumed - Len(received) + 1) =>
           stage' = "tasks" /\ Len(tasks') = IF received[1] = Handshake THEN 1 ELSE 2
      /\ UNCHANGED <<readerVars, delivered, queueVars, senderVars, turnVars>>
  BY DEF PayloadHandled, PayloadReceived, Completed, Goto, SubscriberFrame
<1>2. Pending /\ FrameArrived /\ ~ FrameArrived'
  BY <1>1 DEF Pending, FrameArrived
<1>3. peer \in Connections
  BY <1>1 DEF ReaderOK, Established, Reads
<1>4. ASSUME ForCallback', TakesTurns(peer) PROVE received[1] \in Message
  <2>1. tasks' = <<"callback", "read">> /\ BeginsFrame(consumed - Len(received) + 1)
    BY <1>1, <1>2, <1>4 DEF ForCallback, ReaderOK
  <2>2. Len(<<"callback", "read">>) = 2
    OBVIOUS
  <2>3. received[1] # Handshake
    BY <1>1, <2>1, <2>2
  <2>4. QED
    BY <1>2, <2>3, ReceivedGiven, GivenIsKnown
<1>5. QED
  BY <1>1, <1>2, <1>3, <1>4, ReaderIdle

(* The other steps only lead away from a payload.                          *)
LEMMA OtherReader ==
  ASSUME IInv, ChannelsOK, ReaderOK, FramesReadWhole, DeliveryOK,
         \/ HandshakeRequested \/ HeaderArrives \/ OtherSucceeds \/ Fails \/ FrameRead
         \/ Elsewhere \/ TimePasses
  PROVE  (ReaderOK /\ FramesReadWhole /\ DeliveryOK)'
<1>1. /\ UNCHANGED <<peer, consumed, received, delivered, queueVars, senderVars, turnVars>>
      /\ requested' = requested \/ HandshakeRequested
  BY DEF HandshakeRequested, HeaderArrives, OtherSucceeds, Fails, FrameRead, Elsewhere, TimePasses,
         SubscriberFrame, readerVars
<1>2. TasksOK /\ ~ canceled_ /\ (ForCallback /\ TakesTurns(peer) => received[1] \in Message)
      /\ (Established => peer \in Connections)
  BY DEF IInv, Inv, ReaderOK, DeliveryOK
<1>3. /\ canceled_' = canceled_
      /\ Pending' => Pending
      /\ FrameArrived' => FrameArrived
      /\ ForCallback' => ForCallback
      /\ Established' => Established
  <2> USE <1>2 DEF Pending, FrameArrived, ForCallback, Established, Reads
  <2>1. CASE HandshakeRequested \/ HeaderArrives \/ OtherSucceeds
    BY <2>1 DEF HandshakeRequested, HeaderArrives, OtherSucceeds, OperationSucceeds
  <2>2. CASE Fails \/ TimePasses
    BY <2>2 DEF Fails, OperationFailed, TimePasses, SecondPasses, Goto, chainVars
  <2>3. CASE FrameRead
    BY <2>3 DEF FrameRead, ReadCompleted, HeaderLengthRead, HeaderContentRead, DiscardRead,
                ReadPayload, Completed, Enter, Goto
  <2>4. CASE StartOperation
    BY <2>4 DEF StartOperation, SocketOperations
  <2>5. CASE Start \/ ResolveFailed \/ TimerFired
    BY <2>5 DEF Start, ResolveFailed, TimerFired, Enter, Goto, Started, Completed
  <2>6. CASE Advance
    BY <2>6 DEF Advance, Enter, Goto, Completed
  <2>7. CASE ConnectionFailed
    BY <2>7 DEF ConnectionFailed, RetryOrClose, Goto
  <2>8. CASE SessionClosed
    BY <2>8 DEF SessionClosed, Goto, TasksOK
  <2>9. CASE StrandTask
    <3>1. /\ stage = "tasks" /\ canceled_' = canceled_ /\ operation' = "none"
          /\ stage' \in {"callback", "headerLength"}
          /\ stage' = "callback" => Head(tasks) = "callback"
      BY <2>9 DEF StrandTask, Enter, Goto
    <3>2. Head(tasks) = "callback" => tasks = <<"callback", "read">>
      BY <3>1 DEF TasksOK
    <3>3. QED
      BY <3>1, <3>2
  <2>10. CASE CallbackReturns
    <3>1. /\ stage = "callback" /\ canceled_' = canceled_ /\ stage' = "tasks" /\ tasks' = tasks
      BY <2>10 DEF CallbackReturns, Started, Goto
    <3>2. tasks # <<"callback", "read">>
      BY <3>1 DEF TasksOK
    <3>3. QED
      BY <3>1, <3>2
  <2>11. QED
    BY <2>1, <2>2, <2>3, <2>4, <2>5, <2>6, <2>7, <2>8, <2>9, <2>10 DEF Elsewhere
<1>4. /\ TakesTurns(peer)' <=> TakesTurns(peer)
      /\ NewerToCome(delivered)' <=> NewerToCome(delivered)
      /\ NewerToCome(received[1])' <=> NewerToCome(received[1])
  BY <1>1 DEF NewerToCome, TakesTurns, Current, Left, queueVars, senderVars, turnVars
<1>5. ReaderOK'
  <2>1. Given' = Given /\ wire' = wire
    BY <1>1 DEF Given, senderVars, queueVars
  <2>2. BeginsFrame(consumed - Len(received) + 1)' <=> BeginsFrame(consumed - Len(received) + 1)
    BY <1>1, <2>1 DEF BeginsFrame
  <2>3. FrameStart(consumed)' <=> FrameStart(consumed)
    BY <1>1 DEF FrameStart
  <2>4. QED
    BY <1>1, <1>2, <1>3, <1>4, <2>1, <2>2, <2>3 DEF ReaderOK
<1>6. FramesReadWhole'
  BY <1>1, <1>4 DEF FramesReadWhole, TakesTurns
<1>7. DeliveryOK'
  BY <1>1, <1>2, <1>3, <1>4 DEF DeliveryOK, senderVars
<1>8. QED
  BY <1>5, <1>6, <1>7

-----------------------------------------------------------------------------
(* Together.                                                               *)

LEMMA ConnectionInitInv == ConnectionInit => ConnectionInv
<1> SUFFICES ASSUME ConnectionInit PROVE ConnectionInv
  OBVIOUS
<1>1. /\ peer = 0 /\ consumed = 0 /\ received = <<>> /\ delivered = 0 /\ sent = 0
      /\ stage = "new" /\ canceled_ = FALSE
  BY DEF ConnectionInit, Init
<1>2. peer \notin Connections
  BY <1>1, ConnectionAssumption DEF Connections
<1>3. ReaderOK
  BY <1>1, <1>2 DEF ReaderOK, Established, Reads, Pending, ForCallback, FrameArrived
<1>4. FramesReadWhole
  <2>1. Len(received) = 0
    BY <1>1
  <2>2. QED
    BY <2>1 DEF FramesReadWhole
<1>5. DeliveryOK
  BY <1>1, <1>2 DEF DeliveryOK, NewerToCome, Pending, FrameArrived, ForCallback
<1>6. IInv
  BY InitInv DEF ConnectionInit
<1>7. QED
  BY <1>3, <1>4, <1>5, <1>6, ChannelsInit, StreamsInit DEF ConnectionInv

LEMMA ConnectionStepInv == ConnectionInv /\ [ConnectionNext]_allVars => ConnectionInv'
<1> SUFFICES ASSUME ConnectionInv, [ConnectionNext]_allVars PROVE ConnectionInv'
  OBVIOUS
<1> USE DEF ConnectionInv
<1>1. CASE UNCHANGED allVars
  <2>1. IInv'
    BY <1>1, StepInv DEF allVars
  <2>2. ChannelsOK'
    BY <1>1 DEF allVars, queueVars, readerVars, senderVars, ChannelsOK, Given
  <2>3. Streams' /\ Flags'
    <3>1. ASSUME NEW c \in Connections PROVE InTurn(c)'
      BY <1>1, TurnsKept DEF allVars, queueVars, turnVars, senderVars, Streams, TakesTurns
    <3>2. QED
      BY <1>1, <3>1, FlagsKept DEF Streams, allVars
  <2>4. (ReaderOK /\ FramesReadWhole /\ DeliveryOK)'
    <3>1. /\ Pending' => Pending
          /\ FrameArrived' => FrameArrived
          /\ ForCallback' => ForCallback
          /\ Established' => Established
          /\ canceled_' = canceled_
      BY <1>1 DEF allVars, vars, chainVars, Pending, FrameArrived, ForCallback, Established
    <3>2. /\ Established => peer \in Connections
          /\ ForCallback /\ TakesTurns(peer) => received[1] \in Message
      BY DEF ReaderOK, DeliveryOK
    <3>3. QED
      BY <1>1, <3>1, <3>2, ReaderIdle DEF allVars
  <2>5. QED
    BY <2>1, <2>2, <2>3, <2>4
<1>2. CASE ConnectionNext
  <2>1. IInv'
    BY <1>2, SubscriberSide, StepInv
  <2>2. CASE Send
    <3>1. Flags'
      BY <2>2, FlagsKept DEF Send
    <3>2. QED
      BY <2>1, <2>2, <3>1, SendStreams, PublisherReader
  <2>3. CASE \E c \in Connections : PublisherStep(c)
    BY <2>1, <2>3, PublisherTypes, PublisherStreams, PublisherFlags, PublisherReader
  <2>4. CASE SubscriberStep \/ TimePasses
    <3>1. ChannelsOK' /\ Streams' /\ Flags'
      BY <2>4, SubscriberStreams
    <3>2. (ReaderOK /\ FramesReadWhole /\ DeliveryOK)'
      BY <2>4, ConnectedReader, PayloadReader, PayloadReads, CallbackReader, HandledReader, OtherReader
         DEF SubscriberStep
    <3>3. QED
      BY <2>1, <3>1, <3>2
  <2>5. QED
    BY <1>2, <2>2, <2>3, <2>4 DEF ConnectionNext, PublisherStep
<1>3. QED
  BY <1>1, <1>2

LEMMA ConnectionInductive == ConnectionSpec => []ConnectionInv
<1>1. QED
  BY ConnectionInitInv, ConnectionStepInv, PTL DEF ConnectionSpec

(* Whenever send() is called, a message only goes past the flag while the  *)
(* completion of the handshake response has not been handled.              *)
THEOREM OutOfTurnAlwaysEarly == ConnectionSpec => []OutOfTurnOnlyWhenEarly
<1>1. ConnectionInv => OutOfTurnOnlyWhenEarly
  BY DEF ConnectionInv, Flags, OutOfTurnOnlyWhenEarly
<1>2. QED
  BY <1>1, ConnectionInductive, PTL

(* What the subscriber takes for one frame is one frame of the publisher,  *)
(* from its first piece to its last, on every connection whose writes take *)
(* turns.                                                                  *)
THEOREM FramesAlwaysReadWhole == ConnectionSpec => []FramesReadWhole
<1>1. ConnectionInv => FramesReadWhole
  BY DEF ConnectionInv
<1>2. QED
  BY <1>1, ConnectionInductive, PTL

(* The callback gets the messages in the order of send(), none of them     *)
(* twice, over all the connections that the session makes, as long as the  *)
(* writes of the connection that brings the message take turns.            *)
THEOREM MessagesDeliveredInOrder == ConnectionSpec => DeliveredInOrder
<1>1. ConnectionInv /\ [ConnectionNext]_allVars
        => [CallbackCalled /\ peer \notin outOfTurn => received[1] > delivered]_allVars
  BY CallbackReader DEF ConnectionInv, TakesTurns
<1>2. QED
  BY <1>1, ConnectionInductive, PTL DEF ConnectionSpec, DeliveredInOrder
=============================================================================
