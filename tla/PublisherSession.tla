-------------------------- MODULE PublisherSession --------------------------
(***************************************************************************)
(* The publisher's side of one TCP connection                              *)
(* (tcp_pubsub/src/publisher_session.cpp): the protocol handshake, the     *)
(* buffer being sent with the single "next" buffer behind it, and the      *)
(* closing of the session.                                                 *)
(*                                                                         *)
(* Two kinds of context run the code of a session: its strand (written as  *)
(* the session itself: asio runs at most one of its handlers at a time)    *)
(* and the threads of the user, who send and cancel.  at[c] is where       *)
(* context c stands inside the function it runs; a context stops only      *)
(* between two accesses to something another context can change.           *)
(***************************************************************************)
EXTENDS Integers, SequencesExt

CONSTANTS
  Session,              \* the sessions of a publisher
  User,                 \* the user's threads
  NoSession,            \* on[u] of a user who is in no session
  Chunks,               \* writes asio needs for one message
  MaxSends,             \* bound: messages sent in a behaviour
  SendDuringHandshake   \* may the user send while the handshake is open?

ASSUME SessionAssumption ==
  /\ Session \cap User = {}
  /\ NoSession \notin Session \cup User
  /\ Chunks \in Nat \ {0}
  /\ MaxSends \in Nat
  /\ SendDuringHandshake \in BOOLEAN

VARIABLES
  state_, sending_in_progress_, next_buffer_to_send_,  \* the members
  conn, reading, writes, tickets, wire,                \* socket and network
  at, on, arg, old,                                    \* the contexts
  sent, closedCalls                                    \* history

memberVars == <<state_, sending_in_progress_, next_buffer_to_send_>>
socketVars == <<conn, reading, writes, tickets, wire>>
contextVars == <<at, on, arg, old>>
historyVars == <<sent, closedCalls>>
vars == <<memberVars, socketVars, contextVars, historyVars>>

-----------------------------------------------------------------------------
(* Buffers are numbered: the handshake response is 0, messages count up in *)
(* the order they were made.                                               *)
NoBuffer == -1
Handshake == 0
Buffer == Nat

ChunksOf(b) == IF b = Handshake THEN 1 ELSE Chunks

Context == Session \cup User

State == {"NotStarted", "Handshaking", "Running", "Canceled"}
Label == {"idle", "enqueue", "write", "setRunning", "restore", "takeNext",
          "closeSocket", "closedHandler"}

(* An async_write: what it writes, the pieces the network has not taken    *)
(* yet, and its place in the order the writes were started.                *)
Write == [buf : Buffer, left : Nat, ticket : Nat]

Home(c) == IF c \in Session THEN c ELSE NoSession

MembersTypeOK ==
  /\ state_ \in [Session -> State]
  /\ sending_in_progress_ \in [Session -> BOOLEAN]
  /\ next_buffer_to_send_ \in [Session -> Buffer \cup {NoBuffer}]
  /\ conn \in [Session -> {"none", "up", "lost", "closed"}]
  /\ reading \in [Session -> {"none", "headerLength", "headerContent",
                              "discard", "payload"}]
  /\ writes \in [Session -> SUBSET Write]
  /\ tickets \in [Session -> Nat]
  /\ wire \in [Session -> Seq(Buffer)]
  /\ sent \in Nat
  /\ closedCalls \in [Session -> Nat]

ContextsTypeOK(labels) ==
  /\ at \in [Context -> labels]
  /\ on \in [Context -> Session \cup {NoSession}]
  /\ arg \in [Context -> Buffer \cup {NoBuffer}]
  /\ old \in [Session -> State]

TypeOK == MembersTypeOK /\ ContextsTypeOK(Label)

Init ==
  /\ state_ = [s \in Session |-> "NotStarted"]
  /\ sending_in_progress_ = [s \in Session |-> FALSE]
  /\ next_buffer_to_send_ = [s \in Session |-> NoBuffer]
  /\ conn = [s \in Session |-> "none"]
  /\ reading = [s \in Session |-> "none"]
  /\ writes = [s \in Session |-> {}]
  /\ tickets = [s \in Session |-> 0]
  /\ wire = [s \in Session |-> <<>>]
  /\ at = [c \in Context |-> "idle"]
  /\ on = [c \in Context |-> Home(c)]
  /\ arg = [c \in Context |-> NoBuffer]
  /\ old = [s \in Session |-> "NotStarted"]
  /\ sent = 0
  /\ closedCalls = [s \in Session |-> 0]

-----------------------------------------------------------------------------
(* Moving a context.                                                       *)
Visit(c, s, label, b) ==
  /\ at' = [at EXCEPT ![c] = label]
  /\ on' = [on EXCEPT ![c] = s]
  /\ arg' = [arg EXCEPT ![c] = b]

(* Back to the caller; a send loop keeps its buffer.                       *)
Return(c, back) ==
  Visit(c, Home(c), back, IF back = "idle" THEN NoBuffer ELSE arg[c])

(* next_buffer_mutex_ is held from the decision on a buffer to the end of  *)
(* sendBufferToClient; the handshake is sent without it.                   *)
NextBufferMutexFree(s) ==
  ~ \E c \in Context : at[c] = "write" /\ on[c] = s /\ arg[c] # Handshake

-----------------------------------------------------------------------------
(* Opening and closing.                                                    *)

(* start() on a session whose socket was just accepted.                    *)
Start(s) ==
  /\ state_[s] = "NotStarted"
  /\ conn' = [conn EXCEPT ![s] = "up"]
  /\ state_' = [state_ EXCEPT ![s] = "Handshaking"]
  /\ reading' = [reading EXCEPT ![s] = "headerLength"]
  /\ UNCHANGED <<sending_in_progress_, next_buffer_to_send_, writes, tickets,
                 wire, contextVars, historyVars>>

(* Faulty variant: the old state is not looked at.                         *)
SessionClosedHandlerAgain(c, s, back) ==
  /\ state_' = [state_ EXCEPT ![s] = "Canceled"]
  /\ Visit(c, s, "closeSocket", arg[c])
  /\ UNCHANGED <<sending_in_progress_, next_buffer_to_send_, old>>

(* sessionClosedHandler(): the exchange; only a context that finds another *)
(* value than Canceled goes on to close the socket.                        *)
SessionClosedHandler(c, s, back) ==
  /\ state_' = [state_ EXCEPT ![s] = "Canceled"]
  /\ IF state_[s] = "Canceled" THEN Return(c, back)
                               ELSE Visit(c, s, "closeSocket", arg[c])
  /\ UNCHANGED <<sending_in_progress_, next_buffer_to_send_, old>>

CloseSocket(c) ==
  /\ at[c] = "closeSocket"
  /\ conn' = [conn EXCEPT ![on[c]] = "closed"]
  /\ at' = [at EXCEPT ![c] = "closedHandler"]
  /\ UNCHANGED <<memberVars, reading, writes, tickets, wire, on, arg, old,
                 historyVars>>

(* The session_closed_handler_ the publisher gave the session.             *)
ClosedHandler(c, back) ==
  /\ at[c] = "closedHandler"
  /\ closedCalls' = [closedCalls EXCEPT ![on[c]] = @ + 1]
  /\ Return(c, back)
  /\ UNCHANGED <<memberVars, socketVars, old, sent>>

-----------------------------------------------------------------------------
(* Reading the subscriber's handshake, on the strand.  A read that is      *)
(* started on a closed socket just fails.                                  *)

AfterRead == [headerLength  |-> {"headerContent"},
              headerContent |-> {"discard", "payload"},
              discard       |-> {"payload"}]

(* A read completes and the function it leads to starts the next one.      *)
ReadCompletes(s) ==
  /\ at[s] = "idle"
  /\ reading[s] \in {"headerLength", "headerContent", "discard"}
  /\ conn[s] # "closed"
  /\ \E r \in AfterRead[reading[s]] :
       reading' = [reading EXCEPT ![s] =
                     IF state_[s] = "Canceled" THEN "none" ELSE r]
  /\ UNCHANGED <<memberVars, conn, writes, tickets, wire, contextVars,
                 historyVars>>

(* The read fails, or delivers a header or a message that is not accepted: *)
(* header too short, no payload, not a handshake.                          *)
ReadFails(s) ==
  /\ at[s] = "idle"
  /\ reading[s] # "none"
  /\ reading' = [reading EXCEPT ![s] = "none"]
  /\ SessionClosedHandler(s, s, "idle")
  /\ UNCHANGED <<conn, writes, tickets, wire, historyVars>>

(* Faulty variant: Running is stored before the response is sent.          *)
HandshakeReceivedRunsEarly(s) ==
  /\ at[s] = "idle"
  /\ reading[s] = "payload"
  /\ conn[s] # "closed"
  /\ reading' = [reading EXCEPT ![s] = "none"]
  /\ IF state_[s] = "Canceled"
     THEN UNCHANGED <<state_, at, on, arg>>
     ELSE Visit(s, s, "write", Handshake)
          /\ state_' = [state_ EXCEPT ![s] = "Running"]
  /\ UNCHANGED <<sending_in_progress_, next_buffer_to_send_, conn, writes,
                 tickets, wire, old, historyVars>>

(* The handshake is complete: sendProtocolHandshakeResponse() up to its    *)
(* call of sendBufferToClient.                                             *)
HandshakeReceived(s) ==
  /\ at[s] = "idle"
  /\ reading[s] = "payload"
  /\ conn[s] # "closed"
  /\ reading' = [reading EXCEPT ![s] = "none"]
  /\ IF state_[s] = "Canceled" THEN UNCHANGED <<at, on, arg>>
                               ELSE Visit(s, s, "write", Handshake)
  /\ UNCHANGED <<memberVars, conn, writes, tickets, wire, old, historyVars>>

(* Faulty variant: the old state is not looked at.                         *)
SetRunningForGood(s) ==
  /\ at[s] = "setRunning"
  /\ state_' = [state_ EXCEPT ![s] = "Running"]
  /\ Return(s, "idle")
  /\ UNCHANGED <<sending_in_progress_, next_buffer_to_send_, socketVars, old,
                 historyVars>>

(* The rest of sendProtocolHandshakeResponse(): Running is stored first    *)
(* and taken back when the state was not Handshaking.                      *)
SetRunning(s) ==
  /\ at[s] = "setRunning"
  /\ state_' = [state_ EXCEPT ![s] = "Running"]
  /\ IF state_[s] = "Handshaking"
     THEN Return(s, "idle") /\ UNCHANGED old
     ELSE Visit(s, s, "restore", arg[s]) /\ old' = [old EXCEPT ![s] = state_[s]]
  /\ UNCHANGED <<sending_in_progress_, next_buffer_to_send_, socketVars,
                 historyVars>>

RestoreState(s) ==
  /\ at[s] = "restore"
  /\ state_' = [state_ EXCEPT ![s] = old[s]]
  /\ Return(s, "idle")
  /\ UNCHANGED <<sending_in_progress_, next_buffer_to_send_, socketVars, old,
                 historyVars>>

-----------------------------------------------------------------------------
(* Sending.                                                                *)

(* sendDataBuffer() up to its lock.                                        *)
SendDataBuffer(u, s, b, back) ==
  /\ IF state_[s] = "Canceled" THEN Return(u, back)
                               ELSE Visit(u, s, "enqueue", b)
  /\ UNCHANGED <<memberVars, socketVars, old, closedCalls>>

(* Faulty variant: the flag is not set.                                    *)
EnqueueUnflagged(u, back) ==
  LET s == on[u] IN
  /\ at[u] = "enqueue"
  /\ NextBufferMutexFree(s)
  /\ \/ /\ state_[s] = "Running" /\ ~ sending_in_progress_[s]
        /\ Visit(u, s, "write", arg[u])
        /\ UNCHANGED next_buffer_to_send_
     \/ /\ state_[s] # "Running" \/ sending_in_progress_[s]
        /\ next_buffer_to_send_' = [next_buffer_to_send_ EXCEPT ![s] = arg[u]]
        /\ Return(u, back)
  /\ UNCHANGED <<state_, sending_in_progress_, socketVars, old, historyVars>>

(* Faulty variant: a session that is not running keeps no buffer.          *)
EnqueueDropped(u, back) ==
  LET s == on[u] IN
  /\ at[u] = "enqueue"
  /\ NextBufferMutexFree(s)
  /\ IF state_[s] = "Running" /\ ~ sending_in_progress_[s]
     THEN /\ sending_in_progress_' = [sending_in_progress_ EXCEPT ![s] = TRUE]
          /\ Visit(u, s, "write", arg[u])
     ELSE Return(u, back) /\ UNCHANGED sending_in_progress_
  /\ UNCHANGED <<state_, next_buffer_to_send_, socketVars, old, historyVars>>

(* Under next_buffer_mutex_: send the buffer now, or keep it as the next   *)
(* one in the place of an older one.                                       *)
Enqueue(u, back) ==
  LET s == on[u] IN
  /\ at[u] = "enqueue"
  /\ NextBufferMutexFree(s)
  /\ \/ /\ state_[s] = "Running" /\ ~ sending_in_progress_[s]
        /\ sending_in_progress_' = [sending_in_progress_ EXCEPT ![s] = TRUE]
        /\ Visit(u, s, "write", arg[u])
        /\ UNCHANGED next_buffer_to_send_
     \/ /\ state_[s] # "Running" \/ sending_in_progress_[s]
        /\ next_buffer_to_send_' = [next_buffer_to_send_ EXCEPT ![s] = arg[u]]
        /\ Return(u, back)
        /\ UNCHANGED sending_in_progress_
  /\ UNCHANGED <<state_, socketVars, old, historyVars>>

(* sendBufferToClient(): start an async_write unless canceled.             *)
SendBufferToClient(c, back) ==
  LET s == on[c] IN
  /\ at[c] = "write"
  /\ IF state_[s] = "Canceled"
     THEN UNCHANGED <<writes, tickets>>
     ELSE /\ writes' = [writes EXCEPT ![s] = @ \cup
               {[buf |-> arg[c], left |-> ChunksOf(arg[c]), ticket |-> tickets[s]]}]
          /\ tickets' = [tickets EXCEPT ![s] = @ + 1]
  /\ Return(c, IF arg[c] = Handshake THEN "setRunning" ELSE back)
  /\ UNCHANGED <<memberVars, conn, reading, wire, old, historyVars>>

(* Faulty variant: only the completion of a message looks at the next one. *)
WriteCompletesDataOnly(s, w) ==
  /\ at[s] = "idle"
  /\ w \in writes[s] /\ w.left = 0
  /\ writes' = [writes EXCEPT ![s] = @ \ {w}]
  /\ IF state_[s] = "Canceled" \/ w.buf = Handshake
     THEN UNCHANGED <<at, on, arg>>
     ELSE Visit(s, s, "takeNext", w.buf)
  /\ UNCHANGED <<memberVars, conn, reading, tickets, wire, old, historyVars>>

(* The completion handler of a write.                                      *)
WriteCompletes(s, w) ==
  /\ at[s] = "idle"
  /\ w \in writes[s] /\ w.left = 0
  /\ writes' = [writes EXCEPT ![s] = @ \ {w}]
  /\ IF state_[s] = "Canceled" THEN UNCHANGED <<at, on, arg>>
                               ELSE Visit(s, s, "takeNext", w.buf)
  /\ UNCHANGED <<memberVars, conn, reading, tickets, wire, old, historyVars>>

WriteFails(s, w) ==
  /\ at[s] = "idle"
  /\ w \in writes[s] /\ w.left > 0
  /\ conn[s] # "up"
  /\ writes' = [writes EXCEPT ![s] = @ \ {w}]
  /\ SessionClosedHandler(s, s, "idle")
  /\ UNCHANGED <<conn, reading, tickets, wire, historyVars>>

(* Faulty variants: the next buffer is not cleared; its absence is missed. *)
TakeNextUncleared(s) ==
  /\ at[s] = "takeNext"
  /\ NextBufferMutexFree(s)
  /\ IF next_buffer_to_send_[s] # NoBuffer
     THEN /\ Visit(s, s, "write", next_buffer_to_send_[s])
          /\ UNCHANGED sending_in_progress_
     ELSE /\ sending_in_progress_' = [sending_in_progress_ EXCEPT ![s] = FALSE]
          /\ Return(s, "idle")
  /\ UNCHANGED <<state_, next_buffer_to_send_, socketVars, old, historyVars>>

TakeNextUnchecked(s) ==
  /\ at[s] = "takeNext"
  /\ NextBufferMutexFree(s)
  /\ Visit(s, s, "write", next_buffer_to_send_[s])
  /\ next_buffer_to_send_' = [next_buffer_to_send_ EXCEPT ![s] = NoBuffer]
  /\ UNCHANGED <<state_, sending_in_progress_, socketVars, old, historyVars>>

(* Its critical section: send the next buffer, or note that none is sent.  *)
TakeNext(s) ==
  /\ at[s] = "takeNext"
  /\ NextBufferMutexFree(s)
  /\ IF next_buffer_to_send_[s] # NoBuffer
     THEN /\ Visit(s, s, "write", next_buffer_to_send_[s])
          /\ next_buffer_to_send_' = [next_buffer_to_send_ EXCEPT ![s] = NoBuffer]
          /\ UNCHANGED sending_in_progress_
     ELSE /\ sending_in_progress_' = [sending_in_progress_ EXCEPT ![s] = FALSE]
          /\ Return(s, "idle")
          /\ UNCHANGED next_buffer_to_send_
  /\ UNCHANGED <<state_, socketVars, old, historyVars>>

-----------------------------------------------------------------------------
(* The network and asio's reactor: the first pieces of the writes leave in *)
(* the order the writes were started, later pieces in any order.           *)
Begun(w) == w.left < ChunksOf(w.buf)

Transmit(s, w) ==
  /\ conn[s] # "closed"
  /\ w \in writes[s] /\ w.left > 0
  /\ Begun(w) \/ \A v \in writes[s] : v.ticket < w.ticket => Begun(v)
  /\ writes' = [writes EXCEPT ![s] = (@ \ {w}) \cup {[w EXCEPT !.left = @ - 1]}]
  /\ wire' = [wire EXCEPT ![s] = Append(@, w.buf)]
  /\ UNCHANGED <<memberVars, conn, reading, tickets, contextVars, historyVars>>

ConnectionLost(s) ==
  /\ conn[s] = "up"
  /\ conn' = [conn EXCEPT ![s] = "lost"]
  /\ UNCHANGED <<memberVars, reading, writes, tickets, wire, contextVars,
                 historyVars>>

-----------------------------------------------------------------------------
(* A publisher that gives this session its messages one after another      *)
(* (send() holds publisher_sessions_mutex_ while it does) and cancels it   *)
(* at any time, from any thread.                                           *)

HandshakePending(s) ==
  \/ state_[s] # "Running" \/ at[s] = "restore"
  \/ \E w \in writes[s] : w.buf = Handshake
  \/ at[s] = "takeNext" /\ arg[s] = Handshake

Submit(u, s) ==
  /\ at[u] = "idle"
  /\ state_[s] # "NotStarted"
  /\ SendDuringHandshake \/ state_[s] = "Canceled" \/ ~ HandshakePending(s)
  /\ \A v \in User : at[v] \notin {"enqueue", "write"}
  /\ sent < MaxSends
  /\ sent' = sent + 1
  /\ SendDataBuffer(u, s, sent + 1, "idle")

Cancel(u, s) ==
  /\ at[u] = "idle"
  /\ state_[s] # "NotStarted"
  /\ SessionClosedHandler(u, s, "idle")
  /\ UNCHANGED <<socketVars, historyVars>>

ReadStep(s) == ReadCompletes(s) \/ ReadFails(s) \/ HandshakeReceived(s)

StrandStep(s) ==
  \/ SetRunning(s) \/ RestoreState(s) \/ TakeNext(s)
  \/ SendBufferToClient(s, "idle")
  \/ \E w \in writes[s] : WriteCompletes(s, w) \/ WriteFails(s, w)
  \/ CloseSocket(s) \/ ClosedHandler(s, "idle")

UserStep(u) ==
  \/ Enqueue(u, "idle") \/ SendBufferToClient(u, "idle")
  \/ CloseSocket(u) \/ ClosedHandler(u, "idle")

NetworkStep(s) == \E w \in writes[s] : Transmit(s, w)

Next ==
  \/ \E s \in Session : Start(s) \/ ReadStep(s) \/ StrandStep(s)
                        \/ NetworkStep(s) \/ ConnectionLost(s)
  \/ \E u \in User : UserStep(u)
  \/ \E u \in User, s \in Session : Submit(u, s) \/ Cancel(u, s)

Spec == Init /\ [][Next]_vars

(* Threads of the executor and of the user run on, and the network takes   *)
(* what it is given.  Nothing is assumed of the peer: it may never send    *)
(* its handshake.                                                          *)
FairSpec ==
  /\ Spec
  /\ \A s \in Session : WF_vars(StrandStep(s)) /\ WF_vars(NetworkStep(s))
  /\ \A u \in User : WF_vars(UserStep(u))

-----------------------------------------------------------------------------
(* Properties.                                                             *)

(* The connection is up and nobody has begun to close it.                  *)
Live(s) ==
  /\ conn[s] = "up"
  /\ \A c \in Context : ~ (at[c] = "closeSocket" /\ on[c] = s)

(* Something is under way whose completion looks at the next buffer.       *)
WriteUnderWay(s) ==
  \/ writes[s] # {}
  \/ at[s] = "takeNext"
  \/ \E c \in Context : at[c] = "write" /\ on[c] = s

(* No lost wake-up between sendDataBuffer() and the completion handlers:   *)
(* on a live session past the handshake a stored next buffer always has a  *)
(* write under way whose completion handler will find it, and the flag     *)
(* sending_in_progress_ is never left standing without such a write.       *)
NextIsServed ==
  \A s \in Session :
    /\ Live(s) /\ (sending_in_progress_[s]
                    \/ (state_[s] = "Running" /\ next_buffer_to_send_[s] # NoBuffer))
    => WriteUnderWay(s)

(* The handshake response is the first thing a live connection carries:    *)
(* no message overtakes it, although it is sent without the mutex and      *)
(* before Running is stored.                                               *)
HandshakeLeadsLiveWire ==
  \A s \in Session : Live(s) /\ wire[s] # <<>> => Head(wire[s]) = Handshake

(* A buffer is written at most once: the completion handler that takes the *)
(* next buffer has cleared it before another one can look.                 *)
WrittenAtMostOnce ==
  \A s \in Session : \A b \in 0 .. sent :
    Cardinality({i \in DOMAIN wire[s] : wire[s][i] = b})
      + MapThenSumSet(LAMBDA w : w.left, {w \in writes[s] : w.buf = b})
    <= ChunksOf(b)

(* What the subscriber gets, when nobody sends before the handshake is     *)
(* through, is the messages whole, in the order they were sent: a write is *)
(* only started when the one before it is complete.                        *)
WireInOrder ==
  \A s \in Session : \A i, j \in DOMAIN wire[s] :
    i < j => wire[s][i] <= wire[s][j]

(* Only one caller goes on to close the session and runs the closed        *)
(* handler, unless the cancel fell between the two halves of               *)
(* sendProtocolHandshakeResponse(), whose restoring store (old) lets one   *)
(* more caller see the session alive.                                      *)
ClosedTwiceOnlyByRestore ==
  \A s \in Session : closedCalls[s] <= IF old[s] = "Canceled" THEN 2 ELSE 1

(* A buffer stored as the next one of a running session is written, or a   *)
(* newer one takes its place, or the connection ends.                      *)
NextIsWritten ==
  \A s \in Session : \A b \in 1 .. MaxSends :
    (state_[s] = "Running" /\ next_buffer_to_send_[s] = b)
      ~> (b \in ToSet(wire[s]) \/ next_buffer_to_send_[s] > b \/ ~ Live(s))

(* A canceled session ends closed and canceled for good, even when the     *)
(* cancel falls between the two stores of sendProtocolHandshakeResponse(). *)
CancelIsFinal ==
  \A s \in Session :
    (state_[s] = "Canceled") ~> [](state_[s] = "Canceled" /\ conn[s] = "closed")

-----------------------------------------------------------------------------
(* What the documentation says, and the code does not keep.                *)

(* publisher.h:211, send(): "1 Element is currently sent to the            *)
(* subscriber": the pieces of a message are not mixed with another's.      *)
FramesAreWhole ==
  \A s \in Session : \A i, j, k \in DOMAIN wire[s] :
    i < j /\ j < k /\ wire[s][i] = wire[s][k] => wire[s][j] = wire[s][i]
=============================================================================
