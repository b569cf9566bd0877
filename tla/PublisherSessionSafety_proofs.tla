------------------- MODULE PublisherSessionSafety_proofs -------------------
(***************************************************************************)
(* How a session writes and closes: the order in which its messages leave, *)
(* when nobody sends before the handshake is through (the argument is      *)
(* about the abstract queue: each step of a session is one of its queue);  *)
(* that no buffer is written twice, and how often a session is closed,     *)
(* whoever sends and cancels when.                                         *)
(***************************************************************************)
EXTENDS PublisherSessionQueue_proofs, FiniteSetTheorems

USE SessionAssumption DEF Context, Buffer, Handshake, NoBuffer

-----------------------------------------------------------------------------
(* Order.                                                                  *)

Sending(u) == at[u] \in {"enqueue", "write"}

(* publisher_sessions_mutex_: one user at a time is inside send(), with    *)
(* the newest message.                                                     *)
SendersOK ==
  /\ \A u, v \in User : Sending(u) /\ Sending(v) => u = v
  /\ \A u \in User : at[u] = "enqueue" => arg[u] = sent

(* All that has left the session is at most b.                             *)
WireUpTo(s, b) == \A i \in DOMAIN wire[s] : wire[s][i] <= b

(* The wire, the current buffer, the next one and the newest message are   *)
(* in order, and a next buffer waits behind a current one.                 *)
OrderOK(s) ==
  /\ \A i, j \in DOMAIN wire[s] : i < j => wire[s][i] <= wire[s][j]
  /\ CurrentOf(s) \in Buffer \cup {NoBuffer} /\ LeftOf(s) \in Nat
  /\ CurrentOf(s) # NoBuffer => WireUpTo(s, CurrentOf(s))
  /\ LeftOf(s) > 0 => CurrentOf(s) # NoBuffer
  /\ next_buffer_to_send_[s] # NoBuffer =>
       /\ WireUpTo(s, next_buffer_to_send_[s])
       /\ CurrentOf(s) <= next_buffer_to_send_[s]
  /\ WireUpTo(s, sent) /\ CurrentOf(s) <= sent /\ next_buffer_to_send_[s] <= sent
  /\ PhaseOf(s) = "new" => wire[s] = <<>> /\ CurrentOf(s) = NoBuffer
  /\ PhaseOf(s) = "open" /\ next_buffer_to_send_[s] # NoBuffer => CurrentOf(s) # NoBuffer

OrderInv == QuietInv /\ SendersOK /\ \A s \in Session : OrderOK(s)

-----------------------------------------------------------------------------
(* Nobody but a user who submits a message begins to send.                 *)

GoesOnSending(u) ==
  Sending(u)' => Sending(u) /\ (at'[u] = "enqueue" => at[u] = "enqueue" /\ arg'[u] = arg[u])

LEMMA MovesGoOn ==
  ASSUME NEW c \in Context, NEW label, NEW s, NEW b, Moves(c, label, s, b),
         label # "enqueue", c \in User /\ label = "write" => Sending(c)
  PROVE  \A v \in User : GoesOnSending(v)
BY DEF Moves, GoesOnSending, Sending

LEMMA OthersGoOn ==
  ASSUME IInv, Next, ~ \E u \in User, s \in Session : Submit(u, s)
  PROVE  sent' = sent /\ \A v \in User : GoesOnSending(v)
<1>c. ContextsOK /\ Session \subseteq Context /\ User \subseteq Context
  BY DEF IInv, TypeInv
<1>close. ASSUME NEW c \in Context, NEW s \in Session, SessionClosedHandler(c, s, "idle")
          PROVE  \A v \in User : GoesOnSending(v)
  BY <1>c, <1>close, VisitMoves, ReturnMoves, MovesGoOn DEF SessionClosedHandler
<1>still. UNCHANGED <<at, arg>> => \A v \in User : GoesOnSending(v)
  BY DEF GoesOnSending, Sending
<1>away. ASSUME NEW c \in Context, CloseSocket(c) \/ ClosedHandler(c, "idle")
         PROVE  sent' = sent /\ \A v \in User : GoesOnSending(v)
  <2>1. CASE CloseSocket(c)
    BY <1>c, <2>1 DEF CloseSocket, historyVars, ContextsOK, ContextsTypeOK, GoesOnSending, Sending
  <2>2. CASE ClosedHandler(c, "idle")
    BY <1>c, <2>2, ReturnMoves, MovesGoOn DEF ClosedHandler
  <2>3. QED
    BY <1>away, <2>1, <2>2
<1>write. ASSUME NEW c \in Context, SendBufferToClient(c, "idle")
          PROVE  sent' = sent /\ \A v \in User : GoesOnSending(v)
  <2>1. sent' = sent
    BY <1>write DEF SendBufferToClient, historyVars
  <2>2. CASE arg[c] = Handshake
    <3>1. Visit(c, Home(c), "setRunning", Handshake)
      BY <1>write, <2>2 DEF SendBufferToClient, Return
    <3>2. QED
      BY <1>c, <2>1, <3>1, VisitMoves, MovesGoOn
  <2>3. CASE arg[c] # Handshake
    <3>1. Return(c, "idle")
      BY <1>write, <2>3 DEF SendBufferToClient
    <3>2. QED
      BY <1>c, <2>1, <3>1, ReturnMoves, MovesGoOn
  <2>4. QED
    BY <2>2, <2>3
<1>1. ASSUME NEW s \in Session, Start(s) \/ ConnectionLost(s) \/ ReadCompletes(s)
      PROVE  sent' = sent /\ \A v \in User : GoesOnSending(v)
  BY <1>1, <1>still DEF Start, ConnectionLost, ReadCompletes, contextVars, historyVars
<1>2. ASSUME NEW s \in Session, ReadFails(s) \/ HandshakeReceived(s)
      PROVE  sent' = sent /\ \A v \in User : GoesOnSending(v)
  <2>1. CASE ReadFails(s)
    BY <1>c, <1>close, <2>1 DEF ReadFails, historyVars
  <2>2. CASE HandshakeReceived(s)
    <3>1. UNCHANGED <<at, arg>> \/ Moves(s, "write", s, Handshake)
      BY <1>c, <2>2, VisitMoves DEF HandshakeReceived
    <3>2. QED
      BY <1>c, <1>still, <2>2, <3>1, MovesGoOn DEF HandshakeReceived, historyVars
  <2>3. QED
    BY <1>2, <2>1, <2>2
<1>3. ASSUME NEW s \in Session, SetRunning(s) \/ RestoreState(s) \/ TakeNext(s)
      PROVE  sent' = sent /\ \A v \in User : GoesOnSending(v)
  <2>1. sent' = sent
    BY <1>3 DEF SetRunning, RestoreState, TakeNext, historyVars
  <2>2. \/ Return(s, "idle") \/ Visit(s, s, "restore", arg[s])
        \/ Visit(s, s, "write", next_buffer_to_send_[s])
    BY <1>3 DEF SetRunning, RestoreState, TakeNext
  <2>3. QED
    BY <1>c, <2>1, <2>2, VisitMoves, ReturnMoves, MovesGoOn
<1>4. ASSUME NEW s \in Session, NEW w \in writes[s], WriteCompletes(s, w) \/ WriteFails(s, w)
      PROVE  sent' = sent /\ \A v \in User : GoesOnSending(v)
  <2>1. CASE WriteCompletes(s, w)
    <3>1. UNCHANGED <<at, arg>> \/ Moves(s, "takeNext", s, w.buf)
      BY <1>c, <2>1, VisitMoves DEF WriteCompletes
    <3>2. QED
      BY <1>c, <1>still, <2>1, <3>1, MovesGoOn DEF WriteCompletes, historyVars
  <2>2. CASE WriteFails(s, w)
    BY <1>c, <1>close, <2>2 DEF WriteFails, historyVars
  <2>3. QED
    BY <1>4, <2>1, <2>2
<1>5. ASSUME NEW s \in Session, NEW w \in writes[s], Transmit(s, w)
      PROVE  sent' = sent /\ \A v \in User : GoesOnSending(v)
  BY <1>5, <1>still DEF Transmit, contextVars, historyVars
<1>6. ASSUME NEW u \in User, Enqueue(u, "idle")
      PROVE  sent' = sent /\ \A v \in User : GoesOnSending(v)
  <2>1. at[u] = "enqueue" /\ sent' = sent
    BY <1>6 DEF Enqueue, historyVars
  <2>2. Visit(u, on[u], "write", arg[u]) \/ Return(u, "idle")
    BY <1>6 DEF Enqueue
  <2>3. QED
    BY <1>c, <2>1, <2>2, VisitMoves, ReturnMoves, MovesGoOn DEF Sending
<1>7. ASSUME NEW u \in User, NEW s \in Session, Cancel(u, s)
      PROVE  sent' = sent /\ \A v \in User : GoesOnSending(v)
  BY <1>7, <1>c, <1>close DEF Cancel, historyVars
<1>8. QED
  BY <1>1, <1>2, <1>3, <1>4, <1>5, <1>6, <1>7, <1>c, <1>away, <1>write
     DEF Next, ReadStep, StrandStep, NetworkStep, UserStep

LEMMA SendersKept ==
  ASSUME IInv, SendersOK, Next PROVE SendersOK' /\ sent \in Nat /\ sent' \in Nat /\ sent <= sent'
<1>t. sent \in Nat /\ ContextsOK
  BY DEF IInv, TypeInv, MembersTypeOK
<1>1. CASE ~ \E u \in User, s \in Session : Submit(u, s)
  <2>1. sent' = sent /\ \A v \in User : GoesOnSending(v)
    BY <1>1, OthersGoOn
  <2>2. QED
    BY <1>t, <2>1 DEF SendersOK, GoesOnSending, Sending
<1>2. ASSUME NEW u \in User, NEW s \in Session, Submit(u, s)
      PROVE  SendersOK' /\ sent' \in Nat /\ sent <= sent'
  <2>1. sent' = sent + 1 /\ \A v \in User : ~ Sending(v)
    BY <1>2 DEF Submit, Sending
  <2>2. \/ Moves(u, "idle", Home(u), NoBuffer) \/ Moves(u, "enqueue", s, sent + 1)
    BY <1>2, <1>t, VisitMoves, ReturnMoves DEF Submit, SendDataBuffer
  <2>3. \A v \in User : Sending(v)' => v = u /\ arg'[u] = sent + 1
    BY <2>1, <2>2 DEF Moves, Sending
  <2>4. QED
    BY <1>t, <2>1, <2>3 DEF SendersOK, Sending
<1>3. QED
  BY <1>1, <1>2, <1>t

-----------------------------------------------------------------------------
(* A step of the queue keeps the order.                                    *)

LEMMA OrderInit == Init => OrderInv
<1> SUFFICES ASSUME Init PROVE OrderInv
  OBVIOUS
<1>1. QuietInv /\ SendersOK
  BY QuietInit DEF Init, SendersOK, Sending
<1>2. ASSUME NEW s \in Session PROVE OrderOK(s)
  <2>1. Busy(s) = {} /\ writes[s] = {}
    BY DEF Init, Busy, Holder
  <2>2. CurrentOf(s) = NoBuffer /\ LeftOf(s) = 0
    BY <2>1, InHandNow DEF InHand
  <2>3. wire[s] = <<>> /\ next_buffer_to_send_[s] = NoBuffer /\ sent = 0
    BY DEF Init
  <2>4. QED
    BY <2>2, <2>3 DEF OrderOK, WireUpTo
<1>3. QED
  BY <1>1, <1>2 DEF OrderInv

LEMMA OrderStep ==
  ASSUME TypeInv, TypeInv', SendersOK, sent \in Nat, sent' \in Nat, sent <= sent',
         NEW s \in Session, OrderOK(s), QueueStep(s)
  PROVE  OrderOK(s)'
<1>types. /\ wire[s] \in Seq(Nat) /\ wire'[s] \in Seq(Nat)
          /\ next_buffer_to_send_[s] \in Nat \cup {-1}
          /\ next_buffer_to_send_'[s] \in Nat \cup {-1}
          /\ CurrentOf(s) \in Nat \cup {-1} /\ LeftOf(s) \in Nat
          /\ Chunks \in Nat
  BY DEF TypeInv, MembersTypeOK, OrderOK
<1>1. CASE QueueSame(s)
  BY <1>1, <1>types DEF QueueSame, Continues, NextAndWireSame, OrderOK, WireUpTo
<1>2. CASE OpenStep(s)
  <2>1. wire'[s] = <<>> /\ CurrentOf(s)' = 0 /\ LeftOf(s)' = 1
        /\ next_buffer_to_send_'[s] = next_buffer_to_send_[s] /\ PhaseOf(s)' = "open"
    BY <1>2 DEF OpenStep, Begins, NextAndWireSame, OrderOK
  <2>2. QED
    BY <1>types, <2>1 DEF OrderOK, WireUpTo
<1>3. ASSUME NEW u \in User, at[u] = "enqueue", GiveStep(s, arg[u]) PROVE OrderOK(s)'
  <2>1. arg[u] = sent /\ wire'[s] = wire[s] /\ PhaseOf(s)' = PhaseOf(s)
    BY <1>3 DEF SendersOK, GiveStep
  <2>2. CASE PhaseOf(s) = "open" /\ CurrentOf(s) = NoBuffer
    <3>1. next_buffer_to_send_[s] = NoBuffer
      BY <2>2 DEF OrderOK
    <3>2. /\ CurrentOf(s)' = sent /\ LeftOf(s)' = Chunks
          /\ next_buffer_to_send_'[s] = NoBuffer
      BY <1>3, <2>1, <2>2, <3>1 DEF GiveStep, Begins
    <3>3. QED
      BY <1>types, <2>1, <2>2, <3>2 DEF OrderOK, WireUpTo
  <2>3. CASE ~ (PhaseOf(s) = "open" /\ CurrentOf(s) = NoBuffer)
    <3>1. /\ CurrentOf(s)' = CurrentOf(s) /\ LeftOf(s)' = LeftOf(s)
          /\ next_buffer_to_send_'[s] = sent
      BY <1>3, <2>1, <2>3 DEF GiveStep, Continues
    <3>2. QED
      BY <1>types, <2>1, <2>3, <3>1 DEF OrderOK, WireUpTo
  <2>4. QED
    BY <2>2, <2>3
<1>4. CASE CarryStep(s)
  <2>1. /\ CurrentOf(s) \in Nat /\ CurrentOf(s)' = CurrentOf(s)
        /\ LeftOf(s)' \in Nat /\ PhaseOf(s)' = PhaseOf(s)
        /\ next_buffer_to_send_'[s] = next_buffer_to_send_[s]
        /\ wire'[s] = Append(wire[s], CurrentOf(s))
    BY <1>4, <1>types DEF CarryStep, OrderOK
  <2>2. /\ DOMAIN wire'[s] = 1 .. Len(wire[s]) + 1 /\ DOMAIN wire[s] = 1 .. Len(wire[s])
        /\ \A i \in DOMAIN wire'[s] :
             wire'[s][i] = IF i \in DOMAIN wire[s] THEN wire[s][i] ELSE CurrentOf(s)
    BY <1>types, <2>1
  <2>3. WireUpTo(s, CurrentOf(s)) /\ PhaseOf(s)' # "new"
    BY <1>4, <2>1 DEF OrderOK
  <2>4. \A b \in Nat : CurrentOf(s) <= b => \A i \in DOMAIN wire'[s] : wire'[s][i] <= b
    BY <1>types, <2>1, <2>2, <2>3 DEF WireUpTo
  <2>5. \A i, j \in DOMAIN wire'[s] : i < j => wire'[s][i] <= wire'[s][j]
    <3>1. SUFFICES ASSUME NEW i \in DOMAIN wire'[s], NEW j \in DOMAIN wire'[s], i < j
                   PROVE  wire'[s][i] <= wire'[s][j]
      OBVIOUS
    <3>2. i \in DOMAIN wire[s] /\ wire'[s][i] = wire[s][i]
      BY <1>types, <2>2, <3>1
    <3>3. wire[s][i] <= CurrentOf(s)
      BY <2>3, <3>2 DEF WireUpTo
    <3>4. j \in DOMAIN wire[s] => wire[s][i] <= wire[s][j]
      BY <3>1, <3>2 DEF OrderOK
    <3>5. QED
      BY <2>2, <3>2, <3>3, <3>4
  <2>6. /\ CurrentOf(s) <= sent'
        /\ next_buffer_to_send_[s] # NoBuffer => CurrentOf(s) <= next_buffer_to_send_[s]
        /\ next_buffer_to_send_[s] <= sent'
    BY <1>types, <2>1 DEF OrderOK
  <2>7. /\ WireUpTo(s, CurrentOf(s))' /\ WireUpTo(s, sent)'
        /\ next_buffer_to_send_'[s] # NoBuffer => WireUpTo(s, next_buffer_to_send_[s])'
    <3>1. \A i \in DOMAIN wire'[s] : wire'[s][i] <= CurrentOf(s)'
      BY <2>1, <2>4
    <3>2. sent' \in Nat => \A i \in DOMAIN wire'[s] : wire'[s][i] <= sent'
      BY <2>4, <2>6
    <3>3. next_buffer_to_send_[s] # NoBuffer =>
            \A i \in DOMAIN wire'[s] : wire'[s][i] <= next_buffer_to_send_[s]
      BY <1>types, <2>4, <2>6
    <3>4. QED
      BY <2>1, <3>1, <3>2, <3>3 DEF WireUpTo
  <2>8. /\ CurrentOf(s)' \in Buffer \cup {NoBuffer} /\ CurrentOf(s)' # NoBuffer
        /\ PhaseOf(s)' # "new" /\ LeftOf(s)' \in Nat
    BY <2>1, <2>3
  <2>9. /\ CurrentOf(s)' <= sent' /\ next_buffer_to_send_'[s] <= sent'
        /\ next_buffer_to_send_'[s] # NoBuffer => CurrentOf(s)' <= next_buffer_to_send_'[s]
    BY <2>1, <2>6
  <2>10. QED
    BY <2>5, <2>7, <2>8, <2>9 DEF OrderOK
<1>5. CASE AdvanceStep(s)
  <2>1. /\ wire'[s] = wire[s] /\ PhaseOf(s)' = PhaseOf(s)
        /\ next_buffer_to_send_'[s] = NoBuffer /\ PhaseOf(s) # "new"
    BY <1>5 DEF AdvanceStep, OrderOK
  <2>2. CASE next_buffer_to_send_[s] # NoBuffer
    <3>1. CurrentOf(s)' = next_buffer_to_send_[s] /\ LeftOf(s)' = Chunks
      BY <1>5, <2>2 DEF AdvanceStep, Begins
    <3>2. QED
      BY <1>types, <2>1, <2>2, <3>1 DEF OrderOK, WireUpTo
  <2>3. CASE next_buffer_to_send_[s] = NoBuffer
    <3>1. CurrentOf(s)' = NoBuffer /\ LeftOf(s)' = 0
      BY <1>5, <2>3 DEF AdvanceStep, Begins
    <3>2. QED
      BY <1>types, <2>1, <3>1 DEF OrderOK, WireUpTo
  <2>4. QED
    BY <2>2, <2>3
<1>6. CASE CloseStep(s)
  <2>1. /\ PhaseOf(s)' = "closed" /\ wire'[s] = wire[s]
        /\ next_buffer_to_send_'[s] = next_buffer_to_send_[s]
        /\ \/ CurrentOf(s)' = NoBuffer /\ LeftOf(s)' = 0
           \/ CurrentOf(s)' = CurrentOf(s) /\ LeftOf(s)' = LeftOf(s)
    BY <1>6 DEF CloseStep, NextAndWireSame, Begins, Continues
  <2>2. QED
    BY <1>types, <2>1 DEF OrderOK, WireUpTo
<1>7. QED
  BY <1>1, <1>2, <1>3, <1>4, <1>5, <1>6 DEF QueueStep

LEMMA OrderKept ==
  ASSUME SendDuringHandshake = FALSE, OrderInv, [Next]_vars PROVE OrderInv'
<1> USE DEF OrderInv, QuietInv
<1>1. QuietInv' /\ TypeInv /\ TypeInv' /\ ContextsOK /\ \A s \in Session : on[s] = s
  BY QuietStep DEF IInv, TypeInv, ContextsOK, WellPlaced
<1>2. CASE Next
  <2>1. SendersOK' /\ sent \in Nat /\ sent' \in Nat /\ sent <= sent'
    BY <1>2, SendersKept
  <2>2. PICK t \in Session : StepOf(t)
    BY <1>2, StepOfOne
  <2>3. Effect(t) /\ \A s \in Session \ {t} : Untouched(s)
    BY <2>2, StepEffect
  <2>4. QueueStep(t)
    BY <1>1, <2>3, EffectIsQueueStep
  <2>5. \A s \in Session \ {t} : QueueStep(s)
    BY <1>1, <2>3, MapFrame DEF QueueStep
  <2>6. \A s \in Session : OrderOK(s)'
    BY <1>1, <2>1, <2>4, <2>5, OrderStep
  <2>7. QED
    BY <1>1, <2>1, <2>6
<1>3. CASE UNCHANGED vars
  <2>1. SendersOK' /\ sent \in Nat /\ sent' = sent
    BY <1>1, <1>3 DEF vars, contextVars, historyVars, SendersOK, Sending, TypeInv, MembersTypeOK
  <2>2. \A s \in Session : Untouched(s)
    BY <1>3 DEF vars, memberVars, socketVars, contextVars, Untouched
  <2>3. \A s \in Session : QueueStep(s)
    BY <1>1, <2>2, MapFrame DEF QueueStep
  <2>4. \A s \in Session : OrderOK(s)'
    BY <1>1, <2>1, <2>3, OrderStep
  <2>5. QED
    BY <1>1, <2>1, <2>4
<1>4. QED
  BY <1>2, <1>3

(* When nobody sends before the handshake is through, the messages of a    *)
(* session leave in the order they were sent, for any number of sessions,  *)
(* senders, cancelers, messages and pieces.                                *)
THEOREM WireAlwaysInOrder ==
  ASSUME SendDuringHandshake = FALSE
  PROVE  Spec => []WireInOrder
<1>1. Spec => []OrderInv
  BY OrderInit, OrderKept, PTL DEF Spec
<1>2. OrderInv => WireInOrder
  BY DEF OrderInv, OrderOK, WireInOrder
<1>3. QED
  BY <1>1, <1>2, PTL

(* So the pieces of one message are never mixed with another's: what       *)
(* publisher.h says of send() is true of such sessions.                    *)
THEOREM FramesWholeWhenQuiet ==
  ASSUME SendDuringHandshake = FALSE
  PROVE  Spec => []FramesAreWhole
<1>1. WireInOrder /\ TypeOK => FramesAreWhole
  <2> SUFFICES ASSUME WireInOrder, TypeOK, NEW s \in Session,
                      NEW i \in DOMAIN wire[s], NEW j \in DOMAIN wire[s], NEW k \in DOMAIN wire[s],
                      i < j, j < k, wire[s][i] = wire[s][k]
               PROVE  wire[s][j] = wire[s][i]
    BY DEF FramesAreWhole
  <2>1. wire[s] \in Seq(Nat)
    BY DEF TypeOK, MembersTypeOK
  <2>2. wire[s][i] <= wire[s][j] /\ wire[s][j] <= wire[s][k]
    BY DEF WireInOrder
  <2>3. wire[s][i] \in Nat /\ wire[s][j] \in Nat
    BY <2>1
  <2>4. QED
    BY <2>2, <2>3
<1>2. QED
  BY <1>1, WireAlwaysInOrder, TypeCorrect, PTL

-----------------------------------------------------------------------------
(* Closing, for any number of contexts that try.                           *)

Away == {"closeSocket", "closedHandler"}

(* The contexts that have won the exchange in sessionClosedHandler() and   *)
(* have not called the closed handler yet.                                 *)
Closers(s) == {c \in Context : on[c] = s /\ at[c] \in Away}

(* What the exchanges so far allow: one winner for the Canceled that is    *)
(* stored now, one for the Canceled that a Running was stored over.        *)
Allowed(s) ==
  (IF state_[s] = "Canceled" THEN 1 ELSE 0) + (IF old[s] = "Canceled" THEN 1 ELSE 0)

CountOK(s) ==
  /\ IsFiniteSet(Closers(s))
  /\ closedCalls[s] \in Nat /\ closedCalls[s] + Cardinality(Closers(s)) <= Allowed(s)
  /\ old[s] = "Canceled" => ~ Opening(s) /\ state_[s] # "NotStarted"

CloseInv == IInv /\ \A s \in Session : CountOK(s)

LEMMA ClosersMove ==
  ASSUME NEW c \in Context, NEW label, NEW s, NEW b, Moves(c, label, s, b), NEW t \in Session
  PROVE  Closers(t)' = (Closers(t) \ {c}) \cup (IF s = t /\ label \in Away THEN {c} ELSE {})
BY DEF Moves, Closers

LEMMA ClosersStay ==
  ASSUME UNCHANGED <<at, on>>, NEW t \in Session PROVE Closers(t)' = Closers(t)
BY DEF Closers

(* A step that lets no further context through.                            *)
LEMMA CountKept ==
  ASSUME NEW s \in Session, CountOK(s), Closers(s)' \subseteq Closers(s),
         closedCalls'[s] = closedCalls[s], old'[s] = old[s],
         state_[s] = "Canceled" => state_'[s] = "Canceled",
         state_'[s] = "NotStarted" => state_[s] = "NotStarted",
         Opening(s)' => Opening(s) \/ state_[s] = "NotStarted"
  PROVE  CountOK(s)'
<1>1. /\ IsFiniteSet(Closers(s)') /\ Cardinality(Closers(s)') \in Nat
      /\ Cardinality(Closers(s)) \in Nat
      /\ Cardinality(Closers(s)') <= Cardinality(Closers(s))
  BY FS_Subset, FS_CardinalityType DEF CountOK
<1>2. Allowed(s) <= Allowed(s)' /\ Allowed(s) \in Nat /\ Allowed(s)' \in Nat
  BY DEF Allowed
<1>3. closedCalls'[s] + Cardinality(Closers(s)') <= Allowed(s)'
  BY <1>1, <1>2 DEF CountOK
<1>4. QED
  BY <1>1, <1>3 DEF CountOK

(* The exchange, by a context that is let through or not.                  *)
LEMMA CountClosing ==
  ASSUME IInv, NEW s \in Session, CountOK(s), NEW c \in Context,
         at[c] = "idle", SessionClosedHandler(c, s, "idle"),
         c \in Session => c = s /\ reading'[s] = "none",
         c \in User => reading'[s] = reading[s],
         closedCalls' = closedCalls
  PROVE  CountOK(s)'
<1>0. ContextsOK /\ c \notin Closers(s) /\ state_ \in [Session -> State] /\ on[s] = s
  BY DEF Closers, Away, IInv, TypeInv, MembersTypeOK, ContextsOK, WellPlaced
<1>1. state_'[s] = "Canceled" /\ old' = old
  BY <1>0 DEF SessionClosedHandler
<1>2. \/ state_[s] = "Canceled" /\ Moves(c, "idle", Home(c), NoBuffer)
      \/ state_[s] # "Canceled" /\ Moves(c, "closeSocket", s, arg[c])
  BY <1>0, VisitMoves, ReturnMoves DEF SessionClosedHandler
<1>3. Opening(s)' => Opening(s)
  BY <1>0, <1>2 DEF Opening, Moves
<1>4. CASE state_[s] = "Canceled"
  <2>1. Closers(s)' \subseteq Closers(s)
    BY <1>2, <1>4, ClosersMove DEF Away
  <2>2. QED
    BY <1>1, <1>3, <1>4, <2>1, CountKept
<1>5. CASE state_[s] # "Canceled"
  <2>1. Closers(s)' = Closers(s) \cup {c}
    BY <1>0, <1>2, <1>5, ClosersMove DEF Away
  <2>2. /\ IsFiniteSet(Closers(s)') /\ Cardinality(Closers(s)) \in Nat
        /\ Cardinality(Closers(s)') = Cardinality(Closers(s)) + 1
    BY <1>0, <2>1, FS_AddElement, FS_CardinalityType DEF CountOK
  <2>3. Allowed(s)' = Allowed(s) + 1 /\ Allowed(s) \in Nat
    BY <1>1, <1>5 DEF Allowed
  <2>4. closedCalls'[s] + Cardinality(Closers(s)') <= Allowed(s)'
    BY <2>2, <2>3 DEF CountOK
  <2>5. QED
    BY <1>1, <1>3, <2>2, <2>4 DEF CountOK
<1>6. QED
  BY <1>4, <1>5

(* A move of a context that neither wins the exchange nor opens.           *)
LEMMA CountMove ==
  ASSUME ContextsOK, NEW t \in Session, CountOK(t),
         NEW c \in Context, NEW label, NEW s, NEW b, Moves(c, label, s, b),
         label \notin Away, UNCHANGED <<state_, old, closedCalls>>,
         reading'[t] = reading[t] \/ reading'[t] = "none",
         c = t /\ ~ Opening(t) => label # "setRunning" /\ (label = "write" => b # Handshake)
  PROVE  CountOK(t)'
<1>1. Closers(t)' \subseteq Closers(t)
  BY ClosersMove
<1>2. Opening(t)' => Opening(t)
  BY DEF Opening, Moves
<1>3. QED
  BY <1>1, <1>2, CountKept

(* Every step of a session keeps its count, and calls no closed handler of *)
(* another.                                                                *)
LEMMA CountStep ==
  ASSUME IInv, NEW t \in Session, CountOK(t), StepOf(t)
  PROVE  CountOK(t)' /\ \A s \in Session \ {t} : closedCalls'[s] = closedCalls[s]
<1>types. /\ ContextsOK /\ Session \subseteq Context /\ User \subseteq Context
          /\ state_ \in [Session -> State] /\ old \in [Session -> State]
          /\ closedCalls \in [Session -> Nat]
  BY DEF IInv, TypeInv, MembersTypeOK, ContextsOK, ContextsTypeOK
<1>own. on[t] = t /\ Home(t) = t /\ t \notin User
  BY <1>types DEF ContextsOK, WellPlaced, Home
<1>inv. OpeningOK(t) /\ ClosingOK(t) /\ TicketsOK(t)
  BY DEF IInv, SessionInv
<1>still. ASSUME UNCHANGED <<at, on, arg, old, closedCalls>>,
                 \/ state_'[t] = state_[t]
                 \/ state_[t] = "NotStarted" /\ state_'[t] = "Handshaking",
                 \/ reading'[t] \in {"none", reading[t]} \/ reading[t] # "none"
                 \/ state_[t] = "NotStarted"
          PROVE  CountOK(t)'
  BY <1>still, ClosersStay, CountKept DEF Opening
<1>close. ASSUME NEW c \in Context, SessionClosedHandler(c, t, "idle"), at[c] = "idle",
                 c \in Session => c = t /\ reading'[t] = "none",
                 c \in User => reading'[t] = reading[t], closedCalls' = closedCalls
          PROVE  CountOK(t)'
  BY <1>close, CountClosing
<1>1. CASE Start(t)
  BY <1>1, <1>types, <1>still DEF Start, contextVars, historyVars
<1>2. CASE ReadCompletes(t) \/ ConnectionLost(t)
  BY <1>2, <1>still DEF ReadCompletes, ConnectionLost, memberVars, contextVars, historyVars
<1>3. CASE ReadFails(t)
  <2>1. reading'[t] = "none" /\ closedCalls' = closedCalls
    BY <1>3 DEF ReadFails, historyVars, IInv, TypeInv, MembersTypeOK
  <2>2. QED
    BY <1>3, <1>types, <1>close, <2>1 DEF ReadFails
<1>4. CASE HandshakeReceived(t)
  <2>1. /\ UNCHANGED <<state_, old, closedCalls>>
        /\ reading'[t] = "none" /\ reading[t] # "none"
    BY <1>4 DEF HandshakeReceived, memberVars, historyVars, IInv, TypeInv, MembersTypeOK
  <2>2. UNCHANGED <<at, on, arg>> \/ Moves(t, "write", t, Handshake)
    BY <1>4, <1>types, VisitMoves DEF HandshakeReceived
  <2>3. CASE UNCHANGED <<at, on, arg>>
    BY <1>still, <2>1, <2>3
  <2>4. CASE Moves(t, "write", t, Handshake)
    <3>1. Opening(t)
      BY <2>1 DEF Opening
    <3>2. QED
      BY <1>types, <2>1, <2>4, <3>1, CountMove DEF Away
  <2>5. QED
    BY <2>1, <2>2, <2>3, <2>4
<1>5. CASE SetRunning(t)
  <2>1. /\ state_'[t] = "Running" /\ closedCalls' = closedCalls /\ at[t] = "setRunning"
        /\ reading' = reading /\ reading[t] = "none" /\ Opening(t)
    BY <1>5, <1>types, <1>inv DEF SetRunning, socketVars, historyVars, OpeningOK, Opening
  <2>2. CASE state_[t] = "Handshaking"
    <3>1. Moves(t, "idle", t, NoBuffer) /\ old' = old
      BY <1>5, <1>types, <1>own, <2>2, ReturnMoves DEF SetRunning
    <3>2. Closers(t)' \subseteq Closers(t)
      BY <3>1, ClosersMove DEF Away
    <3>3. QED
      BY <2>1, <2>2, <3>1, <3>2, CountKept
  <2>3. CASE state_[t] # "Handshaking"
    <3>1. Moves(t, "restore", t, arg[t]) /\ old'[t] = "Canceled" /\ state_[t] = "Canceled"
      BY <1>5, <1>types, <1>inv, <2>1, <2>3, VisitMoves DEF SetRunning, OpeningOK
    <3>2. Closers(t)' = Closers(t)
      BY <1>types, <2>1, <3>1, ClosersMove DEF Away, Closers
    <3>3. old[t] # "Canceled"
      BY <2>1 DEF CountOK
    <3>4. Allowed(t)' = Allowed(t)
      BY <2>1, <3>1, <3>3 DEF Allowed
    <3>5. ~ Opening(t)'
      BY <2>1, <3>1 DEF Opening, Moves
    <3>6. QED
      BY <2>1, <3>2, <3>4, <3>5 DEF CountOK
  <2>4. QED
    BY <1>5, <2>2, <2>3 DEF SetRunning, historyVars
<1>6. CASE RestoreState(t)
  <2>1. /\ Moves(t, "idle", t, NoBuffer) /\ UNCHANGED <<old, closedCalls, reading>>
        /\ state_'[t] = "Canceled"
    BY <1>6, <1>types, <1>own, <1>inv, ReturnMoves
       DEF RestoreState, ClosingOK, socketVars, historyVars
  <2>2. Closers(t)' \subseteq Closers(t) /\ (Opening(t)' => Opening(t))
    BY <2>1, ClosersMove DEF Away, Opening, Moves
  <2>3. QED
    BY <2>1, <2>2, CountKept
<1>7. CASE TakeNext(t)
  <2>1. UNCHANGED <<state_, old, closedCalls, reading>>
    BY <1>7 DEF TakeNext, socketVars, historyVars
  <2>2. \/ Moves(t, "idle", t, NoBuffer)
        \/ Moves(t, "write", t, next_buffer_to_send_[t]) /\ next_buffer_to_send_[t] # Handshake
    BY <1>7, <1>types, <1>own, <1>inv, VisitMoves, ReturnMoves DEF TakeNext, TicketsOK
  <2>3. QED
    BY <1>types, <2>1, <2>2, CountMove DEF Away
<1>8. ASSUME NEW c \in Context, SendBufferToClient(c, "idle"), on[c] = t
      PROVE  CountOK(t)' /\ closedCalls' = closedCalls
  <2>1. UNCHANGED <<state_, old, closedCalls, reading>> /\ at[c] = "write"
    BY <1>8 DEF SendBufferToClient, memberVars, historyVars
  <2>2. CASE arg[c] = Handshake
    <3>1. Moves(c, "setRunning", Home(c), Handshake)
      BY <1>8, <1>types, <2>2, VisitMoves DEF SendBufferToClient, Return
    <3>2. c = t => Opening(t)
      BY <2>1, <2>2 DEF Opening
    <3>3. QED
      BY <1>types, <2>1, <3>1, <3>2, CountMove DEF Away
  <2>3. CASE arg[c] # Handshake
    <3>1. Moves(c, "idle", Home(c), NoBuffer)
      BY <1>8, <1>types, <2>3, ReturnMoves DEF SendBufferToClient
    <3>2. QED
      BY <1>types, <2>1, <3>1, CountMove DEF Away
  <2>4. QED
    BY <2>1, <2>2, <2>3
<1>9. ASSUME NEW w \in writes[t], WriteCompletes(t, w)
      PROVE  CountOK(t)' /\ closedCalls' = closedCalls
  <2>1. UNCHANGED <<state_, old, closedCalls, reading>>
    BY <1>9 DEF WriteCompletes, memberVars, historyVars
  <2>2. UNCHANGED <<at, on, arg>> \/ Moves(t, "takeNext", t, w.buf)
    BY <1>9, <1>types, VisitMoves DEF WriteCompletes
  <2>3. QED
    BY <1>types, <1>still, <2>1, <2>2, CountMove DEF Away
<1>10. ASSUME NEW w \in writes[t], WriteFails(t, w)
       PROVE  CountOK(t)' /\ closedCalls' = closedCalls
  <2>1. reading'[t] = "none" /\ closedCalls' = closedCalls
    BY <1>10, <1>inv
       DEF WriteFails, historyVars, OpeningOK, Opening, TicketsOK, IInv, TypeInv,
           MembersTypeOK, Write
  <2>2. QED
    BY <1>10, <1>types, <1>close, <2>1 DEF WriteFails
<1>11. ASSUME NEW w \in writes[t], Transmit(t, w)
       PROVE  CountOK(t)' /\ closedCalls' = closedCalls
  BY <1>11, <1>still DEF Transmit, memberVars, contextVars, historyVars
<1>12. ASSUME NEW c \in Context, CloseSocket(c), on[c] = t
       PROVE  CountOK(t)' /\ closedCalls' = closedCalls
  <2>1. /\ UNCHANGED <<state_, old, closedCalls, reading>> /\ c \in Closers(t)
        /\ Moves(c, "closedHandler", t, arg[c])
    BY <1>12, <1>types
       DEF CloseSocket, Closers, Away, Moves, ContextsOK, ContextsTypeOK, memberVars, historyVars
  <2>2. Closers(t)' \subseteq Closers(t) /\ (Opening(t)' => Opening(t))
    BY <1>types, <2>1, ClosersMove DEF Opening, Moves
  <2>3. QED
    BY <2>1, <2>2, CountKept
<1>13. ASSUME NEW c \in Context, ClosedHandler(c, "idle"), on[c] = t
       PROVE  CountOK(t)' /\ \A s \in Session \ {t} : closedCalls'[s] = closedCalls[s]
  <2>1. /\ UNCHANGED <<state_, old, reading>> /\ c \in Closers(t)
        /\ closedCalls' = [closedCalls EXCEPT ![t] = @ + 1]
        /\ Moves(c, "idle", Home(c), NoBuffer)
    BY <1>13, <1>types, ReturnMoves DEF ClosedHandler, Closers, Away, memberVars, socketVars
  <2>2. Closers(t)' = Closers(t) \ {c} /\ (Opening(t)' => Opening(t))
    BY <1>types, <2>1, ClosersMove DEF Opening, Moves, Away
  <2>3. /\ IsFiniteSet(Closers(t)') /\ Cardinality(Closers(t)) \in Nat
        /\ Cardinality(Closers(t)') = Cardinality(Closers(t)) - 1
    BY <2>1, <2>2, FS_RemoveElement, FS_CardinalityType DEF CountOK
  <2>4. closedCalls'[t] = closedCalls[t] + 1 /\ Allowed(t)' = Allowed(t) /\ Allowed(t) \in Nat
    BY <1>types, <2>1 DEF Allowed
  <2>5. closedCalls'[t] + Cardinality(Closers(t)') <= Allowed(t)'
    BY <1>types, <2>3, <2>4 DEF CountOK
  <2>6. QED
    BY <1>types, <2>1, <2>2, <2>3, <2>4, <2>5 DEF CountOK
<1>14. ASSUME NEW u \in User, Enqueue(u, "idle"), on[u] = t
       PROVE  CountOK(t)' /\ closedCalls' = closedCalls
  <2>1. UNCHANGED <<state_, old, closedCalls, reading>> /\ u # t
    BY <1>14, <1>own DEF Enqueue, socketVars, historyVars
  <2>2. PICK label, s, b : label \in {"idle", "write"} /\ Moves(u, label, s, b)
    BY <1>14, <1>types, VisitMoves, ReturnMoves DEF Enqueue
  <2>3. QED
    BY <1>types, <2>1, <2>2, CountMove DEF Away
<1>15. ASSUME NEW u \in User, Submit(u, t)
       PROVE  CountOK(t)' /\ closedCalls' = closedCalls
  <2>1. UNCHANGED <<state_, old, closedCalls, reading>> /\ u # t
    BY <1>15, <1>own DEF Submit, SendDataBuffer, memberVars, socketVars
  <2>2. PICK label, s, b : label \in {"idle", "enqueue"} /\ Moves(u, label, s, b)
    BY <1>15, <1>types, VisitMoves, ReturnMoves DEF Submit, SendDataBuffer
  <2>3. QED
    BY <1>types, <2>1, <2>2, CountMove DEF Away
<1>16. ASSUME NEW u \in User, Cancel(u, t)
       PROVE  CountOK(t)' /\ closedCalls' = closedCalls
  BY <1>16, <1>types, <1>close DEF Cancel, socketVars, historyVars
<1>17. CASE ReadStep(t) \/ Start(t) \/ ConnectionLost(t)
  BY <1>1, <1>2, <1>3, <1>4, <1>17
     DEF ReadStep, Start, ConnectionLost, ReadCompletes, ReadFails, HandshakeReceived, historyVars
<1>18. CASE SetRunning(t) \/ RestoreState(t) \/ TakeNext(t)
  BY <1>5, <1>6, <1>7, <1>18 DEF SetRunning, RestoreState, TakeNext, historyVars
<1>19. QED
  BY <1>8, <1>9, <1>10, <1>11, <1>12, <1>13, <1>14, <1>15, <1>16, <1>17, <1>18,
     <1>types, <1>own DEF StepOf, StrandStep, UserStep, NetworkStep

LEMMA CloseInit == Init => CloseInv
<1> SUFFICES ASSUME Init, NEW s \in Session PROVE CountOK(s)
  BY InitInv DEF CloseInv
<1>1. Closers(s) = {} /\ closedCalls[s] = 0 /\ old[s] = "NotStarted" /\ state_[s] = "NotStarted"
  BY DEF Init, Closers, Away
<1>2. QED
  BY <1>1, FS_EmptySet DEF CountOK, Allowed

LEMMA CloseStepKept == CloseInv /\ [Next]_vars => CloseInv'
<1> SUFFICES ASSUME CloseInv, [Next]_vars PROVE CloseInv'
  OBVIOUS
<1> USE DEF CloseInv
<1>1. IInv' /\ ContextsOK /\ \A s \in Session : on[s] = s
  BY StepInv DEF IInv, TypeInv, ContextsOK, WellPlaced
<1>frame. ASSUME NEW s \in Session, Untouched(s), closedCalls'[s] = closedCalls[s]
          PROVE  CountOK(s)'
  <2>1. Closers(s)' = Closers(s) /\ (Opening(s)' <=> Opening(s))
    BY <1>1, <1>frame DEF Untouched, Closers, Opening
  <2>2. QED
    BY <1>frame, <2>1, CountKept DEF Untouched
<1>2. CASE Next
  <2>1. PICK t \in Session : StepOf(t)
    BY <1>2, StepOfOne
  <2>2. \A s \in Session \ {t} : Untouched(s)
    BY <2>1, StepEffect
  <2>3. CountOK(t)' /\ \A s \in Session \ {t} : closedCalls'[s] = closedCalls[s]
    BY <2>1, CountStep
  <2>4. QED
    BY <1>1, <1>frame, <2>2, <2>3
<1>3. CASE UNCHANGED vars
  <2>1. \A s \in Session : Untouched(s) /\ closedCalls'[s] = closedCalls[s]
    BY <1>3 DEF vars, memberVars, socketVars, contextVars, historyVars, Untouched
  <2>2. QED
    BY <1>1, <1>frame, <2>1
<1>4. QED
  BY <1>2, <1>3

(* One caller of sessionClosedHandler() goes on to close the session, or   *)
(* two when Running was stored over a cancel in the middle of              *)
(* sendProtocolHandshakeResponse(): for any number of threads that cancel  *)
(* and of reads and writes that fail.                                      *)
THEOREM ClosedTwiceAtMost == Spec => []ClosedTwiceOnlyByRestore
<1>1. CloseInv => ClosedTwiceOnlyByRestore
  <2> SUFFICES ASSUME CloseInv, NEW s \in Session
               PROVE  closedCalls[s] <= IF old[s] = "Canceled" THEN 2 ELSE 1
    BY DEF ClosedTwiceOnlyByRestore
  <2>1. CountOK(s) /\ Cardinality(Closers(s)) \in Nat
    BY FS_CardinalityType DEF CloseInv, CountOK
  <2>2. QED
    BY <2>1 DEF CountOK, Allowed
<1>2. QED
  BY <1>1, CloseInit, CloseStepKept, PTL DEF Spec

-----------------------------------------------------------------------------
(* No buffer is written twice.                                             *)

(* Where buffer b is on its way through a session: held by a context, kept *)
(* as the next one, in a write, on the wire.                               *)
Holding(s, b) ==
  {c \in Context : at[c] \in {"enqueue", "write"} /\ on[c] = s /\ arg[c] = b}

Waits(s, b) == next_buffer_to_send_[s] = b

WritesOf(s, b) == {w \in writes[s] : w.buf = b}

Copies(s, b) == {i \in DOMAIN wire[s] : wire[s][i] = b}

Unwritten(s, b) == WritesOf(s, b) = {} /\ Copies(s, b) = {}

(* A message that was not sent yet; the response to a handshake that is    *)
(* still being read.                                                       *)
Unborn(s, b) == b > sent \/ (b = Handshake /\ reading[s] # "none")

(* It is in one place at a time, and on the wire no more of it than the    *)
(* write has left.                                                         *)
OnceOK(s, b) ==
  /\ \A c, d \in Holding(s, b) : c = d
  /\ Holding(s, b) # {} => ~ Waits(s, b)
  /\ Holding(s, b) # {} \/ Waits(s, b) => Unwritten(s, b)
  /\ \A v, w \in WritesOf(s, b) : v = w
  /\ IsFiniteSet(Copies(s, b)) /\ Cardinality(Copies(s, b)) <= ChunksOf(b)
  /\ \A w \in WritesOf(s, b) : Cardinality(Copies(s, b)) + w.left <= ChunksOf(b)
  /\ Unborn(s, b) => Holding(s, b) = {} /\ ~ Waits(s, b) /\ Unwritten(s, b)

OnceInv == IInv /\ \A s \in Session, b \in Buffer : OnceOK(s, b)

(* What is left of the writes of a set.                                    *)
LeftIn(S) == MapThenSumSet(LAMBDA w : w.left, S)

LEMMA LeftInNone == LeftIn({}) = 0
<1> DEFINE f == [S \in SUBSET {} |-> 0]
<1>1. f = [S \in SUBSET {} |->
             IF S = {} THEN 0
             ELSE (CHOOSE w \in S : TRUE).left + f[S \ {CHOOSE w \in S : TRUE}]]
  OBVIOUS
<1>2. QED
  BY <1>1 DEF LeftIn, MapThenSumSet, MapThenFoldSet

LEMMA LeftInOne == ASSUME NEW v, v.left \in Nat PROVE LeftIn({v}) = v.left
<1> DEFINE Sum(f) == f = [S \in SUBSET {v} |->
                            IF S = {} THEN 0
                            ELSE (CHOOSE w \in S : TRUE).left + f[S \ {CHOOSE w \in S : TRUE}]]
           g == [S \in SUBSET {v} |-> IF S = {} THEN 0 ELSE v.left]
           h == CHOOSE f : Sum(f)
<1>1. (CHOOSE w \in {v} : TRUE) = v /\ {v} \ {v} = {}
  OBVIOUS
<1>2. g[{}] = 0 /\ g[{v}] = v.left
  OBVIOUS
<1>3. Sum(g)
  <2> SUFFICES ASSUME NEW S \in SUBSET {v}
               PROVE  g[S] = IF S = {} THEN 0
                             ELSE (CHOOSE w \in S : TRUE).left + g[S \ {CHOOSE w \in S : TRUE}]
    OBVIOUS
  <2>1. CASE S = {}
    BY <2>1
  <2>2. CASE S = {v}
    BY <1>1, <1>2, <2>2
  <2>3. QED
    BY <2>1, <2>2
<1>4. h = [S \in SUBSET {v} |->
             IF S = {} THEN 0
             ELSE (CHOOSE w \in S : TRUE).left + h[S \ {CHOOSE w \in S : TRUE}]]
  <2>1. Sum(CHOOSE f : Sum(f))
    BY <1>3
  <2>2. QED
    BY <2>1
<1>5. LeftIn({v}) = h[{v}]
  BY DEF LeftIn, MapThenSumSet, MapThenFoldSet
<1> HIDE DEF h
<1>6. h[{}] = 0 /\ h[{v}] = v.left + h[{v} \ {v}]
  BY <1>1, <1>4
<1>7. QED
  BY <1>1, <1>5, <1>6

(* A step after which the buffer is in no new place.                       *)
LEMMA OnceKept ==
  ASSUME NEW s \in Session, NEW b \in Buffer, OnceOK(s, b),
         Holding(s, b)' \subseteq Holding(s, b), Waits(s, b)' => Waits(s, b),
         WritesOf(s, b)' \subseteq WritesOf(s, b), wire'[s] = wire[s],
         Unborn(s, b)' => Unborn(s, b)
  PROVE  OnceOK(s, b)'
<1>1. Copies(s, b)' = Copies(s, b)
  BY DEF Copies
<1>2. QED
  BY <1>1 DEF OnceOK, Unwritten

LEMMA HoldingMoves ==
  ASSUME NEW c \in Context, NEW label, NEW s, NEW x, Moves(c, label, s, x),
         NEW t \in Session, NEW b \in Buffer
  PROVE  Holding(t, b)' = (Holding(t, b) \ {c})
           \cup (IF label \in {"enqueue", "write"} /\ s = t /\ x = b THEN {c} ELSE {})
BY DEF Moves, Holding

LEMMA EffectWritesOnce ==
  ASSUME IInv, NEW t \in Session, Effect(t), sent \in Nat, sent' \in {sent, sent + 1},
         NEW b \in Buffer, OnceOK(t, b)
  PROVE  OnceOK(t, b)'
<1>types. /\ Session \subseteq Context /\ User \subseteq Context
          /\ writes[t] \subseteq Write /\ wire[t] \in Seq(Nat) /\ on[t] = t
          /\ OpeningOK(t) /\ ClosingOK(t) /\ TicketsOK(t)
          /\ \A u \in User : at[u] \in {"enqueue", "write"} => arg[u] # Handshake
  BY DEF IInv, TypeInv, MembersTypeOK, ContextsOK, WellPlaced, SessionInv
<1>born. ASSUME reading'[t] \in {"none", reading[t]} \/ reading[t] # "none"
         PROVE  Unborn(t, b)' => Unborn(t, b)
  BY <1>born DEF Unborn
<1>moved. ASSUME NEW c \in Context, NEW label, NEW s, NEW x, Moves(c, label, s, x),
                 label \notin {"enqueue", "write"}
          PROVE  Holding(t, b)' \subseteq Holding(t, b)
  BY <1>moved, HoldingMoves
<1>stays. Stays => Holding(t, b)' = Holding(t, b)
  BY DEF Stays, Holding
<1>net. NetSame(t) => WritesOf(t, b)' = WritesOf(t, b) /\ Copies(t, b)' = Copies(t, b)
  BY DEF NetSame, WritesOf, Copies
<1>wait. FlagAndNextSame(t) => (Waits(t, b)' <=> Waits(t, b))
  BY DEF FlagAndNextSame, Waits
<1>1. CASE StartEffect(t)
  <2>1. Holding(t, b)' = Holding(t, b) /\ WritesOf(t, b)' = WritesOf(t, b)
        /\ (Waits(t, b)' <=> Waits(t, b)) /\ wire'[t] = wire[t]
    BY <1>1, <1>stays, <1>net, <1>wait DEF StartEffect, NetSame
  <2>2. writes[t] = {} /\ wire[t] = <<>> /\ next_buffer_to_send_[t] # Handshake
    BY <1>1, <1>types DEF StartEffect, ClosingOK, TicketsOK, Write, IInv, TypeInv, MembersTypeOK
  <2>3. Unwritten(t, b)
    BY <2>2 DEF Unwritten, WritesOf, Copies
  <2>4. Holding(t, b) = {}
    BY <1>1, <1>types DEF StartEffect, ClosingOK, Holding
  <2>5. b > sent \/ b = Handshake => ~ Waits(t, b)
    BY <2>2 DEF OnceOK, Unborn, Waits
  <2>6. Unborn(t, b)' => b > sent \/ b = Handshake
    BY DEF Unborn
  <2>7. Unwritten(t, b)' /\ Copies(t, b)' = Copies(t, b)
    BY <2>1, <2>3 DEF Unwritten, Copies
  <2>8. QED
    BY <2>1, <2>4, <2>5, <2>6, <2>7 DEF OnceOK
<1>2. CASE ReadEffect(t)
  BY <1>2, <1>stays, <1>net, <1>wait, <1>born, OnceKept DEF ReadEffect, MembersSame, NetSame
<1>3. CASE HandshakeEffect(t)
  <2>1. /\ Holding(t, b)' = (Holding(t, b) \ {t}) \cup (IF b = Handshake THEN {t} ELSE {})
        /\ WritesOf(t, b)' = WritesOf(t, b) /\ Copies(t, b)' = Copies(t, b)
        /\ (Waits(t, b)' <=> Waits(t, b)) /\ wire'[t] = wire[t]
        /\ reading[t] # "none" /\ reading'[t] = "none"
    BY <1>3, <1>types, <1>net, <1>wait, HoldingMoves DEF HandshakeEffect, MembersSame, NetSame
  <2>2. CASE b # Handshake
    BY <2>1, <2>2, <1>born, OnceKept
  <2>3. CASE b = Handshake
    <3>1. Unborn(t, b) /\ ~ Unborn(t, b)'
      BY <2>1, <2>3 DEF Unborn
    <3>2. Holding(t, b) = {} /\ ~ Waits(t, b) /\ Unwritten(t, b)
      BY <3>1 DEF OnceOK
    <3>3. Holding(t, b)' = {t} /\ ~ Waits(t, b)' /\ Unwritten(t, b)'
      BY <2>1, <2>3, <3>2 DEF Unwritten
    <3>4. QED
      BY <2>1, <3>1, <3>3 DEF OnceOK, Unwritten
  <2>4. QED
    BY <2>2, <2>3
<1>4. CASE SetRunningEffect(t) \/ RestoreEffect(t)
  <2>1. /\ Holding(t, b)' \subseteq Holding(t, b)
        /\ reading'[t] = reading[t] /\ NetSame(t) /\ FlagAndNextSame(t)
    BY <1>4, <1>types, <1>moved DEF SetRunningEffect, RestoreEffect
  <2>2. QED
    BY <2>1, <1>net, <1>wait, <1>born, OnceKept DEF NetSame
<1>5. CASE TakeNextEffect(t)
  <2>0. NetSame(t) /\ reading'[t] = reading[t] /\ ~ Waits(t, b)'
    BY <1>5 DEF TakeNextEffect, Waits
  <2>1. CASE Waits(t, b)
    <3>1. Holding(t, b) = {} /\ Unwritten(t, b) /\ ~ Unborn(t, b)
      BY <2>1 DEF OnceOK
    <3>2. Moves(t, "write", t, b)
      BY <1>5, <2>1 DEF TakeNextEffect, Waits
    <3>3. Holding(t, b)' = {t}
      BY <1>types, <3>1, <3>2, HoldingMoves
    <3>4. ~ Unborn(t, b)' /\ Unwritten(t, b)' /\ WritesOf(t, b)' = WritesOf(t, b)
          /\ Copies(t, b)' = Copies(t, b)
      BY <2>0, <3>1, <1>born, <1>net DEF Unwritten
    <3>5. QED
      BY <2>0, <3>3, <3>4 DEF OnceOK, Unwritten
  <2>2. CASE ~ Waits(t, b)
    <3>1. Holding(t, b)' \subseteq Holding(t, b)
      BY <1>5, <1>types, <2>2, HoldingMoves DEF TakeNextEffect, Waits
    <3>2. QED
      BY <2>0, <3>1, <1>net, <1>born, OnceKept DEF NetSame
  <2>3. QED
    BY <2>1, <2>2
<1>6. ASSUME NEW c \in Context, CloseEffect(t, c) PROVE OnceOK(t, b)'
  <2>1. Holding(t, b)' \subseteq Holding(t, b) /\ WritesOf(t, b)' \subseteq WritesOf(t, b)
    BY <1>6, <1>moved DEF CloseEffect, WritesOf
  <2>2. QED
    BY <1>6, <2>1, <1>wait, <1>born, OnceKept DEF CloseEffect
<1>7. ASSUME NEW c \in Context, AwayEffect(t, c) PROVE OnceOK(t, b)'
  <2>1. Holding(t, b)' \subseteq Holding(t, b)
    BY <1>7, <1>moved DEF AwayEffect
  <2>2. QED
    BY <1>7, <2>1, <1>net, <1>wait, <1>born, OnceKept DEF AwayEffect, MembersSame, NetSame
<1>8. ASSUME NEW c \in Context, SendEffect(t, c) PROVE OnceOK(t, b)'
  <2>0. /\ wire'[t] = wire[t] /\ reading'[t] = reading[t] /\ FlagAndNextSame(t)
        /\ at[c] = "write" /\ on[c] = t
    BY <1>8 DEF SendEffect, MembersSame
  <2>1. Holding(t, b)' = Holding(t, b) \ {c}
    BY <1>8, HoldingMoves DEF SendEffect
  <2>2. CASE WritesOf(t, b)' = WritesOf(t, b)
    BY <2>0, <2>1, <2>2, <1>wait, <1>born, OnceKept
  <2>3. CASE WritesOf(t, b)' # WritesOf(t, b)
    <3>1. PICK w \in Write : /\ w.buf = arg[c] /\ w.left = ChunksOf(arg[c])
                             /\ writes'[t] = writes[t] \cup {w}
      BY <1>8, <2>3 DEF SendEffect, WritesOf
    <3>2. w.buf = b /\ WritesOf(t, b)' = WritesOf(t, b) \cup {w}
      BY <2>3, <3>1 DEF WritesOf
    <3>3. c \in Holding(t, b)
      BY <2>0, <3>1, <3>2 DEF Holding
    <3>4. Holding(t, b)' = {} /\ ~ Waits(t, b)' /\ Unwritten(t, b) /\ ~ Unborn(t, b)'
      BY <2>0, <2>1, <3>3, <1>wait, <1>born DEF OnceOK
    <3>5. Copies(t, b)' = {} /\ WritesOf(t, b)' = {w} /\ w.left = ChunksOf(b)
      BY <2>0, <3>1, <3>2, <3>4 DEF Unwritten, Copies
    <3>6. ChunksOf(b) \in Nat /\ IsFiniteSet({}) /\ Cardinality({}) = 0
      BY ChunksPositive, FS_EmptySet
    <3>7. QED
      BY <3>4, <3>5, <3>6 DEF OnceOK
  <2>4. QED
    BY <2>2, <2>3
<1>9. ASSUME NEW w \in writes[t], WriteCompletesEffect(t, w) PROVE OnceOK(t, b)'
  <2>1. Holding(t, b)' \subseteq Holding(t, b) /\ WritesOf(t, b)' \subseteq WritesOf(t, b)
    BY <1>9, <1>types, <1>moved, <1>stays DEF WriteCompletesEffect, WritesOf
  <2>2. QED
    BY <1>9, <2>1, <1>wait, <1>born, OnceKept DEF WriteCompletesEffect, MembersSame
<1>10. ASSUME NEW w \in writes[t], TransmitEffect(t, w) PROVE OnceOK(t, b)'
  <2>1. PICK v \in Write : /\ v.buf = w.buf /\ v.left = w.left - 1
                           /\ writes'[t] = (writes[t] \ {w}) \cup {v}
    BY <1>10 DEF TransmitEffect
  <2>2. /\ wire'[t] = Append(wire[t], w.buf) /\ w.left \in Nat /\ w.left > 0
        /\ w.buf \in Nat
        /\ Holding(t, b)' = Holding(t, b) /\ (Waits(t, b)' <=> Waits(t, b))
        /\ Unborn(t, b)' => Unborn(t, b)
    BY <1>10, <1>stays, <1>wait, <1>born DEF TransmitEffect, MembersSame, Write
  <2> DEFINE n == Len(wire[t])
  <2>3. /\ n \in Nat /\ DOMAIN wire[t] = 1 .. n /\ DOMAIN wire'[t] = 1 .. n + 1
        /\ wire'[t][n + 1] = w.buf /\ \A i \in 1 .. n : wire'[t][i] = wire[t][i]
    BY <1>types, <2>2
  <2>4. CASE w.buf # b
    <3>1. WritesOf(t, b)' = WritesOf(t, b)
      BY <2>1, <2>4 DEF WritesOf
    <3>2. Copies(t, b)' = Copies(t, b)
      BY <2>3, <2>4 DEF Copies
    <3>3. QED
      BY <2>2, <3>1, <3>2 DEF OnceOK, Unwritten
  <2>5. CASE w.buf = b
    <3>1. w \in WritesOf(t, b) /\ \A x \in WritesOf(t, b) : x = w
      BY <2>5 DEF OnceOK, WritesOf
    <3>2. WritesOf(t, b)' = {v}
      BY <2>1, <2>5, <3>1 DEF WritesOf
    <3>3. Copies(t, b)' = Copies(t, b) \cup {n + 1} /\ n + 1 \notin Copies(t, b)
      <4>1. Copies(t, b) = {i \in 1 .. n : wire'[t][i] = b} /\ n + 1 \notin 1 .. n
        BY <2>3 DEF Copies
      <4>2. 1 .. n + 1 = (1 .. n) \cup {n + 1}
        BY <2>3
      <4>3. Copies(t, b)' = {i \in (1 .. n) \cup {n + 1} : wire'[t][i] = b}
        BY <2>3, <4>2 DEF Copies
      <4>4. wire'[t][n + 1] = b
        BY <2>3, <2>5
      <4>5. QED
        BY <4>1, <4>3, <4>4
    <3>4. IsFiniteSet(Copies(t, b)) /\ Cardinality(Copies(t, b)) \in Nat
      BY FS_CardinalityType DEF OnceOK
    <3>5. /\ IsFiniteSet(Copies(t, b)')
          /\ Cardinality(Copies(t, b)') = Cardinality(Copies(t, b)) + 1
      <4>1. \A x : x \notin Copies(t, b) =>
              /\ IsFiniteSet(Copies(t, b) \cup {x})
              /\ Cardinality(Copies(t, b) \cup {x}) = Cardinality(Copies(t, b)) + 1
        BY <3>4, FS_AddElement
      <4>2. QED
        BY <3>3, <4>1, Zenon
    <3>6. Cardinality(Copies(t, b)) + w.left <= ChunksOf(b)
      BY <3>1 DEF OnceOK
    <3>7. ChunksOf(b) \in Nat
      BY ChunksPositive
    <3>8. /\ Cardinality(Copies(t, b)') <= ChunksOf(b)
          /\ Cardinality(Copies(t, b)') + v.left <= ChunksOf(b)
      BY <2>1, <2>2, <3>4, <3>5, <3>6, <3>7
    <3>9. Holding(t, b)' = {} /\ ~ Waits(t, b)' /\ ~ Unborn(t, b)'
      BY <2>2, <3>1 DEF OnceOK, Unwritten
    <3>10. QED
      BY <3>2, <3>5, <3>8, <3>9 DEF OnceOK
  <2>6. QED
    BY <2>4, <2>5
<1>11. ASSUME NEW u \in User, EnqueueEffect(t, u) PROVE OnceOK(t, b)'
  <2>1. /\ NetSame(t) /\ reading'[t] = reading[t] /\ at[u] = "enqueue" /\ on[u] = t
    BY <1>11 DEF EnqueueEffect
  <2>2. CASE Moves(u, "write", t, arg[u]) /\ next_buffer_to_send_'[t] = next_buffer_to_send_[t]
    <3>1. Holding(t, b)' \subseteq Holding(t, b)
      BY <1>types, <2>1, <2>2, HoldingMoves DEF Holding
    <3>2. QED
      BY <2>1, <2>2, <3>1, <1>net, <1>born, OnceKept DEF NetSame, Waits
  <2>3. CASE Moves(u, "idle", NoSession, NoBuffer) /\ next_buffer_to_send_'[t] = arg[u]
    <3>1. Holding(t, b)' = Holding(t, b) \ {u}
      BY <1>types, <2>3, HoldingMoves
    <3>2. CASE arg[u] # b
      BY <2>1, <2>3, <3>1, <3>2, <1>net, <1>born, OnceKept DEF NetSame, Waits
    <3>3. CASE arg[u] = b
      <4>1. u \in Holding(t, b)
        BY <1>types, <2>1, <3>3 DEF Holding
      <4>2. Holding(t, b)' = {} /\ Unwritten(t, b) /\ ~ Unborn(t, b)
        BY <3>1, <4>1 DEF OnceOK
      <4>3. /\ WritesOf(t, b)' = WritesOf(t, b) /\ Copies(t, b)' = Copies(t, b)
            /\ ~ Unborn(t, b)'
        BY <2>1, <4>2, <1>net, <1>born
      <4>4. QED
        BY <4>2, <4>3 DEF OnceOK, Unwritten
    <3>4. QED
      BY <3>2, <3>3
  <2>4. QED
    BY <1>11, <2>2, <2>3 DEF EnqueueEffect
<1>12. ASSUME NEW u \in User, SubmitEffect(t, u) PROVE OnceOK(t, b)'
  <2>1. /\ NetSame(t) /\ FlagAndNextSame(t) /\ reading'[t] = reading[t] /\ sent' = sent + 1
        /\ at[u] = "idle"
    BY <1>12 DEF SubmitEffect, MembersSame
  <2>2. CASE Moves(u, "idle", NoSession, NoBuffer) \/ b # sent + 1
    <3>1. Holding(t, b)' \subseteq Holding(t, b)
      BY <1>12, <1>types, <2>2, HoldingMoves DEF SubmitEffect
    <3>2. QED
      BY <2>1, <3>1, <1>net, <1>wait, <1>born, OnceKept DEF NetSame
  <2>3. CASE Moves(u, "enqueue", t, sent + 1) /\ b = sent + 1
    <3>1. Unborn(t, b) /\ ~ Unborn(t, b)'
      BY <2>1, <2>3 DEF Unborn
    <3>2. Holding(t, b) = {} /\ ~ Waits(t, b) /\ Unwritten(t, b)
      BY <3>1 DEF OnceOK
    <3>3. Holding(t, b)' = {u}
      BY <1>types, <2>3, <3>2, HoldingMoves
    <3>4. /\ WritesOf(t, b)' = WritesOf(t, b) /\ Copies(t, b)' = Copies(t, b)
          /\ ~ Waits(t, b)'
      BY <2>1, <3>2, <1>net, <1>wait
    <3>5. QED
      BY <3>1, <3>2, <3>3, <3>4 DEF OnceOK, Unwritten
  <2>4. QED
    BY <1>12, <2>2, <2>3 DEF SubmitEffect
<1>13. QED
  BY <1>1, <1>2, <1>3, <1>4, <1>5, <1>6, <1>7, <1>8, <1>9, <1>10, <1>11, <1>12 DEF Effect

LEMMA SentGrows ==
  [Next]_vars => sent' = sent \/ sent' = sent + 1
<1> SUFFICES ASSUME [Next]_vars PROVE sent' = sent \/ sent' = sent + 1
  OBVIOUS
<1>1. CASE \E u \in User, s \in Session : Submit(u, s)
  BY <1>1 DEF Submit
<1>2. ASSUME NEW s \in Session, Start(s) \/ ReadStep(s) \/ StrandStep(s)
                                 \/ NetworkStep(s) \/ ConnectionLost(s)
      PROVE  sent' = sent
  BY <1>2 DEF Start, ReadStep, ReadCompletes, ReadFails, HandshakeReceived, StrandStep,
              SetRunning, RestoreState, TakeNext, SendBufferToClient, WriteCompletes, WriteFails,
              CloseSocket, ClosedHandler, NetworkStep, Transmit, ConnectionLost, historyVars
<1>3. ASSUME NEW u \in User, UserStep(u) \/ \E s \in Session : Cancel(u, s)
      PROVE  sent' = sent
  BY <1>3 DEF UserStep, Enqueue, SendBufferToClient, CloseSocket, ClosedHandler, Cancel, historyVars
<1>4. QED
  BY <1>1, <1>2, <1>3 DEF Next, vars, historyVars

LEMMA OnceInit == Init => OnceInv
<1> SUFFICES ASSUME Init, NEW s \in Session, NEW b \in Buffer PROVE OnceOK(s, b)
  BY InitInv DEF OnceInv
<1>1. Holding(s, b) = {} /\ WritesOf(s, b) = {} /\ Copies(s, b) = {} /\ ~ Waits(s, b)
  BY DEF Init, Holding, WritesOf, Copies, Waits
<1>2. ChunksOf(b) \in Nat /\ IsFiniteSet({}) /\ Cardinality({}) = 0
  BY ChunksPositive, FS_EmptySet
<1>3. QED
  BY <1>1, <1>2 DEF OnceOK, Unwritten

LEMMA OnceStep == OnceInv /\ [Next]_vars => OnceInv'
<1> SUFFICES ASSUME OnceInv, [Next]_vars PROVE OnceInv'
  OBVIOUS
<1> USE DEF OnceInv
<1>1. IInv' /\ sent \in Nat /\ sent' \in {sent, sent + 1} /\ \A s \in Session : on[s] = s
  BY StepInv, SentGrows DEF IInv, TypeInv, MembersTypeOK, ContextsOK, WellPlaced
<1>frame. ASSUME NEW s \in Session, Untouched(s), NEW b \in Buffer PROVE OnceOK(s, b)'
  <2>1. Holding(s, b)' \subseteq Holding(s, b)
    BY <1>frame DEF Holding, Untouched
  <2>2. /\ Waits(s, b)' => Waits(s, b)
        /\ WritesOf(s, b)' \subseteq WritesOf(s, b) /\ wire'[s] = wire[s]
        /\ Unborn(s, b)' => Unborn(s, b)
    BY <1>1, <1>frame DEF Waits, WritesOf, Unborn, Untouched
  <2>3. QED
    BY <2>1, <2>2, OnceKept
<1>2. CASE Next
  <2>1. PICK t \in Session : StepOf(t)
    BY <1>2, StepOfOne
  <2>2. Effect(t) /\ \A s \in Session \ {t} : Untouched(s)
    BY <2>1, StepEffect
  <2>3. \A b \in Buffer : OnceOK(t, b)'
    BY <1>1, <2>2, EffectWritesOnce
  <2>4. QED
    BY <1>1, <1>frame, <2>2, <2>3
<1>3. CASE UNCHANGED vars
  <2>1. \A s \in Session : Untouched(s)
    BY <1>3 DEF vars, memberVars, socketVars, contextVars, Untouched
  <2>2. QED
    BY <1>1, <1>frame, <2>1
<1>4. QED
  BY <1>2, <1>3

(* No buffer is written twice over a session, whoever sends and cancels    *)
(* when, also while the handshake is open: what is on the wire of a buffer *)
(* and what its write has left is never more than the buffer.              *)
THEOREM BuffersWrittenAtMostOnce == Spec => []WrittenAtMostOnce
<1>1. ASSUME OnceInv, NEW s \in Session, NEW b \in 0 .. sent
      PROVE  Cardinality(Copies(s, b)) + LeftIn(WritesOf(s, b)) <= ChunksOf(b)
  <2>1. /\ OnceOK(s, b) /\ b \in Nat /\ Cardinality(Copies(s, b)) \in Nat
        /\ writes[s] \subseteq Write
    <3>1. sent \in Nat /\ writes[s] \subseteq Write
      BY <1>1 DEF OnceInv, IInv, TypeInv, MembersTypeOK
    <3>2. b \in Nat
      BY <3>1
    <3>3. OnceOK(s, b)
      BY <1>1, <3>2 DEF OnceInv
    <3>4. Cardinality(Copies(s, b)) \in Nat
      BY <3>3, FS_CardinalityType DEF OnceOK
    <3>5. QED
      BY <3>1, <3>2, <3>3, <3>4
  <2>2. CASE WritesOf(s, b) = {}
    BY <2>1, <2>2, LeftInNone DEF OnceOK
  <2>3. CASE WritesOf(s, b) # {}
    <3>1. PICK w \in WritesOf(s, b) : WritesOf(s, b) = {w}
      BY <2>1, <2>3 DEF OnceOK
    <3>2. w.left \in Nat /\ Cardinality(Copies(s, b)) + w.left <= ChunksOf(b)
      BY <2>1 DEF OnceOK, WritesOf, Write
    <3>3. LeftIn({w}) = w.left
      BY <3>2, LeftInOne
    <3>4. QED
      BY <3>1, <3>2, <3>3
  <2>4. QED
    BY <2>2, <2>3
<1>2. OnceInv => WrittenAtMostOnce
  BY <1>1 DEF WrittenAtMostOnce, LeftIn, Copies, WritesOf
<1>3. QED
  BY <1>2, OnceInit, OnceStep, PTL DEF Spec
=============================================================================
