-------------------- MODULE PublisherSessionQueue_proofs --------------------
(***************************************************************************)
(* A publisher session implements the abstract queue when nobody sends     *)
(* before the handshake is through: for any sets of sessions and users and *)
(* any numbers of messages and pieces.                                     *)
(***************************************************************************)
EXTENDS PublisherSessionQueue, PublisherSession_proofs

USE SessionAssumption DEF Context, Buffer, Handshake, NoBuffer

Busy(s) == Holder(s, "write") \cup Holder(s, "takeNext")

(* One buffer at a time is in hand: in one write, or held by one context.  *)
OneInHand(s) ==
  /\ \A v, w \in writes[s] : v = w
  /\ \A c, d \in Busy(s) : c = d
  /\ writes[s] # {} => Busy(s) = {}
  /\ at[s] = "takeNext" => arg[s] \in Buffer

HandshakeInHand(s) ==
  \/ \E w \in writes[s] : w.buf = Handshake
  \/ at[s] \in {"write", "takeNext"} /\ arg[s] = Handshake

(* The handshake is through, for good.                                     *)
Settled(s) ==
  /\ reading[s] = "none"
  /\ state_[s] \in {"Running", "Canceled"}
  /\ at[s] \notin {"setRunning", "restore"}
  /\ ~ HandshakeInHand(s)

(* A message has been given to the session and has not left its hands.     *)
Given(s) ==
  \/ next_buffer_to_send_[s] # NoBuffer
  \/ \E c \in Context : on[c] = s /\ \/ at[c] = "enqueue"
                                     \/ at[c] = "write" /\ arg[c] # Handshake

GivenOK(s) == Given(s) => Settled(s)

(* The flag sending_in_progress_ tells whether a message is in hand, once  *)
(* the session runs.                                                       *)
FlagOK(s) ==
  /\ Opening(s) => ~ sending_in_progress_[s] /\ \A w \in writes[s] : w.buf = Handshake
  /\ state_[s] = "Running" /\ at[s] # "restore" =>
       /\ sending_in_progress_[s] => writes[s] # {} \/ Busy(s) # {}
       /\ writes[s] # {} \/ Busy(s) # {} => sending_in_progress_[s] \/ HandshakeInHand(s)

QuietOK(s) == OneInHand(s) /\ GivenOK(s) /\ FlagOK(s)

NumbersOK == \A u \in User : at[u] = "enqueue" => arg[u] \in 1 .. MaxSends

QuietInv == IInv /\ NumbersOK /\ \A s \in Session : QuietOK(s)

-----------------------------------------------------------------------------
(* Every step is one of a single session.                                  *)
StepOf(s) ==
  \/ Start(s) \/ ReadStep(s) \/ StrandStep(s) \/ NetworkStep(s) \/ ConnectionLost(s)
  \/ \E u \in User : \/ on[u] = s /\ UserStep(u)
                     \/ Submit(u, s) \/ Cancel(u, s)

LEMMA StepOfOne ==
  ASSUME IInv, Next PROVE \E s \in Session : StepOf(s)
<1>1. \A u \in User : UserStep(u) => on[u] \in Session
  BY DEF IInv, TypeInv, ContextsOK, WellPlaced, UserStep, Enqueue, SendBufferToClient,
         CloseSocket, ClosedHandler
<1>2. QED
  BY <1>1 DEF Next, StepOf

(* What a step of session t does to t, by kind.                            *)
Stays == UNCHANGED <<at, on, arg>>

FlagAndNextSame(t) ==
  /\ sending_in_progress_'[t] = sending_in_progress_[t]
  /\ next_buffer_to_send_'[t] = next_buffer_to_send_[t]

MembersSame(t) == state_'[t] = state_[t] /\ FlagAndNextSame(t)

NetSame(t) == writes'[t] = writes[t] /\ wire'[t] = wire[t]

(* start(); reads and the loss of the connection.                          *)
StartEffect(t) ==
  /\ Stays /\ FlagAndNextSame(t) /\ NetSame(t)
  /\ state_[t] = "NotStarted" /\ state_'[t] = "Handshaking"

ReadEffect(t) ==
  /\ Stays /\ MembersSame(t) /\ NetSame(t)
  /\ reading'[t] = reading[t] \/ reading[t] # "none"

(* sessionClosedHandler(), alone or behind a failed read or write.         *)
CloseEffect(t, c) ==
  /\ at[c] = "idle"
  /\ c \in Session => c = t /\ reading'[t] = "none"
  /\ c \in User => reading'[t] = reading[t]
  /\ Moves(c, "idle", Home(c), NoBuffer) \/ Moves(c, "closeSocket", t, arg[c])
  /\ state_'[t] = "Canceled" /\ FlagAndNextSame(t)
  /\ writes'[t] \subseteq writes[t] /\ wire'[t] = wire[t]
  /\ reading'[t] = "none" \/ reading'[t] = reading[t]

(* What remains of closing.                                                *)
AwayEffect(t, c) ==
  /\ on[c] = t /\ at[c] \in {"closeSocket", "closedHandler"}
  /\ \/ Moves(c, "closedHandler", t, arg[c]) \/ Moves(c, "idle", Home(c), NoBuffer)
  /\ MembersSame(t) /\ NetSame(t) /\ reading'[t] = reading[t]

HandshakeEffect(t) ==
  /\ at[t] = "idle" /\ reading[t] # "none" /\ reading'[t] = "none"
  /\ state_[t] # "Canceled"
  /\ Moves(t, "write", t, Handshake)
  /\ MembersSame(t) /\ NetSame(t)

SetRunningEffect(t) ==
  /\ at[t] = "setRunning" /\ state_'[t] = "Running"
  /\ \/ state_[t] = "Handshaking" /\ Moves(t, "idle", t, NoBuffer)
     \/ state_[t] = "Canceled" /\ Moves(t, "restore", t, arg[t])
  /\ FlagAndNextSame(t) /\ NetSame(t) /\ reading'[t] = reading[t]

RestoreEffect(t) ==
  /\ at[t] = "restore" /\ state_'[t] = "Canceled"
  /\ Moves(t, "idle", t, NoBuffer)
  /\ FlagAndNextSame(t) /\ NetSame(t) /\ reading'[t] = reading[t]

TakeNextEffect(t) ==
  /\ at[t] = "takeNext" /\ next_buffer_to_send_'[t] = NoBuffer
  /\ \/ /\ next_buffer_to_send_[t] # NoBuffer
        /\ Moves(t, "write", t, next_buffer_to_send_[t])
        /\ sending_in_progress_'[t] = sending_in_progress_[t]
     \/ /\ next_buffer_to_send_[t] = NoBuffer
        /\ Moves(t, "idle", t, NoBuffer)
        /\ ~ sending_in_progress_'[t]
  /\ state_'[t] = state_[t] /\ NetSame(t) /\ reading'[t] = reading[t]

SendEffect(t, c) ==
  /\ at[c] = "write" /\ on[c] = t
  /\ IF arg[c] = Handshake THEN c = t /\ Moves(t, "setRunning", t, Handshake)
                           ELSE Moves(c, "idle", Home(c), NoBuffer)
  /\ \/ state_[t] = "Canceled" /\ writes'[t] = writes[t]
     \/ /\ state_[t] # "Canceled"
        /\ \E w \in Write : /\ w.buf = arg[c] /\ w.left = ChunksOf(arg[c])
                            /\ writes'[t] = writes[t] \cup {w}
  /\ MembersSame(t) /\ wire'[t] = wire[t] /\ reading'[t] = reading[t]

WriteCompletesEffect(t, w) ==
  /\ at[t] = "idle" /\ w \in writes[t] /\ w \in Write /\ w.left = 0
  /\ \/ state_[t] = "Canceled" /\ Stays
     \/ state_[t] # "Canceled" /\ Moves(t, "takeNext", t, w.buf)
  /\ writes'[t] = writes[t] \ {w}
  /\ MembersSame(t) /\ wire'[t] = wire[t] /\ reading'[t] = reading[t]

TransmitEffect(t, w) ==
  /\ w \in writes[t] /\ w \in Write /\ w.left > 0
  /\ \E v \in Write : /\ v.buf = w.buf /\ v.left = w.left - 1
                      /\ writes'[t] = (writes[t] \ {w}) \cup {v}
  /\ wire'[t] = Append(wire[t], w.buf)
  /\ Stays /\ MembersSame(t) /\ reading'[t] = reading[t]

EnqueueEffect(t, u) ==
  /\ at[u] = "enqueue" /\ on[u] = t
  /\ \/ /\ state_[t] = "Running" /\ ~ sending_in_progress_[t]
        /\ Moves(u, "write", t, arg[u])
        /\ sending_in_progress_'[t]
        /\ next_buffer_to_send_'[t] = next_buffer_to_send_[t]
     \/ /\ state_[t] # "Running" \/ sending_in_progress_[t]
        /\ Moves(u, "idle", NoSession, NoBuffer)
        /\ sending_in_progress_'[t] = sending_in_progress_[t]
        /\ next_buffer_to_send_'[t] = arg[u]
  /\ state_'[t] = state_[t] /\ NetSame(t) /\ reading'[t] = reading[t]

SubmitEffect(t, u) ==
  /\ at[u] = "idle" /\ sent + 1 \in 1 .. MaxSends /\ sent' = sent + 1
  /\ \/ Moves(u, "idle", NoSession, NoBuffer)
     \/ /\ state_[t] # "Canceled"
        /\ SendDuringHandshake \/ ~ HandshakePending(t)
        /\ Moves(u, "enqueue", t, sent + 1)
  /\ MembersSame(t) /\ NetSame(t) /\ reading'[t] = reading[t]

Effect(t) ==
  \/ StartEffect(t) \/ ReadEffect(t) \/ HandshakeEffect(t)
  \/ SetRunningEffect(t) \/ RestoreEffect(t) \/ TakeNextEffect(t)
  \/ \E c \in Context : CloseEffect(t, c) \/ AwayEffect(t, c) \/ SendEffect(t, c)
  \/ \E w \in writes[t] : WriteCompletesEffect(t, w) \/ TransmitEffect(t, w)
  \/ \E u \in User : EnqueueEffect(t, u) \/ SubmitEffect(t, u)

LEMMA StepEffect ==
  ASSUME IInv, NEW t \in Session, StepOf(t)
  PROVE  Effect(t) /\ \A s \in Session \ {t} : Untouched(s)
<1> USE DEF IInv, TypeInv
<1>old. old \in [Session -> State] /\ state_ \in [Session -> State]
  BY DEF ContextsOK, ContextsTypeOK, MembersTypeOK
<1>own. \A s \in Session : on[s] = s
  BY DEF ContextsOK, WellPlaced
<1>at. \A c \in Context : WellPlaced(c, at[c], on[c], arg[c])
  BY DEF ContextsOK
<1>home. \A u \in User : at[u] = "idle" => on[u] = NoSession
  BY DEF ContextsOK, WellPlaced, Home
<1>inv. OpeningOK(t) /\ ClosingOK(t) /\ TicketsOK(t)
  BY DEF SessionInv
<1>1. CASE Start(t)
  <2>1. StartEffect(t)
    BY <1>1 DEF Start, StartEffect, Stays, FlagAndNextSame, NetSame, MembersTypeOK, contextVars
  <2>2. \A s \in Session \ {t} : Untouched(s)
    BY <1>1 DEF Start, Untouched, MembersTypeOK, contextVars
  <2>3. QED
    BY <2>1, <2>2 DEF Effect
<1>2. CASE ReadCompletes(t)
  <2>1. ReadEffect(t)
    BY <1>2 DEF ReadCompletes, ReadEffect, Stays, FlagAndNextSame, MembersSame, NetSame,
                memberVars, contextVars
  <2>2. \A s \in Session \ {t} : Untouched(s)
    BY <1>2 DEF ReadCompletes, Untouched, MembersTypeOK, memberVars, contextVars
  <2>3. QED
    BY <2>1, <2>2 DEF Effect
<1>3. CASE ReadFails(t)
  <2>1. \/ Moves(t, "idle", t, NoBuffer) \/ Moves(t, "closeSocket", t, arg[t])
    BY <1>3, VisitMoves, ReturnMoves DEF ReadFails, SessionClosedHandler, Home
  <2>2. CloseEffect(t, t)
    BY <1>3, <2>1 DEF ReadFails, CloseEffect, SessionClosedHandler, FlagAndNextSame,
                      MembersTypeOK, Home
  <2>3. \A s \in Session \ {t} : Untouched(s)
    BY <1>3, <1>own, <2>1 DEF ReadFails, SessionClosedHandler, Untouched, Moves, MembersTypeOK
  <2>4. QED
    BY <2>2, <2>3 DEF Effect
<1>4. CASE HandshakeReceived(t)
  <2>1. \/ UNCHANGED <<at, on, arg>> /\ state_[t] = "Canceled"
        \/ Moves(t, "write", t, Handshake) /\ state_[t] # "Canceled"
    BY <1>4, VisitMoves DEF HandshakeReceived
  <2>2. ReadEffect(t) \/ HandshakeEffect(t)
    BY <1>4, <2>1 DEF HandshakeReceived, ReadEffect, HandshakeEffect, Stays, MembersSame,
                      FlagAndNextSame, NetSame, MembersTypeOK, memberVars
  <2>3. \A s \in Session \ {t} : Untouched(s)
    BY <1>4, <1>own, <2>1 DEF HandshakeReceived, Moves, Untouched, MembersTypeOK, memberVars
  <2>4. QED
    BY <2>2, <2>3 DEF Effect
<1>5. CASE SetRunning(t)
  <2>1. \/ Moves(t, "idle", t, NoBuffer) /\ state_[t] = "Handshaking" /\ old' = old
        \/ /\ Moves(t, "restore", t, arg[t]) /\ state_[t] # "Handshaking"
           /\ old' = [old EXCEPT ![t] = state_[t]]
    BY <1>5, VisitMoves, ReturnMoves DEF SetRunning, Home
  <2>2. state_[t] \in {"Handshaking", "Canceled"}
    BY <1>5, <1>inv DEF SetRunning, OpeningOK, Opening
  <2>3. SetRunningEffect(t)
    BY <1>5, <2>1, <2>2 DEF SetRunning, SetRunningEffect, FlagAndNextSame, NetSame,
                            MembersTypeOK, socketVars
  <2>4. \A s \in Session \ {t} : Untouched(s)
    BY <1>5, <1>own, <1>old, <2>1
       DEF SetRunning, Moves, Untouched, MembersTypeOK, socketVars
  <2>5. QED
    BY <2>3, <2>4 DEF Effect
<1>6. CASE RestoreState(t)
  <2>1. Moves(t, "idle", t, NoBuffer)
    BY <1>6, ReturnMoves DEF RestoreState, Home
  <2>2. RestoreEffect(t)
    BY <1>6, <1>inv, <2>1 DEF RestoreState, RestoreEffect, ClosingOK, FlagAndNextSame,
                              NetSame, MembersTypeOK, socketVars
  <2>3. \A s \in Session \ {t} : Untouched(s)
    BY <1>6, <1>own, <1>old, <2>1
       DEF RestoreState, Moves, Untouched, MembersTypeOK, socketVars
  <2>4. QED
    BY <2>2, <2>3 DEF Effect
<1>7. CASE TakeNext(t)
  <2>1. \/ /\ Moves(t, "write", t, next_buffer_to_send_[t])
           /\ next_buffer_to_send_[t] # NoBuffer
           /\ sending_in_progress_' = sending_in_progress_
           /\ next_buffer_to_send_' = [next_buffer_to_send_ EXCEPT ![t] = NoBuffer]
        \/ /\ Moves(t, "idle", t, NoBuffer)
           /\ next_buffer_to_send_[t] = NoBuffer
           /\ sending_in_progress_' = [sending_in_progress_ EXCEPT ![t] = FALSE]
           /\ next_buffer_to_send_' = next_buffer_to_send_
    BY <1>7, VisitMoves, ReturnMoves DEF TakeNext, Home
  <2>2. TakeNextEffect(t)
    BY <1>7, <2>1 DEF TakeNext, TakeNextEffect, NetSame, MembersTypeOK, socketVars
  <2>3. \A s \in Session \ {t} : Untouched(s)
    BY <1>7, <1>own, <2>1 DEF TakeNext, Moves, Untouched, MembersTypeOK, socketVars
  <2>4. QED
    BY <2>2, <2>3 DEF Effect
<1>8. ASSUME NEW c \in Context, SendBufferToClient(c, "idle"), on[c] = t
      PROVE  Effect(t) /\ \A s \in Session \ {t} : Untouched(s)
  <2> DEFINE w == [buf |-> arg[c], left |-> ChunksOf(arg[c]), ticket |-> tickets[t]]
  <2>0. /\ at[c] = "write" /\ arg[c] \in Buffer
        /\ c \in User => arg[c] # Handshake
        /\ c \in Session => c = t
        /\ UNCHANGED <<memberVars, conn, reading, wire, old>>
    BY <1>8, <1>at DEF SendBufferToClient, WellPlaced
  <2>1. \/ arg[c] = Handshake /\ c = t /\ Moves(c, "setRunning", t, Handshake)
        \/ arg[c] # Handshake /\ Moves(c, "idle", Home(c), NoBuffer)
    <3>1. CASE arg[c] = Handshake
      <4>1. c = t /\ Home(c) = t
        BY <2>0, <3>1 DEF Home
      <4>2. Visit(c, t, "setRunning", Handshake)
        BY <1>8, <3>1, <4>1 DEF SendBufferToClient, Return
      <4>3. QED
        BY <3>1, <4>1, <4>2, VisitMoves
    <3>2. CASE arg[c] # Handshake
      BY <1>8, <3>2, ReturnMoves DEF SendBufferToClient
    <3>3. QED
      BY <3>1, <3>2
  <2>2. w \in Write /\ w.buf = arg[c] /\ w.left = ChunksOf(arg[c])
    BY <2>0, ChunksPositive DEF MembersTypeOK, Write
  <2>3. \/ state_[t] = "Canceled" /\ writes'[t] = writes[t]
        \/ state_[t] # "Canceled" /\ writes'[t] = writes[t] \cup {w}
    BY <1>8 DEF SendBufferToClient, MembersTypeOK
  <2> HIDE DEF w
  <2>4. SendEffect(t, c)
    BY <1>8, <2>0, <2>1, <2>2, <2>3
       DEF SendEffect, MembersSame, FlagAndNextSame, memberVars
  <2>5. \A s \in Session \ {t} : Untouched(s)
    <3>1. ASSUME NEW s \in Session \ {t}
          PROVE  writes'[s] = writes[s] /\ tickets'[s] = tickets[s] /\ Home(c) # s
      BY <1>8, <2>0 DEF SendBufferToClient, MembersTypeOK, Home
    <3>2. QED
      BY <1>8, <1>own, <2>0, <2>1, <3>1 DEF Untouched, Moves, memberVars
  <2>6. QED
    BY <2>4, <2>5 DEF Effect
<1>9. ASSUME NEW w \in writes[t], WriteCompletes(t, w)
      PROVE  Effect(t) /\ \A s \in Session \ {t} : Untouched(s)
  <2>1. \/ UNCHANGED <<at, on, arg>> /\ state_[t] = "Canceled"
        \/ Moves(t, "takeNext", t, w.buf) /\ state_[t] # "Canceled"
    BY <1>9, VisitMoves DEF WriteCompletes
  <2>2. writes'[t] = writes[t] \ {w} /\ w \in Write
    BY <1>9 DEF WriteCompletes, MembersTypeOK
  <2>3. WriteCompletesEffect(t, w)
    BY <1>9, <2>1, <2>2 DEF WriteCompletes, WriteCompletesEffect, Stays, MembersSame,
                            FlagAndNextSame, memberVars
  <2>4. \A s \in Session \ {t} : Untouched(s)
    BY <1>9, <1>own, <2>1 DEF WriteCompletes, Moves, Untouched, MembersTypeOK, memberVars
  <2>5. QED
    BY <2>3, <2>4 DEF Effect
<1>10. ASSUME NEW w \in writes[t], WriteFails(t, w)
       PROVE  Effect(t) /\ \A s \in Session \ {t} : Untouched(s)
  <2>1. \/ Moves(t, "idle", t, NoBuffer) \/ Moves(t, "closeSocket", t, arg[t])
    BY <1>10, VisitMoves, ReturnMoves DEF WriteFails, SessionClosedHandler, Home
  <2>2. reading'[t] = "none"
    BY <1>10, <1>inv DEF WriteFails, OpeningOK, Opening, TicketsOK, MembersTypeOK, Write
  <2>3. CloseEffect(t, t)
    BY <1>10, <2>1, <2>2 DEF WriteFails, CloseEffect, SessionClosedHandler, FlagAndNextSame,
                             MembersTypeOK, Home
  <2>4. \A s \in Session \ {t} : Untouched(s)
    BY <1>10, <1>own, <2>1 DEF WriteFails, SessionClosedHandler, Untouched, Moves, MembersTypeOK
  <2>5. QED
    BY <2>3, <2>4 DEF Effect
<1>11. ASSUME NEW c \in Context, CloseSocket(c), on[c] = t
       PROVE  Effect(t) /\ \A s \in Session \ {t} : Untouched(s)
  <2>1. /\ at[c] = "closeSocket" /\ Moves(c, "closedHandler", t, arg[c])
        /\ UNCHANGED <<memberVars, reading, writes, tickets, wire, old>>
    BY <1>11, <1>at DEF CloseSocket, Moves, ContextsOK, ContextsTypeOK
  <2>2. AwayEffect(t, c)
    BY <1>11, <2>1 DEF AwayEffect, MembersSame, FlagAndNextSame, NetSame, memberVars
  <2>3. \A s \in Session \ {t} : Untouched(s)
    BY <1>11, <1>own, <2>1 DEF CloseSocket, Moves, Untouched, MembersTypeOK, memberVars
  <2>4. QED
    BY <2>2, <2>3 DEF Effect
<1>12. ASSUME NEW c \in Context, ClosedHandler(c, "idle"), on[c] = t
       PROVE  Effect(t) /\ \A s \in Session \ {t} : Untouched(s)
  <2>1. /\ at[c] = "closedHandler" /\ Moves(c, "idle", Home(c), NoBuffer)
        /\ UNCHANGED <<memberVars, socketVars, old>>
    BY <1>12, ReturnMoves DEF ClosedHandler
  <2>2. AwayEffect(t, c)
    BY <1>12, <2>1 DEF AwayEffect, MembersSame, FlagAndNextSame, NetSame, memberVars, socketVars
  <2>3. \A s \in Session \ {t} : Untouched(s)
    BY <1>12, <1>own, <2>1 DEF Moves, Untouched, Home, memberVars, socketVars
  <2>4. QED
    BY <2>2, <2>3 DEF Effect
<1>13. ASSUME NEW w \in writes[t], Transmit(t, w)
       PROVE  Effect(t) /\ \A s \in Session \ {t} : Untouched(s)
  <2> DEFINE v == [w EXCEPT !.left = @ - 1]
  <2>1. w \in Write /\ w.left > 0 /\ UNCHANGED <<memberVars, conn, reading, tickets, contextVars>>
    BY <1>13 DEF Transmit, MembersTypeOK
  <2>2. v \in Write /\ v.buf = w.buf /\ v.left = w.left - 1
    BY <2>1 DEF Write
  <2>3. /\ writes' = [writes EXCEPT ![t] = (@ \ {w}) \cup {v}]
        /\ wire' = [wire EXCEPT ![t] = Append(@, w.buf)]
    BY <1>13 DEF Transmit
  <2> HIDE DEF v
  <2>4. writes'[t] = (writes[t] \ {w}) \cup {v} /\ wire'[t] = Append(wire[t], w.buf)
    BY <2>3 DEF MembersTypeOK
  <2>5. TransmitEffect(t, w)
    BY <2>1, <2>2, <2>4 DEF TransmitEffect, Stays, MembersSame, FlagAndNextSame, memberVars,
                            contextVars
  <2>6. \A s \in Session \ {t} : Untouched(s)
    BY <2>1, <2>3 DEF Untouched, MembersTypeOK, memberVars, contextVars
  <2>7. QED
    BY <2>5, <2>6 DEF Effect
<1>14. CASE ConnectionLost(t)
  <2>1. ReadEffect(t)
    BY <1>14 DEF ConnectionLost, ReadEffect, Stays, MembersSame, FlagAndNextSame, NetSame,
                 memberVars, contextVars
  <2>2. \A s \in Session \ {t} : Untouched(s)
    BY <1>14 DEF ConnectionLost, Untouched, MembersTypeOK, memberVars, contextVars
  <2>3. QED
    BY <2>1, <2>2 DEF Effect
<1>15. ASSUME NEW u \in User, Enqueue(u, "idle"), on[u] = t
       PROVE  Effect(t) /\ \A s \in Session \ {t} : Untouched(s)
  <2>1. at[u] = "enqueue" /\ arg[u] \in Buffer /\ UNCHANGED <<state_, socketVars, old>>
    BY <1>15, <1>at DEF Enqueue, WellPlaced
  <2>2. \/ /\ state_[t] = "Running" /\ ~ sending_in_progress_[t]
           /\ Moves(u, "write", t, arg[u])
           /\ next_buffer_to_send_' = next_buffer_to_send_
           /\ sending_in_progress_' = [sending_in_progress_ EXCEPT ![t] = TRUE]
        \/ /\ state_[t] # "Running" \/ sending_in_progress_[t]
           /\ Moves(u, "idle", NoSession, NoBuffer)
           /\ next_buffer_to_send_' = [next_buffer_to_send_ EXCEPT ![t] = arg[u]]
           /\ sending_in_progress_' = sending_in_progress_
    BY <1>15, VisitMoves, ReturnMoves DEF Enqueue, Home
  <2>3. EnqueueEffect(t, u)
    BY <1>15, <2>1, <2>2 DEF EnqueueEffect, NetSame, MembersTypeOK, socketVars
  <2>4. \A s \in Session \ {t} : Untouched(s)
    BY <1>15, <2>1, <2>2 DEF Moves, Untouched, MembersTypeOK, socketVars
  <2>5. QED
    BY <2>3, <2>4 DEF Effect
<1>16. ASSUME NEW u \in User, Submit(u, t)
       PROVE  Effect(t) /\ \A s \in Session \ {t} : Untouched(s)
  <2>1. /\ at[u] = "idle" /\ on[u] = NoSession
        /\ \/ Moves(u, "idle", NoSession, NoBuffer)
           \/ state_[t] # "Canceled" /\ Moves(u, "enqueue", t, sent + 1)
        /\ UNCHANGED <<memberVars, socketVars, old>>
    BY <1>16, <1>home, VisitMoves, ReturnMoves DEF Submit, SendDataBuffer, Home
  <2>2. sent + 1 \in 1 .. MaxSends
    BY <1>16 DEF Submit, MembersTypeOK
  <2>3. SubmitEffect(t, u)
    BY <1>16, <2>1, <2>2 DEF Submit, SubmitEffect, MembersSame, FlagAndNextSame, NetSame,
                             memberVars, socketVars
  <2>4. \A s \in Session \ {t} : Untouched(s)
    BY <2>1 DEF Moves, Untouched, memberVars, socketVars
  <2>5. QED
    BY <2>3, <2>4 DEF Effect
<1>17. ASSUME NEW u \in User, Cancel(u, t)
       PROVE  Effect(t) /\ \A s \in Session \ {t} : Untouched(s)
  <2>1. /\ on[u] = NoSession
        /\ \/ Moves(u, "idle", Home(u), NoBuffer) \/ Moves(u, "closeSocket", t, arg[u])
    BY <1>17, <1>home, VisitMoves, ReturnMoves DEF Cancel, SessionClosedHandler
  <2>2. CloseEffect(t, u)
    BY <1>17, <2>1 DEF Cancel, CloseEffect, SessionClosedHandler, FlagAndNextSame,
                       MembersTypeOK, socketVars
  <2>3. \A s \in Session \ {t} : Untouched(s)
    BY <1>17, <2>1 DEF Cancel, SessionClosedHandler, Untouched, Moves, Home, MembersTypeOK,
                       socketVars
  <2>4. QED
    BY <2>2, <2>3 DEF Effect
<1>18. QED
  BY <1>1, <1>2, <1>3, <1>4, <1>5, <1>6, <1>7, <1>8, <1>9, <1>10, <1>11, <1>12,
     <1>13, <1>14, <1>15, <1>16, <1>17, <1>own
     DEF StepOf, ReadStep, StrandStep, UserStep, NetworkStep

-----------------------------------------------------------------------------
(* The invariant is kept.                                                  *)

LEMMA QuietInit == Init => QuietInv
<1> SUFFICES ASSUME Init PROVE QuietInv
  OBVIOUS
<1>1. NumbersOK
  BY DEF Init, NumbersOK
<1>2. ASSUME NEW s \in Session PROVE QuietOK(s)
  <2>1. Busy(s) = {} /\ writes[s] = {} /\ ~ Opening(s) /\ ~ Given(s)
    BY DEF Init, Busy, Holder, Opening, Given
  <2>2. QED
    BY <2>1 DEF Init, QuietOK, OneInHand, GivenOK, FlagOK
<1>3. QED
  BY <1>1, <1>2, InitInv DEF QuietInv

LEMMA HolderFrame ==
  ASSUME NEW s \in Session, Untouched(s), NEW label
  PROVE  Holder(s, label)' = Holder(s, label)
BY DEF Untouched, Holder

LEMMA QuietFrame ==
  ASSUME ContextsOK, NEW s \in Session, QuietOK(s), Untouched(s)
  PROVE  QuietOK(s)'
<1>1. on[s] = s
  BY DEF ContextsOK, WellPlaced
<1>2. at'[s] = at[s] /\ arg'[s] = arg[s]
  BY <1>1 DEF Untouched
<1>3. Busy(s)' = Busy(s)
  BY HolderFrame DEF Busy
<1>4. (Opening(s)' <=> Opening(s)) /\ (HandshakeInHand(s)' <=> HandshakeInHand(s))
  BY <1>2 DEF Opening, HandshakeInHand, Untouched
<1>5. (Settled(s)' <=> Settled(s)) /\ (Given(s)' <=> Given(s))
  BY <1>2, <1>4 DEF Settled, Given, Untouched
<1>6. OneInHand(s)'
  BY <1>2, <1>3 DEF QuietOK, OneInHand, Untouched
<1>7. FlagOK(s)'
  BY <1>2, <1>3, <1>4 DEF QuietOK, FlagOK, Untouched
<1>8. QED
  BY <1>5, <1>6, <1>7 DEF QuietOK, GivenOK

(* The contexts that hold a buffer of the session, when one moves or none. *)
LEMMA HolderMoves ==
  ASSUME NEW t \in Session, NEW c \in Context, NEW lab, NEW s, NEW b, NEW label,
         Moves(c, lab, s, b)
  PROVE  Holder(t, label)' = (Holder(t, label) \ {c})
                               \cup (IF lab = label /\ s = t THEN {c} ELSE {})
BY DEF Moves, Holder

LEMMA HolderStays ==
  ASSUME NEW t \in Session, NEW label, Stays
  PROVE  Holder(t, label)' = Holder(t, label)
BY DEF Stays, Holder

(* What a move does to the messages that have been given.                  *)
LEMMA GivenMoves ==
  ASSUME NEW t \in Session, NEW c \in Context, NEW lab, NEW s, NEW b,
         Moves(c, lab, s, b), lab # "enqueue", lab = "write" => b = Handshake,
         next_buffer_to_send_'[t] \in {NoBuffer, next_buffer_to_send_[t]},
         Given(t)'
  PROVE  Given(t)
BY DEF Given, Moves

LEMMA GivenStays ==
  ASSUME NEW t \in Session, Stays, next_buffer_to_send_'[t] = next_buffer_to_send_[t]
  PROVE  Given(t)' <=> Given(t)
BY DEF Given, Stays

LEMMA EffectKeepsQuiet ==
  ASSUME QuietInv, SendDuringHandshake = FALSE, NEW t \in Session, Effect(t)
  PROVE  QuietOK(t)'
<1> USE DEF QuietInv, IInv, TypeInv
<1>at. \A c \in Context : WellPlaced(c, at[c], on[c], arg[c])
  BY DEF ContextsOK
<1>own. on[t] = t /\ t \notin User /\ Home(t) = t /\ \A u \in User : Home(u) = NoSession /\ u # t
  BY DEF ContextsOK, WellPlaced, Home
<1>busy. \A c \in Busy(t) : c # t => c \in User /\ at[c] = "write" /\ arg[c] # Handshake
  BY <1>at DEF Busy, Holder, WellPlaced, UserLabel
<1>inv. OpeningOK(t) /\ ClosingOK(t) /\ TicketsOK(t)
  BY DEF SessionInv
<1>quiet. OneInHand(t) /\ (Given(t) => Settled(t)) /\ FlagOK(t)
  BY DEF QuietOK, GivenOK
<1>types. next_buffer_to_send_[t] \in Buffer \cup {NoBuffer} /\ writes[t] \subseteq Write
          /\ tickets[t] \in Nat
  BY DEF MembersTypeOK
<1>given. ASSUME NEW c \in Busy(t), at[c] = "write", arg[c] # Handshake PROVE Settled(t)
  BY <1>given, <1>quiet DEF Busy, Holder, Given
<1>1. CASE StartEffect(t)
  <2>1. Busy(t)' = Busy(t) /\ ~ Given(t)'
    BY <1>1, <1>quiet, HolderStays, GivenStays
       DEF StartEffect, FlagAndNextSame, Settled, Busy
  <2>2. writes[t] = {} /\ ~ sending_in_progress_[t]
    BY <1>1, <1>inv, <1>types DEF StartEffect, ClosingOK, TicketsOK, Write
  <2>3. QED
    BY <1>1, <1>quiet, <2>1, <2>2
       DEF StartEffect, QuietOK, OneInHand, GivenOK, FlagOK, Stays, FlagAndNextSame, NetSame
<1>2. CASE ReadEffect(t)
  <2>1. Busy(t)' = Busy(t) /\ (Given(t)' <=> Given(t))
    BY <1>2, HolderStays, GivenStays DEF ReadEffect, MembersSame, FlagAndNextSame, Busy
  <2>2. at'[t] = at[t] /\ arg'[t] = arg[t] /\ (Opening(t)' => Opening(t))
        /\ (HandshakeInHand(t)' <=> HandshakeInHand(t)) /\ (Settled(t) => Settled(t)')
    BY <1>2 DEF ReadEffect, Stays, Opening, HandshakeInHand, Settled, MembersSame, NetSame
  <2>3. QED
    BY <1>2, <1>quiet, <2>1, <2>2
       DEF ReadEffect, QuietOK, OneInHand, GivenOK, FlagOK, MembersSame, FlagAndNextSame, NetSame
<1>3. ASSUME NEW c \in Context, CloseEffect(t, c) PROVE QuietOK(t)'
  <2>0. c = t \/ c \in User
    BY <1>3 DEF CloseEffect
  <2>1. Busy(t)' = Busy(t) /\ (Given(t)' => Given(t))
    <3>0. c \notin Holder(t, "write") /\ c \notin Holder(t, "takeNext")
      BY <1>3 DEF CloseEffect, Holder
    <3>1. PICK label, s, b : label \in {"idle", "closeSocket"} /\ Moves(c, label, s, b)
      BY <1>3 DEF CloseEffect
    <3>2. Holder(t, "write")' = Holder(t, "write") /\ Holder(t, "takeNext")' = Holder(t, "takeNext")
      BY <3>1, <3>0, HolderMoves
    <3>3. QED
      BY <1>3, <3>1, <3>2, GivenMoves DEF CloseEffect, FlagAndNextSame, Busy
  <2>2. \/ at'[t] = at[t] /\ arg'[t] = arg[t] /\ reading'[t] = reading[t]
        \/ at'[t] \in {"idle", "closeSocket"} /\ reading'[t] = "none"
    BY <1>3, <1>own, <2>0 DEF CloseEffect, Moves
  <2>3. state_'[t] = "Canceled" /\ writes'[t] \subseteq writes[t]
        /\ sending_in_progress_'[t] = sending_in_progress_[t]
    BY <1>3 DEF CloseEffect, FlagAndNextSame
  <2>4. (Opening(t)' => Opening(t)) /\ (Settled(t) => Settled(t)')
    BY <2>2, <2>3 DEF Opening, Settled, HandshakeInHand
  <2>5. QED
    BY <1>quiet, <2>1, <2>2, <2>3, <2>4 DEF QuietOK, OneInHand, GivenOK, FlagOK
<1>4. ASSUME NEW c \in Context, AwayEffect(t, c) PROVE QuietOK(t)'
  <2>1. PICK label, s, b : label \in {"idle", "closedHandler"} /\ Moves(c, label, s, b)
    BY <1>4 DEF AwayEffect
  <2>2. Busy(t)' = Busy(t) /\ (Given(t)' => Given(t))
    <3>0. c \notin Holder(t, "write") /\ c \notin Holder(t, "takeNext")
      BY <1>4 DEF AwayEffect, Holder
    <3>1. Holder(t, "write")' = Holder(t, "write") /\ Holder(t, "takeNext")' = Holder(t, "takeNext")
      BY <2>1, <3>0, HolderMoves
    <3>2. QED
      BY <1>4, <2>1, <3>1, GivenMoves DEF AwayEffect, MembersSame, FlagAndNextSame, Busy
  <2>3. /\ (at'[t] = at[t] /\ arg'[t] = arg[t]) \/ at'[t] \in {"idle", "closedHandler"}
        /\ at[t] = "restore" => at'[t] = "restore"
    BY <1>4, <2>1 DEF AwayEffect, Moves
  <2>4. (Opening(t)' => Opening(t)) /\ (Settled(t) => Settled(t)')
        /\ (HandshakeInHand(t) => HandshakeInHand(t)')
    BY <1>4, <2>1, <2>3
       DEF AwayEffect, Moves, Opening, Settled, HandshakeInHand, MembersSame, NetSame
  <2>5. QED
    BY <1>4, <1>quiet, <2>2, <2>3, <2>4
       DEF AwayEffect, QuietOK, OneInHand, GivenOK, FlagOK, MembersSame, FlagAndNextSame, NetSame
<1>5. CASE HandshakeEffect(t)
  <2>1. /\ state_[t] = "Handshaking" /\ ~ UserWrites(t) /\ writes[t] = {}
        /\ ~ sending_in_progress_[t]
    BY <1>5, <1>inv, <1>quiet, <1>types
       DEF HandshakeEffect, OpeningOK, Opening, TicketsOK, Write, FlagOK
  <2>2. Busy(t) = {}
    BY <1>5, <1>busy, <2>1 DEF HandshakeEffect, UserWrites, Busy, Holder
  <2>3. Busy(t)' = {t} /\ ~ Given(t)'
    BY <1>5, <1>quiet, <2>2, HolderMoves, GivenMoves
       DEF HandshakeEffect, Busy, Settled, MembersSame, FlagAndNextSame, Context
  <2>4. at'[t] = "write"
    BY <1>5 DEF HandshakeEffect, Moves
  <2>5. QED
    BY <1>5, <2>1, <2>3, <2>4
       DEF HandshakeEffect, QuietOK, OneInHand, GivenOK, FlagOK, MembersSame,
           FlagAndNextSame, NetSame
<1>6. CASE SetRunningEffect(t)
  <2>1. PICK label, b : label \in {"idle", "restore"} /\ Moves(t, label, t, b)
    BY <1>6 DEF SetRunningEffect
  <2>2. /\ ~ UserWrites(t) /\ reading[t] = "none" /\ ~ sending_in_progress_[t]
        /\ \A w \in writes[t] : w.buf = Handshake
    BY <1>6, <1>inv, <1>quiet DEF SetRunningEffect, OpeningOK, Opening, FlagOK
  <2>3. Busy(t) = {}
    BY <1>6, <1>busy, <2>2 DEF SetRunningEffect, UserWrites, Busy, Holder
  <2>4. Busy(t)' = {} /\ ~ Given(t)'
    BY <1>6, <1>quiet, <2>1, <2>3, HolderMoves, GivenMoves
       DEF SetRunningEffect, Busy, Settled, FlagAndNextSame, Context
  <2>5. at'[t] = label
    BY <2>1 DEF Moves
  <2>6. QED
    BY <1>6, <1>quiet, <2>1, <2>2, <2>4, <2>5
       DEF SetRunningEffect, QuietOK, OneInHand, GivenOK, FlagOK, HandshakeInHand, Opening,
           FlagAndNextSame, NetSame
<1>7. CASE RestoreEffect(t)
  <2>1. Moves(t, "idle", t, NoBuffer) /\ reading[t] = "none"
    BY <1>7, <1>inv DEF RestoreEffect, OpeningOK, Opening
  <2>2. Busy(t)' = Busy(t) /\ ~ Given(t)'
    <3>0. t \notin Holder(t, "write") /\ t \notin Holder(t, "takeNext")
      BY <1>7 DEF RestoreEffect, Holder
    <3>1. Holder(t, "write")' = Holder(t, "write") /\ Holder(t, "takeNext")' = Holder(t, "takeNext")
      BY <2>1, <3>0, HolderMoves DEF Context
    <3>2. QED
      BY <1>7, <1>quiet, <2>1, <3>1, GivenMoves
         DEF RestoreEffect, Busy, Settled, FlagAndNextSame, Context
  <2>3. at'[t] = "idle"
    BY <2>1 DEF Moves
  <2>4. QED
    BY <1>7, <1>quiet, <2>1, <2>2, <2>3
       DEF RestoreEffect, QuietOK, OneInHand, GivenOK, FlagOK, Opening, NetSame
<1>8. CASE TakeNextEffect(t)
  <2>1. Busy(t) = {t} /\ writes[t] = {} /\ reading[t] = "none"
    <3>1. t \in Busy(t)
      BY <1>8, <1>own DEF TakeNextEffect, Busy, Holder
    <3>2. reading[t] = "none"
      BY <1>8, <1>inv DEF TakeNextEffect, OpeningOK, Opening
    <3>3. QED
      BY <1>quiet, <3>1, <3>2 DEF OneInHand
  <2>2. CASE next_buffer_to_send_[t] # NoBuffer
    <3>1. Moves(t, "write", t, next_buffer_to_send_[t]) /\ next_buffer_to_send_[t] # Handshake
      BY <1>8, <1>inv, <2>2 DEF TakeNextEffect, TicketsOK
    <3>2. Settled(t)
      BY <1>quiet, <2>2 DEF Given
    <3>3. at'[t] = "write" /\ arg'[t] = next_buffer_to_send_[t]
      BY <3>1 DEF Moves
    <3>4. Settled(t)' /\ ~ Opening(t)'
      BY <1>8, <2>1, <3>1, <3>2, <3>3
         DEF TakeNextEffect, Settled, HandshakeInHand, Opening, NetSame
    <3>5. Busy(t)' = {t}
      BY <2>1, <3>1, HolderMoves DEF Busy, Context
    <3>6. state_[t] = "Running" => sending_in_progress_[t]
      BY <1>quiet, <2>1, <3>2 DEF FlagOK, Settled
    <3>7. QED
      BY <1>8, <2>1, <2>2, <3>3, <3>4, <3>5, <3>6
         DEF TakeNextEffect, QuietOK, OneInHand, GivenOK, FlagOK, NetSame
  <2>3. CASE next_buffer_to_send_[t] = NoBuffer
    <3>1. Moves(t, "idle", t, NoBuffer) /\ ~ sending_in_progress_'[t]
          /\ next_buffer_to_send_'[t] = NoBuffer
      BY <1>8, <2>3 DEF TakeNextEffect
    <3>2. at'[t] = "idle"
      BY <3>1 DEF Moves
    <3>3. Settled(t) => Settled(t)'
      BY <1>8, <2>1, <3>2 DEF TakeNextEffect, Settled, HandshakeInHand, NetSame
    <3>4. Busy(t)' = {} /\ (Given(t)' => Given(t))
      BY <2>1, <3>1, HolderMoves, GivenMoves DEF Busy, Context
    <3>5. QED
      BY <1>8, <1>quiet, <2>1, <3>1, <3>2, <3>3, <3>4
         DEF TakeNextEffect, QuietOK, OneInHand, GivenOK, FlagOK, NetSame, Opening
  <2>4. QED
    BY <2>2, <2>3
<1>9. ASSUME NEW c \in Context, SendEffect(t, c) PROVE QuietOK(t)'
  <2>1. Busy(t) = {c} /\ writes[t] = {}
    <3>1. c \in Busy(t)
      BY <1>9 DEF SendEffect, Busy, Holder
    <3>2. QED
      BY <1>quiet, <3>1 DEF OneInHand
  <2>2. PICK label, s, b : label \in {"setRunning", "idle"} /\ Moves(c, label, s, b)
    BY <1>9 DEF SendEffect
  <2>3. Busy(t)' = {} /\ (Given(t)' => Given(t))
    BY <1>9, <2>1, <2>2, HolderMoves, GivenMoves
       DEF Busy, SendEffect, MembersSame, FlagAndNextSame
  <2>4. /\ \A v, w \in writes'[t] : v = w
        /\ \A w \in writes'[t] : w.buf = arg[c]
        /\ state_[t] # "Canceled" => writes'[t] # {}
    BY <1>9, <2>1 DEF SendEffect
  <2>5. /\ state_'[t] = state_[t] /\ reading'[t] = reading[t]
        /\ sending_in_progress_'[t] = sending_in_progress_[t]
    BY <1>9 DEF SendEffect, MembersSame, FlagAndNextSame
  <2>6. CASE arg[c] = Handshake
    <3>1. c = t /\ Opening(t) /\ at'[t] = "setRunning"
      BY <1>9, <2>6 DEF SendEffect, Opening, Moves
    <3>2. ~ Given(t)'
      BY <1>9, <1>quiet, <2>3, <2>6, <3>1 DEF SendEffect, Settled, HandshakeInHand
    <3>3. state_[t] \in {"Handshaking", "Canceled"} /\ ~ sending_in_progress_[t]
      BY <1>inv, <1>quiet, <3>1 DEF OpeningOK, FlagOK
    <3>4. QED
      BY <2>3, <2>4, <2>5, <2>6, <3>1, <3>2, <3>3 DEF QuietOK, OneInHand, GivenOK, FlagOK
  <2>7. CASE arg[c] # Handshake
    <3>1. Settled(t)
      BY <1>9, <1>given, <2>1, <2>7 DEF SendEffect
    <3>2. (at'[t] = at[t] /\ arg'[t] = arg[t]) \/ at'[t] = "idle"
      BY <1>9, <2>7 DEF SendEffect, Moves
    <3>3. at'[t] \notin {"write", "takeNext"}
      <4>1. CASE c = t
        BY <1>9, <2>7, <4>1 DEF SendEffect, Moves
      <4>2. CASE c # t
        BY <1>own, <2>1, <3>2, <4>2 DEF Busy, Holder, Context
      <4>3. QED
        BY <4>1, <4>2
    <3>4. Settled(t)' /\ ~ Opening(t)'
      BY <2>4, <2>5, <2>7, <3>1, <3>2, <3>3 DEF Settled, HandshakeInHand, Opening
    <3>5. state_[t] = "Running" => sending_in_progress_[t]
      BY <1>quiet, <2>1, <3>1 DEF FlagOK, Settled
    <3>6. QED
      BY <2>3, <2>4, <2>5, <3>1, <3>3, <3>4, <3>5
         DEF QuietOK, OneInHand, GivenOK, FlagOK, Settled
  <2>8. QED
    BY <2>6, <2>7
<1>10. ASSUME NEW w \in writes[t], WriteCompletesEffect(t, w) PROVE QuietOK(t)'
  <2>1. Busy(t) = {} /\ writes[t] = {w} /\ writes'[t] = {} /\ w.buf \in Buffer
    BY <1>10, <1>quiet DEF OneInHand, WriteCompletesEffect, Write
  <2>2. /\ state_'[t] = state_[t] /\ reading'[t] = reading[t]
        /\ sending_in_progress_'[t] = sending_in_progress_[t]
        /\ at[t] = "idle"
    BY <1>10 DEF WriteCompletesEffect, MembersSame, FlagAndNextSame
  <2>3. CASE state_[t] = "Canceled"
    <3>1. Stays
      BY <1>10, <2>3 DEF WriteCompletesEffect
    <3>2. Busy(t)' = {} /\ (Given(t)' <=> Given(t))
      BY <1>10, <2>1, <3>1, HolderStays, GivenStays
         DEF Busy, WriteCompletesEffect, MembersSame, FlagAndNextSame
    <3>3. (Opening(t)' => Opening(t)) /\ (Settled(t) => Settled(t)') /\ at'[t] = "idle"
      BY <2>1, <2>2, <3>1 DEF Opening, Settled, HandshakeInHand, Stays
    <3>4. QED
      BY <1>quiet, <2>1, <2>2, <2>3, <3>2, <3>3 DEF QuietOK, OneInHand, GivenOK, FlagOK
  <2>4. CASE state_[t] # "Canceled"
    <3>1. Moves(t, "takeNext", t, w.buf)
      BY <1>10, <2>4 DEF WriteCompletesEffect
    <3>2. Busy(t)' = {t} /\ (Given(t)' => Given(t))
      BY <1>10, <2>1, <3>1, HolderMoves, GivenMoves
         DEF Busy, WriteCompletesEffect, MembersSame, FlagAndNextSame, Context
    <3>3. at'[t] = "takeNext" /\ arg'[t] = w.buf
      BY <3>1 DEF Moves
    <3>4. (Opening(t)' => Opening(t)) /\ (Settled(t) => Settled(t)')
          /\ (HandshakeInHand(t) => HandshakeInHand(t)')
      BY <2>1, <2>2, <3>3 DEF Opening, Settled, HandshakeInHand
    <3>5. QED
      BY <1>quiet, <2>1, <2>2, <3>2, <3>3, <3>4 DEF QuietOK, OneInHand, GivenOK, FlagOK
  <2>5. QED
    BY <2>3, <2>4
<1>11. ASSUME NEW w \in writes[t], TransmitEffect(t, w) PROVE QuietOK(t)'
  <2>1. PICK v \in Write : v.buf = w.buf /\ writes'[t] = (writes[t] \ {w}) \cup {v}
    BY <1>11 DEF TransmitEffect
  <2>2. writes[t] = {w} /\ writes'[t] = {v}
    BY <1>quiet, <2>1 DEF OneInHand
  <2>3. Stays /\ MembersSame(t) /\ reading'[t] = reading[t]
    BY <1>11 DEF TransmitEffect
  <2>4. Busy(t)' = Busy(t) /\ (Given(t)' <=> Given(t))
    BY <2>3, HolderStays, GivenStays DEF Busy, MembersSame, FlagAndNextSame
  <2>5. (Opening(t)' <=> Opening(t)) /\ (HandshakeInHand(t)' <=> HandshakeInHand(t))
    BY <2>1, <2>2, <2>3 DEF Opening, HandshakeInHand, Stays
  <2>6. Settled(t)' <=> Settled(t)
    BY <2>3, <2>5 DEF Settled, Stays, MembersSame
  <2>7. QED
    BY <1>quiet, <2>1, <2>2, <2>3, <2>4, <2>5, <2>6
       DEF QuietOK, OneInHand, GivenOK, FlagOK, Stays, MembersSame, FlagAndNextSame
<1>12. ASSUME NEW u \in User, EnqueueEffect(t, u) PROVE QuietOK(t)'
  <2>1. Settled(t)
    BY <1>12, <1>quiet DEF EnqueueEffect, Given, Context
  <2>2. state_'[t] = state_[t] /\ writes'[t] = writes[t] /\ reading'[t] = reading[t]
        /\ at'[t] = at[t] /\ arg'[t] = arg[t]
    BY <1>12, <1>own DEF EnqueueEffect, NetSame, Moves
  <2>3. Settled(t)' /\ ~ Opening(t)' /\ ~ HandshakeInHand(t)
    BY <2>1, <2>2 DEF Settled, HandshakeInHand, Opening
  <2>4. CASE state_[t] = "Running" /\ ~ sending_in_progress_[t]
    <3>1. Moves(u, "write", t, arg[u]) /\ sending_in_progress_'[t]
      BY <1>12, <2>4 DEF EnqueueEffect
    <3>2. Busy(t) = {} /\ writes[t] = {}
      BY <1>quiet, <2>1, <2>3, <2>4 DEF FlagOK, Settled
    <3>3. Busy(t)' = {u}
      BY <3>1, <3>2, HolderMoves DEF Busy, Context
    <3>4. QED
      BY <1>quiet, <2>2, <2>3, <3>1, <3>2, <3>3 DEF QuietOK, OneInHand, GivenOK, FlagOK
  <2>5. CASE ~ (state_[t] = "Running" /\ ~ sending_in_progress_[t])
    <3>1. Moves(u, "idle", NoSession, NoBuffer)
          /\ sending_in_progress_'[t] = sending_in_progress_[t]
      BY <1>12, <2>5 DEF EnqueueEffect
    <3>2. Busy(t)' = Busy(t)
      <4>1. u \notin Holder(t, "write") /\ u \notin Holder(t, "takeNext")
        BY <1>12 DEF EnqueueEffect, Holder
      <4>2. QED
        BY <3>1, <4>1, HolderMoves DEF Busy, Context
    <3>3. QED
      BY <1>quiet, <2>2, <2>3, <2>5, <3>1, <3>2
         DEF QuietOK, OneInHand, GivenOK, FlagOK, Settled, HandshakeInHand
  <2>6. QED
    BY <2>4, <2>5
<1>13. ASSUME NEW u \in User, SubmitEffect(t, u) PROVE QuietOK(t)'
  <2>1. PICK label, s, b : label \in {"idle", "enqueue"} /\ Moves(u, label, s, b)
    BY <1>13 DEF SubmitEffect
  <2>2. state_'[t] = state_[t] /\ writes'[t] = writes[t] /\ reading'[t] = reading[t]
        /\ at'[t] = at[t] /\ arg'[t] = arg[t]
        /\ sending_in_progress_'[t] = sending_in_progress_[t]
        /\ next_buffer_to_send_'[t] = next_buffer_to_send_[t]
    BY <1>13, <1>own, <2>1 DEF SubmitEffect, NetSame, MembersSame, FlagAndNextSame, Moves
  <2>3. Busy(t)' = Busy(t)
    <3>1. u \notin Holder(t, "write") /\ u \notin Holder(t, "takeNext")
      BY <1>13 DEF SubmitEffect, Holder
    <3>2. QED
      BY <2>1, <3>1, HolderMoves DEF Busy, Context
  <2>4. (Opening(t)' <=> Opening(t)) /\ (HandshakeInHand(t)' <=> HandshakeInHand(t))
        /\ (Settled(t)' <=> Settled(t))
    BY <2>2 DEF Opening, HandshakeInHand, Settled
  <2>5. Given(t)' => Settled(t)
    <3>1. CASE Moves(u, "idle", NoSession, NoBuffer)
      BY <1>quiet, <2>2, <3>1, GivenMoves DEF Context
    <3>2. CASE state_[t] # "Canceled" /\ ~ HandshakePending(t)
      BY <1>inv, <3>2 DEF HandshakePending, Settled, HandshakeInHand, OpeningOK, Opening
    <3>3. QED
      BY <1>13, <3>1, <3>2 DEF SubmitEffect
  <2>6. QED
    BY <1>quiet, <2>2, <2>3, <2>4, <2>5 DEF QuietOK, OneInHand, GivenOK, FlagOK
<1>14. QED
  BY <1>1, <1>2, <1>3, <1>4, <1>5, <1>6, <1>7, <1>8, <1>9, <1>10, <1>11, <1>12, <1>13
     DEF Effect

-----------------------------------------------------------------------------
(* The steps of the queue, as what they do to the one connection.          *)

Begins(s, b, pieces) == CurrentOf(s)' = b /\ LeftOf(s)' = pieces

Continues(s) == CurrentOf(s)' = CurrentOf(s) /\ LeftOf(s)' = LeftOf(s)

NextAndWireSame(s) ==
  next_buffer_to_send_'[s] = next_buffer_to_send_[s] /\ wire'[s] = wire[s]

QueueSame(s) == PhaseOf(s)' = PhaseOf(s) /\ Continues(s) /\ NextAndWireSame(s)

OpenStep(s) ==
  /\ PhaseOf(s) = "new" /\ PhaseOf(s)' = "open"
  /\ Begins(s, Handshake, 1) /\ NextAndWireSame(s)

GiveStep(s, b) ==
  /\ IF PhaseOf(s) = "open" /\ CurrentOf(s) = NoBuffer
     THEN Begins(s, b, Chunks) /\ next_buffer_to_send_'[s] = next_buffer_to_send_[s]
     ELSE Continues(s) /\ next_buffer_to_send_'[s] = b
  /\ PhaseOf(s)' = PhaseOf(s) /\ wire'[s] = wire[s]

CarryStep(s) ==
  /\ LeftOf(s) > 0 /\ LeftOf(s)' = LeftOf(s) - 1
  /\ wire'[s] = Append(wire[s], CurrentOf(s))
  /\ PhaseOf(s)' = PhaseOf(s) /\ CurrentOf(s)' = CurrentOf(s)
  /\ next_buffer_to_send_'[s] = next_buffer_to_send_[s]

AdvanceStep(s) ==
  /\ CurrentOf(s) # NoBuffer /\ LeftOf(s) = 0
  /\ IF next_buffer_to_send_[s] # NoBuffer
     THEN Begins(s, next_buffer_to_send_[s], Chunks) ELSE Begins(s, NoBuffer, 0)
  /\ next_buffer_to_send_'[s] = NoBuffer
  /\ PhaseOf(s)' = PhaseOf(s) /\ wire'[s] = wire[s]

CloseStep(s) ==
  /\ PhaseOf(s)' = "closed"
  /\ Begins(s, NoBuffer, 0) \/ Continues(s)
  /\ NextAndWireSame(s)

QueueStep(s) ==
  \/ QueueSame(s) \/ OpenStep(s) \/ CarryStep(s) \/ AdvanceStep(s) \/ CloseStep(s)
  \/ \E u \in User : /\ at[u] = "enqueue" /\ arg[u] \in 1 .. MaxSends
                    /\ GiveStep(s, arg[u])

LEMMA QueueStepImplements ==
  ASSUME TypeInv, TypeInv', NEW t \in Session, QueueStep(t),
         \A s \in Session \ {t} : QueueSame(s)
  PROVE  [Queue!QueueNext]_(Queue!queueVars)
<1> DEFINE phase == [s \in Session |-> PhaseOf(s)]
           current == [s \in Session |-> CurrentOf(s)]
           left == [s \in Session |-> LeftOf(s)]
           nextB == next_buffer_to_send_
<1>types. /\ next_buffer_to_send_ \in [Session -> Buffer \cup {NoBuffer}]
          /\ next_buffer_to_send_' \in [Session -> Buffer \cup {NoBuffer}]
          /\ wire \in [Session -> Seq(Buffer)] /\ wire' \in [Session -> Seq(Buffer)]
  BY DEF TypeInv, MembersTypeOK
<1>1. /\ phase' = [phase EXCEPT ![t] = PhaseOf(t)']
      /\ current' = [current EXCEPT ![t] = CurrentOf(t)']
      /\ left' = [left EXCEPT ![t] = LeftOf(t)']
      /\ next_buffer_to_send_' = [next_buffer_to_send_ EXCEPT ![t] = next_buffer_to_send_'[t]]
      /\ wire' = [wire EXCEPT ![t] = wire'[t]]
  BY <1>types DEF QueueSame, Continues, NextAndWireSame
<1>2. /\ phase[t] = PhaseOf(t) /\ current[t] = CurrentOf(t) /\ left[t] = LeftOf(t)
      /\ phase = [phase EXCEPT ![t] = PhaseOf(t)]
      /\ current = [current EXCEPT ![t] = CurrentOf(t)]
      /\ left = [left EXCEPT ![t] = LeftOf(t)]
      /\ nextB = [nextB EXCEPT ![t] = nextB[t]]
      /\ wire = [wire EXCEPT ![t] = wire[t]]
  BY <1>types
<1>3. CASE QueueSame(t)
  <2>1. UNCHANGED <<phase, current, left, next_buffer_to_send_, wire>>
    BY <1>1, <1>2, <1>3 DEF QueueSame, Continues, NextAndWireSame
  <2>2. QED
    BY <2>1 DEF Queue!queueVars
<1>4. CASE OpenStep(t)
  <2>1. Queue!Open(t)
    BY <1>1, <1>2, <1>4 DEF OpenStep, Begins, NextAndWireSame, Queue!Open, Queue!Begin
  <2>2. QED
    BY <2>1 DEF Queue!QueueNext
<1>5. ASSUME NEW b \in 1 .. MaxSends, GiveStep(t, b) PROVE Queue!QueueNext
  <2>1. Queue!Give(t, b)
    BY <1>1, <1>2, <1>5 DEF GiveStep, Begins, Continues, Queue!Give, Queue!Begin
  <2>2. QED
    BY <2>1 DEF Queue!QueueNext
<1>6. CASE CarryStep(t)
  <2>1. Queue!Carry(t)
    BY <1>1, <1>2, <1>6 DEF CarryStep, Queue!Carry
  <2>2. QED
    BY <2>1 DEF Queue!QueueNext
<1>7. CASE AdvanceStep(t)
  <2>1. Queue!Advance(t)
    BY <1>1, <1>2, <1>7 DEF AdvanceStep, Begins, Queue!Advance, Queue!Begin
  <2>2. QED
    BY <2>1 DEF Queue!QueueNext
<1>8. CASE CloseStep(t)
  <2>1. Queue!Close(t)
    BY <1>1, <1>2, <1>8 DEF CloseStep, Begins, Continues, NextAndWireSame, Queue!Close,
                            Queue!Begin
  <2>2. QED
    BY <2>1 DEF Queue!QueueNext
<1>9. QED
  BY <1>3, <1>4, <1>5, <1>6, <1>7, <1>8 DEF QueueStep

-----------------------------------------------------------------------------
(* What is current, when one buffer or none is in hand.                    *)
InHand(s) ==
  /\ writes[s] = {} /\ Busy(s) = {} => CurrentOf(s) = NoBuffer /\ LeftOf(s) = 0
  /\ \A w \in writes[s] : writes[s] = {w} /\ Busy(s) = {} =>
       CurrentOf(s) = w.buf /\ LeftOf(s) = w.left
  /\ \A c \in Context : writes[s] = {} /\ Busy(s) = {c} =>
       /\ CurrentOf(s) = arg[c]
       /\ LeftOf(s) = IF at[c] = "write" THEN ChunksOf(arg[c]) ELSE 0

LEMMA InHandNow == ASSUME NEW s \in Session PROVE InHand(s)
<1>1. ASSUME writes[s] = {}, Busy(s) = {} PROVE CurrentOf(s) = NoBuffer /\ LeftOf(s) = 0
  BY <1>1 DEF Busy, CurrentOf, CurrentBuffers, LeftOf
<1>2. ASSUME NEW w \in writes[s], writes[s] = {w}, Busy(s) = {}
      PROVE  CurrentOf(s) = w.buf /\ LeftOf(s) = w.left
  <2>1. CurrentBuffers(s) = {w.buf} /\ Holder(s, "write") = {}
    BY <1>2 DEF Busy, CurrentBuffers
  <2>2. QED
    BY <1>2, <2>1 DEF CurrentOf, LeftOf
<1>3. ASSUME NEW c \in Context, writes[s] = {}, Busy(s) = {c}
      PROVE  /\ CurrentOf(s) = arg[c]
             /\ LeftOf(s) = IF at[c] = "write" THEN ChunksOf(arg[c]) ELSE 0
  <2>1. CurrentBuffers(s) = {arg[c]}
    BY <1>3 DEF Busy, CurrentBuffers
  <2>2. Holder(s, "write") = (IF at[c] = "write" THEN {c} ELSE {})
    BY <1>3 DEF Busy, Holder
  <2>3. QED
    BY <1>3, <2>1, <2>2 DEF CurrentOf, LeftOf
<1>4. QED
  BY <1>1, <1>2, <1>3 DEF InHand

LEMMA InHandThen == ASSUME NEW s \in Session PROVE InHand(s)'
<1>1. ASSUME writes'[s] = {}, Busy(s)' = {}
      PROVE  CurrentOf(s)' = NoBuffer /\ LeftOf(s)' = 0
  BY <1>1 DEF Busy, CurrentOf, CurrentBuffers, LeftOf
<1>2. ASSUME NEW w \in writes'[s], writes'[s] = {w}, Busy(s)' = {}
      PROVE  CurrentOf(s)' = w.buf /\ LeftOf(s)' = w.left
  <2>1. CurrentBuffers(s)' = {w.buf} /\ Holder(s, "write")' = {}
    BY <1>2 DEF Busy, CurrentBuffers
  <2>2. QED
    BY <1>2, <2>1 DEF CurrentOf, LeftOf
<1>3. ASSUME NEW c \in Context, writes'[s] = {}, Busy(s)' = {c}
      PROVE  /\ CurrentOf(s)' = arg'[c]
             /\ LeftOf(s)' = IF at'[c] = "write" THEN ChunksOf(arg'[c]) ELSE 0
  <2>1. CurrentBuffers(s)' = {arg'[c]}
    BY <1>3 DEF Busy, CurrentBuffers
  <2>2. Holder(s, "write")' = (IF at'[c] = "write" THEN {c} ELSE {})
    BY <1>3 DEF Busy, Holder
  <2>3. QED
    BY <1>3, <2>1, <2>2 DEF CurrentOf, LeftOf, ChunksOf
<1>4. QED
  BY <1>1, <1>2, <1>3 DEF InHand, ChunksOf

(* The same buffer stays in the same hands.                                *)
LEMMA HandKept ==
  ASSUME NEW s \in Session, writes'[s] = writes[s],
         Holder(s, "write")' = Holder(s, "write"),
         Holder(s, "takeNext")' = Holder(s, "takeNext"),
         \A c \in Busy(s) : arg'[c] = arg[c]
  PROVE  Continues(s)
<1>1. CurrentBuffers(s)' = CurrentBuffers(s)
  BY DEF CurrentBuffers, Busy
<1>2. CurrentOf(s)' = CurrentOf(s)
  BY <1>1 DEF CurrentOf
<1>3. LeftOf(s)' = LeftOf(s)
  BY <1>2 DEF LeftOf, ChunksOf
<1>4. QED
  BY <1>2, <1>3 DEF Continues

(* So it does when a context moves that has none, and gets none.           *)
LEMMA HandKeptByMove ==
  ASSUME NEW s \in Session, NEW c \in Context, c \notin Busy(s),
         NEW label, NEW t, NEW b, Moves(c, label, t, b), label \notin {"write", "takeNext"},
         writes'[s] = writes[s]
  PROVE  Continues(s) /\ (Holder(s, "write") # {} <=> Holder(s, "write")' # {})
<1>1. Holder(s, "write")' = Holder(s, "write") /\ Holder(s, "takeNext")' = Holder(s, "takeNext")
  BY HolderMoves DEF Busy
<1>2. \A d \in Busy(s) : arg'[d] = arg[d]
  BY DEF Moves, Busy, Holder
<1>3. QED
  BY <1>1, <1>2, HandKept

LEMMA MapFrame ==
  ASSUME NEW s \in Session, on[s] = s, Untouched(s)
  PROVE  QueueSame(s)
<1>1. Holder(s, "write")' = Holder(s, "write") /\ Holder(s, "takeNext")' = Holder(s, "takeNext")
  BY HolderFrame
<1>2. \A c \in Busy(s) : arg'[c] = arg[c]
  BY DEF Untouched, Busy, Holder
<1>3. Continues(s)
  BY <1>1, <1>2, HandKept DEF Untouched
<1>4. at'[s] = at[s] /\ state_'[s] = state_[s]
  BY DEF Untouched
<1>5. PhaseOf(s)' = PhaseOf(s)
  BY <1>1, <1>4 DEF PhaseOf
<1>6. QED
  BY <1>3, <1>5 DEF QueueSame, NextAndWireSame, Untouched

LEMMA EffectIsQueueStep ==
  ASSUME QuietInv, NEW t \in Session, QuietOK(t)', Effect(t)
  PROVE  QueueStep(t)
<1> USE DEF QuietInv, IInv, TypeInv
<1>at. \A c \in Context : WellPlaced(c, at[c], on[c], arg[c])
  BY DEF ContextsOK
<1>own. on[t] = t /\ t \notin User /\ Home(t) = t /\ \A u \in User : Home(u) = NoSession /\ u # t
  BY DEF ContextsOK, WellPlaced, Home
<1>busy. \A c \in Busy(t) : c # t => c \in User /\ at[c] = "write" /\ arg[c] # Handshake
  BY <1>at DEF Busy, Holder, WellPlaced, UserLabel
<1>inv. OpeningOK(t) /\ ClosingOK(t) /\ TicketsOK(t)
  BY DEF SessionInv
<1>quiet. OneInHand(t) /\ (Given(t) => Settled(t)) /\ FlagOK(t)
  BY DEF QuietOK, GivenOK
<1>types. /\ next_buffer_to_send_[t] \in Buffer \cup {NoBuffer} /\ writes[t] \subseteq Write
          /\ tickets[t] \in Nat /\ state_[t] \in State
  BY DEF MembersTypeOK
<1>hand. InHand(t) /\ InHand(t)'
  BY InHandNow, InHandThen
<1>given. ASSUME NEW c \in Busy(t), at[c] = "write", arg[c] # Handshake PROVE Settled(t)
  BY <1>given, <1>quiet DEF Busy, Holder, Given
<1>1. CASE StartEffect(t)
  <2>1. Holder(t, "write")' = {} /\ Holder(t, "write") = {} /\ Holder(t, "takeNext")' = Holder(t, "takeNext")
    <3>1. Holder(t, "write") = {}
      BY <1>1, <1>inv DEF StartEffect, ClosingOK, Holder
    <3>2. QED
      BY <1>1, <3>1, HolderStays DEF StartEffect
  <2>2. Continues(t)
    BY <1>1, <2>1, HandKept DEF StartEffect, NetSame, Stays
  <2>3. at[t] = "idle" /\ at'[t] = "idle"
    BY <1>1, <1>inv, <1>own DEF StartEffect, ClosingOK, Stays, Context
  <2>4. PhaseOf(t)' = PhaseOf(t)
    BY <1>1, <2>1, <2>3 DEF StartEffect, PhaseOf
  <2>5. QED
    BY <1>1, <2>2, <2>4 DEF StartEffect, FlagAndNextSame, NetSame, QueueStep, QueueSame, NextAndWireSame
<1>2. CASE ReadEffect(t)
  <2>1. /\ Holder(t, "write")' = Holder(t, "write")
        /\ Holder(t, "takeNext")' = Holder(t, "takeNext")
    BY <1>2, HolderStays DEF ReadEffect
  <2>2. Continues(t)
    BY <1>2, <2>1, HandKept DEF ReadEffect, NetSame, Stays
  <2>3. PhaseOf(t)' = PhaseOf(t)
    BY <1>2, <2>1 DEF ReadEffect, PhaseOf, Stays, MembersSame
  <2>4. QED
    BY <1>2, <2>2, <2>3 DEF ReadEffect, MembersSame, FlagAndNextSame, NetSame, QueueStep,
                            QueueSame, NextAndWireSame
<1>3. ASSUME NEW c \in Context, CloseEffect(t, c) PROVE QueueStep(t)
  <2>1. PICK label, s, b : label \in {"idle", "closeSocket"} /\ Moves(c, label, s, b)
    BY <1>3 DEF CloseEffect
  <2>2. c \notin Busy(t)
    BY <1>3 DEF CloseEffect, Busy, Holder
  <2>3. PhaseOf(t)' = "closed" /\ NextAndWireSame(t)
    BY <1>3 DEF CloseEffect, PhaseOf, NextAndWireSame, FlagAndNextSame
  <2>4. CASE writes'[t] = writes[t]
    BY <2>1, <2>2, <2>3, <2>4, HandKeptByMove DEF QueueStep, CloseStep
  <2>5. CASE writes'[t] # writes[t]
    <3>1. writes'[t] = {} /\ Busy(t) = {}
      BY <1>3, <1>quiet, <2>5 DEF CloseEffect, OneInHand
    <3>2. Busy(t)' = {}
      BY <2>1, <3>1, HolderMoves DEF Busy
    <3>3. QED
      BY <1>hand, <2>3, <3>1, <3>2 DEF InHand, QueueStep, CloseStep, Begins
  <2>6. QED
    BY <2>4, <2>5
<1>4. ASSUME NEW c \in Context, AwayEffect(t, c) PROVE QueueStep(t)
  <2>1. PICK label, s, b : label \in {"idle", "closedHandler"} /\ Moves(c, label, s, b)
    BY <1>4 DEF AwayEffect
  <2>2. c \notin Busy(t)
    BY <1>4 DEF AwayEffect, Busy, Holder
  <2>3. Continues(t) /\ (Holder(t, "write") # {} <=> Holder(t, "write")' # {})
    BY <1>4, <2>1, <2>2, HandKeptByMove DEF AwayEffect, NetSame
  <2>4. at'[t] = at[t] \/ (at[t] \notin {"restore", "setRunning"} /\ at'[t] \in {"idle", "closedHandler"})
    BY <1>4, <2>1 DEF AwayEffect, Moves
  <2>5. PhaseOf(t)' = PhaseOf(t)
    BY <1>4, <2>3, <2>4 DEF AwayEffect, PhaseOf, MembersSame
  <2>6. QED
    BY <1>4, <2>3, <2>5 DEF AwayEffect, MembersSame, FlagAndNextSame, NetSame, QueueStep,
                            QueueSame, NextAndWireSame
<1>5. CASE HandshakeEffect(t)
  <2>1. /\ state_[t] = "Handshaking" /\ ~ UserWrites(t) /\ writes[t] = {}
    BY <1>5, <1>inv, <1>types
       DEF HandshakeEffect, OpeningOK, Opening, TicketsOK, Write
  <2>2. Busy(t) = {} /\ Holder(t, "write") = {}
    BY <1>5, <1>busy, <2>1 DEF HandshakeEffect, UserWrites, Busy, Holder
  <2>3. Busy(t)' = {t} /\ Holder(t, "write")' = {t} /\ writes'[t] = {}
    BY <1>5, <2>1, <2>2, HolderMoves DEF HandshakeEffect, Busy, NetSame, Context
  <2>4. at'[t] = "write" /\ arg'[t] = Handshake /\ at[t] = "idle" /\ state_'[t] = "Handshaking"
    BY <1>5, <2>1 DEF HandshakeEffect, Moves, MembersSame
  <2>5. PhaseOf(t) = "new" /\ PhaseOf(t)' = "open"
    BY <2>1, <2>2, <2>3, <2>4 DEF PhaseOf
  <2>6. CurrentOf(t)' = Handshake /\ LeftOf(t)' = 1
    BY <1>hand, <2>3, <2>4 DEF InHand, Context, ChunksOf
  <2>7. QED
    BY <1>5, <2>5, <2>6 DEF HandshakeEffect, MembersSame, FlagAndNextSame, NetSame, QueueStep,
                            OpenStep, Begins, NextAndWireSame
<1>6. CASE SetRunningEffect(t)
  <2>1. PICK label, b : label \in {"idle", "restore"} /\ Moves(t, label, t, b)
    BY <1>6 DEF SetRunningEffect
  <2>2. t \notin Busy(t)
    BY <1>6 DEF SetRunningEffect, Busy, Holder
  <2>3. Continues(t)
    BY <1>6, <2>1, <2>2, HandKeptByMove DEF SetRunningEffect, NetSame, Context
  <2>4. PhaseOf(t)' = PhaseOf(t)
    BY <1>6 DEF SetRunningEffect, PhaseOf, Moves
  <2>5. QED
    BY <1>6, <2>3, <2>4 DEF SetRunningEffect, FlagAndNextSame, NetSame, QueueStep, QueueSame,
                            NextAndWireSame
<1>7. CASE RestoreEffect(t)
  <2>1. t \notin Busy(t)
    BY <1>7 DEF RestoreEffect, Busy, Holder
  <2>2. Continues(t)
    BY <1>7, <2>1, HandKeptByMove DEF RestoreEffect, NetSame, Context
  <2>3. PhaseOf(t)' = PhaseOf(t)
    BY <1>7 DEF RestoreEffect, PhaseOf
  <2>4. QED
    BY <1>7, <2>2, <2>3 DEF RestoreEffect, FlagAndNextSame, NetSame, QueueStep, QueueSame,
                            NextAndWireSame
<1>8. CASE TakeNextEffect(t)
  <2>1. Busy(t) = {t} /\ writes[t] = {} /\ Holder(t, "write") = {} /\ arg[t] \in Buffer
    <3>1. t \in Busy(t)
      BY <1>8, <1>own DEF TakeNextEffect, Busy, Holder, Context
    <3>2. QED
      BY <1>8, <1>quiet, <3>1 DEF TakeNextEffect, OneInHand, Busy, Holder
  <2>2. CurrentOf(t) = arg[t] /\ CurrentOf(t) # NoBuffer /\ LeftOf(t) = 0
    BY <1>8, <1>hand, <2>1 DEF TakeNextEffect, InHand, Context
  <2>3. writes'[t] = {} /\ wire'[t] = wire[t] /\ state_'[t] = state_[t]
    BY <1>8, <2>1 DEF TakeNextEffect, NetSame
  <2>4. CASE next_buffer_to_send_[t] # NoBuffer
    <3>1. Moves(t, "write", t, next_buffer_to_send_[t]) /\ next_buffer_to_send_[t] # Handshake
      BY <1>8, <1>inv, <2>4 DEF TakeNextEffect, TicketsOK
    <3>2. state_[t] \in {"Running", "Canceled"}
      BY <1>quiet, <2>4 DEF Given, Settled
    <3>3. at'[t] = "write" /\ arg'[t] = next_buffer_to_send_[t]
      BY <3>1 DEF Moves
    <3>4. Busy(t)' = {t} /\ Holder(t, "write")' = {t}
      BY <2>1, <3>1, HolderMoves DEF Busy, Context
    <3>5. CurrentOf(t)' = next_buffer_to_send_[t] /\ LeftOf(t)' = Chunks
      BY <1>hand, <2>3, <3>1, <3>3, <3>4 DEF InHand, Context, ChunksOf
    <3>6. PhaseOf(t)' = PhaseOf(t)
      BY <1>8, <2>3, <3>2, <3>3 DEF TakeNextEffect, PhaseOf
    <3>7. QED
      BY <1>8, <2>2, <2>3, <2>4, <3>5, <3>6 DEF TakeNextEffect, QueueStep, AdvanceStep, Begins
  <2>5. CASE next_buffer_to_send_[t] = NoBuffer
    <3>1. Moves(t, "idle", t, NoBuffer) /\ next_buffer_to_send_'[t] = NoBuffer
      BY <1>8, <2>5 DEF TakeNextEffect
    <3>2. at'[t] = "idle"
      BY <3>1 DEF Moves
    <3>3. Busy(t)' = {} /\ Holder(t, "write")' = {}
      BY <2>1, <3>1, HolderMoves DEF Busy, Context
    <3>4. CurrentOf(t)' = NoBuffer /\ LeftOf(t)' = 0
      BY <1>hand, <2>3, <3>3 DEF InHand
    <3>5. PhaseOf(t)' = PhaseOf(t)
      BY <1>8, <2>1, <2>3, <3>2, <3>3 DEF TakeNextEffect, PhaseOf
    <3>6. QED
      BY <2>2, <2>3, <2>5, <3>1, <3>4, <3>5 DEF QueueStep, AdvanceStep, Begins
  <2>6. QED
    BY <2>4, <2>5
<1>9. ASSUME NEW c \in Context, SendEffect(t, c) PROVE QueueStep(t)
  <2>1. Busy(t) = {c} /\ writes[t] = {} /\ c \in Holder(t, "write")
    <3>1. c \in Busy(t) /\ c \in Holder(t, "write")
      BY <1>9 DEF SendEffect, Busy, Holder
    <3>2. QED
      BY <1>quiet, <3>1 DEF OneInHand
  <2>2. CurrentOf(t) = arg[c] /\ LeftOf(t) = ChunksOf(arg[c])
    BY <1>9, <1>hand, <2>1 DEF SendEffect, InHand
  <2>3. PICK label, s, b : label \in {"setRunning", "idle"} /\ Moves(c, label, s, b)
    BY <1>9 DEF SendEffect
  <2>4. Busy(t)' = {}
    BY <2>1, <2>3, HolderMoves DEF Busy
  <2>5. state_'[t] = state_[t] /\ NextAndWireSame(t)
    BY <1>9 DEF SendEffect, MembersSame, FlagAndNextSame, NextAndWireSame
  <2>6. CASE state_[t] = "Canceled"
    <3>1. writes'[t] = {} /\ PhaseOf(t)' = "closed"
      BY <1>9, <2>1, <2>5, <2>6 DEF SendEffect, PhaseOf
    <3>2. QED
      BY <1>hand, <2>4, <2>5, <3>1 DEF InHand, QueueStep, CloseStep, Begins
  <2>7. CASE state_[t] # "Canceled"
    <3>1. PICK w \in Write : /\ w.buf = arg[c] /\ w.left = ChunksOf(arg[c])
                             /\ writes'[t] = {w}
      BY <1>9, <2>1, <2>7 DEF SendEffect
    <3>2. Continues(t)
      BY <1>hand, <2>2, <2>4, <3>1 DEF InHand, Continues
    <3>3. PhaseOf(t) = "open" /\ PhaseOf(t)' = "open"
      <4>1. CASE arg[c] = Handshake
        <5>1. c = t /\ at[t] = "write" /\ at'[t] = "setRunning"
          BY <1>9, <4>1 DEF SendEffect, Moves
        <5>2. QED
          BY <2>1, <2>5, <2>7, <5>1 DEF PhaseOf
      <4>2. CASE arg[c] # Handshake
        <5>1. state_[t] = "Running" /\ at[t] # "restore"
          BY <1>9, <1>given, <2>1, <2>7, <4>2 DEF SendEffect, Settled
        <5>2. at'[t] # "restore"
          BY <1>9, <2>3, <5>1 DEF Moves, Context
        <5>3. QED
          BY <2>5, <5>1, <5>2 DEF PhaseOf
      <4>3. QED
        BY <4>1, <4>2
    <3>4. QED
      BY <2>5, <3>2, <3>3 DEF QueueStep, QueueSame
  <2>8. QED
    BY <2>6, <2>7
<1>10. ASSUME NEW w \in writes[t], WriteCompletesEffect(t, w) PROVE QueueStep(t)
  <2>1. /\ Busy(t) = {} /\ writes[t] = {w} /\ writes'[t] = {} /\ w.left = 0
        /\ at[t] = "idle" /\ state_'[t] = state_[t] /\ NextAndWireSame(t)
    BY <1>10, <1>quiet
       DEF OneInHand, WriteCompletesEffect, MembersSame, FlagAndNextSame, NextAndWireSame
  <2>2. CurrentOf(t) = w.buf /\ LeftOf(t) = 0
    BY <1>hand, <2>1 DEF InHand
  <2>3. CASE state_[t] = "Canceled"
    <3>1. Busy(t)' = {}
      BY <1>10, <2>1, <2>3, HolderStays DEF WriteCompletesEffect, Busy
    <3>2. PhaseOf(t)' = "closed"
      BY <2>1, <2>3 DEF PhaseOf
    <3>3. QED
      BY <1>hand, <2>1, <3>1, <3>2 DEF InHand, QueueStep, CloseStep, Begins
  <2>4. CASE state_[t] # "Canceled"
    <3>1. Moves(t, "takeNext", t, w.buf)
      BY <1>10, <2>4 DEF WriteCompletesEffect
    <3>2. at'[t] = "takeNext" /\ arg'[t] = w.buf
      BY <3>1 DEF Moves
    <3>3. Busy(t)' = {t} /\ Holder(t, "write")' = {} /\ Holder(t, "write") = {}
      BY <2>1, <3>1, HolderMoves DEF Busy, Context
    <3>4. Continues(t)
      BY <1>hand, <2>1, <2>2, <3>2, <3>3 DEF InHand, Continues, Context
    <3>5. PhaseOf(t)' = PhaseOf(t)
      BY <2>1, <3>2, <3>3 DEF PhaseOf
    <3>6. QED
      BY <2>1, <3>4, <3>5 DEF QueueStep, QueueSame
  <2>5. QED
    BY <2>3, <2>4
<1>11. ASSUME NEW w \in writes[t], TransmitEffect(t, w) PROVE QueueStep(t)
  <2>1. PICK v \in Write : /\ v.buf = w.buf /\ v.left = w.left - 1
                           /\ writes'[t] = (writes[t] \ {w}) \cup {v}
    BY <1>11 DEF TransmitEffect
  <2>2. writes[t] = {w} /\ writes'[t] = {v} /\ Busy(t) = {}
    BY <1>quiet, <2>1 DEF OneInHand
  <2>3. /\ Stays /\ MembersSame(t) /\ w.left > 0 /\ w.left \in Nat
        /\ wire'[t] = Append(wire[t], w.buf)
    BY <1>11 DEF TransmitEffect, Write
  <2>4. Busy(t)' = {} /\ Holder(t, "write")' = Holder(t, "write")
    BY <2>2, <2>3, HolderStays DEF Busy
  <2>5. /\ CurrentOf(t) = w.buf /\ LeftOf(t) = w.left
        /\ CurrentOf(t)' = w.buf /\ LeftOf(t)' = w.left - 1
    BY <1>hand, <2>1, <2>2, <2>4 DEF InHand
  <2>6. PhaseOf(t)' = PhaseOf(t)
    BY <2>3, <2>4 DEF PhaseOf, Stays, MembersSame
  <2>7. QED
    BY <2>3, <2>5, <2>6 DEF QueueStep, CarryStep, MembersSame, FlagAndNextSame
<1>12. ASSUME NEW u \in User, EnqueueEffect(t, u) PROVE QueueStep(t)
  <2>1. Settled(t) /\ arg[u] \in 1 .. MaxSends
    BY <1>12, <1>quiet DEF EnqueueEffect, Given, Context, NumbersOK
  <2>2. /\ state_'[t] = state_[t] /\ writes'[t] = writes[t] /\ wire'[t] = wire[t]
        /\ at'[t] = at[t]
    BY <1>12, <1>own DEF EnqueueEffect, NetSame, Moves, Context
  <2>3. u \notin Busy(t)
    BY <1>12 DEF EnqueueEffect, Busy, Holder
  <2>4. PhaseOf(t)' = PhaseOf(t)
    BY <2>1, <2>2 DEF PhaseOf, Settled
  <2>5. CASE state_[t] = "Running" /\ ~ sending_in_progress_[t]
    <3>1. /\ Moves(u, "write", t, arg[u])
          /\ next_buffer_to_send_'[t] = next_buffer_to_send_[t]
      BY <1>12, <2>5 DEF EnqueueEffect
    <3>2. Busy(t) = {} /\ writes[t] = {}
      BY <1>quiet, <2>1, <2>5 DEF FlagOK, Settled
    <3>3. Busy(t)' = {u} /\ at'[u] = "write" /\ arg'[u] = arg[u]
      BY <3>1, <3>2, HolderMoves DEF Busy, Context, Moves
    <3>4. PhaseOf(t) = "open" /\ CurrentOf(t) = NoBuffer
      BY <1>hand, <2>1, <2>5, <3>2 DEF InHand, PhaseOf, Settled
    <3>5. Begins(t, arg[u], Chunks)
      BY <1>hand, <2>1, <2>2, <3>2, <3>3 DEF InHand, Begins, ChunksOf, Context
    <3>6. GiveStep(t, arg[u])
      BY <2>2, <2>4, <3>1, <3>4, <3>5 DEF GiveStep
    <3>7. QED
      BY <1>12, <2>1, <3>6 DEF EnqueueEffect, QueueStep
  <2>6. CASE ~ (state_[t] = "Running" /\ ~ sending_in_progress_[t])
    <3>1. Moves(u, "idle", NoSession, NoBuffer) /\ next_buffer_to_send_'[t] = arg[u]
      BY <1>12, <2>6 DEF EnqueueEffect
    <3>2. Continues(t)
      BY <2>2, <2>3, <3>1, HandKeptByMove DEF Context
    <3>3. ~ (PhaseOf(t) = "open" /\ CurrentOf(t) = NoBuffer)
      <4>1. SUFFICES ASSUME PhaseOf(t) = "open" PROVE CurrentOf(t) # NoBuffer
        OBVIOUS
      <4>2. state_[t] = "Running" /\ at[t] # "restore"
        BY <2>1, <4>1 DEF PhaseOf, Settled
      <4>3. writes[t] # {} \/ Busy(t) # {}
        BY <1>quiet, <2>6, <4>2 DEF FlagOK
      <4>4. CASE writes[t] # {}
        <5>1. PICK w \in writes[t] : writes[t] = {w} /\ Busy(t) = {}
          BY <1>quiet, <4>4 DEF OneInHand
        <5>2. QED
          BY <1>hand, <1>types, <5>1 DEF InHand, Write
      <4>5. CASE writes[t] = {}
        <5>1. PICK c \in Context : Busy(t) = {c}
          BY <1>quiet, <4>3, <4>5 DEF OneInHand, Busy, Holder
        <5>2. arg[c] \in Buffer
          BY <1>at, <1>busy, <1>quiet, <5>1 DEF OneInHand, Busy, Holder, WellPlaced
        <5>3. QED
          BY <1>hand, <4>5, <5>1, <5>2 DEF InHand
      <4>6. QED
        BY <4>4, <4>5
    <3>4. GiveStep(t, arg[u])
      BY <2>2, <2>4, <3>1, <3>2, <3>3 DEF GiveStep
    <3>5. QED
      BY <1>12, <2>1, <3>4 DEF EnqueueEffect, QueueStep
  <2>7. QED
    BY <2>5, <2>6
<1>13. ASSUME NEW u \in User, SubmitEffect(t, u) PROVE QueueStep(t)
  <2>1. PICK label, s, b : label \in {"idle", "enqueue"} /\ Moves(u, label, s, b)
    BY <1>13 DEF SubmitEffect
  <2>2. u \notin Busy(t) /\ at'[t] = at[t]
    BY <1>13, <1>own, <2>1 DEF SubmitEffect, Busy, Holder, Moves, Context
  <2>3. Continues(t) /\ (Holder(t, "write") # {} <=> Holder(t, "write")' # {})
    BY <1>13, <2>1, <2>2, HandKeptByMove DEF SubmitEffect, NetSame, Context
  <2>4. PhaseOf(t)' = PhaseOf(t)
    BY <1>13, <2>2, <2>3 DEF SubmitEffect, PhaseOf, MembersSame
  <2>5. QED
    BY <1>13, <2>3, <2>4 DEF SubmitEffect, MembersSame, FlagAndNextSame, NetSame, QueueStep,
                             QueueSame, NextAndWireSame
<1>14. QED
  BY <1>1, <1>2, <1>3, <1>4, <1>5, <1>6, <1>7, <1>8, <1>9, <1>10, <1>11, <1>12, <1>13
     DEF Effect

LEMMA NumbersKept ==
  ASSUME IInv, NumbersOK, Next PROVE NumbersOK'
<1>1. PICK t \in Session : StepOf(t)
  BY StepOfOne
<1>2. Effect(t)
  BY <1>1, StepEffect
<1>3. SUFFICES ASSUME NEW v \in User, at'[v] = "enqueue" PROVE arg'[v] \in 1 .. MaxSends
  BY DEF NumbersOK
<1>4. (at'[v] = at[v] /\ arg'[v] = arg[v]) \/ arg'[v] \in 1 .. MaxSends
  <2>0. v \in Context /\ v # t
    OBVIOUS
  <2>1. CASE StartEffect(t) \/ ReadEffect(t)
    BY <2>0, <2>1 DEF StartEffect, ReadEffect, Stays
  <2>2. CASE HandshakeEffect(t) \/ SetRunningEffect(t) \/ RestoreEffect(t) \/ TakeNextEffect(t)
    BY <2>0, <2>2 DEF HandshakeEffect, SetRunningEffect, RestoreEffect, TakeNextEffect, Moves
  <2>3. ASSUME NEW c \in Context, CloseEffect(t, c) \/ AwayEffect(t, c) \/ SendEffect(t, c)
        PROVE  at'[v] = at[v] /\ arg'[v] = arg[v]
    <3>1. PICK label, s, b : Moves(c, label, s, b) /\ label # "enqueue"
      BY <2>3 DEF CloseEffect, AwayEffect, SendEffect
    <3>2. QED
      BY <1>3, <2>0, <3>1 DEF Moves
  <2>4. ASSUME NEW w \in writes[t], WriteCompletesEffect(t, w) \/ TransmitEffect(t, w)
        PROVE  at'[v] = at[v] /\ arg'[v] = arg[v]
    BY <2>0, <2>4 DEF WriteCompletesEffect, TransmitEffect, Stays, Moves
  <2>5. ASSUME NEW u \in User, EnqueueEffect(t, u)
        PROVE  at'[v] = at[v] /\ arg'[v] = arg[v]
    BY <1>3, <2>0, <2>5 DEF EnqueueEffect, Moves
  <2>6. ASSUME NEW u \in User, SubmitEffect(t, u)
        PROVE  (at'[v] = at[v] /\ arg'[v] = arg[v]) \/ arg'[v] \in 1 .. MaxSends
    BY <1>3, <2>0, <2>6 DEF SubmitEffect, Moves
  <2>7. QED
    BY <1>2, <2>1, <2>2, <2>3, <2>4, <2>5, <2>6 DEF Effect
<1>5. QED
  BY <1>3, <1>4 DEF NumbersOK

LEMMA QuietStep ==
  ASSUME SendDuringHandshake = FALSE, QuietInv, [Next]_vars
  PROVE  QuietInv' /\ [Queue!QueueNext]_(Queue!queueVars)
<1> USE DEF QuietInv
<1>1. IInv'
  BY StepInv
<1>types. ContextsOK /\ TypeInv /\ TypeInv' /\ \A s \in Session : on[s] = s
  BY <1>1 DEF IInv, TypeInv, ContextsOK, WellPlaced
<1>2. CASE Next
  <2>1. PICK t \in Session : StepOf(t)
    BY <1>2, StepOfOne
  <2>2. Effect(t) /\ \A s \in Session \ {t} : Untouched(s)
    BY <2>1, StepEffect
  <2>3. QuietOK(t)'
    BY <2>2, EffectKeepsQuiet
  <2>4. \A s \in Session \ {t} : QuietOK(s)' /\ QueueSame(s)
    BY <1>types, <2>2, QuietFrame, MapFrame
  <2>5. NumbersOK'
    BY <1>2, NumbersKept
  <2>6. QueueStep(t)
    BY <2>2, <2>3, EffectIsQueueStep
  <2>7. [Queue!QueueNext]_(Queue!queueVars)
    BY <1>types, <2>4, <2>6, QueueStepImplements
  <2>8. QED
    BY <1>1, <2>3, <2>4, <2>5, <2>7
<1>3. CASE UNCHANGED vars
  <2>1. \A s \in Session : Untouched(s)
    BY <1>3 DEF vars, memberVars, socketVars, contextVars, Untouched
  <2>2. \A s \in Session : QuietOK(s)' /\ QueueSame(s)
    BY <1>types, <2>1, QuietFrame, MapFrame
  <2>3. NumbersOK'
    BY <1>3 DEF vars, contextVars, NumbersOK
  <2>4. UNCHANGED (Queue!queueVars)
    BY <1>3, <2>2 DEF Queue!queueVars, QueueSame, Continues, vars, memberVars, socketVars
  <2>5. QED
    BY <1>1, <2>2, <2>3, <2>4
<1>4. QED
  BY <1>2, <1>3

LEMMA QueueStarts == Init => Queue!QueueInit
<1> SUFFICES ASSUME Init PROVE Queue!QueueInit
  OBVIOUS
<1>1. ASSUME NEW s \in Session
      PROVE  PhaseOf(s) = "new" /\ CurrentOf(s) = NoBuffer /\ LeftOf(s) = 0
  <2>1. Busy(s) = {} /\ writes[s] = {} /\ Holder(s, "write") = {}
    BY DEF Init, Busy, Holder
  <2>2. CurrentOf(s) = NoBuffer /\ LeftOf(s) = 0
    BY <2>1, InHandNow DEF InHand
  <2>3. state_[s] = "NotStarted" /\ at[s] = "idle"
    BY DEF Init
  <2>4. QED
    BY <2>1, <2>2, <2>3 DEF PhaseOf
<1>2. QED
  BY <1>1 DEF Init, Queue!QueueInit

(* When nobody sends before the handshake is through, a session is the     *)
(* queue of one plus one that publisher.h describes, for any number of     *)
(* sessions, senders, cancelers, messages and pieces: the handshake goes   *)
(* out first, then one message at a time and whole, the next one is        *)
(* replaced by newer ones only, and none is lost but by the end of the     *)
(* connection.                                                             *)
THEOREM QueueImplemented ==
  ASSUME SendDuringHandshake = FALSE
  PROVE  Spec => ImplementsQueue
<1>1. Spec => []QuietInv
  BY QuietInit, QuietStep, PTL DEF Spec
<1>2. Init => Queue!QueueInit
  BY QueueStarts
<1>3. QuietInv /\ [Next]_vars => [Queue!QueueNext]_(Queue!queueVars)
  BY QuietStep
<1>4. QED
  BY <1>1, <1>2, <1>3, PTL DEF Spec, ImplementsQueue, Queue!QueueSpec
=============================================================================
