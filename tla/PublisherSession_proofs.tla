----------------------- MODULE PublisherSession_proofs -----------------------
(***************************************************************************)
(* Theorems about a publisher session, for any sets of sessions and user   *)
(* threads, any number of messages and of pieces per message.              *)
(***************************************************************************)
EXTENDS PublisherSession, TLAPS

USE SessionAssumption DEF Context, Buffer, Handshake, NoBuffer

UserLabel == {"idle", "enqueue", "write", "closeSocket", "closedHandler"}

(* Where a context can be, and what it holds there.                        *)
WellPlaced(c, label, s, b) ==
  /\ label \in Label
  /\ s \in Session \cup {NoSession}
  /\ b \in Buffer \cup {NoBuffer}
  /\ label # "idle" => s \in Session
  /\ label = "idle" => s = Home(c)
  /\ label \in {"enqueue", "write"} => b \in Buffer
  /\ c \in Session => s = c /\ label # "enqueue"
  /\ c \in User => /\ label \in UserLabel
                   /\ label \in {"enqueue", "write"} => b # Handshake

ContextsOK ==
  /\ ContextsTypeOK(Label)
  /\ \A c \in Context : WellPlaced(c, at[c], on[c], arg[c])

TypeInv == MembersTypeOK /\ ContextsOK

LEMMA VisitPlaces ==
  ASSUME ContextsOK, NEW c \in Context, NEW label, NEW s, NEW b,
         WellPlaced(c, label, s, b), Visit(c, s, label, b),
         old' \in [Session -> State]
  PROVE  ContextsOK'
BY DEF ContextsOK, ContextsTypeOK, WellPlaced, Visit

LEMMA ReturnPlaces ==
  ASSUME ContextsOK, NEW c \in Context, Return(c, "idle"),
         old' \in [Session -> State]
  PROVE  ContextsOK'
<1>1. WellPlaced(c, "idle", Home(c), NoBuffer)
  BY DEF WellPlaced, Home, Label, UserLabel
<1>2. Visit(c, Home(c), "idle", NoBuffer)
  BY DEF Return
<1>3. QED
  BY <1>1, <1>2, VisitPlaces

LEMMA GotoPlaces ==
  ASSUME ContextsOK, NEW c \in Context, NEW label \in Label,
         WellPlaced(c, label, on[c], arg[c]),
         at' = [at EXCEPT ![c] = label], UNCHANGED <<on, arg, old>>
  PROVE  ContextsOK'
BY DEF ContextsOK, ContextsTypeOK, WellPlaced

LEMMA StayPlaces ==
  ASSUME ContextsOK, UNCHANGED <<at, on, arg, old>>
  PROVE  ContextsOK'
BY DEF ContextsOK, ContextsTypeOK, WellPlaced

LEMMA ChunksPositive == \A b \in Buffer : ChunksOf(b) \in Nat /\ ChunksOf(b) > 0
BY DEF ChunksOf

LEMMA HeadOfAppend ==
  ASSUME NEW q \in Seq(Buffer), NEW b \in Buffer
  PROVE  /\ Append(q, b) # <<>>
         /\ Head(Append(q, b)) = IF q = <<>> THEN b ELSE Head(q)
<1>1. Append(q, b) \in Seq(Buffer) /\ Len(Append(q, b)) = Len(q) + 1
  OBVIOUS
<1>2. CASE q = <<>>
  BY <1>2
<1>3. CASE q # <<>>
  <2>1. Len(q) > 0 /\ Append(q, b)[1] = q[1]
    BY <1>3
  <2>2. QED
    BY <1>1, <1>3, <2>1
<1>4. QED
  BY <1>2, <1>3

LEMMA InitType == Init => TypeInv
BY DEF Init, TypeInv, MembersTypeOK, ContextsOK, ContextsTypeOK, WellPlaced,
       Home, Label, UserLabel, State

LEMMA CloseType ==
  ASSUME TypeInv, NEW c \in Context, NEW s \in Session, c \in Session => c = s,
         SessionClosedHandler(c, s, "idle")
  PROVE  /\ ContextsOK'
         /\ state_' \in [Session -> State]
<1> USE DEF TypeInv
<1>1. state_' \in [Session -> State] /\ old' = old
  BY DEF SessionClosedHandler, MembersTypeOK, State
<1>2. old' \in [Session -> State]
  BY <1>1 DEF ContextsOK, ContextsTypeOK
<1>3. CASE state_[s] = "Canceled"
  BY <1>1, <1>2, <1>3, ReturnPlaces DEF SessionClosedHandler
<1>4. CASE state_[s] # "Canceled"
  <2>1. Visit(c, s, "closeSocket", arg[c])
    BY <1>4 DEF SessionClosedHandler
  <2>2. WellPlaced(c, "closeSocket", s, arg[c])
    BY DEF WellPlaced, Label, UserLabel, ContextsOK, ContextsTypeOK
  <2>3. QED
    BY <1>1, <1>2, <2>1, <2>2, VisitPlaces
<1>5. QED
  BY <1>3, <1>4

LEMMA StepType == TypeInv /\ [Next]_vars => TypeInv'
<1> SUFFICES ASSUME TypeInv, [Next]_vars PROVE TypeInv'
  OBVIOUS
<1> USE DEF TypeInv
<1>old. old \in [Session -> State] /\ state_ \in [Session -> State]
  BY DEF ContextsOK, ContextsTypeOK, MembersTypeOK
<1>own. \A s \in Session : on[s] = s
  BY DEF ContextsOK, WellPlaced
<1>at. \A c \in Context : WellPlaced(c, at[c], on[c], arg[c])
  BY DEF ContextsOK
<1>1. ASSUME NEW s \in Session, Start(s) PROVE TypeInv'
  <2>1. ContextsOK'
    BY <1>1, StayPlaces DEF Start, contextVars
  <2>2. QED
    BY <1>1, <2>1 DEF Start, MembersTypeOK, State, historyVars
<1>2. ASSUME NEW s \in Session, ReadCompletes(s) PROVE TypeInv'
  <2>1. ContextsOK'
    BY <1>2, StayPlaces DEF ReadCompletes, contextVars
  <2>2. QED
    BY <1>2, <2>1 DEF ReadCompletes, AfterRead, MembersTypeOK, memberVars, historyVars
<1>3. ASSUME NEW s \in Session, ReadFails(s) PROVE TypeInv'
  <2>1. ContextsOK' /\ state_' \in [Session -> State]
    BY <1>3, CloseType DEF ReadFails
  <2>2. QED
    BY <1>3, <2>1 DEF ReadFails, SessionClosedHandler, MembersTypeOK, historyVars
<1>4. ASSUME NEW s \in Session, HandshakeReceived(s) PROVE TypeInv'
  <2>1. WellPlaced(s, "write", s, Handshake)
    BY DEF WellPlaced, Label
  <2>2. ContextsOK'
    BY <1>4, <1>old, <2>1, VisitPlaces, StayPlaces DEF HandshakeReceived
  <2>3. QED
    BY <1>4, <2>2 DEF HandshakeReceived, MembersTypeOK, memberVars, historyVars
<1>5. ASSUME NEW s \in Session, SetRunning(s) PROVE TypeInv'
  <2>1. old' \in [Session -> State]
    BY <1>5, <1>old DEF SetRunning
  <2>2. WellPlaced(s, "restore", s, arg[s])
    BY <1>at DEF WellPlaced, Label
  <2>3. ContextsOK'
    BY <1>5, <2>1, <2>2, VisitPlaces, ReturnPlaces DEF SetRunning
  <2>4. QED
    BY <1>5, <2>3 DEF SetRunning, MembersTypeOK, State, socketVars, historyVars
<1>6. ASSUME NEW s \in Session, RestoreState(s) PROVE TypeInv'
  <2>1. ContextsOK'
    BY <1>6, <1>old, ReturnPlaces DEF RestoreState
  <2>2. QED
    BY <1>6, <1>old, <2>1 DEF RestoreState, MembersTypeOK, socketVars, historyVars
<1>7. ASSUME NEW s \in Session, TakeNext(s) PROVE TypeInv'
  <2>1. CASE next_buffer_to_send_[s] # NoBuffer
    <3>1. WellPlaced(s, "write", s, next_buffer_to_send_[s])
      BY <2>1 DEF WellPlaced, Label, MembersTypeOK
    <3>2. ContextsOK'
      BY <1>7, <1>old, <2>1, <3>1, VisitPlaces DEF TakeNext
    <3>3. QED
      BY <1>7, <2>1, <3>2 DEF TakeNext, MembersTypeOK, socketVars, historyVars
  <2>2. CASE next_buffer_to_send_[s] = NoBuffer
    <3>1. ContextsOK'
      BY <1>7, <1>old, <2>2, ReturnPlaces DEF TakeNext
    <3>2. QED
      BY <1>7, <2>2, <3>1 DEF TakeNext, MembersTypeOK, socketVars, historyVars
  <2>3. QED
    BY <2>1, <2>2
<1>8. ASSUME NEW c \in Context, SendBufferToClient(c, "idle") PROVE TypeInv'
  <2>1. on[c] \in Session /\ arg[c] \in Buffer
    BY <1>8, <1>at DEF SendBufferToClient, WellPlaced
  <2>2. ContextsOK'
    <3>1. CASE arg[c] = Handshake
      <4>1. Visit(c, Home(c), "setRunning", arg[c])
        BY <1>8, <3>1 DEF SendBufferToClient, Return
      <4>2. c \in Session
        BY <1>8, <1>at, <3>1 DEF SendBufferToClient, WellPlaced
      <4>3. WellPlaced(c, "setRunning", Home(c), arg[c])
        BY <2>1, <4>2 DEF WellPlaced, Label, Home
      <4>4. QED
        BY <1>8, <1>old, <4>1, <4>3, VisitPlaces DEF SendBufferToClient
    <3>2. CASE arg[c] # Handshake
      BY <1>8, <1>old, <3>2, ReturnPlaces DEF SendBufferToClient
    <3>3. QED
      BY <3>1, <3>2
  <2>3. writes' \in [Session -> SUBSET Write] /\ tickets' \in [Session -> Nat]
    <3> DEFINE w == [buf |-> arg[c], left |-> ChunksOf(arg[c]), ticket |-> tickets[on[c]]]
    <3>1. w \in Write
      BY <2>1, ChunksPositive DEF MembersTypeOK, Write
    <3>2. CASE state_[on[c]] = "Canceled"
      BY <1>8, <3>2 DEF SendBufferToClient, MembersTypeOK
    <3>3. CASE state_[on[c]] # "Canceled"
      <4>1. writes' = [writes EXCEPT ![on[c]] = @ \cup {w}]
        BY <1>8, <3>3 DEF SendBufferToClient
      <4>2. tickets' = [tickets EXCEPT ![on[c]] = @ + 1]
        BY <1>8, <3>3 DEF SendBufferToClient
      <4> HIDE DEF w
      <4>3. writes' \in [Session -> SUBSET Write]
        BY <2>1, <3>1, <4>1 DEF MembersTypeOK
      <4>4. tickets' \in [Session -> Nat]
        BY <2>1, <4>2 DEF MembersTypeOK
      <4>5. QED
        BY <4>3, <4>4
    <3>4. QED
      BY <3>2, <3>3
  <2>4. QED
    BY <1>8, <2>2, <2>3 DEF SendBufferToClient, MembersTypeOK, memberVars, historyVars
<1>9. ASSUME NEW s \in Session, NEW w \in writes[s], WriteCompletes(s, w)
      PROVE TypeInv'
  <2>1. w.buf \in Buffer
    BY DEF MembersTypeOK, Write
  <2>2. WellPlaced(s, "takeNext", s, w.buf)
    BY <2>1 DEF WellPlaced, Label
  <2>3. ContextsOK'
    BY <1>9, <1>old, <2>2, VisitPlaces, StayPlaces DEF WriteCompletes
  <2>4. QED
    BY <1>9, <2>3 DEF WriteCompletes, MembersTypeOK, memberVars, historyVars
<1>10. ASSUME NEW s \in Session, NEW w \in writes[s], WriteFails(s, w)
       PROVE TypeInv'
  <2>1. ContextsOK' /\ state_' \in [Session -> State]
    BY <1>10, CloseType DEF WriteFails
  <2>2. QED
    BY <1>10, <2>1 DEF WriteFails, SessionClosedHandler, MembersTypeOK, historyVars
<1>11. ASSUME NEW c \in Context, CloseSocket(c) PROVE TypeInv'
  <2>1. WellPlaced(c, "closedHandler", on[c], arg[c])
    BY <1>11, <1>at DEF CloseSocket, WellPlaced, Label, UserLabel
  <2>2. ContextsOK'
    BY <1>11, <2>1, GotoPlaces DEF CloseSocket, Label
  <2>3. QED
    BY <1>11, <2>2 DEF CloseSocket, MembersTypeOK, memberVars, historyVars
<1>12. ASSUME NEW c \in Context, ClosedHandler(c, "idle") PROVE TypeInv'
  <2>1. ContextsOK'
    BY <1>12, <1>old, ReturnPlaces DEF ClosedHandler
  <2>2. QED
    BY <1>12, <1>at, <2>1
       DEF ClosedHandler, MembersTypeOK, memberVars, socketVars, WellPlaced
<1>13. ASSUME NEW s \in Session, NEW w \in writes[s], Transmit(s, w)
       PROVE TypeInv'
  <2>1. ContextsOK'
    BY <1>13, StayPlaces DEF Transmit, contextVars
  <2>2. w \in Write
    BY DEF MembersTypeOK
  <2>3. w.buf \in Buffer /\ w.left \in Nat /\ w.left > 0
    BY <1>13, <2>2 DEF Transmit, Write
  <2> DEFINE v == [w EXCEPT !.left = @ - 1]
  <2>4. v \in Write
    BY <2>2, <2>3 DEF Write
  <2>5. /\ writes' = [writes EXCEPT ![s] = (@ \ {w}) \cup {v}]
        /\ wire' = [wire EXCEPT ![s] = Append(@, w.buf)]
    BY <1>13 DEF Transmit
  <2> HIDE DEF v
  <2>6. writes' \in [Session -> SUBSET Write]
    BY <2>4, <2>5 DEF MembersTypeOK
  <2>7. wire' \in [Session -> Seq(Buffer)]
    BY <2>3, <2>5 DEF MembersTypeOK
  <2>8. QED
    BY <1>13, <2>1, <2>6, <2>7 DEF Transmit, MembersTypeOK, memberVars, historyVars
<1>14. ASSUME NEW s \in Session, ConnectionLost(s) PROVE TypeInv'
  <2>1. ContextsOK'
    BY <1>14, StayPlaces DEF ConnectionLost, contextVars
  <2>2. QED
    BY <1>14, <2>1 DEF ConnectionLost, MembersTypeOK, memberVars, historyVars
<1>15. ASSUME NEW u \in User, Enqueue(u, "idle") PROVE TypeInv'
  <2>1. arg[u] \in Buffer /\ on[u] \in Session /\ arg[u] # Handshake
    BY <1>15, <1>at DEF Enqueue, WellPlaced
  <2>2. WellPlaced(u, "write", on[u], arg[u])
    BY <2>1 DEF WellPlaced, Label, UserLabel
  <2>3. ContextsOK'
    BY <1>15, <1>old, <2>2, VisitPlaces, ReturnPlaces DEF Enqueue
  <2>4. QED
    BY <1>15, <2>1, <2>3 DEF Enqueue, MembersTypeOK, socketVars, historyVars
<1>16. ASSUME NEW u \in User, NEW s \in Session, Submit(u, s) PROVE TypeInv'
  <2>1. sent \in Nat
    BY DEF MembersTypeOK
  <2>2. WellPlaced(u, "enqueue", s, sent + 1)
    BY <2>1 DEF WellPlaced, Label, UserLabel
  <2>3. ContextsOK'
    BY <1>16, <1>old, <2>2, VisitPlaces, ReturnPlaces DEF Submit, SendDataBuffer
  <2>4. QED
    BY <1>16, <2>3 DEF Submit, SendDataBuffer, MembersTypeOK, memberVars, socketVars
<1>17. ASSUME NEW u \in User, NEW s \in Session, Cancel(u, s) PROVE TypeInv'
  <2>1. ContextsOK' /\ state_' \in [Session -> State]
    BY <1>17, CloseType DEF Cancel
  <2>2. QED
    BY <1>17, <2>1 DEF Cancel, SessionClosedHandler, MembersTypeOK, socketVars, historyVars
<1>18. CASE UNCHANGED vars
  <2>1. ContextsOK'
    BY <1>18, StayPlaces DEF vars, contextVars
  <2>2. QED
    BY <1>18, <2>1 DEF vars, MembersTypeOK, memberVars, socketVars, historyVars
<1>19. QED
  BY <1>1, <1>2, <1>3, <1>4, <1>5, <1>6, <1>7, <1>8, <1>9, <1>10, <1>11,
     <1>12, <1>13, <1>14, <1>15, <1>16, <1>17, <1>18
     DEF Next, ReadStep, StrandStep, UserStep, NetworkStep

(* Every variable keeps its type, whatever the numbers of threads,         *)
(* messages and pieces.                                                    *)
THEOREM TypeCorrect == Spec => []TypeOK
<1>1. Spec => []TypeInv
  BY InitType, StepType, PTL DEF Spec
<1>2. TypeInv => TypeOK
  BY DEF TypeInv, TypeOK, ContextsOK
<1>3. QED
  BY <1>1, <1>2, PTL

-----------------------------------------------------------------------------
(* The inductive invariant behind NextIsServed and HandshakeLeadsLiveWire. *)

UserWrites(s) == \E u \in User : at[u] = "write" /\ on[u] = s

(* The handshake is being read, answered, or just answered.                *)
Opening(s) ==
  \/ reading[s] # "none"
  \/ at[s] = "write" /\ arg[s] = Handshake
  \/ at[s] = "setRunning"

(* Until the handshake response is sent nothing else is, and the session   *)
(* is neither running nor unstarted.                                       *)
OpeningOK(s) ==
  Opening(s) => /\ state_[s] \in {"Handshaking", "Canceled"}
                /\ ~ UserWrites(s)
                /\ at[s] # "setRunning" => tickets[s] = 0
                /\ reading[s] # "none" => at[s] = "idle"

(* Nothing has happened to an unstarted session; a canceled one does not   *)
(* live, and so the Running that is stored for a moment over Canceled is   *)
(* never seen on a live one.                                               *)
ClosingOK(s) ==
  /\ state_[s] = "NotStarted" =>
       /\ conn[s] = "none" /\ tickets[s] = 0 /\ ~ sending_in_progress_[s]
       /\ \A c \in Context : on[c] = s => at[c] = "idle"
  /\ state_[s] = "Canceled" => ~ Live(s)
  /\ at[s] = "restore" => ~ Live(s) /\ old[s] = "Canceled"

(* On a live session writes follow the handshake: it has the first ticket, *)
(* is still to be carried while the wire is empty, and comes first on it.  *)
TicketsOK(s) ==
  /\ \A w \in writes[s] : w.ticket < tickets[s]
  /\ next_buffer_to_send_[s] # Handshake
  /\ tickets[s] = 0 => wire[s] = <<>>
  /\ wire[s] = <<>> => \A w \in writes[s] : ~ Begun(w)
  /\ Live(s) =>
       /\ state_[s] = "Running" \/ UserWrites(s)
            \/ at[s] \in {"setRunning", "takeNext"}
            \/ (at[s] = "write" /\ arg[s] # Handshake) => tickets[s] > 0
       /\ tickets[s] > 0 /\ wire[s] = <<>> =>
            \E w \in writes[s] : w.buf = Handshake /\ w.ticket = 0 /\ w.left = 1
       /\ \A w \in writes[s] : w.ticket = 0 => w.buf = Handshake
       /\ wire[s] # <<>> => Head(wire[s]) = Handshake

(* While the flag is set, or a next buffer waits on a running session, a   *)
(* write is under way.                                                     *)
ServedOK(s) ==
  Live(s) =>
    /\ sending_in_progress_[s] => WriteUnderWay(s)
    /\ state_[s] = "Running" /\ next_buffer_to_send_[s] # NoBuffer => WriteUnderWay(s)
    /\ at[s] = "setRunning" => writes[s] # {}

SessionInv(s) == OpeningOK(s) /\ ClosingOK(s) /\ TicketsOK(s) /\ ServedOK(s)

IInv == TypeInv /\ \A s \in Session : SessionInv(s)

LEMMA InitInv == Init => IInv
<1> SUFFICES ASSUME Init, NEW s \in Session PROVE SessionInv(s)
  BY InitType DEF IInv
<1>1. OpeningOK(s) /\ ClosingOK(s)
  BY DEF Init, OpeningOK, Opening, ClosingOK, Live
<1>2. TicketsOK(s) /\ ServedOK(s)
  BY DEF Init, TicketsOK, ServedOK, Live
<1>3. QED
  BY <1>1, <1>2 DEF SessionInv

(* A step that does not concern a session keeps its invariant.             *)
Untouched(s) ==
  /\ state_'[s] = state_[s] /\ sending_in_progress_'[s] = sending_in_progress_[s]
  /\ next_buffer_to_send_'[s] = next_buffer_to_send_[s]
  /\ conn'[s] = conn[s] /\ reading'[s] = reading[s] /\ writes'[s] = writes[s]
  /\ tickets'[s] = tickets[s] /\ wire'[s] = wire[s] /\ old'[s] = old[s]
  /\ \A c \in Context : on[c] = s \/ on'[c] = s =>
       at'[c] = at[c] /\ on'[c] = on[c] /\ arg'[c] = arg[c]

LEMMA Frame ==
  ASSUME ContextsOK, NEW s \in Session, SessionInv(s), Untouched(s)
  PROVE  SessionInv(s)'
<1>1. on[s] = s
  BY DEF ContextsOK, WellPlaced
<1>2. at'[s] = at[s] /\ arg'[s] = arg[s]
  BY <1>1 DEF Untouched
<1>3. Live(s)' <=> Live(s)
  BY DEF Live, Untouched
<1>4. UserWrites(s)' <=> UserWrites(s)
  BY DEF UserWrites, Untouched
<1>5. WriteUnderWay(s)' <=> WriteUnderWay(s)
  BY <1>2 DEF WriteUnderWay, Untouched
<1>6. OpeningOK(s)'
  BY <1>2, <1>4 DEF SessionInv, OpeningOK, Opening, Untouched
<1>7. ClosingOK(s)'
  BY <1>2, <1>3 DEF SessionInv, ClosingOK, Untouched
<1>8. TicketsOK(s)'
  BY <1>2, <1>3, <1>4 DEF SessionInv, TicketsOK, Begun, Untouched
<1>9. ServedOK(s)'
  BY <1>2, <1>3, <1>5 DEF SessionInv, ServedOK, Untouched
<1>10. QED
  BY <1>6, <1>7, <1>8, <1>9 DEF SessionInv

(* What a move of a context changes, and what it leaves.                   *)
Moves(c, label, s, b) ==
  /\ at'[c] = label /\ on'[c] = s /\ arg'[c] = b
  /\ \A d \in Context : d # c =>
       at'[d] = at[d] /\ on'[d] = on[d] /\ arg'[d] = arg[d]

LEMMA VisitMoves ==
  ASSUME ContextsOK, NEW c \in Context, NEW label, NEW s, NEW b, Visit(c, s, label, b)
  PROVE  Moves(c, label, s, b)
BY DEF ContextsOK, ContextsTypeOK, Visit, Moves

LEMMA ReturnMoves ==
  ASSUME ContextsOK, NEW c \in Context, Return(c, "idle")
  PROVE  Moves(c, "idle", Home(c), NoBuffer)
BY DEF ContextsOK, ContextsTypeOK, Return, Visit, Moves

(* sessionClosedHandler() on a session, by its strand or by a user.        *)
LEMMA CloseKeeps ==
  ASSUME IInv, NEW c \in Context, NEW s \in Session,
         c \in Session => c = s /\ reading'[s] = "none",
         c \in User => reading'[s] = reading[s],
         at[c] = "idle", SessionClosedHandler(c, s, "idle"),
         conn' = conn, tickets' = tickets, wire' = wire, writes'[s] \subseteq writes[s]
  PROVE  SessionInv(s)'
<1> USE DEF IInv, TypeInv
<1>own. on[s] = s /\ \A u \in User : WellPlaced(u, at[u], on[u], arg[u])
  BY DEF ContextsOK, WellPlaced
<1>inv. OpeningOK(s) /\ ClosingOK(s) /\ TicketsOK(s) /\ ServedOK(s)
  BY DEF SessionInv
<1>1. state_'[s] = "Canceled" /\ next_buffer_to_send_' = next_buffer_to_send_ /\ old' = old
  BY DEF SessionClosedHandler, MembersTypeOK
<1>2. \/ state_[s] = "Canceled" /\ Moves(c, "idle", Home(c), NoBuffer)
      \/ Moves(c, "closeSocket", s, arg[c])
  BY VisitMoves, ReturnMoves DEF SessionClosedHandler
<1>3. ~ Live(s)'
  BY <1>inv, <1>2 DEF ClosingOK, Live, Moves
<1>4. UserWrites(s)' => UserWrites(s)
  BY <1>2 DEF UserWrites, Moves
<1>5. OpeningOK(s)'
  <2>1. CASE c \in Session
    BY <1>2, <2>1 DEF OpeningOK, Opening, Moves
  <2>2. CASE c \in User
    <3>1. at'[s] = at[s] /\ arg'[s] = arg[s] /\ reading'[s] = reading[s]
      BY <1>2, <2>2 DEF Moves
    <3>2. QED
      BY <1>inv, <1>1, <1>4, <3>1 DEF OpeningOK, Opening
  <2>3. QED
    BY <2>1, <2>2
<1>6. at'[s] = "restore" => at[s] = "restore"
  BY <1>2 DEF Moves
<1>7. ClosingOK(s)'
  BY <1>inv, <1>1, <1>3, <1>6 DEF ClosingOK
<1>8. TicketsOK(s)'
  BY <1>inv, <1>1, <1>3 DEF TicketsOK, Begun
<1>9. ServedOK(s)'
  BY <1>3 DEF ServedOK
<1>10. QED
  BY <1>5, <1>7, <1>8, <1>9 DEF SessionInv

LEMMA StepInv == IInv /\ [Next]_vars => IInv'
<1> SUFFICES ASSUME IInv, [Next]_vars, NEW s \in Session PROVE SessionInv(s)'
  BY StepType DEF IInv
<1> USE DEF IInv, TypeInv
<1>old. old \in [Session -> State] /\ state_ \in [Session -> State]
  BY DEF ContextsOK, ContextsTypeOK, MembersTypeOK
<1>own. \A t \in Session : on[t] = t
  BY DEF ContextsOK, WellPlaced
<1>at. \A c \in Context : WellPlaced(c, at[c], on[c], arg[c])
  BY DEF ContextsOK
<1>home. \A u \in User : at[u] = "idle" => on[u] = NoSession
  BY DEF ContextsOK, WellPlaced, Home
<1>inv. OpeningOK(s) /\ ClosingOK(s) /\ TicketsOK(s) /\ ServedOK(s)
  BY DEF SessionInv
<1>1. ASSUME NEW t \in Session, Start(t) PROVE SessionInv(s)'
  <2>1. CASE t # s
    BY <1>1, <2>1, Frame DEF Start, Untouched, MembersTypeOK, contextVars
  <2>2. CASE t = s
    <3>1. /\ state_'[s] = "Handshaking" /\ reading'[s] = "headerLength"
          /\ UNCHANGED <<at, on, arg, tickets, writes, wire, old,
                         sending_in_progress_, next_buffer_to_send_>>
      BY <1>1, <2>2 DEF Start, MembersTypeOK, contextVars
    <3>2. at[s] = "idle" /\ ~ UserWrites(s) /\ tickets[s] = 0 /\ wire[s] = <<>>
          /\ ~ sending_in_progress_[s]
      BY <1>1, <1>own, <1>inv, <2>2 DEF Start, ClosingOK, TicketsOK, UserWrites, Context
    <3>3. writes[s] = {}
      BY <1>inv, <3>2 DEF TicketsOK, MembersTypeOK, Write
    <3>4. OpeningOK(s)'
      BY <3>1, <3>2 DEF OpeningOK, UserWrites
    <3>5. ClosingOK(s)'
      BY <3>1, <3>2 DEF ClosingOK
    <3>6. TicketsOK(s)'
      BY <1>inv, <3>1, <3>2, <3>3 DEF TicketsOK, UserWrites
    <3>7. ServedOK(s)'
      BY <3>1, <3>2 DEF ServedOK
    <3>8. QED
      BY <3>4, <3>5, <3>6, <3>7 DEF SessionInv
  <2>3. QED
    BY <2>1, <2>2
<1>2. ASSUME NEW t \in Session, ReadCompletes(t) PROVE SessionInv(s)'
  <2>1. CASE t # s
    BY <1>2, <2>1, Frame
       DEF ReadCompletes, Untouched, MembersTypeOK, memberVars, contextVars
  <2>2. CASE t = s
    <3>1. reading[s] # "none" /\ UNCHANGED <<memberVars, conn, writes, tickets,
                                            wire, at, on, arg, old>>
      BY <1>2, <2>2 DEF ReadCompletes, contextVars
    <3>2. OpeningOK(s)'
      BY <1>inv, <3>1 DEF OpeningOK, Opening, UserWrites, memberVars
    <3>3. ClosingOK(s)'
      BY <1>inv, <3>1 DEF ClosingOK, Live, memberVars
    <3>4. TicketsOK(s)'
      BY <1>inv, <3>1 DEF TicketsOK, Begun, Live, UserWrites, memberVars
    <3>5. ServedOK(s)'
      BY <1>inv, <3>1 DEF ServedOK, Live, WriteUnderWay, memberVars
    <3>6. QED
      BY <3>2, <3>3, <3>4, <3>5 DEF SessionInv
  <2>3. QED
    BY <2>1, <2>2
<1>4. ASSUME NEW t \in Session, HandshakeReceived(t) PROVE SessionInv(s)'
  <2>0. \/ UNCHANGED <<at, on, arg>> /\ state_[t] = "Canceled"
        \/ Moves(t, "write", t, Handshake)
    BY <1>4, VisitMoves DEF HandshakeReceived
  <2>1. CASE t # s
    BY <1>4, <1>own, <2>0, <2>1, Frame
       DEF HandshakeReceived, Moves, Untouched, MembersTypeOK, memberVars
  <2>2. CASE t = s
    <3>1. reading[s] # "none" /\ reading'[s] = "none"
          /\ UNCHANGED <<memberVars, conn, writes, tickets, wire, old>>
      BY <1>4, <2>2 DEF HandshakeReceived, MembersTypeOK
    <3>2. /\ state_[s] \in {"Handshaking", "Canceled"} /\ ~ UserWrites(s)
          /\ tickets[s] = 0 /\ at[s] = "idle"
      BY <1>inv, <3>1 DEF OpeningOK, Opening
    <3>3. OpeningOK(s)'
      BY <2>0, <2>2, <3>1, <3>2 DEF OpeningOK, Opening, UserWrites, Moves, memberVars
    <3>4. ClosingOK(s)'
      BY <1>inv, <2>0, <2>2, <3>1, <3>2 DEF ClosingOK, Live, Moves, memberVars
    <3>5. TicketsOK(s)'
      BY <1>inv, <2>0, <2>2, <3>1, <3>2
         DEF TicketsOK, Begun, Live, UserWrites, Moves, memberVars
    <3>6. ServedOK(s)'
      BY <1>inv, <2>0, <2>2, <3>1, <3>2 DEF ServedOK, Live, WriteUnderWay, Moves, memberVars
    <3>7. QED
      BY <3>3, <3>4, <3>5, <3>6 DEF SessionInv
  <2>3. QED
    BY <2>1, <2>2
<1>3. ASSUME NEW t \in Session, ReadFails(t) PROVE SessionInv(s)'
  <2>1. CASE t # s
    <3>1. \/ Moves(t, "idle", t, NoBuffer) \/ Moves(t, "closeSocket", t, arg[t])
      BY <1>3, VisitMoves, ReturnMoves DEF ReadFails, SessionClosedHandler, Home
    <3>2. QED
      BY <1>3, <1>own, <2>1, <3>1, Frame
         DEF ReadFails, SessionClosedHandler, Untouched, Moves, MembersTypeOK
  <2>2. CASE t = s
    <3>1. reading'[s] = "none"
      BY <1>3, <2>2 DEF ReadFails, MembersTypeOK
    <3>2. QED
      BY <1>3, <2>2, <3>1, CloseKeeps DEF ReadFails
  <2>3. QED
    BY <2>1, <2>2
<1>5. ASSUME NEW t \in Session, SetRunning(t) PROVE SessionInv(s)'
  <2>0. \/ Moves(t, "idle", t, NoBuffer) /\ state_[t] = "Handshaking" /\ old' = old
        \/ /\ Moves(t, "restore", t, arg[t]) /\ state_[t] # "Handshaking"
           /\ old' = [old EXCEPT ![t] = state_[t]]
    BY <1>5, VisitMoves, ReturnMoves DEF SetRunning, Home
  <2>1. CASE t # s
    BY <1>5, <1>own, <1>old, <2>0, <2>1, Frame
       DEF SetRunning, Moves, Untouched, MembersTypeOK, socketVars
  <2>2. CASE t = s
    <3>1. /\ at[s] = "setRunning" /\ state_'[s] = "Running"
          /\ UNCHANGED <<sending_in_progress_, next_buffer_to_send_, socketVars>>
      BY <1>5, <2>2 DEF SetRunning, MembersTypeOK
    <3>2. state_[s] \in {"Handshaking", "Canceled"} /\ reading[s] = "none" /\ ~ UserWrites(s)
      BY <1>inv, <3>1 DEF OpeningOK, Opening
    <3>3. Live(s)' => Live(s)
      BY <2>0, <2>2, <3>1 DEF Live, Moves, socketVars
    <3>4. at'[s] = "idle" \/ (at'[s] = "restore" /\ state_[s] = "Canceled" /\ old'[s] = "Canceled")
      BY <1>old, <2>0, <2>2, <3>2 DEF Moves
    <3>5. ~ UserWrites(s)'
      BY <2>0, <2>2, <3>2 DEF UserWrites, Moves, Context
    <3>6. OpeningOK(s)'
      BY <3>1, <3>2, <3>4 DEF OpeningOK, Opening, socketVars
    <3>7. ClosingOK(s)'
      BY <1>inv, <3>1, <3>3, <3>4 DEF ClosingOK
    <3>8. TicketsOK(s)'
      BY <1>inv, <3>1, <3>3, <3>4 DEF TicketsOK, Begun, socketVars
    <3>9. ServedOK(s)'
      BY <1>inv, <3>1, <3>3, <3>4 DEF ServedOK, WriteUnderWay, socketVars
    <3>10. QED
      BY <3>6, <3>7, <3>8, <3>9 DEF SessionInv
  <2>3. QED
    BY <2>1, <2>2
<1>6. ASSUME NEW t \in Session, RestoreState(t) PROVE SessionInv(s)'
  <2>0. Moves(t, "idle", t, NoBuffer)
    BY <1>6, ReturnMoves DEF RestoreState, Home
  <2>1. CASE t # s
    BY <1>6, <1>own, <1>old, <2>0, <2>1, Frame
       DEF RestoreState, Moves, Untouched, MembersTypeOK, socketVars
  <2>2. CASE t = s
    <3>1. /\ at[s] = "restore" /\ at'[s] = "idle" /\ state_'[s] = old[s]
          /\ UNCHANGED <<sending_in_progress_, next_buffer_to_send_, socketVars>>
      BY <1>6, <2>0, <2>2 DEF RestoreState, Moves, MembersTypeOK
    <3>2. reading[s] = "none" /\ ~ Live(s) /\ old[s] = "Canceled"
      BY <1>inv, <3>1 DEF OpeningOK, Opening, ClosingOK
    <3>3. ~ Live(s)'
      BY <2>0, <2>2, <3>1, <3>2 DEF Live, Moves, socketVars
    <3>4. OpeningOK(s)' /\ ClosingOK(s)'
      BY <3>1, <3>2, <3>3 DEF OpeningOK, Opening, ClosingOK, socketVars
    <3>5. TicketsOK(s)' /\ ServedOK(s)'
      BY <1>inv, <3>1, <3>3 DEF TicketsOK, ServedOK, Begun, socketVars
    <3>6. QED
      BY <3>4, <3>5 DEF SessionInv
  <2>3. QED
    BY <2>1, <2>2
<1>7. ASSUME NEW t \in Session, TakeNext(t) PROVE SessionInv(s)'
  <2>0. \/ /\ Moves(t, "write", t, next_buffer_to_send_[t])
           /\ sending_in_progress_' = sending_in_progress_
        \/ /\ Moves(t, "idle", t, NoBuffer)
           /\ sending_in_progress_' = [sending_in_progress_ EXCEPT ![t] = FALSE]
    BY <1>7, VisitMoves, ReturnMoves DEF TakeNext, Home
  <2>1. CASE t # s
    BY <1>7, <1>own, <2>0, <2>1, Frame
       DEF TakeNext, Moves, Untouched, MembersTypeOK, socketVars
  <2>2. CASE t = s
    <3>1. /\ at[s] = "takeNext" /\ next_buffer_to_send_'[s] = NoBuffer
          /\ UNCHANGED <<state_, socketVars, old>>
      BY <1>7, <2>2 DEF TakeNext, MembersTypeOK
    <3>2. reading[s] = "none" /\ next_buffer_to_send_[s] # Handshake
      BY <1>inv, <3>1 DEF OpeningOK, Opening, TicketsOK
    <3>3. Live(s)' => Live(s)
      BY <2>0, <2>2, <3>1 DEF Live, Moves, socketVars
    <3>4. \/ at'[s] = "write" /\ arg'[s] # Handshake
          \/ at'[s] = "idle" /\ ~ sending_in_progress_'[s]
      BY <2>0, <2>2, <3>2 DEF Moves, MembersTypeOK
    <3>5. UserWrites(s)' => UserWrites(s)
      BY <2>0, <2>2 DEF UserWrites, Moves, Context
    <3>6. OpeningOK(s)'
      BY <3>1, <3>2, <3>4 DEF OpeningOK, Opening, socketVars
    <3>7. ClosingOK(s)'
      BY <1>inv, <1>own, <3>1, <3>3, <3>4 DEF ClosingOK
    <3>8. TicketsOK(s)'
      BY <1>inv, <3>1, <3>3, <3>4, <3>5 DEF TicketsOK, Begun, socketVars
    <3>9. WriteUnderWay(s)' \/ ~ sending_in_progress_'[s]
      BY <2>0, <2>2, <3>4 DEF WriteUnderWay, Moves
    <3>10. ServedOK(s)'
      BY <3>1, <3>4, <3>9 DEF ServedOK
    <3>11. QED
      BY <3>6, <3>7, <3>8, <3>10 DEF SessionInv
  <2>3. QED
    BY <2>1, <2>2
<1>8. ASSUME NEW c \in Context, SendBufferToClient(c, "idle") PROVE SessionInv(s)'
  <2> DEFINE w == [buf |-> arg[c], left |-> ChunksOf(arg[c]), ticket |-> tickets[on[c]]]
  <2>0. /\ at[c] = "write" /\ on[c] \in Session /\ arg[c] \in Buffer
        /\ c \in User => arg[c] # Handshake
        /\ UNCHANGED <<memberVars, conn, reading, wire, old>>
    BY <1>8, <1>at DEF SendBufferToClient, WellPlaced
  <2>1. \/ arg[c] = Handshake /\ Moves(c, "setRunning", Home(c), Handshake)
        \/ arg[c] # Handshake /\ Moves(c, "idle", Home(c), NoBuffer)
    <3>1. CASE arg[c] = Handshake
      <4>1. Visit(c, Home(c), "setRunning", Handshake)
        BY <1>8, <3>1 DEF SendBufferToClient, Return
      <4>2. QED
        BY <3>1, <4>1, VisitMoves
    <3>2. CASE arg[c] # Handshake
      BY <1>8, <3>2, ReturnMoves DEF SendBufferToClient
    <3>3. QED
      BY <3>1, <3>2
  <2>2. CASE on[c] # s
    <3>1. writes'[s] = writes[s] /\ tickets'[s] = tickets[s]
      BY <1>8, <2>2 DEF SendBufferToClient, MembersTypeOK
    <3>2. Home(c) # s
      BY <1>own, <2>2 DEF Home
    <3>3. QED
      BY <2>0, <2>1, <2>2, <3>1, <3>2, Frame DEF Untouched, Moves, memberVars
  <2>3. CASE on[c] = s
    <3>1. \/ /\ state_[s] = "Canceled" /\ writes'[s] = writes[s] /\ tickets'[s] = tickets[s]
          \/ writes'[s] = writes[s] \cup {w} /\ tickets'[s] = tickets[s] + 1
      BY <1>8, <2>3 DEF SendBufferToClient, MembersTypeOK
    <3>2. Live(s)' => Live(s) /\ state_[s] # "Canceled"
      BY <1>inv, <2>0, <2>1 DEF ClosingOK, Live, Moves
    <3>3. UserWrites(s)' => UserWrites(s)
      BY <2>0, <2>1 DEF UserWrites, Moves
    <3>4. /\ c \in User => UserWrites(s) /\ at'[s] = at[s] /\ arg'[s] = arg[s]
          /\ c \in Session => c = s
      BY <1>own, <2>0, <2>1, <2>3 DEF UserWrites, Moves
    <3>5. OpeningOK(s)'
      <4>1. CASE c \in User
        BY <1>inv, <2>0, <3>4, <4>1 DEF OpeningOK, Opening, memberVars
      <4>2. CASE c = s
        BY <1>inv, <2>0, <2>1, <3>3, <4>2
           DEF OpeningOK, Opening, Moves, memberVars
      <4>3. QED
        BY <3>4, <4>1, <4>2 DEF Context
    <3>6. ClosingOK(s)'
      <4>1. state_[s] # "NotStarted"
        BY <1>inv, <2>0, <2>3 DEF ClosingOK
      <4>2. at'[s] = "restore" => at[s] = "restore"
        BY <2>1 DEF Moves
      <4>3. QED
        BY <1>inv, <2>0, <3>2, <4>1, <4>2 DEF ClosingOK, memberVars
    <3>7. TicketsOK(s)'
      <4>0. tickets[s] \in Nat /\ writes[s] \subseteq Write
        BY DEF MembersTypeOK
      <4>1. CASE state_[s] = "Canceled"
        <5>1. ~ Live(s)'
          BY <3>2, <4>1
        <5>2. \/ writes'[s] = writes[s] /\ tickets'[s] = tickets[s]
              \/ writes'[s] = writes[s] \cup {w} /\ tickets'[s] = tickets[s] + 1
          BY <3>1
        <5>3. wire[s] = <<>> => ~ Begun(w)
          BY <2>0, ChunksPositive DEF Begun
        <5>4. w.ticket = tickets[s]
          BY <2>3
        <5> HIDE DEF w
        <5>5. next_buffer_to_send_'[s] # Handshake
          BY <1>inv, <2>0 DEF TicketsOK, memberVars
        <5>6. /\ \A v \in writes'[s] : v.ticket < tickets'[s]
              /\ tickets'[s] = 0 => wire[s] = <<>>
          BY <1>inv, <4>0, <5>2, <5>4 DEF TicketsOK, Write
        <5>7. wire[s] = <<>> => \A v \in writes'[s] : ~ Begun(v)
          BY <1>inv, <5>2, <5>3 DEF TicketsOK
        <5>8. QED
          BY <2>0, <5>1, <5>5, <5>6, <5>7 DEF TicketsOK, Begun
      <4>2. CASE state_[s] # "Canceled"
        <5>1. writes'[s] = writes[s] \cup {w} /\ tickets'[s] = tickets[s] + 1
          BY <3>1, <4>2
        <5>2. wire[s] = <<>> => ~ Begun(w)
          BY <2>0, ChunksPositive DEF Begun
        <5>3. w.ticket = tickets[s] /\ w.buf = arg[c]
          BY <2>3
        <5>4. arg[c] = Handshake => w.left = 1 /\ tickets[s] = 0
          BY <1>inv, <2>0, <3>4 DEF OpeningOK, Opening, ChunksOf, Context
        <5>5. Live(s) /\ arg[c] # Handshake => tickets[s] > 0
          BY <1>inv, <2>0, <3>4 DEF TicketsOK, Context
        <5> HIDE DEF w
        <5>6. /\ \A v \in writes'[s] : v.ticket < tickets'[s]
              /\ tickets'[s] > 0
          BY <1>inv, <4>0, <5>1, <5>3 DEF TicketsOK, Write
        <5>7. wire[s] = <<>> => \A v \in writes'[s] : ~ Begun(v)
          BY <1>inv, <5>1, <5>2 DEF TicketsOK
        <5>8. ASSUME Live(s)'
              PROVE  /\ wire[s] = <<>> => \E v \in writes'[s] :
                            v.buf = Handshake /\ v.ticket = 0 /\ v.left = 1
                     /\ \A v \in writes'[s] : v.ticket = 0 => v.buf = Handshake
                     /\ wire[s] # <<>> => Head(wire[s]) = Handshake
          <6>1. Live(s)
            BY <3>2, <5>8
          <6>2. CASE arg[c] = Handshake
            <7>1. writes[s] = {}
              BY <1>inv, <4>0, <5>4, <6>2 DEF TicketsOK, Write
            <7>2. QED
              BY <1>inv, <5>1, <5>3, <5>4, <6>1, <6>2, <7>1 DEF TicketsOK
          <6>3. CASE arg[c] # Handshake
            BY <1>inv, <4>0, <5>1, <5>3, <5>5, <6>1, <6>3 DEF TicketsOK
          <6>4. QED
            BY <6>2, <6>3
        <5>9. next_buffer_to_send_'[s] # Handshake
          BY <1>inv, <2>0 DEF TicketsOK, memberVars
        <5>10. QED
          BY <2>0, <5>6, <5>7, <5>8, <5>9 DEF TicketsOK, Begun
      <4>3. QED
        BY <4>1, <4>2
    <3>8. ServedOK(s)'
      <4>1. Live(s)' => writes'[s] # {}
        BY <3>1, <3>2
      <4>2. QED
        BY <4>1 DEF ServedOK, WriteUnderWay
    <3>9. QED
      BY <3>5, <3>6, <3>7, <3>8 DEF SessionInv
  <2>4. QED
    BY <2>2, <2>3
<1>9. ASSUME NEW t \in Session, NEW w \in writes[t], WriteCompletes(t, w)
      PROVE SessionInv(s)'
  <2>0. /\ at[t] = "idle" /\ w.left = 0
        /\ UNCHANGED <<memberVars, conn, reading, tickets, wire, old>>
        /\ \/ UNCHANGED <<at, on, arg>> /\ state_[t] = "Canceled"
           \/ Moves(t, "takeNext", t, w.buf)
    BY <1>9, VisitMoves DEF WriteCompletes
  <2>1. CASE t # s
    BY <1>9, <1>own, <2>0, <2>1, Frame
       DEF WriteCompletes, Moves, Untouched, MembersTypeOK, memberVars
  <2>2. CASE t = s
    <3>1. writes'[s] = writes[s] \ {w} /\ w \in Write
      BY <1>9, <2>2 DEF WriteCompletes, MembersTypeOK
    <3>2. tickets[s] > 0 /\ reading[s] = "none"
      BY <1>inv, <2>0, <2>2, <3>1
         DEF OpeningOK, Opening, TicketsOK, MembersTypeOK, Write
    <3>3. Live(s)' => Live(s) /\ state_[s] # "Canceled"
      BY <1>inv, <2>0, <2>2 DEF ClosingOK, Live, Moves
    <3>4. UserWrites(s)' => UserWrites(s)
      BY <2>0, <2>2 DEF UserWrites, Moves, Context
    <3>5. at'[s] \in {"idle", "takeNext"} /\ (Live(s)' => at'[s] = "takeNext")
      BY <2>0, <2>2, <3>3 DEF Moves
    <3>6. OpeningOK(s)'
      BY <2>0, <3>2, <3>5 DEF OpeningOK, Opening
    <3>7. ClosingOK(s)'
      BY <1>inv, <2>0, <3>2, <3>3, <3>5 DEF ClosingOK, memberVars
    <3>8. TicketsOK(s)'
      BY <1>inv, <2>0, <3>1, <3>2, <3>3 DEF TicketsOK, Begun, memberVars
    <3>9. ServedOK(s)'
      BY <3>5 DEF ServedOK, WriteUnderWay
    <3>10. QED
      BY <3>6, <3>7, <3>8, <3>9 DEF SessionInv
  <2>3. QED
    BY <2>1, <2>2
<1>10. ASSUME NEW t \in Session, NEW w \in writes[t], WriteFails(t, w)
       PROVE SessionInv(s)'
  <2>1. CASE t # s
    <3>1. \/ Moves(t, "idle", t, NoBuffer) \/ Moves(t, "closeSocket", t, arg[t])
      BY <1>10, VisitMoves, ReturnMoves DEF WriteFails, SessionClosedHandler, Home
    <3>2. QED
      BY <1>10, <1>own, <2>1, <3>1, Frame
         DEF WriteFails, SessionClosedHandler, Untouched, Moves, MembersTypeOK
  <2>2. CASE t = s
    <3>1. reading[s] = "none"
      BY <1>inv, <1>10, <2>2
         DEF WriteFails, OpeningOK, Opening, TicketsOK, MembersTypeOK, Write
    <3>2. writes'[s] \subseteq writes[s] /\ reading' = reading
      BY <1>10, <2>2 DEF WriteFails, MembersTypeOK
    <3>3. QED
      BY <1>10, <2>2, <3>1, <3>2, CloseKeeps DEF WriteFails
  <2>3. QED
    BY <2>1, <2>2
<1>11. ASSUME NEW c \in Context, CloseSocket(c) PROVE SessionInv(s)'
  <2>0. /\ at[c] = "closeSocket" /\ on[c] \in Session
        /\ Moves(c, "closedHandler", on[c], arg[c])
        /\ UNCHANGED <<memberVars, reading, writes, tickets, wire, old>>
    BY <1>11, <1>at DEF CloseSocket, WellPlaced, Moves, ContextsOK, ContextsTypeOK
  <2>1. CASE on[c] # s
    BY <1>11, <1>own, <2>0, <2>1, Frame
       DEF CloseSocket, Moves, Untouched, MembersTypeOK, memberVars
  <2>2. CASE on[c] = s
    <3>1. conn'[s] = "closed" /\ ~ Live(s)'
      BY <1>11, <2>2 DEF CloseSocket, MembersTypeOK, Live
    <3>2. UserWrites(s)' => UserWrites(s)
      BY <2>0 DEF UserWrites, Moves
    <3>3. \/ at'[s] = at[s] /\ arg'[s] = arg[s]
          \/ at'[s] = "closedHandler" /\ at[s] = "closeSocket"
      BY <2>0, <2>2 DEF Moves
    <3>4. OpeningOK(s)'
      BY <1>inv, <2>0, <3>2, <3>3 DEF OpeningOK, Opening, memberVars
    <3>5. state_[s] # "NotStarted"
      BY <1>inv, <2>0, <2>2 DEF ClosingOK
    <3>6. ClosingOK(s)'
      BY <1>inv, <2>0, <3>1, <3>3, <3>5 DEF ClosingOK, memberVars
    <3>7. TicketsOK(s)' /\ ServedOK(s)'
      BY <1>inv, <2>0, <3>1 DEF TicketsOK, ServedOK, Begun, memberVars
    <3>8. QED
      BY <3>4, <3>6, <3>7 DEF SessionInv
  <2>3. QED
    BY <2>1, <2>2
<1>12. ASSUME NEW c \in Context, ClosedHandler(c, "idle") PROVE SessionInv(s)'
  <2>0. /\ at[c] = "closedHandler" /\ on[c] \in Session
        /\ Moves(c, "idle", Home(c), NoBuffer)
        /\ UNCHANGED <<memberVars, socketVars, old>>
    BY <1>12, <1>at, ReturnMoves DEF ClosedHandler, WellPlaced
  <2>1. CASE on[c] # s
    BY <1>own, <2>0, <2>1, Frame DEF Moves, Untouched, Home, memberVars, socketVars
  <2>2. CASE on[c] = s
    <3>1. Live(s)' => Live(s)
      BY <2>0 DEF Live, Moves, socketVars
    <3>2. UserWrites(s)' => UserWrites(s)
      BY <2>0 DEF UserWrites, Moves
    <3>3. WriteUnderWay(s) => WriteUnderWay(s)'
      BY <2>0 DEF WriteUnderWay, Moves, socketVars
    <3>4. \/ at'[s] = at[s] /\ arg'[s] = arg[s]
          \/ at'[s] = "idle" /\ at[s] = "closedHandler"
      BY <2>0, <2>2 DEF Moves
    <3>5. OpeningOK(s)'
      BY <1>inv, <2>0, <3>2, <3>4 DEF OpeningOK, Opening, memberVars, socketVars
    <3>6. state_[s] # "NotStarted"
      BY <1>inv, <2>0, <2>2 DEF ClosingOK
    <3>7. ClosingOK(s)'
      BY <1>inv, <2>0, <3>1, <3>4, <3>6 DEF ClosingOK, memberVars
    <3>8. TicketsOK(s)'
      BY <1>inv, <2>0, <3>1, <3>2, <3>4 DEF TicketsOK, Begun, memberVars, socketVars
    <3>9. ServedOK(s)'
      BY <1>inv, <2>0, <3>1, <3>3, <3>4 DEF ServedOK, memberVars, socketVars
    <3>10. QED
      BY <3>5, <3>7, <3>8, <3>9 DEF SessionInv
  <2>3. QED
    BY <2>1, <2>2
<1>13. ASSUME NEW t \in Session, NEW w \in writes[t], Transmit(t, w)
       PROVE SessionInv(s)'
  <2>0. UNCHANGED <<memberVars, conn, reading, tickets, contextVars>>
    BY <1>13 DEF Transmit
  <2>1. CASE t # s
    BY <1>13, <2>0, <2>1, Frame
       DEF Transmit, Untouched, MembersTypeOK, memberVars, contextVars
  <2>2. CASE t = s
    <3> DEFINE v == [w EXCEPT !.left = @ - 1]
    <3>1. w \in Write /\ writes[s] \subseteq Write /\ tickets[s] \in Nat /\ wire[s] \in Seq(Buffer)
      BY <2>2 DEF MembersTypeOK
    <3>2. v.buf = w.buf /\ v.ticket = w.ticket /\ w.buf \in Nat /\ w.ticket \in Nat
      BY <3>1 DEF Write
    <3>3. /\ writes'[s] = (writes[s] \ {w}) \cup {v}
          /\ wire'[s] = Append(wire[s], w.buf)
          /\ Begun(w) \/ \A x \in writes[s] : x.ticket < w.ticket => Begun(x)
      BY <1>13, <2>2 DEF Transmit, MembersTypeOK
    <3> HIDE DEF v
    <3>4. wire'[s] # <<>> /\ (Head(wire'[s]) = IF wire[s] = <<>> THEN w.buf ELSE Head(wire[s]))
      BY <3>1, <3>2, <3>3, HeadOfAppend
    <3>5. tickets[s] > 0
      BY <1>inv, <2>2, <3>1, <3>2 DEF TicketsOK
    <3>6. (Live(s)' <=> Live(s)) /\ (UserWrites(s)' <=> UserWrites(s))
      BY <2>0 DEF Live, UserWrites, contextVars
    <3>7. OpeningOK(s)' /\ ClosingOK(s)'
      BY <1>inv, <2>0, <3>6 DEF OpeningOK, Opening, ClosingOK, memberVars, contextVars
    <3>8. Live(s) => Head(wire'[s]) = Handshake
      <4>1. CASE wire[s] # <<>>
        BY <1>inv, <3>4, <4>1 DEF TicketsOK
      <4>2. ASSUME wire[s] = <<>>, Live(s) PROVE w.buf = Handshake
        <5>1. PICK h \in writes[s] : h.buf = Handshake /\ h.ticket = 0 /\ h.left = 1
          BY <1>inv, <3>5, <4>2 DEF TicketsOK
        <5>2. ~ Begun(h) /\ ~ Begun(w)
          BY <1>inv, <2>2, <4>2 DEF TicketsOK
        <5>3. ~ (h.ticket < w.ticket)
          BY <3>3, <5>2
        <5>4. w.ticket = 0
          BY <3>2, <5>1, <5>3
        <5>5. QED
          BY <1>inv, <2>2, <4>2, <5>4 DEF TicketsOK
      <4>3. QED
        BY <3>4, <4>1, <4>2
    <3>9. TicketsOK(s)'
      <4>1. \A x \in writes'[s] : x.ticket < tickets[s]
        BY <1>inv, <2>2, <3>2, <3>3 DEF TicketsOK
      <4>2. Live(s) => \A x \in writes'[s] : x.ticket = 0 => x.buf = Handshake
        BY <1>inv, <2>2, <3>2, <3>3 DEF TicketsOK
      <4>3. QED
        BY <1>inv, <2>0, <3>4, <3>5, <3>6, <3>8, <4>1, <4>2
           DEF TicketsOK, memberVars, contextVars
    <3>10. ServedOK(s)'
      <4>1. writes'[s] # {}
        BY <3>3
      <4>2. QED
        BY <4>1 DEF ServedOK, WriteUnderWay
    <3>11. QED
      BY <3>7, <3>9, <3>10 DEF SessionInv
  <2>3. QED
    BY <2>1, <2>2
<1>14. ASSUME NEW t \in Session, ConnectionLost(t) PROVE SessionInv(s)'
  <2>1. CASE t # s
    BY <1>14, <2>1, Frame
       DEF ConnectionLost, Untouched, MembersTypeOK, memberVars, contextVars
  <2>2. CASE t = s
    <3>1. /\ conn[s] = "up" /\ ~ Live(s)'
          /\ UNCHANGED <<memberVars, reading, writes, tickets, wire, at, on, arg, old>>
      BY <1>14, <2>2 DEF ConnectionLost, MembersTypeOK, Live, contextVars
    <3>2. OpeningOK(s)' /\ ClosingOK(s)'
      BY <1>inv, <3>1 DEF OpeningOK, Opening, ClosingOK, UserWrites, memberVars
    <3>3. TicketsOK(s)' /\ ServedOK(s)'
      BY <1>inv, <3>1 DEF TicketsOK, ServedOK, Begun, memberVars
    <3>4. QED
      BY <3>2, <3>3 DEF SessionInv
  <2>3. QED
    BY <2>1, <2>2
<1>15. ASSUME NEW u \in User, Enqueue(u, "idle") PROVE SessionInv(s)'
  <2>0. /\ at[u] = "enqueue" /\ on[u] \in Session /\ arg[u] \in Buffer /\ arg[u] # Handshake
        /\ UNCHANGED <<state_, socketVars, old>>
    BY <1>15, <1>at DEF Enqueue, WellPlaced
  <2>1. \/ /\ state_[on[u]] = "Running" /\ Moves(u, "write", on[u], arg[u])
           /\ next_buffer_to_send_' = next_buffer_to_send_
           /\ sending_in_progress_' = [sending_in_progress_ EXCEPT ![on[u]] = TRUE]
        \/ /\ state_[on[u]] # "Running" \/ sending_in_progress_[on[u]]
           /\ Moves(u, "idle", NoSession, NoBuffer)
           /\ next_buffer_to_send_' = [next_buffer_to_send_ EXCEPT ![on[u]] = arg[u]]
           /\ sending_in_progress_' = sending_in_progress_
    BY <1>15, VisitMoves, ReturnMoves DEF Enqueue, Home
  <2>2. u # s /\ at'[s] = at[s] /\ arg'[s] = arg[s]
    BY <2>1 DEF Moves
  <2>3. CASE on[u] # s
    BY <2>0, <2>1, <2>3, Frame DEF Moves, Untouched, MembersTypeOK, socketVars
  <2>4. CASE on[u] = s
    <3>1. Live(s)' => Live(s)
      BY <2>0, <2>1, <2>4 DEF Live, Moves, socketVars
    <3>2. WriteUnderWay(s) => WriteUnderWay(s)'
      BY <2>0, <2>1, <2>2 DEF WriteUnderWay, Moves, socketVars
    <3>3. state_[s] # "NotStarted"
      BY <1>inv, <2>0, <2>4 DEF ClosingOK
    <3>4. ClosingOK(s)'
      BY <1>inv, <2>0, <2>2, <3>1, <3>3 DEF ClosingOK
    <3>5. CASE at'[u] = "write"
      <4>1. /\ state_[s] = "Running" /\ next_buffer_to_send_' = next_buffer_to_send_
            /\ at'[u] = "write" /\ on'[u] = s
        BY <2>1, <2>4, <3>5 DEF Moves
      <4>2. ~ Opening(s)
        BY <1>inv, <4>1 DEF OpeningOK
      <4>3. OpeningOK(s)'
        BY <2>0, <2>2, <4>2 DEF OpeningOK, Opening, socketVars
      <4>4. TicketsOK(s)'
        BY <1>inv, <2>0, <2>2, <3>1, <4>1 DEF TicketsOK, Begun, socketVars
      <4>5. WriteUnderWay(s)'
        BY <4>1 DEF WriteUnderWay, Context
      <4>6. ServedOK(s)'
        BY <1>inv, <2>0, <2>2, <3>1, <4>5 DEF ServedOK, socketVars
      <4>7. QED
        BY <3>4, <4>3, <4>4, <4>6 DEF SessionInv
    <3>6. CASE at'[u] # "write"
      <4>1. /\ state_[s] # "Running" \/ sending_in_progress_[s]
            /\ sending_in_progress_' = sending_in_progress_
            /\ next_buffer_to_send_'[s] # Handshake
        BY <2>0, <2>1, <2>4, <3>6 DEF Moves, MembersTypeOK
      <4>2. UserWrites(s)' => UserWrites(s)
        BY <2>1, <2>4, <3>6 DEF UserWrites, Moves
      <4>3. OpeningOK(s)'
        BY <1>inv, <2>0, <2>2, <4>2 DEF OpeningOK, Opening, socketVars
      <4>4. TicketsOK(s)'
        BY <1>inv, <2>0, <2>2, <3>1, <4>1, <4>2 DEF TicketsOK, Begun, socketVars
      <4>5. ServedOK(s)'
        BY <1>inv, <2>0, <2>2, <3>1, <3>2, <4>1 DEF ServedOK, socketVars
      <4>6. QED
        BY <3>4, <4>3, <4>4, <4>5 DEF SessionInv
    <3>7. QED
      BY <3>5, <3>6
  <2>5. QED
    BY <2>3, <2>4
<1>16. ASSUME NEW u \in User, NEW t \in Session, Submit(u, t) PROVE SessionInv(s)'
  <2>0. /\ at[u] = "idle" /\ state_[t] # "NotStarted"
        /\ Moves(u, "idle", NoSession, NoBuffer) \/ Moves(u, "enqueue", t, sent + 1)
        /\ UNCHANGED <<memberVars, socketVars, old>>
    BY <1>16, VisitMoves, ReturnMoves DEF Submit, SendDataBuffer, Home
  <2>1. u # s /\ at'[s] = at[s] /\ arg'[s] = arg[s]
    BY <2>0 DEF Moves
  <2>2. (Live(s)' <=> Live(s)) /\ (UserWrites(s)' <=> UserWrites(s))
    BY <2>0 DEF Live, UserWrites, Moves, socketVars
  <2>3. WriteUnderWay(s) => WriteUnderWay(s)'
    BY <2>0, <2>1 DEF WriteUnderWay, Moves, socketVars
  <2>4. OpeningOK(s)'
    BY <1>inv, <2>0, <2>1, <2>2 DEF OpeningOK, Opening, memberVars, socketVars
  <2>5. ClosingOK(s)'
    BY <1>inv, <2>0, <2>1, <2>2 DEF ClosingOK, Moves, memberVars, socketVars
  <2>6. TicketsOK(s)'
    BY <1>inv, <2>0, <2>1, <2>2 DEF TicketsOK, Begun, memberVars, socketVars
  <2>7. ServedOK(s)'
    BY <1>inv, <2>0, <2>1, <2>2, <2>3 DEF ServedOK, memberVars, socketVars
  <2>8. QED
    BY <2>4, <2>5, <2>6, <2>7 DEF SessionInv
<1>17. ASSUME NEW u \in User, NEW t \in Session, Cancel(u, t) PROVE SessionInv(s)'
  <2>1. CASE t # s
    <3>1. \/ Moves(u, "idle", NoSession, NoBuffer) \/ Moves(u, "closeSocket", t, arg[u])
      BY <1>17, VisitMoves, ReturnMoves DEF Cancel, SessionClosedHandler, Home
    <3>2. on[u] # s
      BY <1>17, <1>home DEF Cancel
    <3>3. QED
      BY <1>17, <2>1, <3>1, <3>2, Frame
         DEF Cancel, SessionClosedHandler, Untouched, Moves, MembersTypeOK, socketVars
  <2>2. CASE t = s
    BY <1>17, <2>2, CloseKeeps DEF Cancel, socketVars
  <2>3. QED
    BY <2>1, <2>2
<1>18. CASE UNCHANGED vars
  BY <1>18, Frame DEF vars, memberVars, socketVars, contextVars, Untouched
<1>19. QED
  BY <1>1, <1>2, <1>3, <1>4, <1>5, <1>6, <1>7, <1>8, <1>9, <1>10, <1>11,
     <1>12, <1>13, <1>14, <1>15, <1>16, <1>17, <1>18
     DEF Next, ReadStep, StrandStep, UserStep, NetworkStep

(* On a live session a stored next buffer, and a standing                  *)
(* sending_in_progress_, always have a write under way that will see to    *)
(* them, for any number of senders, cancelers and messages.                *)
THEOREM NextIsAlwaysServed == Spec => []NextIsServed
<1>1. Spec => []IInv
  BY InitInv, StepInv, PTL DEF Spec
<1>2. IInv => NextIsServed
  BY DEF IInv, SessionInv, ServedOK, NextIsServed
<1>3. QED
  BY <1>1, <1>2, PTL

(* No message overtakes the handshake response on a live connection.       *)
THEOREM HandshakeAlwaysLeads == Spec => []HandshakeLeadsLiveWire
<1>1. Spec => []IInv
  BY InitInv, StepInv, PTL DEF Spec
<1>2. IInv => HandshakeLeadsLiveWire
  BY DEF IInv, SessionInv, TicketsOK, HandshakeLeadsLiveWire
<1>3. QED
  BY <1>1, <1>2, PTL
=============================================================================
