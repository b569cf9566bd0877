-------------------------- MODULE Publisher_proofs --------------------------
(***************************************************************************)
(* Theorems about the publisher with its sessions, for any numbers of      *)
(* sessions, threads of the user and of the executor, and messages.        *)
(***************************************************************************)
EXTENDS Publisher, WellFoundedInduction, TLAPS

USE SessionAssumption DEF Context, Buffer, Handshake, NoBuffer

-----------------------------------------------------------------------------
(* Type correctness.                                                       *)

SendLabel == {"sendLoop", "enqueue", "write"}
StrandLabel == {"idle", "write", "setRunning", "restore", "takeNext", "closeSocket",
                "closedHandler"}
UserLabel == SendLabel \cup {"idle", "sendEmpty", "sendLock", "cancelCopy", "cancelLoop",
                             "closeSocket", "closedHandler"}
InSession == Label \ {"idle"}

(* Where a context can be, and what it holds there.                        *)
WellPlaced(c, label, s, b) ==
  /\ s \in Session \cup {NoSession} /\ b \in Buffer \cup {NoBuffer}
  /\ label \in InSession => s \in Session
  /\ c \in Session => s = c /\ label \in StrandLabel /\ (label = "write" => b \in Buffer)
  /\ c \in User => label \in UserLabel /\ (label \in SendLabel => b \in Buffer \ {Handshake})

PlacesOK ==
  /\ ContextsTypeOK(PublisherLabel)
  /\ \A c \in Context : WellPlaced(c, at[c], on[c], arg[c])

ListOK ==
  /\ is_running_ \in BOOLEAN
  /\ acceptor_ \in {"new", "failed", "listening", "closed"}
  /\ publisher_sessions_ \in Seq(Session)
  /\ accept \in {"none", "pending", "accepted", "pushBack"}
  /\ incoming \in Session \cup {NoSession}
  /\ accept \in {"accepted", "pushBack"} => incoming \in Session
  /\ acceptor_ = "new" => accept = "none"
  /\ todo \in [User -> Seq(Session)]

TypeInv == MembersTypeOK /\ PlacesOK /\ ListOK

(* What a move of a context changes, and what it leaves.                   *)
Moves(c, label, s, b) ==
  /\ at'[c] = label /\ on'[c] = s /\ arg'[c] = b
  /\ \A d \in Context : d # c =>
       at'[d] = at[d] /\ on'[d] = on[d] /\ arg'[d] = arg[d]

Stays == UNCHANGED <<at, on, arg>>

LEMMA VisitPlaces ==
  ASSUME PlacesOK, NEW c \in Context, NEW label, NEW s, NEW b,
         WellPlaced(c, label, s, b), Visit(c, s, label, b), old' \in [Session -> State]
  PROVE  PlacesOK' /\ Moves(c, label, s, b)
<1>1. label \in PublisherLabel
  BY DEF WellPlaced, StrandLabel, UserLabel, SendLabel, PublisherLabel, Label
<1>2. Moves(c, label, s, b)
  BY DEF PlacesOK, ContextsTypeOK, Visit, Moves
<1>3. ContextsTypeOK(PublisherLabel)'
  BY <1>1 DEF PlacesOK, ContextsTypeOK, Visit, WellPlaced
<1>4. QED
  BY <1>2, <1>3 DEF PlacesOK, Moves

LEMMA GotoPlaces ==
  ASSUME PlacesOK, NEW u \in User, NEW label \in UserLabel \ (InSession \cup SendLabel),
         at' = [at EXCEPT ![u] = label], UNCHANGED <<on, arg, old>>
  PROVE  PlacesOK' /\ Moves(u, label, on[u], arg[u])
<1>1. WellPlaced(u, label, on[u], arg[u])
  BY DEF PlacesOK, WellPlaced
<1>2. label \in PublisherLabel
  BY DEF UserLabel, SendLabel, PublisherLabel, Label
<1>3. Moves(u, label, on[u], arg[u])
  BY DEF PlacesOK, ContextsTypeOK, Moves
<1>4. ContextsTypeOK(PublisherLabel)'
  BY <1>2 DEF PlacesOK, ContextsTypeOK
<1>5. QED
  BY <1>1, <1>3, <1>4 DEF PlacesOK, Moves

LEMMA StayPlaces ==
  ASSUME PlacesOK, Stays, old' = old PROVE PlacesOK'
BY DEF PlacesOK, ContextsTypeOK, Stays

LEMMA ReturnPlaces ==
  ASSUME PlacesOK, NEW c \in Context, NEW back, Return(c, back), old' \in [Session -> State],
         \/ c \in Session /\ back = "idle"
         \/ c \in User /\ back \in {"idle", "sendLoop", "cancelLoop"},
         back = "sendLoop" => arg[c] \in Buffer \ {Handshake}
  PROVE  PlacesOK' /\ Moves(c, back, Home(c), IF back = "idle" THEN NoBuffer ELSE arg[c])
<1>1. WellPlaced(c, back, Home(c), IF back = "idle" THEN NoBuffer ELSE arg[c])
  BY DEF PlacesOK, ContextsTypeOK, WellPlaced, Home, InSession, Label, StrandLabel, UserLabel, SendLabel
<1>2. QED
  BY <1>1, VisitPlaces DEF Return

LEMMA ChunksPositive == \A b \in Buffer : ChunksOf(b) \in Nat /\ ChunksOf(b) > 0
BY DEF ChunksOf

-----------------------------------------------------------------------------
(* The list.                                                               *)

Below == {p \in Nat \X Nat : p[1] < p[2]}

LEMMA LeastIndex ==
  ASSUME NEW I, I \subseteq Nat, I # {} PROVE Min(I) \in I
<1>1. IsWellFoundedOn(Below, Nat)
  BY NatLessThanWellFounded DEF OpToRel, Below
<1>2. PICK x \in I : \A y \in I : ~ (<<y, x>> \in Below)
  BY <1>1, WFMin
<1>3. ASSUME NEW y \in I PROVE x <= y
  <2>1. x \in Nat /\ y \in Nat
    OBVIOUS
  <2>2. CASE y < x
    <3>1. <<y, x>> \in Below
      BY <2>1, <2>2 DEF Below
    <3>2. QED
      BY <1>2, <3>1
  <2>3. QED
    BY <2>1, <2>2
<1>4. QED
  BY <1>3 DEF Min

(* Where the element was, the ones behind it move up.                      *)
LEMMA FirstRemoved ==
  ASSUME NEW list \in Seq(Session), NEW s, \E i \in 1 .. Len(list) : list[i] = s
  PROVE  \E k \in 1 .. Len(list) :
           LET left == RemoveFirst(list, s) IN
           /\ list[k] = s /\ left \in Seq(Session) /\ Len(left) = Len(list) - 1
           /\ \A i \in 1 .. k - 1 : left[i] = list[i]
           /\ \A i \in k .. Len(list) - 1 : left[i] = list[i + 1]
<1> DEFINE I == {i \in 1 .. Len(list) : list[i] = s}
<1>1. RemoveFirst(list, s) = RemoveAt(list, Min(I))
  BY DEF RemoveFirst, SelectInSeq
<1>2. Min(I) \in I
  <2>1. I \subseteq Nat /\ I # {}
    OBVIOUS
  <2> HIDE DEF I
  <2>2. QED
    BY <2>1, LeastIndex
<1>3. PICK k \in 1 .. Len(list) : list[k] = s /\ RemoveFirst(list, s) = RemoveAt(list, k)
  BY <1>1, <1>2
<1> DEFINE left == RemoveAt(list, k)
           a == SubSeq(list, 1, k - 1)
           b == SubSeq(list, k + 1, Len(list))
<1>4. a \in Seq(Session) /\ Len(a) = k - 1 /\ \A i \in 1 .. k - 1 : a[i] = list[i]
  OBVIOUS
<1>5. /\ b \in Seq(Session) /\ Len(b) = Len(list) - k
      /\ \A i \in 1 .. Len(list) - k : b[i] = list[k + i]
  OBVIOUS
<1>6. left = a \o b
  BY DEF RemoveAt
<1>7. left = RemoveFirst(list, s)
  BY <1>3
<1> HIDE DEF a, b, left
<1>8. \A i \in k .. Len(list) - 1 : left[i] = b[i - Len(a)] /\ i - Len(a) \in 1 .. Len(list) - k
  BY <1>4, <1>5, <1>6
<1>9. \A i \in k .. Len(list) - 1 : left[i] = list[k + (i - Len(a))] /\ k + (i - Len(a)) = i + 1
  BY <1>4, <1>5, <1>8
<1>10. left \in Seq(Session) /\ Len(left) = Len(list) - 1
  BY <1>4, <1>5, <1>6
<1>11. \A i \in 1 .. k - 1 : left[i] = list[i]
  BY <1>4, <1>5, <1>6
<1>12. QED
  BY <1>3, <1>7, <1>9, <1>10, <1>11

(* Removing an element from a list takes no other one away.                *)
LEMMA RemoveFirstKeeps ==
  ASSUME NEW list \in Seq(Session), NEW s
  PROVE  /\ RemoveFirst(list, s) \in Seq(Session)
         /\ ToSet(RemoveFirst(list, s)) \subseteq ToSet(list)
         /\ ToSet(list) \subseteq ToSet(RemoveFirst(list, s)) \cup {s}
<1> DEFINE left == RemoveFirst(list, s)
<1>1. CASE \E i \in 1 .. Len(list) : list[i] = s
  <2>1. PICK k \in 1 .. Len(list) :
          /\ list[k] = s /\ left \in Seq(Session) /\ Len(left) = Len(list) - 1
          /\ \A i \in 1 .. k - 1 : left[i] = list[i]
          /\ \A i \in k .. Len(list) - 1 : left[i] = list[i + 1]
    BY <1>1, FirstRemoved
  <2> HIDE DEF left
  <2>2. ToSet(left) \subseteq ToSet(list)
    <3>1. ASSUME NEW i \in 1 .. Len(left) PROVE \E j \in 1 .. Len(list) : left[i] = list[j]
      BY <2>1
    <3>2. QED
      BY <2>1, <3>1 DEF ToSet
  <2>3. ASSUME NEW j \in 1 .. Len(list), list[j] # s PROVE \E i \in 1 .. Len(left) : left[i] = list[j]
    <3>1. CASE j < k
      BY <2>1, <3>1
    <3>2. CASE j > k
      <4>1. j - 1 \in k .. Len(list) - 1 /\ j - 1 \in 1 .. Len(left) /\ j = (j - 1) + 1
        BY <2>1, <3>2
      <4>2. left[j - 1] = list[j]
        BY <2>1, <4>1
      <4>3. QED
        BY <4>1, <4>2
    <3>3. QED
      BY <2>1, <2>3, <3>1, <3>2
  <2>4. ToSet(list) \subseteq ToSet(left) \cup {s}
    BY <2>1, <2>3 DEF ToSet
  <2>5. QED
    BY <2>1, <2>2, <2>4 DEF left
<1>2. CASE ~ \E i \in 1 .. Len(list) : list[i] = s
  BY <1>2 DEF RemoveFirst
<1>3. QED
  BY <1>1, <1>2

Unique(list) == \A i, j \in 1 .. Len(list) : list[i] = list[j] => i = j

LEMMA RemoveFirstUnique ==
  ASSUME NEW list \in Seq(Session), Unique(list), NEW s
  PROVE  Unique(RemoveFirst(list, s)) /\ s \notin ToSet(RemoveFirst(list, s))
<1> DEFINE left == RemoveFirst(list, s)
<1>1. CASE \E i \in 1 .. Len(list) : list[i] = s
  <2>1. PICK k \in 1 .. Len(list) :
          /\ list[k] = s /\ left \in Seq(Session) /\ Len(left) = Len(list) - 1
          /\ \A i \in 1 .. k - 1 : left[i] = list[i]
          /\ \A i \in k .. Len(list) - 1 : left[i] = list[i + 1]
    BY <1>1, FirstRemoved
  <2> HIDE DEF left
  <2> DEFINE from(i) == IF i < k THEN i ELSE i + 1
  <2>2. \A i \in 1 .. Len(left) : from(i) \in 1 .. Len(list) /\ from(i) # k /\ left[i] = list[from(i)]
    BY <2>1
  <2>3. \A i, j \in 1 .. Len(left) : from(i) = from(j) => i = j
    BY <2>1
  <2>4. Unique(left)
    <3> HIDE DEF from
    <3>1. QED
      BY <2>2, <2>3 DEF Unique
  <2>5. \A i \in 1 .. Len(left) : left[i] # s
    <3> HIDE DEF from
    <3>1. QED
      BY <2>1, <2>2 DEF Unique
  <2>6. s \notin ToSet(left)
    BY <2>1, <2>5 DEF ToSet
  <2>7. QED
    BY <2>4, <2>6 DEF left
<1>2. CASE ~ \E i \in 1 .. Len(list) : list[i] = s
  BY <1>2 DEF RemoveFirst, ToSet
<1>3. QED
  BY <1>1, <1>2

LEMMA AppendUnique ==
  ASSUME NEW list \in Seq(Session), Unique(list), NEW s \in Session, s \notin ToSet(list)
  PROVE  Unique(Append(list, s))
<1>1. \A i \in 1 .. Len(list) : list[i] # s
  BY DEF ToSet
<1>2. /\ Len(Append(list, s)) = Len(list) + 1 /\ Append(list, s)[Len(list) + 1] = s
      /\ \A i \in 1 .. Len(list) : Append(list, s)[i] = list[i]
  OBVIOUS
<1>3. QED
  BY <1>1, <1>2 DEF Unique

LEMMA AppendToSet ==
  ASSUME NEW S, NEW q \in Seq(S), NEW x \in S
  PROVE  ToSet(Append(q, x)) = ToSet(q) \cup {x}
<1>1. /\ Len(Append(q, x)) = Len(q) + 1 /\ Append(q, x) \in Seq(S)
      /\ Append(q, x)[Len(q) + 1] = x /\ \A i \in 1 .. Len(q) : Append(q, x)[i] = q[i]
  OBVIOUS
<1>2. QED
  BY <1>1 DEF ToSet

LEMMA HeadTailToSet ==
  ASSUME NEW S, NEW q \in Seq(S), q # <<>>
  PROVE  Head(q) \in S /\ Tail(q) \in Seq(S) /\ ToSet(q) = {Head(q)} \cup ToSet(Tail(q))
<1>1. /\ Len(q) > 0 /\ Len(Tail(q)) = Len(q) - 1 /\ Tail(q) \in Seq(S) /\ Head(q) = q[1]
      /\ \A i \in 1 .. Len(q) - 1 : Tail(q)[i] = q[i + 1]
  OBVIOUS
<1>2. ASSUME NEW i \in 1 .. Len(q) PROVE q[i] = Head(q) \/ q[i] \in ToSet(Tail(q))
  <2>1. CASE i = 1
    BY <1>1, <2>1
  <2>2. CASE i > 1
    <3>1. i - 1 \in 1 .. Len(q) - 1 /\ i = (i - 1) + 1
      BY <2>2
    <3>2. Tail(q)[i - 1] = q[i]
      BY <1>1, <3>1
    <3>3. i - 1 \in DOMAIN Tail(q)
      BY <1>1, <3>1
    <3>4. QED
      BY <3>2, <3>3 DEF ToSet
  <2>3. QED
    BY <2>1, <2>2
<1>3. ToSet(q) \subseteq {Head(q)} \cup ToSet(Tail(q))
  BY <1>2 DEF ToSet
<1>4. ToSet(Tail(q)) \subseteq ToSet(q) /\ Head(q) \in ToSet(q)
  BY <1>1 DEF ToSet
<1>5. QED
  BY <1>1, <1>3, <1>4

-----------------------------------------------------------------------------
(* What each action does, to the session it concerns, to the context that  *)
(* moves and to the list.                                                  *)

SessionSame(s) ==
  /\ state_'[s] = state_[s] /\ next_buffer_to_send_'[s] = next_buffer_to_send_[s]
  /\ conn'[s] = conn[s] /\ reading'[s] = reading[s] /\ writes'[s] = writes[s]
  /\ wire'[s] = wire[s] /\ old'[s] = old[s]

SameBut(t) == \A s \in Session \ {t} : SessionSame(s)

BufferSame(t) ==
  next_buffer_to_send_'[t] = next_buffer_to_send_[t] /\ writes'[t] = writes[t] /\ wire'[t] = wire[t]

ListSame == UNCHANGED <<publisher_sessions_, accept, incoming>>

TodoSameBut(u) == \A v \in User \ {u} : todo'[v] = todo[v]

StartEffect(t) ==
  /\ state_[t] = "NotStarted" /\ state_'[t] = "Handshaking" /\ conn'[t] = "up"
  /\ BufferSame(t) /\ old'[t] = old[t] /\ SameBut(t) /\ Stays
  /\ accept = "accepted" /\ accept' = "pushBack" /\ incoming' = t /\ ThreadFree
  /\ UNCHANGED <<publisher_sessions_, todo>>

ReadEffect(t) ==
  /\ at[t] = "idle" /\ reading[t] # "none" /\ ThreadFree
  /\ Stays \/ Moves(t, "write", t, Handshake)
  /\ state_'[t] = state_[t] /\ conn'[t] = conn[t] /\ old'[t] = old[t] /\ BufferSame(t)
  /\ SameBut(t) /\ ListSame /\ todo' = todo

CloseEffect(t, c) ==
  /\ \/ c = t /\ at[t] = "idle" /\ (reading[t] # "none" \/ writes[t] # {}) /\ todo' = todo
        /\ ThreadFree
     \/ c \in User /\ at[c] = "cancelLoop" /\ writes'[t] = writes[t] /\ TodoSameBut(c)
        /\ ToSet(todo'[c]) \subseteq ToSet(todo[c]) /\ t \in ToSet(todo[c])
  /\ state_'[t] = "Canceled"
  /\ \E b : IF state_[t] = "Canceled"
            THEN \E label \in {"idle", "cancelLoop"} : Moves(c, label, Home(c), b)
            ELSE Moves(c, "closeSocket", t, b)
  /\ next_buffer_to_send_'[t] = next_buffer_to_send_[t] /\ wire'[t] = wire[t]
  /\ conn'[t] = conn[t] /\ old'[t] = old[t]
  /\ writes'[t] = writes[t] \/ (writes'[t] \subseteq writes[t] /\ conn[t] # "up")
  /\ SameBut(t) /\ ListSame

SetRunningEffect(t) ==
  /\ at[t] = "setRunning" /\ state_'[t] = "Running"
  /\ \/ state_[t] = "Handshaking" /\ Moves(t, "idle", t, NoBuffer) /\ old'[t] = old[t]
     \/ Moves(t, "restore", t, arg[t]) /\ old'[t] = state_[t]
  /\ conn'[t] = conn[t] /\ reading'[t] = reading[t] /\ BufferSame(t)
  /\ SameBut(t) /\ ListSame /\ todo' = todo

RestoreEffect(t) ==
  /\ at[t] = "restore" /\ state_'[t] = old[t] /\ Moves(t, "idle", t, NoBuffer)
  /\ conn'[t] = conn[t] /\ reading'[t] = reading[t] /\ BufferSame(t)
  /\ SameBut(t) /\ ListSame /\ todo' = todo

TakeNextEffect(t) ==
  /\ at[t] = "takeNext"
  /\ \/ /\ next_buffer_to_send_[t] # NoBuffer /\ next_buffer_to_send_'[t] = NoBuffer
        /\ Moves(t, "write", t, next_buffer_to_send_[t])
     \/ next_buffer_to_send_'[t] = next_buffer_to_send_[t] /\ Moves(t, "idle", t, NoBuffer)
  /\ state_'[t] = state_[t] /\ conn'[t] = conn[t] /\ reading'[t] = reading[t]
  /\ writes'[t] = writes[t] /\ wire'[t] = wire[t] /\ old'[t] = old[t]
  /\ SameBut(t) /\ ListSame /\ todo' = todo

SendEffect(t, c) ==
  /\ at[c] = "write" /\ on[c] = t
  /\ \/ state_[t] = "Canceled" /\ writes'[t] = writes[t]
     \/ \E w \in Write : /\ w.buf = arg[c] /\ ~ Begun(w)
                          /\ writes'[t] = writes[t] \cup {w}
  /\ \/ c \in User /\ Moves(c, "sendLoop", NoSession, arg[c])
     \/ c = t /\ \E label \in {"idle", "setRunning"} : \E b : Moves(c, label, t, b)
  /\ state_'[t] = state_[t] /\ next_buffer_to_send_'[t] = next_buffer_to_send_[t]
  /\ conn'[t] = conn[t] /\ reading'[t] = reading[t] /\ wire'[t] = wire[t] /\ old'[t] = old[t]
  /\ SameBut(t) /\ ListSame /\ todo' = todo

WriteCompletesEffect(t) ==
  /\ at[t] = "idle" /\ ThreadFree
  /\ \E w \in writes[t] : w.left = 0 /\ writes'[t] = writes[t] \ {w}
  /\ Stays \/ \E b : Moves(t, "takeNext", t, b)
  /\ state_'[t] = state_[t] /\ next_buffer_to_send_'[t] = next_buffer_to_send_[t]
  /\ conn'[t] = conn[t] /\ reading'[t] = reading[t] /\ wire'[t] = wire[t] /\ old'[t] = old[t]
  /\ SameBut(t) /\ ListSame /\ todo' = todo

TransmitEffect(t) ==
  /\ \E w \in writes[t], v \in Write :
       /\ v.buf = w.buf /\ writes'[t] = (writes[t] \ {w}) \cup {v}
       /\ wire'[t] = Append(wire[t], w.buf)
  /\ state_'[t] = state_[t] /\ next_buffer_to_send_'[t] = next_buffer_to_send_[t]
  /\ conn'[t] = conn[t] /\ reading'[t] = reading[t] /\ old'[t] = old[t]
  /\ Stays /\ SameBut(t) /\ ListSame /\ todo' = todo

LostEffect(t) ==
  /\ conn[t] = "up" /\ conn'[t] = "lost"
  /\ state_'[t] = state_[t] /\ reading'[t] = reading[t] /\ old'[t] = old[t] /\ BufferSame(t)
  /\ Stays /\ SameBut(t) /\ ListSame /\ todo' = todo

EnqueueEffect(t, u) ==
  /\ at[u] = "enqueue" /\ on[u] = t
  /\ \/ /\ state_[t] = "Running" /\ Moves(u, "write", t, arg[u])
        /\ next_buffer_to_send_'[t] = next_buffer_to_send_[t]
     \/ next_buffer_to_send_'[t] = arg[u] /\ Moves(u, "sendLoop", NoSession, arg[u])
  /\ state_'[t] = state_[t] /\ conn'[t] = conn[t] /\ reading'[t] = reading[t]
  /\ writes'[t] = writes[t] /\ wire'[t] = wire[t] /\ old'[t] = old[t]
  /\ SameBut(t) /\ ListSame /\ todo' = todo

CloseSocketEffect(t, c) ==
  /\ at[c] = "closeSocket" /\ on[c] = t /\ conn'[t] = "closed"
  /\ Moves(c, "closedHandler", t, arg[c])
  /\ state_'[t] = state_[t] /\ reading'[t] = reading[t] /\ old'[t] = old[t] /\ BufferSame(t)
  /\ SameBut(t) /\ ListSame /\ todo' = todo

AllSame == \A s \in Session : SessionSame(s)

ClosedEffect(c) ==
  /\ at[c] = "closedHandler" /\ SessionsMutexFree
  /\ \E label \in {"idle", "cancelLoop"} : \E b : Moves(c, label, Home(c), b)
  /\ publisher_sessions_' = RemoveFirst(publisher_sessions_, on[c])
  /\ AllSame /\ UNCHANGED <<accept, incoming, todo>>

(* The steps of send().                                                    *)
LockEffect(u) ==
  /\ at[u] = "sendLock" /\ SessionsMutexFree
  /\ \E b \in Buffer \ {Handshake} : Moves(u, "sendLoop", on[u], b)
  /\ todo'[u] = publisher_sessions_ /\ TodoSameBut(u)
  /\ AllSame /\ ListSame

GiveEffect(u) ==
  /\ at[u] = "sendLoop" /\ todo[u] # <<>>
  /\ \/ state_[Head(todo[u])] = "Canceled" /\ Moves(u, "sendLoop", NoSession, arg[u])
     \/ Moves(u, "enqueue", Head(todo[u]), arg[u])
  /\ todo'[u] = Tail(todo[u]) /\ TodoSameBut(u)
  /\ AllSame /\ ListSame

SendEndEffect(u) ==
  /\ at[u] = "sendLoop" /\ todo[u] = <<>> /\ Moves(u, "idle", NoSession, NoBuffer)
  /\ AllSame /\ ListSame /\ todo' = todo

(* A user goes on outside of the loop of send() and of all sessions.       *)
Outside == UserLabel \ (InSession \cup SendLabel)

OutsideEffect(u) ==
  /\ at[u] \in Outside /\ \E label \in Outside : \E s, b : Moves(u, label, s, b)
  /\ ToSet(todo'[u]) \subseteq ToSet(todo[u]) \cup ToSet(publisher_sessions_)
  /\ TodoSameBut(u) /\ AllSame /\ ListSame

AcceptEffect ==
  /\ Stays /\ AllSame /\ UNCHANGED <<publisher_sessions_, todo>>
  /\ accept # "pushBack" /\ accept' # "pushBack"

PushBackEffect ==
  /\ accept = "pushBack" /\ SessionsMutexFree
  /\ publisher_sessions_' = Append(publisher_sessions_, incoming) /\ accept' = "pending"
  /\ Stays /\ AllSame /\ todo' = todo

StrandEffect(t) ==
  \/ StartEffect(t) \/ ReadEffect(t) \/ SetRunningEffect(t) \/ RestoreEffect(t)
  \/ TakeNextEffect(t) \/ WriteCompletesEffect(t) \/ TransmitEffect(t) \/ LostEffect(t)

ContextEffect(t, c) ==
  \/ CloseEffect(t, c) \/ SendEffect(t, c) \/ CloseSocketEffect(t, c)
  \/ c \in User /\ EnqueueEffect(t, c)

UserEffect(u) ==
  LockEffect(u) \/ GiveEffect(u) \/ SendEndEffect(u) \/ OutsideEffect(u)

Effect ==
  \/ \E t \in Session : StrandEffect(t) \/ \E c \in Context : ContextEffect(t, c)
  \/ \E c \in Context : ClosedEffect(c)
  \/ \E u \in User : UserEffect(u)
  \/ AcceptEffect \/ PushBackEffect

-----------------------------------------------------------------------------
(* Every action keeps the types and has its effect.                        *)

LEMMA StartStep == ASSUME TypeInv, HandleAccept PROVE TypeInv' /\ StartEffect(incoming)
<1> DEFINE t == incoming
<1>1. t \in Session /\ Start(t)
  BY DEF TypeInv, ListOK, HandleAccept
<1> HIDE DEF t
<1>2. MembersTypeOK'
  BY <1>1 DEF TypeInv, MembersTypeOK, Start, State, historyVars
<1>3. Stays /\ PlacesOK'
  BY <1>1, StayPlaces DEF TypeInv, Start, Stays, contextVars
<1>4. ListOK'
  BY DEF TypeInv, ListOK, HandleAccept
<1>5. SameBut(t) /\ state_[t] = "NotStarted" /\ state_'[t] = "Handshaking" /\ conn'[t] = "up"
      /\ BufferSame(t) /\ old'[t] = old[t]
  BY <1>1 DEF TypeInv, MembersTypeOK, Start, SameBut, SessionSame, BufferSame, contextVars
<1>6. QED
  BY <1>2, <1>3, <1>4, <1>5 DEF TypeInv, StartEffect, HandleAccept, t

LEMMA ReadStepEffect ==
  ASSUME TypeInv, NEW t \in Session, ThreadFree,
         ReadCompletes(t) \/ HandshakeReceived(t), UNCHANGED publisherVars
  PROVE  TypeInv' /\ ReadEffect(t)
<1>1. CASE ReadCompletes(t)
  <2>1. MembersTypeOK'
    BY <1>1 DEF TypeInv, MembersTypeOK, ReadCompletes, AfterRead, memberVars, historyVars
  <2>2. Stays /\ PlacesOK'
    BY <1>1, StayPlaces DEF TypeInv, ReadCompletes, Stays, contextVars
  <2>3. QED
    BY <1>1, <2>1, <2>2 DEF TypeInv, MembersTypeOK, ListOK, ReadEffect, ReadCompletes, BufferSame, SameBut,
       SessionSame, ListSame, publisherVars, memberVars, contextVars
<1>2. CASE HandshakeReceived(t)
  <2>1. MembersTypeOK'
    BY <1>2 DEF TypeInv, MembersTypeOK, HandshakeReceived, memberVars, historyVars
  <2>2. WellPlaced(t, "write", t, Handshake)
    BY DEF WellPlaced, StrandLabel
  <2>3. PlacesOK' /\ (Stays \/ Moves(t, "write", t, Handshake))
    BY <1>2, <2>2, VisitPlaces, StayPlaces DEF TypeInv, PlacesOK, ContextsTypeOK, HandshakeReceived, Stays
  <2>4. QED
    BY <1>2, <2>1, <2>3 DEF TypeInv, MembersTypeOK, ListOK, ReadEffect, HandshakeReceived, BufferSame, SameBut,
       SessionSame, ListSame, publisherVars, memberVars
<1>3. QED
  BY <1>1, <1>2

LEMMA SetRunningStep ==
  ASSUME TypeInv, NEW t \in Session, SetRunning(t), UNCHANGED publisherVars
  PROVE  TypeInv' /\ SetRunningEffect(t)
<1>1. MembersTypeOK'
  <2>1. state_ \in [Session -> State] /\ "Running" \in State
    BY DEF TypeInv, MembersTypeOK, State
  <2>2. state_' \in [Session -> State]
    BY <2>1 DEF SetRunning
  <2>3. UNCHANGED <<sending_in_progress_, next_buffer_to_send_, socketVars, historyVars>>
    BY DEF SetRunning
  <2>4. QED
    BY <2>2, <2>3 DEF TypeInv, MembersTypeOK, socketVars, historyVars
<1>2. old' \in [Session -> State]
  BY DEF TypeInv, MembersTypeOK, PlacesOK, ContextsTypeOK, SetRunning
<1>3. CASE state_[t] = "Handshaking"
  <2>1. PlacesOK' /\ Moves(t, "idle", t, NoBuffer) /\ old' = old
    BY <1>2, <1>3, ReturnPlaces DEF TypeInv, SetRunning, Home
  <2>2. QED
    BY <1>1, <1>3, <2>1 DEF TypeInv, MembersTypeOK, ListOK, SetRunningEffect, SetRunning, BufferSame, SameBut,
       SessionSame, ListSame, publisherVars, socketVars
<1>4. CASE state_[t] # "Handshaking"
  <2>1. WellPlaced(t, "restore", t, arg[t])
    BY DEF TypeInv, PlacesOK, WellPlaced, StrandLabel
  <2>2. PlacesOK' /\ Moves(t, "restore", t, arg[t]) /\ old' = [old EXCEPT ![t] = state_[t]]
    BY <1>2, <1>4, <2>1, VisitPlaces DEF TypeInv, SetRunning
  <2>3. old \in [Session -> State]
    BY DEF TypeInv, PlacesOK, ContextsTypeOK
  <2>4. QED
    BY <1>1, <1>4, <2>2, <2>3 DEF TypeInv, MembersTypeOK, ListOK, SetRunningEffect, SetRunning, BufferSame,
       SameBut, SessionSame, ListSame, publisherVars, socketVars
<1>5. QED
  BY <1>3, <1>4

LEMMA RestoreStep ==
  ASSUME TypeInv, NEW t \in Session, RestoreState(t), UNCHANGED publisherVars
  PROVE  TypeInv' /\ RestoreEffect(t)
<1>1. old \in [Session -> State] /\ old' = old
  BY DEF TypeInv, PlacesOK, ContextsTypeOK, RestoreState
<1>2. MembersTypeOK'
  BY <1>1 DEF TypeInv, MembersTypeOK, RestoreState, socketVars, historyVars
<1>3. PlacesOK' /\ Moves(t, "idle", t, NoBuffer)
  BY <1>1, ReturnPlaces DEF TypeInv, RestoreState, Home
<1>4. QED
  BY <1>1, <1>2, <1>3 DEF TypeInv, MembersTypeOK, ListOK, RestoreEffect, RestoreState, BufferSame, SameBut,
     SessionSame, ListSame, publisherVars, socketVars

LEMMA TakeNextStep ==
  ASSUME TypeInv, NEW t \in Session, TakeNext(t), UNCHANGED publisherVars
  PROVE  TypeInv' /\ TakeNextEffect(t)
<1>1. MembersTypeOK'
  BY DEF TypeInv, MembersTypeOK, TakeNext, socketVars, historyVars
<1>2. old' = old /\ old \in [Session -> State]
  BY DEF TypeInv, PlacesOK, ContextsTypeOK, TakeNext
<1>3. CASE next_buffer_to_send_[t] # NoBuffer
  <2>1. WellPlaced(t, "write", t, next_buffer_to_send_[t])
    BY <1>3 DEF TypeInv, MembersTypeOK, WellPlaced, StrandLabel
  <2>2. PlacesOK' /\ Moves(t, "write", t, next_buffer_to_send_[t])
    BY <1>2, <1>3, <2>1, VisitPlaces DEF TypeInv, TakeNext
  <2>3. QED
    BY <1>1, <1>2, <1>3, <2>2 DEF TypeInv, MembersTypeOK, ListOK, TakeNextEffect, TakeNext, SameBut,
       SessionSame, ListSame, publisherVars, socketVars
<1>4. CASE next_buffer_to_send_[t] = NoBuffer
  <2>1. PlacesOK' /\ Moves(t, "idle", t, NoBuffer)
    BY <1>2, <1>4, ReturnPlaces DEF TypeInv, TakeNext, Home
  <2>2. QED
    BY <1>1, <1>2, <1>4, <2>1 DEF TypeInv, MembersTypeOK, ListOK, TakeNextEffect, TakeNext, SameBut,
       SessionSame, ListSame, publisherVars, socketVars
<1>5. QED
  BY <1>3, <1>4

LEMMA CloseStep ==
  ASSUME TypeInv, NEW c \in Context, NEW t \in Session, NEW back,
         SessionClosedHandler(c, t, back),
         c \in Session => c = t /\ back = "idle", c \in User => back = "cancelLoop"
  PROVE  /\ PlacesOK' /\ state_' \in [Session -> State] /\ state_'[t] = "Canceled"
         /\ \E b : IF state_[t] = "Canceled"
                  THEN \E label \in {"idle", "cancelLoop"} : Moves(c, label, Home(c), b)
                  ELSE Moves(c, "closeSocket", t, b)
<1>1. old' = old /\ old \in [Session -> State]
  BY DEF TypeInv, PlacesOK, ContextsTypeOK, SessionClosedHandler
<1>2. state_' \in [Session -> State] /\ state_'[t] = "Canceled"
  BY DEF TypeInv, MembersTypeOK, SessionClosedHandler, State
<1>3. CASE state_[t] = "Canceled"
  <2>1. Return(c, back)
    BY <1>3 DEF SessionClosedHandler
  <2>2. PlacesOK' /\ Moves(c, back, Home(c), IF back = "idle" THEN NoBuffer ELSE arg[c])
    BY <1>1, <2>1, ReturnPlaces DEF TypeInv
  <2>3. back \in {"idle", "cancelLoop"}
    OBVIOUS
  <2>4. QED
    BY <1>2, <1>3, <2>2, <2>3
<1>4. CASE state_[t] # "Canceled"
  <2>1. WellPlaced(c, "closeSocket", t, arg[c])
    BY DEF TypeInv, PlacesOK, WellPlaced, StrandLabel, UserLabel, SendLabel
  <2>2. PlacesOK' /\ Moves(c, "closeSocket", t, arg[c])
    BY <1>1, <1>4, <2>1, VisitPlaces DEF TypeInv, SessionClosedHandler
  <2>3. QED
    BY <1>2, <1>4, <2>2
<1>5. QED
  BY <1>3, <1>4

LEMMA ReadFailsStep ==
  ASSUME TypeInv, NEW t \in Session, ThreadFree, ReadFails(t), UNCHANGED publisherVars
  PROVE  TypeInv' /\ CloseEffect(t, t)
<1>1. SessionClosedHandler(t, t, "idle") /\ t \notin User
  BY DEF ReadFails
<1>2. /\ PlacesOK' /\ state_' \in [Session -> State] /\ state_'[t] = "Canceled"
      /\ \E b : IF state_[t] = "Canceled"
               THEN \E label \in {"idle", "cancelLoop"} : Moves(t, label, Home(t), b)
               ELSE Moves(t, "closeSocket", t, b)
  BY <1>1, CloseStep
<1>3. MembersTypeOK'
  BY <1>2 DEF TypeInv, MembersTypeOK, ReadFails, SessionClosedHandler, historyVars
<1>4. ListOK' /\ ListSame /\ todo' = todo
  BY DEF TypeInv, ListOK, ListSame, publisherVars
<1>5. /\ next_buffer_to_send_'[t] = next_buffer_to_send_[t] /\ wire'[t] = wire[t]
      /\ conn'[t] = conn[t] /\ old'[t] = old[t] /\ writes'[t] = writes[t]
      /\ at[t] = "idle" /\ reading[t] # "none" /\ SameBut(t)
  BY DEF TypeInv, MembersTypeOK, ReadFails, SessionClosedHandler, SameBut, SessionSame
<1>6. QED
  BY <1>2, <1>3, <1>4, <1>5 DEF TypeInv, CloseEffect

LEMMA WriteFailsStep ==
  ASSUME TypeInv, NEW t \in Session, NEW w \in writes[t], ThreadFree, WriteFails(t, w), UNCHANGED publisherVars
  PROVE  TypeInv' /\ CloseEffect(t, t)
<1>1. SessionClosedHandler(t, t, "idle") /\ t \notin User
  BY DEF WriteFails
<1>2. /\ PlacesOK' /\ state_' \in [Session -> State] /\ state_'[t] = "Canceled"
      /\ \E b : IF state_[t] = "Canceled"
               THEN \E label \in {"idle", "cancelLoop"} : Moves(t, label, Home(t), b)
               ELSE Moves(t, "closeSocket", t, b)
  BY <1>1, CloseStep
<1>3. MembersTypeOK'
  BY <1>2 DEF TypeInv, MembersTypeOK, WriteFails, SessionClosedHandler, historyVars
<1>4. ListOK' /\ ListSame /\ todo' = todo
  BY DEF TypeInv, ListOK, ListSame, publisherVars
<1>5. /\ next_buffer_to_send_'[t] = next_buffer_to_send_[t] /\ wire'[t] = wire[t]
      /\ conn'[t] = conn[t] /\ old'[t] = old[t] /\ SameBut(t)
  BY DEF TypeInv, MembersTypeOK, WriteFails, SessionClosedHandler, SameBut, SessionSame
<1>6. at[t] = "idle" /\ writes[t] # {} /\ writes'[t] \subseteq writes[t] /\ conn[t] # "up"
  BY DEF TypeInv, MembersTypeOK, WriteFails
<1>7. QED
  BY <1>2, <1>3, <1>4, <1>5, <1>6 DEF TypeInv, CloseEffect

LEMMA CancelLoopStep ==
  ASSUME TypeInv, NEW u \in User, CancelLoop(u), todo[u] # <<>>
  PROVE  TypeInv' /\ CloseEffect(Head(todo[u]), u)
<1> DEFINE t == Head(todo[u])
<1>1. /\ t \in Session /\ Tail(todo[u]) \in Seq(Session)
      /\ ToSet(Tail(todo[u])) \subseteq ToSet(todo[u]) /\ t \in ToSet(todo[u])
  BY HeadTailToSet DEF TypeInv, ListOK
<1>2. /\ SessionClosedHandler(u, t, "cancelLoop") /\ u \notin Session
      /\ todo' = [todo EXCEPT ![u] = Tail(todo[u])] /\ at[u] = "cancelLoop"
      /\ UNCHANGED <<socketVars, historyVars, is_running_, acceptor_, publisher_sessions_, accept, incoming>>
  BY DEF CancelLoop
<1> HIDE DEF t
<1>3. /\ PlacesOK' /\ state_' \in [Session -> State] /\ state_'[t] = "Canceled"
      /\ \E b : IF state_[t] = "Canceled"
               THEN \E label \in {"idle", "cancelLoop"} : Moves(u, label, Home(u), b)
               ELSE Moves(u, "closeSocket", t, b)
  BY <1>1, <1>2, CloseStep
<1>4. MembersTypeOK'
  BY <1>2, <1>3 DEF TypeInv, MembersTypeOK, SessionClosedHandler, historyVars, socketVars
<1>5. ListOK' /\ ListSame
  BY <1>1, <1>2 DEF TypeInv, ListOK, ListSame
<1>6. TodoSameBut(u) /\ todo'[u] = Tail(todo[u])
  BY <1>2 DEF TypeInv, ListOK, TodoSameBut
<1>7. /\ next_buffer_to_send_'[t] = next_buffer_to_send_[t] /\ wire'[t] = wire[t]
      /\ conn'[t] = conn[t] /\ old'[t] = old[t] /\ SameBut(t) /\ writes'[t] = writes[t]
  BY <1>1, <1>2 DEF TypeInv, MembersTypeOK, SessionClosedHandler, SameBut, SessionSame, socketVars
<1>8. TypeInv' /\ CloseEffect(t, u)
  BY <1>1, <1>2, <1>3, <1>4, <1>5, <1>6, <1>7 DEF TypeInv, CloseEffect
<1>9. QED
  BY <1>8 DEF t

LEMMA SendStep ==
  ASSUME TypeInv, NEW c \in Context, NEW back, SendBufferToClient(c, back), UNCHANGED publisherVars,
         c \in Session => back = "idle", c \in User => back = "sendLoop"
  PROVE  TypeInv' /\ SendEffect(on[c], c)
<1> DEFINE t == on[c]
           w == [buf |-> arg[c], left |-> ChunksOf(arg[c]), ticket |-> tickets[t]]
<1>1. WellPlaced(c, "write", t, arg[c]) /\ at[c] = "write"
  BY DEF TypeInv, PlacesOK, SendBufferToClient
<1>2. t \in Session /\ arg[c] \in Buffer
  BY <1>1 DEF WellPlaced, InSession, Label, SendLabel
<1>3. w \in Write /\ w.buf = arg[c] /\ ~ Begun(w)
  <2>1. tickets[t] \in Nat
    BY <1>2 DEF TypeInv, MembersTypeOK
  <2>2. ChunksOf(arg[c]) \in Nat
    BY <1>2, ChunksPositive
  <2>3. w \in Write
    BY <1>2, <2>1, <2>2 DEF Write
  <2>4. QED
    BY <2>2, <2>3 DEF Begun
<1>4. old' = old /\ old \in [Session -> State]
  BY DEF TypeInv, PlacesOK, ContextsTypeOK, SendBufferToClient
<1>5. IF state_[t] = "Canceled" THEN writes' = writes /\ tickets' = tickets
      ELSE /\ writes' = [writes EXCEPT ![t] = @ \cup {w}]
           /\ tickets' = [tickets EXCEPT ![t] = @ + 1]
  BY DEF SendBufferToClient
<1>6. /\ UNCHANGED <<memberVars, conn, reading, wire, old, historyVars>>
      /\ Return(c, IF arg[c] = Handshake THEN "setRunning" ELSE back)
  BY DEF SendBufferToClient
<1> HIDE DEF t, w
<1>7. /\ PlacesOK'
      /\ \/ c \in User /\ Moves(c, "sendLoop", NoSession, arg[c])
         \/ c = t /\ \E label \in {"idle", "setRunning"} : \E b : Moves(c, label, t, b)
  <2>1. CASE c \in User
    <3>1. Return(c, "sendLoop") /\ arg[c] \in Buffer \ {Handshake} /\ c \notin Session
      BY <1>1, <1>6, <2>1 DEF WellPlaced, SendLabel
    <3>2. PlacesOK' /\ Moves(c, "sendLoop", Home(c), arg[c])
      BY <1>4, <2>1, <3>1, ReturnPlaces DEF TypeInv
    <3>3. QED
      BY <2>1, <3>1, <3>2 DEF Home
  <2>2. CASE c \in Session /\ arg[c] # Handshake
    <3>1. Return(c, "idle") /\ c = t
      BY <1>1, <1>6, <2>2 DEF WellPlaced
    <3>2. PlacesOK' /\ Moves(c, "idle", Home(c), NoBuffer)
      BY <1>4, <2>2, <3>1, ReturnPlaces DEF TypeInv
    <3>3. QED
      BY <2>2, <3>1, <3>2 DEF Home
  <2>3. CASE c \in Session /\ arg[c] = Handshake
    <3>1. Visit(c, t, "setRunning", arg[c]) /\ c = t
      BY <1>1, <1>6, <2>3 DEF WellPlaced, Return, Home
    <3>2. WellPlaced(c, "setRunning", t, arg[c])
      BY <1>1, <2>3 DEF WellPlaced, StrandLabel
    <3>3. PlacesOK' /\ Moves(c, "setRunning", t, arg[c])
      BY <1>4, <3>1, <3>2, VisitPlaces DEF TypeInv
    <3>4. QED
      BY <3>1, <3>3
  <2>4. QED
    BY <2>1, <2>2, <2>3
<1>8. MembersTypeOK'
  <2>1. writes \in [Session -> SUBSET Write] /\ tickets \in [Session -> Nat]
    BY DEF TypeInv, MembersTypeOK
  <2>2. writes' \in [Session -> SUBSET Write]
    BY <1>2, <1>3, <1>5, <2>1
  <2>3. tickets' \in [Session -> Nat]
    BY <1>2, <1>5, <2>1
  <2>4. QED
    BY <1>6, <2>2, <2>3 DEF TypeInv, MembersTypeOK, memberVars, historyVars
<1>9. SameBut(t)
  BY <1>2, <1>5, <1>6 DEF TypeInv, MembersTypeOK, SameBut, SessionSame, memberVars
<1>10. \/ state_[t] = "Canceled" /\ writes'[t] = writes[t]
       \/ writes'[t] = writes[t] \cup {w}
  BY <1>2, <1>5 DEF TypeInv, MembersTypeOK
<1>11. ListOK' /\ ListSame /\ todo' = todo
  BY DEF TypeInv, ListOK, ListSame, publisherVars
<1>12. TypeInv' /\ SendEffect(t, c)
  BY <1>1, <1>3, <1>6, <1>7, <1>8, <1>9, <1>10, <1>11 DEF TypeInv, SendEffect, memberVars, t
<1>13. QED
  BY <1>12 DEF t

LEMMA WriteCompletesStep ==
  ASSUME TypeInv, NEW t \in Session, NEW w \in writes[t], ThreadFree, WriteCompletes(t, w),
         UNCHANGED publisherVars
  PROVE  TypeInv' /\ WriteCompletesEffect(t)
<1>1. old' = old /\ old \in [Session -> State]
  BY DEF TypeInv, PlacesOK, ContextsTypeOK, WriteCompletes
<1>2. MembersTypeOK'
  BY DEF TypeInv, MembersTypeOK, WriteCompletes, memberVars, historyVars
<1>3. w.buf \in Buffer
  BY DEF TypeInv, MembersTypeOK, Write
<1>4. WellPlaced(t, "takeNext", t, w.buf)
  BY <1>3 DEF WellPlaced, StrandLabel
<1>5. PlacesOK' /\ (Stays \/ Moves(t, "takeNext", t, w.buf))
  BY <1>1, <1>4, VisitPlaces, StayPlaces DEF TypeInv, WriteCompletes, Stays
<1>6. at[t] = "idle" /\ w.left = 0 /\ writes'[t] = writes[t] \ {w} /\ SameBut(t)
  BY <1>1 DEF TypeInv, MembersTypeOK, WriteCompletes, SameBut, SessionSame, memberVars
<1>7. ListOK' /\ ListSame /\ todo' = todo
  BY DEF TypeInv, ListOK, ListSame, publisherVars
<1>8. QED
  BY <1>1, <1>2, <1>5, <1>6, <1>7 DEF TypeInv, WriteCompletesEffect, WriteCompletes, memberVars

LEMMA TransmitStep ==
  ASSUME TypeInv, NEW t \in Session, NEW w \in writes[t], Transmit(t, w), UNCHANGED publisherVars
  PROVE  TypeInv' /\ TransmitEffect(t)
<1> DEFINE v == [w EXCEPT !.left = @ - 1]
<1>1. w \in Write /\ w.buf \in Buffer /\ w.left \in Nat /\ w.left > 0
  BY DEF TypeInv, MembersTypeOK, Write, Transmit
<1>2. v \in Write /\ v.buf = w.buf
  BY <1>1 DEF Write
<1>3. /\ writes' = [writes EXCEPT ![t] = (@ \ {w}) \cup {v}]
      /\ wire' = [wire EXCEPT ![t] = Append(@, w.buf)]
      /\ UNCHANGED <<memberVars, conn, reading, tickets, contextVars, historyVars>>
  BY DEF Transmit
<1> HIDE DEF v
<1>4. writes' \in [Session -> SUBSET Write] /\ wire' \in [Session -> Seq(Buffer)]
  BY <1>1, <1>2, <1>3 DEF TypeInv, MembersTypeOK
<1>5. MembersTypeOK'
  BY <1>3, <1>4 DEF TypeInv, MembersTypeOK, memberVars, historyVars
<1>6. Stays /\ PlacesOK'
  BY <1>3, StayPlaces DEF TypeInv, Stays, contextVars
<1>7. writes'[t] = (writes[t] \ {w}) \cup {v} /\ wire'[t] = Append(wire[t], w.buf) /\ SameBut(t)
  BY <1>3 DEF TypeInv, MembersTypeOK, SameBut, SessionSame, memberVars, contextVars
<1>8. ListOK' /\ ListSame /\ todo' = todo
  BY DEF TypeInv, ListOK, ListSame, publisherVars
<1>9. QED
  BY <1>2, <1>3, <1>5, <1>6, <1>7, <1>8 DEF TypeInv, TransmitEffect, memberVars, contextVars

LEMMA LostStep ==
  ASSUME TypeInv, NEW t \in Session, ConnectionLost(t), UNCHANGED publisherVars
  PROVE  TypeInv' /\ LostEffect(t)
<1>1. MembersTypeOK'
  BY DEF TypeInv, MembersTypeOK, ConnectionLost, memberVars, historyVars
<1>2. Stays /\ PlacesOK'
  BY StayPlaces DEF TypeInv, ConnectionLost, Stays, contextVars
<1>3. QED
  BY <1>1, <1>2 DEF TypeInv, MembersTypeOK, ListOK, LostEffect, ConnectionLost, BufferSame, SameBut,
     SessionSame, ListSame, publisherVars, memberVars, contextVars

LEMMA EnqueueStep ==
  ASSUME TypeInv, NEW u \in User, Enqueue(u, "sendLoop"), UNCHANGED publisherVars
  PROVE  TypeInv' /\ EnqueueEffect(on[u], u)
<1> DEFINE t == on[u]
<1>1. WellPlaced(u, "enqueue", t, arg[u]) /\ at[u] = "enqueue"
  BY DEF TypeInv, PlacesOK, Enqueue
<1>2. t \in Session /\ arg[u] \in Buffer \ {Handshake} /\ u \notin Session
  BY <1>1 DEF WellPlaced, InSession, Label, SendLabel
<1>3. old' = old /\ old \in [Session -> State]
  BY DEF TypeInv, PlacesOK, ContextsTypeOK, Enqueue
<1>4. /\ UNCHANGED <<state_, socketVars, old, historyVars>>
      /\ \/ /\ state_[t] = "Running"
            /\ sending_in_progress_' = [sending_in_progress_ EXCEPT ![t] = TRUE]
            /\ Visit(u, t, "write", arg[u]) /\ next_buffer_to_send_' = next_buffer_to_send_
         \/ /\ next_buffer_to_send_' = [next_buffer_to_send_ EXCEPT ![t] = arg[u]]
            /\ Return(u, "sendLoop") /\ sending_in_progress_' = sending_in_progress_
  BY DEF Enqueue
<1> HIDE DEF t
<1>5. MembersTypeOK'
  BY <1>2, <1>4 DEF TypeInv, MembersTypeOK, socketVars, historyVars
<1>6. SameBut(t)
  BY <1>4 DEF TypeInv, MembersTypeOK, SameBut, SessionSame, socketVars
<1>7. WellPlaced(u, "write", t, arg[u])
  BY <1>2 DEF WellPlaced, UserLabel, SendLabel
<1>8. Visit(u, t, "write", arg[u]) => PlacesOK' /\ Moves(u, "write", t, arg[u])
  BY <1>3, <1>7, VisitPlaces DEF TypeInv
<1>9. Return(u, "sendLoop") => PlacesOK' /\ Moves(u, "sendLoop", NoSession, arg[u])
  <2>1. SUFFICES ASSUME Return(u, "sendLoop") PROVE PlacesOK' /\ Moves(u, "sendLoop", NoSession, arg[u])
    OBVIOUS
  <2>2. PlacesOK' /\ Moves(u, "sendLoop", Home(u), arg[u])
    BY <1>2, <1>3, <2>1, ReturnPlaces DEF TypeInv
  <2>3. QED
    BY <1>2, <2>2 DEF Home
<1>10. ListOK' /\ ListSame /\ todo' = todo
  BY DEF TypeInv, ListOK, ListSame, publisherVars
<1>11. PlacesOK'
  BY <1>4, <1>8, <1>9
<1>12. \/ /\ state_[t] = "Running" /\ Moves(u, "write", t, arg[u])
          /\ next_buffer_to_send_'[t] = next_buffer_to_send_[t]
       \/ next_buffer_to_send_'[t] = arg[u] /\ Moves(u, "sendLoop", NoSession, arg[u])
  BY <1>2, <1>4, <1>8, <1>9 DEF TypeInv, MembersTypeOK
<1>13. TypeInv' /\ EnqueueEffect(t, u)
  BY <1>1, <1>4, <1>5, <1>6, <1>10, <1>11, <1>12 DEF TypeInv, EnqueueEffect, socketVars, t
<1>14. QED
  BY <1>13 DEF t

LEMMA CloseSocketStep ==
  ASSUME TypeInv, NEW c \in Context, CloseSocket(c), UNCHANGED publisherVars
  PROVE  TypeInv' /\ CloseSocketEffect(on[c], c)
<1> DEFINE t == on[c]
<1>1. WellPlaced(c, "closeSocket", t, arg[c]) /\ at[c] = "closeSocket"
  BY DEF TypeInv, PlacesOK, CloseSocket
<1>2. t \in Session /\ arg[c] \in Buffer \cup {NoBuffer}
  BY <1>1 DEF WellPlaced, InSession, Label
<1>3. old' = old /\ old \in [Session -> State] /\ on \in [Context -> Session \cup {NoSession}]
      /\ arg \in [Context -> Buffer \cup {NoBuffer}]
  BY DEF TypeInv, PlacesOK, ContextsTypeOK, CloseSocket
<1>4. WellPlaced(c, "closedHandler", t, arg[c])
  BY <1>1, <1>2 DEF WellPlaced, StrandLabel, UserLabel, SendLabel
<1>5. Visit(c, t, "closedHandler", arg[c])
  BY <1>3 DEF CloseSocket, Visit
<1>6. /\ conn' = [conn EXCEPT ![t] = "closed"]
      /\ UNCHANGED <<memberVars, reading, writes, tickets, wire, old, historyVars>>
  BY DEF CloseSocket
<1> HIDE DEF t
<1>7. PlacesOK' /\ Moves(c, "closedHandler", t, arg[c])
  BY <1>3, <1>4, <1>5, VisitPlaces DEF TypeInv
<1>8. MembersTypeOK'
  BY <1>6 DEF TypeInv, MembersTypeOK, memberVars, historyVars
<1>9. SameBut(t) /\ conn'[t] = "closed"
  BY <1>2, <1>6 DEF TypeInv, MembersTypeOK, SameBut, SessionSame, memberVars
<1>10. ListOK' /\ ListSame /\ todo' = todo
  BY DEF TypeInv, ListOK, ListSame, publisherVars
<1>11. TypeInv' /\ CloseSocketEffect(t, c)
  BY <1>1, <1>6, <1>7, <1>8, <1>9, <1>10 DEF TypeInv, CloseSocketEffect, BufferSame, memberVars, t
<1>12. QED
  BY <1>11 DEF t

LEMMA ClosedStep ==
  ASSUME TypeInv, NEW c \in Context, NEW back, RemoveSession(c, back),
         c \in Session => back = "idle", c \in User => back = "cancelLoop"
  PROVE  TypeInv' /\ ClosedEffect(c)
<1>1. at[c] = "closedHandler" /\ SessionsMutexFree /\ Return(c, back)
      /\ closedCalls' = [closedCalls EXCEPT ![on[c]] = @ + 1]
      /\ UNCHANGED <<memberVars, socketVars, old, sent>>
      /\ publisher_sessions_' = RemoveFirst(publisher_sessions_, on[c])
      /\ UNCHANGED <<is_running_, acceptor_, accept, incoming, todo>>
  BY DEF RemoveSession, ClosedHandler
<1>2. old \in [Session -> State]
  BY DEF TypeInv, PlacesOK, ContextsTypeOK
<1>3. PlacesOK' /\ Moves(c, back, Home(c), IF back = "idle" THEN NoBuffer ELSE arg[c])
  BY <1>1, <1>2, ReturnPlaces DEF TypeInv
<1>4. MembersTypeOK'
  <2>1. on[c] \in Session
    BY <1>1 DEF TypeInv, PlacesOK, WellPlaced, InSession, Label
  <2>2. QED
    BY <1>1, <2>1 DEF TypeInv, MembersTypeOK, memberVars, socketVars
<1>5. publisher_sessions_' \in Seq(Session)
  BY <1>1, RemoveFirstKeeps DEF TypeInv, ListOK
<1>6. ListOK'
  BY <1>1, <1>5 DEF TypeInv, ListOK
<1>7. AllSame
  BY <1>1 DEF AllSame, SessionSame, memberVars, socketVars
<1>8. back \in {"idle", "cancelLoop"}
  OBVIOUS
<1>9. QED
  BY <1>1, <1>3, <1>4, <1>6, <1>7, <1>8 DEF TypeInv, ClosedEffect

LEMMA OutsideStep ==
  ASSUME TypeInv, NEW u \in User, at[u] \in Outside, NEW label \in Outside,
         \/ at' = [at EXCEPT ![u] = label] /\ UNCHANGED <<on, arg>>
         \/ label = "idle" /\ Return(u, "idle"),
         UNCHANGED <<memberVars, socketVars, old, historyVars>>, ListSame, ListOK', TodoSameBut(u),
         ToSet(todo'[u]) \subseteq ToSet(todo[u]) \cup ToSet(publisher_sessions_)
  PROVE  TypeInv' /\ OutsideEffect(u)
<1>1. old' = old /\ old \in [Session -> State]
  BY DEF TypeInv, PlacesOK, ContextsTypeOK
<1>2. PlacesOK' /\ \E s, b : Moves(u, label, s, b)
  BY <1>1, GotoPlaces, ReturnPlaces DEF TypeInv, Outside
<1>3. MembersTypeOK'
  BY DEF TypeInv, MembersTypeOK, memberVars, socketVars, historyVars
<1>4. AllSame
  BY DEF AllSame, SessionSame, memberVars, socketVars
<1>5. QED
  BY <1>2, <1>3, <1>4 DEF TypeInv, OutsideEffect

LEMMA UserStepEffect ==
  ASSUME TypeInv, NEW u \in User,
         \/ Send(u) \/ SendCheckEmpty(u) \/ SendLock(u) \/ SendLoop(u)
         \/ PublisherCancel(u) \/ CancelCopy(u) \/ (CancelLoop(u) /\ todo[u] = <<>>)
  PROVE  TypeInv' /\ UserEffect(u)
<1> USE DEF TypeInv
<1>out. {"idle", "sendEmpty", "sendLock", "cancelCopy", "cancelLoop"} \subseteq Outside
  BY DEF Outside, UserLabel, InSession, Label, SendLabel
<1>todo. todo \in [User -> Seq(Session)] /\ publisher_sessions_ \in Seq(Session)
  BY DEF ListOK
<1>1. CASE Send(u) \/ SendCheckEmpty(u)
  <2>1. PICK label \in {"idle", "sendEmpty", "sendLock"} : at' = [at EXCEPT ![u] = label]
    BY <1>1 DEF Send, SendCheckEmpty
  <2>2. at[u] \in Outside /\ UNCHANGED <<memberVars, socketVars, on, arg, old, historyVars, publisherVars>>
    BY <1>1, <1>out DEF Send, SendCheckEmpty
  <2>3. TypeInv' /\ OutsideEffect(u)
    <3>1. ListSame /\ ListOK' /\ TodoSameBut(u) /\ todo' = todo
      BY <2>2 DEF ListSame, ListOK, TodoSameBut, publisherVars
    <3>2. label \in Outside
      BY <1>out
    <3>3. QED
      BY <2>1, <2>2, <3>1, <3>2, OutsideStep
  <2>4. QED
    BY <2>3 DEF UserEffect
<1>2. CASE SendLock(u)
  <2>1. /\ at[u] = "sendLock" /\ SessionsMutexFree /\ sent' = sent + 1
        /\ at' = [at EXCEPT ![u] = "sendLoop"] /\ arg' = [arg EXCEPT ![u] = sent + 1] /\ on' = on
        /\ todo' = [todo EXCEPT ![u] = publisher_sessions_]
        /\ UNCHANGED <<memberVars, socketVars, on, old, closedCalls, is_running_,
                       acceptor_, publisher_sessions_, accept, incoming>>
    BY <1>2 DEF SendLock
  <2>2. /\ sent \in Nat /\ old \in [Session -> State] /\ on \in [Context -> Session \cup {NoSession}]
        /\ WellPlaced(u, at[u], on[u], arg[u])
    BY DEF PlacesOK, ContextsTypeOK, MembersTypeOK
  <2>3. sent + 1 \in Buffer \ {Handshake} /\ u \notin Session
    BY <2>2
  <2>4. WellPlaced(u, "sendLoop", on[u], sent + 1)
    BY <2>2, <2>3 DEF WellPlaced, InSession, Label, UserLabel, SendLabel
  <2>5. Visit(u, on[u], "sendLoop", sent + 1)
    BY <2>1, <2>2 DEF Visit
  <2>6. PlacesOK' /\ Moves(u, "sendLoop", on[u], sent + 1)
    BY <2>1, <2>2, <2>4, <2>5, VisitPlaces
  <2>7. MembersTypeOK' /\ AllSame
    BY <2>1, <2>2 DEF MembersTypeOK, AllSame, SessionSame, memberVars, socketVars
  <2>8. ListOK' /\ ListSame /\ todo'[u] = publisher_sessions_ /\ TodoSameBut(u)
    BY <2>1, <1>todo DEF ListOK, ListSame, TodoSameBut
  <2>9. LockEffect(u)
    BY <2>1, <2>3, <2>6, <2>7, <2>8 DEF LockEffect
  <2>10. QED
    BY <2>6, <2>7, <2>8, <2>9 DEF UserEffect
<1>3. CASE SendLoop(u) /\ todo[u] # <<>>
  <2> DEFINE t == Head(todo[u])
  <2>1. /\ at[u] = "sendLoop" /\ SendDataBuffer(u, t, arg[u], "sendLoop") /\ sent' = sent
        /\ todo' = [todo EXCEPT ![u] = Tail(todo[u])]
        /\ UNCHANGED <<memberVars, socketVars, old, closedCalls, is_running_, acceptor_,
                       publisher_sessions_, accept, incoming>>
    BY <1>3 DEF SendLoop, SendDataBuffer
  <2>2. t \in Session /\ Tail(todo[u]) \in Seq(Session)
    BY <1>3, <1>todo, HeadTailToSet
  <2>3. arg[u] \in Buffer \ {Handshake} /\ old \in [Session -> State] /\ u \notin Session
    BY <2>1 DEF PlacesOK, ContextsTypeOK, WellPlaced, SendLabel
  <2>4. IF state_[t] = "Canceled" THEN Return(u, "sendLoop") ELSE Visit(u, t, "enqueue", arg[u])
    BY <2>1 DEF SendDataBuffer
  <2> HIDE DEF t
  <2>5. ASSUME state_[t] = "Canceled" PROVE PlacesOK' /\ Moves(u, "sendLoop", NoSession, arg[u])
    <3>1. PlacesOK' /\ Moves(u, "sendLoop", Home(u), arg[u])
      BY <2>1, <2>3, <2>4, <2>5, ReturnPlaces
    <3>2. QED
      BY <2>3, <3>1 DEF Home
  <2>6. ASSUME state_[t] # "Canceled" PROVE PlacesOK' /\ Moves(u, "enqueue", t, arg[u])
    <3>1. WellPlaced(u, "enqueue", t, arg[u])
      BY <2>2, <2>3 DEF WellPlaced, UserLabel, SendLabel
    <3>2. QED
      BY <2>1, <2>3, <2>4, <2>6, <3>1, VisitPlaces
  <2>7. MembersTypeOK' /\ AllSame
    BY <2>1 DEF MembersTypeOK, AllSame, SessionSame, memberVars, socketVars
  <2>8. ListOK' /\ ListSame /\ todo'[u] = Tail(todo[u]) /\ TodoSameBut(u)
    BY <2>1, <2>2, <1>todo DEF ListOK, ListSame, TodoSameBut
  <2>9. GiveEffect(u) /\ PlacesOK'
    BY <1>3, <2>1, <2>5, <2>6, <2>7, <2>8 DEF GiveEffect, t
  <2>10. QED
    BY <2>7, <2>8, <2>9 DEF UserEffect
<1>4. CASE SendLoop(u) /\ todo[u] = <<>>
  <2>1. /\ at[u] = "sendLoop" /\ Return(u, "idle")
        /\ UNCHANGED <<memberVars, socketVars, old, historyVars, publisherVars>>
    BY <1>4 DEF SendLoop, publisherVars
  <2>2. PlacesOK' /\ Moves(u, "idle", Home(u), NoBuffer)
    BY <2>1, ReturnPlaces DEF PlacesOK, ContextsTypeOK
  <2>3. Home(u) = NoSession
    BY DEF Home
  <2>4. MembersTypeOK' /\ AllSame
    BY <2>1 DEF MembersTypeOK, AllSame, SessionSame, memberVars, socketVars, historyVars
  <2>5. ListOK' /\ ListSame /\ todo' = todo
    BY <2>1 DEF ListOK, ListSame, publisherVars
  <2>6. SendEndEffect(u)
    BY <1>4, <2>1, <2>2, <2>3, <2>4, <2>5 DEF SendEndEffect
  <2>7. QED
    BY <2>2, <2>4, <2>5, <2>6 DEF UserEffect
<1>5. CASE PublisherCancel(u)
  <2>1. /\ at[u] = "idle" /\ at' = [at EXCEPT ![u] = "cancelCopy"]
        /\ is_running_' = FALSE /\ acceptor_' = "closed" /\ acceptor_ # "new"
        /\ UNCHANGED <<memberVars, socketVars, on, arg, old, historyVars,
                       publisher_sessions_, accept, incoming, todo>>
    BY <1>5 DEF PublisherCancel
  <2>2. ListSame /\ ListOK' /\ TodoSameBut(u)
    BY <2>1 DEF ListSame, ListOK, TodoSameBut
  <2>3. TypeInv' /\ OutsideEffect(u)
    <3>1. at[u] \in Outside /\ "cancelCopy" \in Outside
      BY <1>out, <2>1
    <3>2. QED
      BY <2>1, <2>2, <3>1, OutsideStep
  <2>4. QED
    BY <2>3 DEF UserEffect
<1>6. CASE CancelCopy(u)
  <2>1. /\ at[u] = "cancelCopy" /\ at' = [at EXCEPT ![u] = "cancelLoop"]
        /\ todo' = [todo EXCEPT ![u] = publisher_sessions_]
        /\ UNCHANGED <<memberVars, socketVars, on, arg, old, historyVars,
                       is_running_, acceptor_, publisher_sessions_, accept, incoming>>
    BY <1>6 DEF CancelCopy
  <2>2. ListSame /\ ListOK' /\ TodoSameBut(u) /\ todo'[u] = publisher_sessions_
    BY <1>todo, <2>1 DEF ListSame, ListOK, TodoSameBut
  <2>3. TypeInv' /\ OutsideEffect(u)
    <3>1. at[u] \in Outside /\ "cancelLoop" \in Outside
      BY <1>out, <2>1
    <3>2. QED
      BY <2>1, <2>2, <3>1, OutsideStep
  <2>4. QED
    BY <2>3 DEF UserEffect
<1>7. CASE CancelLoop(u) /\ todo[u] = <<>>
  <2>1. /\ at[u] = "cancelLoop" /\ Return(u, "idle")
        /\ UNCHANGED <<memberVars, socketVars, old, historyVars, publisherVars>>
    BY <1>7 DEF CancelLoop, publisherVars
  <2>2. ListSame /\ ListOK' /\ TodoSameBut(u) /\ todo' = todo
    BY <2>1 DEF ListSame, ListOK, TodoSameBut, publisherVars
  <2>3. TypeInv' /\ OutsideEffect(u)
    <3>1. at[u] \in Outside /\ "idle" \in Outside
      BY <1>out, <2>1
    <3>2. QED
      BY <2>1, <2>2, <3>1, OutsideStep
  <2>4. QED
    BY <2>3 DEF UserEffect
<1>8. QED
  BY <1>1, <1>2, <1>3, <1>4, <1>5, <1>6, <1>7

LEMMA AcceptStep ==
  ASSUME TypeInv, PublisherStart \/ AcceptFails \/ \E s \in Session : AcceptConnection(s)
  PROVE  TypeInv' /\ AcceptEffect
<1>1. UNCHANGED vars /\ UNCHANGED <<publisher_sessions_, todo>> /\ accept # "pushBack" /\ accept' # "pushBack"
  BY DEF PublisherStart, AcceptFails, AcceptConnection, TypeInv, ListOK
<1>2. UNCHANGED <<memberVars, socketVars, at, on, arg, old, historyVars>>
  BY <1>1 DEF vars, contextVars
<1>3. MembersTypeOK' /\ AllSame
  BY <1>2 DEF TypeInv, MembersTypeOK, AllSame, SessionSame, memberVars, socketVars, historyVars
<1>4. Stays /\ PlacesOK'
  BY <1>2, StayPlaces DEF TypeInv, Stays
<1>5. ListOK'
  BY <1>1 DEF TypeInv, ListOK, PublisherStart, AcceptFails, AcceptConnection
<1>6. QED
  BY <1>1, <1>3, <1>4, <1>5 DEF TypeInv, AcceptEffect

LEMMA PushBackStep == ASSUME TypeInv, PushBack PROVE TypeInv' /\ PushBackEffect
<1>1. /\ accept = "pushBack" /\ SessionsMutexFree /\ accept' = "pending" /\ incoming' = NoSession
      /\ publisher_sessions_' = Append(publisher_sessions_, incoming)
      /\ UNCHANGED <<vars, is_running_, acceptor_, todo>>
  BY DEF PushBack
<1>2. UNCHANGED <<memberVars, socketVars, at, on, arg, old, historyVars>>
  BY <1>1 DEF vars, contextVars
<1>3. MembersTypeOK' /\ AllSame
  BY <1>2 DEF TypeInv, MembersTypeOK, AllSame, SessionSame, memberVars, socketVars, historyVars
<1>4. Stays /\ PlacesOK'
  BY <1>2, StayPlaces DEF TypeInv, Stays
<1>5. ListOK'
  BY <1>1 DEF TypeInv, ListOK
<1>6. QED
  BY <1>1, <1>3, <1>4, <1>5 DEF TypeInv, PushBackEffect

LEMMA InitType == PublisherInit => TypeInv
<1> SUFFICES ASSUME PublisherInit PROVE TypeInv
  OBVIOUS
<1>1. MembersTypeOK
  BY DEF PublisherInit, Init, MembersTypeOK, State
<1>2. ContextsTypeOK(PublisherLabel)
  BY DEF PublisherInit, Init, ContextsTypeOK, PublisherLabel, Label, State, Home
<1>3. \A c \in Context : WellPlaced(c, at[c], on[c], arg[c])
  BY DEF PublisherInit, Init, WellPlaced, Home, InSession, Label, StrandLabel, UserLabel, SendLabel
<1>4. ListOK
  <2>1. <<>> \in Seq(Session)
    OBVIOUS
  <2>2. todo \in [User -> Seq(Session)]
    BY <2>1 DEF PublisherInit
  <2>3. QED
    BY <2>1, <2>2 DEF PublisherInit, ListOK
<1>5. QED
  BY <1>1, <1>2, <1>3, <1>4 DEF TypeInv, PlacesOK

(* Every step keeps the types, and is one of the effects.                  *)
LEMMA StepEffect == ASSUME TypeInv, PublisherNext PROVE TypeInv' /\ Effect
<1>1. ASSUME NEW t \in Session, TypeInv' /\ StrandEffect(t) PROVE TypeInv' /\ Effect
  BY <1>1 DEF Effect
<1>2. ASSUME NEW t \in Session, NEW c \in Context, TypeInv' /\ ContextEffect(t, c)
      PROVE  TypeInv' /\ Effect
  BY <1>2 DEF Effect
<1>3. ASSUME NEW u \in User, TypeInv' /\ UserEffect(u) PROVE TypeInv' /\ Effect
  BY <1>3 DEF Effect
<1>on. ASSUME NEW c \in Context, at[c] \in InSession PROVE on[c] \in Session
  BY <1>on DEF TypeInv, PlacesOK, WellPlaced
<1>4. CASE PublisherStart \/ AcceptFails \/ \E s \in Session : AcceptConnection(s)
  BY <1>4, AcceptStep DEF Effect
<1>5. CASE AcceptHandler
  <2>1. CASE HandleAccept
    <3>1. incoming \in Session /\ StrandEffect(incoming) /\ TypeInv'
      BY <2>1, StartStep DEF TypeInv, ListOK, HandleAccept, StrandEffect
    <3>2. QED
      BY <1>1, <3>1
  <2>2. CASE PushBack
    BY <2>2, PushBackStep DEF Effect
  <2>3. QED
    BY <1>5, <2>1, <2>2 DEF AcceptHandler
<1>6. ASSUME NEW s \in Session, ThreadFree, ReadStep(s), UNCHANGED publisherVars PROVE TypeInv' /\ Effect
  <2>1. CASE ReadCompletes(s) \/ HandshakeReceived(s)
    BY <1>1, <1>6, <2>1, ReadStepEffect DEF StrandEffect
  <2>2. CASE ReadFails(s)
    BY <1>2, <1>6, <2>2, ReadFailsStep DEF ContextEffect
  <2>3. QED
    BY <1>6, <2>1, <2>2 DEF ReadStep
<1>7. ASSUME NEW s \in Session, NetworkStep(s) \/ ConnectionLost(s), UNCHANGED publisherVars
      PROVE  TypeInv' /\ Effect
  <2>1. CASE NetworkStep(s)
    <3>1. PICK w \in writes[s] : Transmit(s, w)
      BY <2>1 DEF NetworkStep
    <3>2. QED
      BY <1>1, <1>7, <3>1, TransmitStep DEF StrandEffect
  <2>2. CASE ConnectionLost(s)
    BY <1>1, <1>7, <2>2, LostStep DEF StrandEffect
  <2>3. QED
    BY <1>7, <2>1, <2>2
<1>8. ASSUME NEW c \in Context, NEW back, SendBufferToClient(c, back), UNCHANGED publisherVars,
             c \in Session => back = "idle", c \in User => back = "sendLoop"
      PROVE  TypeInv' /\ Effect
  <2>1. on[c] \in Session
    BY <1>8, <1>on DEF SendBufferToClient, InSession, Label
  <2>2. TypeInv' /\ ContextEffect(on[c], c)
    BY <1>8, SendStep DEF ContextEffect
  <2>3. QED
    BY <1>2, <2>1, <2>2
<1>9. ASSUME NEW c \in Context, CloseSocket(c), UNCHANGED publisherVars PROVE TypeInv' /\ Effect
  <2>1. on[c] \in Session
    BY <1>9, <1>on DEF CloseSocket, InSession, Label
  <2>2. TypeInv' /\ ContextEffect(on[c], c)
    BY <1>9, CloseSocketStep DEF ContextEffect
  <2>3. QED
    BY <1>2, <2>1, <2>2
<1>10. ASSUME NEW c \in Context, NEW back, RemoveSession(c, back),
              c \in Session => back = "idle", c \in User => back = "cancelLoop"
       PROVE  TypeInv' /\ Effect
  BY <1>10, ClosedStep DEF Effect
<1>11. ASSUME NEW s \in Session, SessionHandler(s) PROVE TypeInv' /\ Effect
  <2>1. s \in Context /\ s \notin User
    OBVIOUS
  <2>2. CASE ThreadFree /\ HandlerStarts(s) /\ UNCHANGED publisherVars
    <3>1. PICK w \in writes[s] : WriteCompletes(s, w) \/ WriteFails(s, w)
      BY <2>2 DEF HandlerStarts
    <3>2. CASE WriteCompletes(s, w)
      BY <1>1, <2>2, <3>2, WriteCompletesStep DEF StrandEffect
    <3>3. CASE WriteFails(s, w)
      BY <1>2, <2>1, <2>2, <3>3, WriteFailsStep DEF ContextEffect
    <3>4. QED
      BY <3>1, <3>2, <3>3
  <2>3. CASE HandlerGoesOn(s) /\ UNCHANGED publisherVars
    <3>1. CASE SetRunning(s)
      BY <1>1, <2>3, <3>1, SetRunningStep DEF StrandEffect
    <3>2. CASE RestoreState(s)
      BY <1>1, <2>3, <3>2, RestoreStep DEF StrandEffect
    <3>3. CASE TakeNext(s)
      BY <1>1, <2>3, <3>3, TakeNextStep DEF StrandEffect
    <3>4. CASE SendBufferToClient(s, "idle")
      BY <1>8, <2>1, <2>3, <3>4
    <3>5. CASE CloseSocket(s)
      BY <1>9, <2>1, <2>3, <3>5
    <3>6. QED
      BY <2>3, <3>1, <3>2, <3>3, <3>4, <3>5 DEF HandlerGoesOn
  <2>4. CASE RemoveSession(s, "idle")
    BY <1>10, <2>1, <2>4
  <2>5. QED
    BY <1>11, <2>2, <2>3, <2>4 DEF SessionHandler
<1>12. ASSUME NEW u \in User, Send(u) \/ PublisherCancel(u) \/ UserCall(u) PROVE TypeInv' /\ Effect
  <2>1. u \in Context /\ u \notin Session
    OBVIOUS
  <2>2. CASE Send(u) \/ PublisherCancel(u) \/ SendCheckEmpty(u) \/ SendLock(u) \/ SendLoop(u) \/ CancelCopy(u)
    BY <1>3, <2>2, UserStepEffect
  <2>3. CASE CancelLoop(u)
    <3>1. CASE todo[u] = <<>>
      BY <1>3, <2>3, <3>1, UserStepEffect
    <3>2. CASE todo[u] # <<>>
      <4>1. TypeInv' /\ ContextEffect(Head(todo[u]), u) /\ Head(todo[u]) \in Session
        BY <2>3, <3>2, CancelLoopStep, HeadTailToSet DEF ContextEffect, TypeInv, ListOK
      <4>2. QED
        BY <1>2, <2>1, <4>1
    <3>3. QED
      BY <3>1, <3>2
  <2>4. CASE RemoveSession(u, "cancelLoop")
    BY <1>10, <2>1, <2>4
  <2>5. CASE Enqueue(u, "sendLoop") /\ UNCHANGED publisherVars
    <3>1. on[u] \in Session
      BY <1>on, <2>1, <2>5 DEF Enqueue, InSession, Label
    <3>2. TypeInv' /\ ContextEffect(on[u], u)
      BY <2>5, EnqueueStep DEF ContextEffect
    <3>3. QED
      BY <1>2, <2>1, <3>1, <3>2
  <2>6. CASE SendBufferToClient(u, "sendLoop") /\ UNCHANGED publisherVars
    BY <1>8, <2>1, <2>6
  <2>7. CASE CloseSocket(u) /\ UNCHANGED publisherVars
    BY <1>9, <2>1, <2>7
  <2>8. QED
    BY <1>12, <2>2, <2>3, <2>4, <2>5, <2>6, <2>7 DEF UserCall
<1>13. QED
  BY <1>4, <1>5, <1>6, <1>7, <1>11, <1>12 DEF PublisherNext

LEMMA StutterKeeps == ASSUME TypeInv, UNCHANGED allVars PROVE TypeInv'
BY DEF TypeInv, MembersTypeOK, PlacesOK, ContextsTypeOK, ListOK, WellPlaced, allVars, vars, publisherVars,
   memberVars, socketVars, contextVars, historyVars

(* Every variable of the publisher and of its sessions keeps its type,     *)
(* whoever calls, accepts, sends and closes at the same time.              *)
THEOREM PublisherTypeCorrect == PublisherSpec => []PublisherTypeOK
<1>1. TypeInv /\ [PublisherNext]_allVars => TypeInv'
  BY StepEffect, StutterKeeps
<1>2. PublisherSpec => []TypeInv
  BY <1>1, InitType, PTL DEF PublisherSpec
<1>3. TypeInv => PublisherTypeOK
  BY DEF TypeInv, PublisherTypeOK, PlacesOK, ListOK
<1>4. QED
  BY <1>2, <1>3, PTL

-----------------------------------------------------------------------------
(* Nothing happens to a session that has not been started.                 *)

Started(s) == state_[s] # "NotStarted"

StartedInv ==
  /\ \A c \in Context : at[c] \in InSession => Started(on[c])
  /\ \A s \in Session : reading[s] # "none" \/ writes[s] # {} => Started(s)
  /\ \A s \in ToSet(publisher_sessions_) : Started(s)
  /\ \A u \in User : \A s \in ToSet(todo[u]) : Started(s)
  /\ \A s \in Session : at[s] = "restore" => old[s] # "NotStarted"
  /\ accept = "pushBack" => Started(incoming)

LEMMA StartedInit == PublisherInit => StartedInv
<1> SUFFICES ASSUME PublisherInit PROVE StartedInv
  OBVIOUS
<1>1. publisher_sessions_ = <<>> /\ \A u \in User : todo[u] = <<>>
  BY DEF PublisherInit
<1>2. ToSet(<<>>) = {}
  BY DEF ToSet
<1>3. QED
  BY <1>1, <1>2 DEF PublisherInit, Init, StartedInv, InSession

(* No step takes a session back to where it was before start().            *)
LEMMA StaysStarted ==
  ASSUME TypeInv, StartedInv, Effect, NEW s \in Session, Started(s) PROVE Started(s)'
<1> USE DEF Started
<1>1. ASSUME NEW t \in Session, StrandEffect(t) PROVE Started(s)'
  <2>1. CASE s = t
    BY <1>1, <2>1 DEF StrandEffect, StartEffect, ReadEffect, SetRunningEffect, RestoreEffect, TakeNextEffect,
       WriteCompletesEffect, TransmitEffect, LostEffect, StartedInv
  <2>2. CASE s # t
    <3>1. SameBut(t)
      BY <1>1 DEF StrandEffect, StartEffect, ReadEffect, SetRunningEffect, RestoreEffect, TakeNextEffect,
         WriteCompletesEffect, TransmitEffect, LostEffect
    <3>2. QED
      BY <2>2, <3>1 DEF SameBut, SessionSame
  <2>3. QED
    BY <2>1, <2>2
<1>2. ASSUME NEW t \in Session, NEW c \in Context, ContextEffect(t, c) PROVE Started(s)'
  BY <1>2 DEF ContextEffect, CloseEffect, SendEffect, CloseSocketEffect, EnqueueEffect, SameBut, SessionSame
<1>3. CASE AllSame
  BY <1>3 DEF AllSame, SessionSame
<1>4. QED
  BY <1>1, <1>2, <1>3 DEF Effect, ClosedEffect, UserEffect, LockEffect, GiveEffect, SendEndEffect, OutsideEffect,
     AcceptEffect, PushBackEffect

(* What the lists hold after a step was in one of them before.             *)
LEMMA ListsStep ==
  ASSUME TypeInv, Effect
  PROVE  /\ \/ publisher_sessions_' = publisher_sessions_
            \/ /\ SessionsMutexFree /\ Stays /\ accept = "pushBack"
               /\ ToSet(publisher_sessions_') = ToSet(publisher_sessions_) \cup {incoming}
            \/ /\ SessionsMutexFree
               /\ \E c \in Context : /\ at[c] = "closedHandler"
                    /\ ToSet(publisher_sessions_') \subseteq ToSet(publisher_sessions_)
                    /\ ToSet(publisher_sessions_) \subseteq ToSet(publisher_sessions_') \cup {on[c]}
         /\ \A u \in User : ToSet(todo'[u]) \subseteq ToSet(todo[u]) \cup ToSet(publisher_sessions_)
<1> USE DEF TypeInv
<1>1. ASSUME NEW u \in User
      PROVE  \/ todo'[u] = todo[u] \/ LockEffect(u) \/ GiveEffect(u)
             \/ ToSet(todo'[u]) \subseteq ToSet(todo[u]) \cup ToSet(publisher_sessions_)
  <2>1. ASSUME NEW t \in Session, StrandEffect(t) PROVE todo'[u] = todo[u]
    BY <2>1 DEF StrandEffect, StartEffect, ReadEffect, SetRunningEffect, RestoreEffect, TakeNextEffect,
       WriteCompletesEffect, TransmitEffect, LostEffect
  <2>2. ASSUME NEW t \in Session, NEW c \in Context, ContextEffect(t, c)
        PROVE  todo'[u] = todo[u] \/ ToSet(todo'[u]) \subseteq ToSet(todo[u])
    BY <2>2 DEF ContextEffect, CloseEffect, SendEffect, CloseSocketEffect, EnqueueEffect, TodoSameBut
  <2>3. ASSUME NEW v \in User, UserEffect(v), v # u PROVE todo'[u] = todo[u]
    BY <2>3 DEF UserEffect, LockEffect, GiveEffect, SendEndEffect, OutsideEffect, TodoSameBut
  <2>4. ASSUME UserEffect(u)
        PROVE  \/ todo'[u] = todo[u] \/ LockEffect(u) \/ GiveEffect(u)
               \/ ToSet(todo'[u]) \subseteq ToSet(todo[u]) \cup ToSet(publisher_sessions_)
    BY <2>4 DEF UserEffect, SendEndEffect, OutsideEffect
  <2>5. ASSUME NEW c \in Context, ClosedEffect(c) PROVE todo'[u] = todo[u]
    BY <2>5 DEF ClosedEffect
  <2>6. ASSUME AcceptEffect \/ PushBackEffect PROVE todo'[u] = todo[u]
    BY <2>6 DEF AcceptEffect, PushBackEffect
  <2>7. QED
    BY <2>1, <2>2, <2>3, <2>4, <2>5, <2>6 DEF Effect
<1>2. ASSUME NEW u \in User, LockEffect(u) \/ GiveEffect(u)
      PROVE  ToSet(todo'[u]) \subseteq ToSet(todo[u]) \cup ToSet(publisher_sessions_)
  <2>1. CASE LockEffect(u)
    BY <2>1 DEF LockEffect
  <2>2. CASE GiveEffect(u)
    <3>1. todo[u] \in Seq(Session) /\ todo[u] # <<>> /\ todo'[u] = Tail(todo[u])
      BY <2>2 DEF GiveEffect, ListOK
    <3>2. QED
      BY <3>1, HeadTailToSet
  <2>3. QED
    BY <1>2, <2>1, <2>2
<1>3. ASSUME NEW c \in Context, ClosedEffect(c)
      PROVE  /\ ToSet(publisher_sessions_') \subseteq ToSet(publisher_sessions_)
             /\ ToSet(publisher_sessions_) \subseteq ToSet(publisher_sessions_') \cup {on[c]}
             /\ at[c] = "closedHandler" /\ SessionsMutexFree
  BY <1>3, RemoveFirstKeeps DEF ClosedEffect, ListOK
<1>4. ASSUME PushBackEffect
      PROVE  /\ ToSet(publisher_sessions_') = ToSet(publisher_sessions_) \cup {incoming}
             /\ SessionsMutexFree /\ Stays /\ accept = "pushBack"
  BY <1>4, AppendToSet DEF PushBackEffect, ListOK
<1>5. \/ publisher_sessions_' = publisher_sessions_ \/ PushBackEffect
      \/ \E c \in Context : ClosedEffect(c)
  <2>1. ASSUME NEW t \in Session, StrandEffect(t) PROVE publisher_sessions_' = publisher_sessions_
    BY <2>1 DEF StrandEffect, StartEffect, ReadEffect, SetRunningEffect, RestoreEffect, TakeNextEffect,
       WriteCompletesEffect, TransmitEffect, LostEffect, ListSame
  <2>2. ASSUME NEW t \in Session, NEW c \in Context, ContextEffect(t, c)
        PROVE  publisher_sessions_' = publisher_sessions_
    BY <2>2 DEF ContextEffect, CloseEffect, SendEffect, CloseSocketEffect, EnqueueEffect, ListSame
  <2>3. ASSUME NEW v \in User, UserEffect(v) PROVE publisher_sessions_' = publisher_sessions_
    BY <2>3 DEF UserEffect, LockEffect, GiveEffect, SendEndEffect, OutsideEffect, ListSame
  <2>4. ASSUME AcceptEffect PROVE publisher_sessions_' = publisher_sessions_
    BY <2>4 DEF AcceptEffect
  <2>5. QED
    BY <2>1, <2>2, <2>3, <2>4 DEF Effect
<1>6. QED
  BY <1>1, <1>2, <1>3, <1>4, <1>5

(* A context that is in a session was there before, or found the session   *)
(* started; or it has just canceled it.                                    *)
LEMMA StepInto ==
  ASSUME TypeInv, StartedInv, Effect, NEW c \in Context, at'[c] \in InSession
  PROVE  state_'[on'[c]] # "NotStarted"
<1> USE DEF TypeInv, Started
<1>at. /\ \A d \in Context : WellPlaced(d, at[d], on[d], arg[d])
       /\ \A d \in Context : at[d] \in InSession => on[d] \in Session /\ Started(on[d])
       /\ \A s \in Session : on[s] = s /\ s \in Context
  BY DEF PlacesOK, WellPlaced, StartedInv
<1>keep. \A s \in Session : Started(s) => Started(s)'
  BY StaysStarted
<1>out. {"idle", "sendLoop", "cancelLoop"} \cap InSession = {}
  BY DEF InSession, Label
<1>in. {"write", "setRunning", "restore", "takeNext", "closeSocket", "closedHandler", "enqueue"} \subseteq InSession
  BY DEF InSession, Label
<1>1. CASE at'[c] = at[c] /\ on'[c] = on[c]
  BY <1>1, <1>at, <1>keep
<1>2. ASSUME NEW t \in Session, StrandEffect(t), ~ (at'[c] = at[c] /\ on'[c] = on[c])
      PROVE  on'[c] = t /\ Started(t)'
  <2>1. on[t] = t /\ (at[t] \in InSession => Started(t)) /\ (reading[t] # "none" \/ writes[t] # {} => Started(t))
    BY <1>at DEF StartedInv
  <2>2. CASE StartEffect(t)
    BY <1>2, <2>2 DEF StartEffect, Stays
  <2>3. CASE ReadEffect(t)
    BY <1>2, <1>keep, <2>1, <2>3 DEF ReadEffect, Stays, Moves
  <2>4. CASE SetRunningEffect(t)
    BY <1>2, <1>in, <1>keep, <2>1, <2>4 DEF SetRunningEffect, Moves
  <2>5. CASE RestoreEffect(t)
    BY <1>2, <1>in, <1>keep, <2>1, <2>5 DEF RestoreEffect, Moves
  <2>6. CASE TakeNextEffect(t)
    BY <1>2, <1>in, <1>keep, <2>1, <2>6 DEF TakeNextEffect, Moves
  <2>7. CASE WriteCompletesEffect(t)
    BY <1>2, <1>keep, <2>1, <2>7 DEF WriteCompletesEffect, Stays, Moves
  <2>8. CASE TransmitEffect(t) \/ LostEffect(t)
    BY <1>2, <2>8 DEF TransmitEffect, LostEffect, Stays
  <2>9. QED
    BY <1>2, <2>2, <2>3, <2>4, <2>5, <2>6, <2>7, <2>8 DEF StrandEffect
<1>3. ASSUME NEW t \in Session, NEW d \in Context, ContextEffect(t, d), ~ (at'[c] = at[c] /\ on'[c] = on[c])
      PROVE  state_'[on'[c]] # "NotStarted"
  <2>1. CASE CloseEffect(t, d)
    <3>1. c = d
      BY <1>3, <2>1 DEF CloseEffect, Moves
    <3>2. on'[c] = t
      BY <1>out, <2>1, <3>1 DEF CloseEffect, Moves
    <3>3. QED
      BY <2>1, <3>2 DEF CloseEffect
  <2>2. CASE SendEffect(t, d)
    <3>1. c = d /\ on[c] = t /\ at[c] = "write"
      BY <1>3, <2>2 DEF SendEffect, Moves
    <3>2. on'[c] = t
      BY <1>out, <2>2, <3>1 DEF SendEffect, Moves
    <3>3. QED
      BY <1>at, <1>in, <1>keep, <3>1, <3>2
  <2>3. CASE CloseSocketEffect(t, d)
    BY <1>3, <1>at, <1>in, <1>keep, <2>3 DEF CloseSocketEffect, Moves
  <2>4. CASE d \in User /\ EnqueueEffect(t, d)
    <3>1. c = d /\ on[c] = t /\ at[c] = "enqueue"
      BY <1>3, <2>4 DEF EnqueueEffect, Moves
    <3>2. on'[c] = t
      BY <1>out, <2>4, <3>1 DEF EnqueueEffect, Moves
    <3>3. QED
      BY <1>at, <1>in, <1>keep, <3>1, <3>2
  <2>5. QED
    BY <1>3, <2>1, <2>2, <2>3, <2>4 DEF ContextEffect
<1>4. ASSUME NEW d \in Context, ClosedEffect(d), ~ (at'[c] = at[c] /\ on'[c] = on[c]) PROVE FALSE
  BY <1>4, <1>out DEF ClosedEffect, Moves
<1>5. ASSUME NEW u \in User, UserEffect(u), ~ (at'[c] = at[c] /\ on'[c] = on[c]) PROVE state_'[on'[c]] # "NotStarted"
  <2>1. CASE GiveEffect(u)
    <3>1. todo[u] \in Seq(Session) /\ todo[u] # <<>> /\ c = u /\ on'[c] = Head(todo[u])
      BY <1>5, <1>out, <2>1 DEF GiveEffect, ListOK, Moves
    <3>2. Head(todo[u]) \in Session /\ Head(todo[u]) \in ToSet(todo[u])
      BY <3>1, HeadTailToSet
    <3>3. Started(Head(todo[u]))
      BY <3>2 DEF StartedInv
    <3>4. QED
      BY <1>keep, <3>1, <3>2, <3>3
  <2>2. CASE LockEffect(u) \/ SendEndEffect(u) \/ OutsideEffect(u)
    BY <1>5, <1>out, <2>2 DEF LockEffect, SendEndEffect, OutsideEffect, Outside, Moves
  <2>3. QED
    BY <1>5, <2>1, <2>2 DEF UserEffect
<1>6. CASE AcceptEffect \/ PushBackEffect
  BY <1>1, <1>6 DEF AcceptEffect, PushBackEffect, Stays
<1>7. QED
  BY <1>1, <1>2, <1>3, <1>4, <1>5, <1>6 DEF Effect

LEMMA StartedStep == ASSUME TypeInv, StartedInv, Effect, TypeInv' PROVE StartedInv'
<1> USE DEF TypeInv
<1>keep. \A s \in Session : Started(s) => Started(s)'
  BY StaysStarted
<1>1. \A c \in Context : at'[c] \in InSession => state_'[on'[c]] # "NotStarted"
  BY StepInto
<1>2. ASSUME NEW s \in Session, reading'[s] # "none" \/ writes'[s] # {} PROVE Started(s)'
  <2>at. \A d \in Context : at[d] \in InSession => Started(on[d])
    BY DEF StartedInv
  <2>old. reading[s] # "none" \/ writes[s] # {} => Started(s)
    BY DEF StartedInv
  <2>in. "setRunning" \in InSession /\ "write" \in InSession /\ "takeNext" \in InSession
    BY DEF InSession, Label
  <2>1. CASE reading'[s] = reading[s] /\ writes'[s] = writes[s]
    BY <1>2, <1>keep, <2>1, <2>old
  <2>2. ASSUME NEW t \in Session, StrandEffect(t), ~ (reading'[s] = reading[s] /\ writes'[s] = writes[s])
        PROVE  Started(s)'
    <3>1. s = t
      BY <2>2 DEF StrandEffect, StartEffect, ReadEffect, SetRunningEffect, RestoreEffect, TakeNextEffect,
         WriteCompletesEffect, TransmitEffect, LostEffect, SameBut, SessionSame
    <3>2. CASE StartEffect(t)
      BY <3>1, <3>2 DEF StartEffect, Started
    <3>3. CASE ~ StartEffect(t)
      <4>1. reading[t] # "none" \/ writes[t] # {}
        BY <2>2, <3>1, <3>3 DEF StrandEffect, ReadEffect, SetRunningEffect, RestoreEffect, TakeNextEffect,
           WriteCompletesEffect, TransmitEffect, LostEffect, BufferSame
      <4>2. QED
        BY <1>keep, <2>old, <3>1, <4>1
    <3>4. QED
      BY <3>2, <3>3
  <2>3. ASSUME NEW t \in Session, NEW c \in Context, ContextEffect(t, c),
               ~ (reading'[s] = reading[s] /\ writes'[s] = writes[s])
        PROVE  Started(s)'
    <3>1. s = t
      BY <2>3 DEF ContextEffect, CloseEffect, SendEffect, CloseSocketEffect, EnqueueEffect, SameBut, SessionSame
    <3>2. CASE CloseEffect(t, c)
      BY <3>1, <3>2 DEF CloseEffect, Started
    <3>3. CASE SendEffect(t, c)
      BY <1>keep, <2>at, <2>in, <3>1, <3>3 DEF SendEffect
    <3>4. CASE CloseSocketEffect(t, c) \/ EnqueueEffect(t, c)
      BY <2>3, <3>1, <3>4 DEF CloseSocketEffect, EnqueueEffect, BufferSame
    <3>5. QED
      BY <2>3, <3>2, <3>3, <3>4 DEF ContextEffect
  <2>4. AllSame => reading'[s] = reading[s] /\ writes'[s] = writes[s]
    BY DEF AllSame, SessionSame
  <2>5. QED
    BY <2>1, <2>2, <2>3, <2>4 DEF Effect, ClosedEffect, UserEffect, LockEffect, GiveEffect, SendEndEffect,
       OutsideEffect, AcceptEffect, PushBackEffect
<1>3. ToSet(publisher_sessions_) \subseteq Session /\ (\A u \in User : ToSet(todo[u]) \subseteq Session)
      /\ (accept = "pushBack" => incoming \in Session)
  BY DEF ListOK, ToSet
<1>4. \A s \in ToSet(publisher_sessions_') : Started(s)'
  BY <1>keep, <1>3, ListsStep DEF StartedInv
<1>5. \A u \in User : \A s \in ToSet(todo'[u]) : Started(s)'
  BY <1>keep, <1>3, ListsStep DEF StartedInv
<1>6. ASSUME NEW s \in Session, at'[s] = "restore" PROVE old'[s] # "NotStarted"
  <2>1. ASSUME NEW t \in Session, StrandEffect(t) PROVE old'[s] # "NotStarted"
    <3>in. at[t] = "setRunning" => Started(t)
      <4>1. on[t] = t /\ t \in Context /\ "setRunning" \in InSession
        BY DEF PlacesOK, WellPlaced, InSession, Label
      <4>2. QED
        BY <4>1 DEF StartedInv
    <3>1. CASE SetRunningEffect(t)
      BY <1>6, <3>1, <3>in DEF SetRunningEffect, Started, Moves, SameBut, SessionSame, StartedInv
    <3>2. CASE ~ SetRunningEffect(t)
      BY <1>6, <2>1, <3>2 DEF StrandEffect, StartEffect, ReadEffect, RestoreEffect, TakeNextEffect,
         WriteCompletesEffect, TransmitEffect, LostEffect, Moves, Stays, SameBut, SessionSame, StartedInv
    <3>3. QED
      BY <3>1, <3>2
  <2>2. ASSUME NEW t \in Session, NEW c \in Context, ContextEffect(t, c) PROVE old'[s] # "NotStarted"
    <3>1. old'[s] = old[s]
      BY <2>2 DEF ContextEffect, CloseEffect, SendEffect, CloseSocketEffect, EnqueueEffect, SameBut, SessionSame
    <3>2. at'[s] = at[s]
      BY <1>6, <2>2 DEF ContextEffect, CloseEffect, SendEffect, CloseSocketEffect, EnqueueEffect, Moves
    <3>3. QED
      BY <1>6, <3>1, <3>2 DEF StartedInv
  <2>3. AllSame => old'[s] = old[s]
    BY DEF AllSame, SessionSame
  <2>4. ASSUME \/ \E c \in Context : ClosedEffect(c) \/ \E u \in User : UserEffect(u)
               \/ AcceptEffect \/ PushBackEffect
        PROVE  at'[s] = at[s] /\ old'[s] = old[s]
    BY <1>6, <2>3, <2>4 DEF ClosedEffect, UserEffect, LockEffect, GiveEffect, SendEndEffect,
       OutsideEffect, AcceptEffect, PushBackEffect, Moves, Stays, Outside, UserLabel, InSession, Label
  <2>5. QED
    BY <1>6, <2>1, <2>2, <2>4 DEF Effect, StartedInv
<1>7. ASSUME accept' = "pushBack" PROVE state_'[incoming'] # "NotStarted"
  <2>1. CASE \E t \in Session : StartEffect(t)
    BY <2>1 DEF StartEffect, Started
  <2>2. CASE ~ \E t \in Session : StartEffect(t)
    <3>1. accept = "pushBack" /\ incoming' = incoming
      BY <1>7, <2>2 DEF Effect, StrandEffect, ReadEffect, SetRunningEffect, RestoreEffect, TakeNextEffect,
         WriteCompletesEffect, TransmitEffect, LostEffect, ContextEffect, CloseEffect, SendEffect,
         CloseSocketEffect, EnqueueEffect, ClosedEffect, UserEffect, LockEffect, GiveEffect, SendEndEffect,
         OutsideEffect, AcceptEffect, PushBackEffect, ListSame
    <3>2. QED
      BY <1>keep, <1>3, <3>1 DEF StartedInv, Started
  <2>3. QED
    BY <2>1, <2>2
<1>8. QED
  BY <1>1, <1>2, <1>4, <1>5, <1>6, <1>7 DEF StartedInv, Started

-----------------------------------------------------------------------------
(* A session that is canceled, or about to be canceled again, is not live; *)
(* its closed handler runs on a closed connection.                         *)

Dying(s) == state_[s] = "Canceled" \/ (at[s] = "restore" /\ old[s] = "Canceled")

DeadInv ==
  /\ \A s \in Session : Dying(s) => ~ Live(s)
  /\ \A c \in Context : at[c] = "closedHandler" => conn[on[c]] = "closed"

(* A connection comes up by start(), and closing it begins and ends with   *)
(* the connection down.                                                    *)
LEMMA LiveStep ==
  ASSUME TypeInv, Effect, NEW s \in Session, Live(s)' PROVE Live(s) \/ StartEffect(s)
<1>1. SUFFICES ASSUME ~ StartEffect(s) PROVE Live(s)
  OBVIOUS
<1>2. conn'[s] = "up" /\ \A c \in Context : ~ (at'[c] = "closeSocket" /\ on'[c] = s)
  BY DEF Live
<1>3. conn[s] = "up"
  <2>1. ASSUME NEW t \in Session, StrandEffect(t) PROVE conn[s] = "up"
    BY <1>1, <1>2, <2>1 DEF StrandEffect, StartEffect, ReadEffect, SetRunningEffect, RestoreEffect, TakeNextEffect,
       WriteCompletesEffect, TransmitEffect, LostEffect, SameBut, SessionSame
  <2>2. ASSUME NEW t \in Session, NEW c \in Context, ContextEffect(t, c) PROVE conn[s] = "up"
    BY <1>2, <2>2 DEF ContextEffect, CloseEffect, SendEffect, CloseSocketEffect, EnqueueEffect, SameBut, SessionSame
  <2>3. CASE AllSame
    BY <1>2, <2>3 DEF AllSame, SessionSame
  <2>4. QED
    BY <2>1, <2>2, <2>3 DEF Effect, ClosedEffect, UserEffect, LockEffect, GiveEffect, SendEndEffect, OutsideEffect,
       AcceptEffect, PushBackEffect
<1>4. ASSUME NEW c \in Context, at[c] = "closeSocket", on[c] = s PROVE FALSE
  <2>own. \A t \in Session : on[t] = t
    BY DEF TypeInv, PlacesOK, WellPlaced
  <2>1. ~ (at'[c] = at[c] /\ on'[c] = on[c])
    BY <1>2, <1>4
  <2>2. ASSUME NEW t \in Session, StrandEffect(t) PROVE FALSE
    BY <1>4, <2>1, <2>2 DEF StrandEffect, StartEffect, ReadEffect, SetRunningEffect, RestoreEffect, TakeNextEffect,
       WriteCompletesEffect, TransmitEffect, LostEffect, Moves, Stays
  <2>3. ASSUME NEW t \in Session, NEW d \in Context, ContextEffect(t, d) PROVE FALSE
    BY <1>2, <1>4, <2>1, <2>3 DEF ContextEffect, CloseEffect, SendEffect, CloseSocketEffect, EnqueueEffect, Moves
  <2>4. ASSUME NEW d \in Context, ClosedEffect(d) PROVE FALSE
    BY <1>4, <2>1, <2>4 DEF ClosedEffect, Moves
  <2>5. ASSUME NEW u \in User, UserEffect(u) PROVE FALSE
    BY <1>4, <2>1, <2>5 DEF UserEffect, LockEffect, GiveEffect, SendEndEffect, OutsideEffect, Moves, Outside,
       InSession, Label
  <2>6. CASE AcceptEffect \/ PushBackEffect
    BY <2>1, <2>6 DEF AcceptEffect, PushBackEffect, Stays
  <2>7. QED
    BY <2>2, <2>3, <2>4, <2>5, <2>6 DEF Effect
<1>5. QED
  BY <1>3, <1>4 DEF Live

LEMMA DeadInit == PublisherInit => DeadInv
BY DEF PublisherInit, Init, DeadInv, Dying

LEMMA DyingStep ==
  ASSUME TypeInv, StartedInv, DeadInv, Effect, NEW s \in Session, Dying(s)'
  PROVE  ~ Live(s)'
<1> SUFFICES ASSUME Live(s)' PROVE FALSE
  OBVIOUS
<1>own. on[s] = s /\ s \in Context
  BY DEF TypeInv, PlacesOK, WellPlaced
<1>1. CASE StartEffect(s)
  <2>1. at[s] # "restore"
    BY <1>1, <1>own DEF StartEffect, StartedInv, Started, InSession, Label
  <2>2. QED
    BY <1>1, <2>1 DEF StartEffect, Dying, Stays
<1>2. CASE ~ StartEffect(s)
  <2>1. ~ Dying(s)
    BY <1>2, LiveStep DEF DeadInv
  <2>2. ASSUME NEW t \in Session, StrandEffect(t) PROVE FALSE
    BY <1>2, <2>1, <2>2 DEF StrandEffect, StartEffect, ReadEffect, SetRunningEffect, RestoreEffect, TakeNextEffect,
       WriteCompletesEffect, TransmitEffect, LostEffect, Moves, Stays, SameBut, SessionSame, Dying
  <2>3. ASSUME NEW t \in Session, NEW c \in Context, ContextEffect(t, c) PROVE FALSE
    <3>1. CASE CloseEffect(t, c)
      <4>1. CASE s = t
        <5>1. at'[c] = "closeSocket" /\ on'[c] = s
          BY <2>1, <3>1, <4>1 DEF CloseEffect, Moves, Dying
        <5>2. QED
          BY <5>1 DEF Live
      <4>2. CASE s # t
        <5>1. state_'[s] = state_[s] /\ old'[s] = old[s]
          BY <3>1, <4>2 DEF CloseEffect, SameBut, SessionSame
        <5>2. at'[s] = "restore" => at[s] = "restore"
          BY <3>1 DEF CloseEffect, Moves
        <5>3. QED
          BY <2>1, <5>1, <5>2 DEF Dying
      <4>3. QED
        BY <4>1, <4>2
    <3>2. CASE ~ CloseEffect(t, c)
      <4>1. state_'[s] = state_[s] /\ old'[s] = old[s]
        BY <2>3, <3>2 DEF ContextEffect, SendEffect, CloseSocketEffect, EnqueueEffect, SameBut, SessionSame
      <4>2. at'[s] = "restore" => at[s] = "restore"
        BY <2>3, <3>2 DEF ContextEffect, SendEffect, CloseSocketEffect, EnqueueEffect, Moves
      <4>3. QED
        BY <2>1, <4>1, <4>2 DEF Dying
    <3>3. QED
      BY <3>1, <3>2
  <2>4. ASSUME \/ \E c \in Context : ClosedEffect(c) \/ \E u \in User : UserEffect(u)
               \/ AcceptEffect \/ PushBackEffect
        PROVE  FALSE
    <3>1. state_'[s] = state_[s] /\ old'[s] = old[s]
      BY <2>4 DEF ClosedEffect, UserEffect, LockEffect, GiveEffect, SendEndEffect, OutsideEffect, AcceptEffect,
         PushBackEffect, AllSame, SessionSame
    <3>2. at'[s] = "restore" => at[s] = "restore"
      BY <2>4 DEF ClosedEffect, UserEffect, LockEffect, GiveEffect, SendEndEffect, OutsideEffect, AcceptEffect,
         PushBackEffect, Moves, Stays
    <3>3. QED
      BY <2>1, <3>1, <3>2 DEF Dying
  <2>5. QED
    BY <2>2, <2>3, <2>4 DEF Effect
<1>3. QED
  BY <1>1, <1>2

LEMMA DeadStep == ASSUME TypeInv, StartedInv, DeadInv, Effect PROVE DeadInv'
<1>1. \A s \in Session : Dying(s)' => ~ Live(s)'
  BY DyingStep
<1>2. ASSUME NEW c \in Context, at'[c] = "closedHandler" PROVE conn'[on'[c]] = "closed"
  <2>1. CASE at[c] = "closedHandler" /\ on'[c] = on[c]
    <3>1. on[c] \in Session /\ conn[on[c]] = "closed" /\ Started(on[c])
      BY <2>1 DEF TypeInv, PlacesOK, WellPlaced, DeadInv, StartedInv, InSession, Label
    <3>2. ASSUME NEW t \in Session, StrandEffect(t) PROVE conn'[on[c]] = "closed"
      BY <3>1, <3>2 DEF StrandEffect, StartEffect, ReadEffect, SetRunningEffect, RestoreEffect, TakeNextEffect,
         WriteCompletesEffect, TransmitEffect, LostEffect, SameBut, SessionSame, Started
    <3>3. ASSUME NEW t \in Session, NEW d \in Context, ContextEffect(t, d) PROVE conn'[on[c]] = "closed"
      BY <3>1, <3>3 DEF ContextEffect, CloseEffect, SendEffect, CloseSocketEffect, EnqueueEffect, SameBut, SessionSame
    <3>4. CASE AllSame
      BY <2>1, <3>1, <3>4 DEF AllSame, SessionSame
    <3>5. QED
      BY <2>1, <3>2, <3>3, <3>4 DEF Effect, ClosedEffect, UserEffect, LockEffect, GiveEffect, SendEndEffect,
         OutsideEffect, AcceptEffect, PushBackEffect
  <2>2. CASE ~ (at[c] = "closedHandler" /\ on'[c] = on[c])
    <3>1. ASSUME NEW t \in Session, StrandEffect(t) PROVE FALSE
      BY <1>2, <2>2, <3>1 DEF StrandEffect, StartEffect, ReadEffect, SetRunningEffect, RestoreEffect, TakeNextEffect,
         WriteCompletesEffect, TransmitEffect, LostEffect, Moves, Stays
    <3>2. ASSUME NEW t \in Session, NEW d \in Context, ContextEffect(t, d) PROVE conn'[on'[c]] = "closed"
      BY <1>2, <2>2, <3>2 DEF ContextEffect, CloseEffect, SendEffect, CloseSocketEffect, EnqueueEffect, Moves
    <3>3. ASSUME NEW d \in Context, ClosedEffect(d) PROVE FALSE
      BY <1>2, <2>2, <3>3 DEF ClosedEffect, Moves
    <3>4. ASSUME NEW u \in User, UserEffect(u) PROVE FALSE
      BY <1>2, <2>2, <3>4 DEF UserEffect, LockEffect, GiveEffect, SendEndEffect, OutsideEffect, Moves, Outside,
         InSession, Label
    <3>5. CASE AcceptEffect \/ PushBackEffect
      BY <1>2, <2>2, <3>5 DEF AcceptEffect, PushBackEffect, Stays
    <3>6. QED
      BY <3>1, <3>2, <3>3, <3>4, <3>5 DEF Effect
  <2>3. QED
    BY <2>1, <2>2
<1>3. QED
  BY <1>1, <1>2 DEF DeadInv

-----------------------------------------------------------------------------
(* The list holds every session whose connection has not been closed.      *)

ListedInv ==
  \A s \in Session :
    conn[s] \in {"up", "lost"} =>
      (accept = "pushBack" /\ incoming = s) \/ s \in ToSet(publisher_sessions_)

LEMMA ListedInit == PublisherInit => ListedInv
BY DEF PublisherInit, Init, ListedInv

LEMMA ListedStep == ASSUME TypeInv, DeadInv, ListedInv, Effect PROVE ListedInv'
<1> SUFFICES ASSUME NEW s \in Session, conn'[s] \in {"up", "lost"}
             PROVE  (accept' = "pushBack" /\ incoming' = s) \/ s \in ToSet(publisher_sessions_')
  BY DEF ListedInv
<1>1. CASE StartEffect(s)
  BY <1>1 DEF StartEffect
<1>2. CASE ~ StartEffect(s)
  <2>1. conn[s] \in {"up", "lost"}
    <3>1. ASSUME NEW t \in Session, StrandEffect(t) PROVE conn[s] \in {"up", "lost"}
      BY <1>2, <3>1 DEF StrandEffect, StartEffect, ReadEffect, SetRunningEffect, RestoreEffect, TakeNextEffect,
         WriteCompletesEffect, TransmitEffect, LostEffect, SameBut, SessionSame
    <3>2. ASSUME NEW t \in Session, NEW c \in Context, ContextEffect(t, c) PROVE conn[s] \in {"up", "lost"}
      BY <3>2 DEF ContextEffect, CloseEffect, SendEffect, CloseSocketEffect, EnqueueEffect, SameBut, SessionSame
    <3>3. CASE AllSame
      BY <3>3 DEF AllSame, SessionSame
    <3>4. QED
      BY <3>1, <3>2, <3>3 DEF Effect, ClosedEffect, UserEffect, LockEffect, GiveEffect, SendEndEffect,
         OutsideEffect, AcceptEffect, PushBackEffect
  <2>2. (accept = "pushBack" /\ incoming = s) \/ s \in ToSet(publisher_sessions_)
    BY <2>1 DEF ListedInv
  <2>3. CASE s \in ToSet(publisher_sessions_)
    <3>1. ASSUME NEW c \in Context, at[c] = "closedHandler" PROVE s # on[c]
      BY <2>1, <3>1 DEF DeadInv
    <3>2. s \in ToSet(publisher_sessions_')
      BY <2>3, <3>1, ListsStep
    <3>3. QED
      BY <3>2
  <2>4. CASE accept = "pushBack" /\ incoming = s
    <3>1. CASE PushBackEffect
      BY <2>4, <3>1, AppendToSet DEF PushBackEffect, TypeInv, ListOK
    <3>2. CASE ~ PushBackEffect
      BY <2>4, <3>2 DEF Effect, StrandEffect, StartEffect, ReadEffect, SetRunningEffect, RestoreEffect, TakeNextEffect,
         WriteCompletesEffect, TransmitEffect, LostEffect, ContextEffect, CloseEffect, SendEffect,
         CloseSocketEffect, EnqueueEffect, ClosedEffect, UserEffect, LockEffect, GiveEffect, SendEndEffect,
         OutsideEffect, AcceptEffect, ListSame
    <3>3. QED
      BY <3>1, <3>2
  <2>5. QED
    BY <2>2, <2>3, <2>4
<1>3. QED
  BY <1>1, <1>2

ListInv == TypeInv /\ StartedInv /\ DeadInv /\ ListedInv

LEMMA StutterKeepsLists == ASSUME ListInv, UNCHANGED allVars PROVE ListInv'
<1>1. TypeInv'
  BY StutterKeeps DEF ListInv
<1>2. StartedInv' /\ DeadInv' /\ ListedInv'
  BY DEF ListInv, StartedInv, Started, DeadInv, Dying, Live, ListedInv, allVars, vars, publisherVars,
     memberVars, socketVars, contextVars, historyVars
<1>3. QED
  BY <1>1, <1>2 DEF ListInv

LEMMA ListAlways == PublisherSpec => []ListInv
<1>1. PublisherInit => ListInv
  BY InitType, StartedInit, DeadInit, ListedInit DEF ListInv
<1>2. ListInv /\ [PublisherNext]_allVars => ListInv'
  <2>1. ASSUME ListInv, PublisherNext PROVE ListInv'
    <3>1. TypeInv' /\ Effect
      BY <2>1, StepEffect DEF ListInv
    <3>2. QED
      BY <2>1, <3>1, StartedStep, DeadStep, ListedStep DEF ListInv
  <2>2. QED
    BY <2>1, StutterKeepsLists
<1>3. QED
  BY <1>1, <1>2, PTL DEF PublisherSpec

(* No live session is ever missing in the list, so send() and cancel()     *)
(* find it, however many sessions open and close at the same time.         *)
THEOREM LiveAlwaysListed == PublisherSpec => []LiveSessionsListed
<1>1. ListInv => LiveSessionsListed
  BY DEF ListInv, ListedInv, LiveSessionsListed, Live
<1>2. QED
  BY <1>1, ListAlways, PTL

-----------------------------------------------------------------------------
(* send() reaches every live session.                                      *)

(* A write that has begun has put its buffer on the wire.                  *)
WritesInv ==
  \A s \in Session : \A w \in writes[s] : Begun(w) => w.buf \in ToSet(wire[s])

(* publisher_sessions_mutex_ excludes: one loop of send() at a time.       *)
OneSender == \A u, v \in User : at[u] \in SendLabel /\ at[v] \in SendLabel => u = v

Reached(s, b) ==
  \/ next_buffer_to_send_[s] = b
  \/ b \in ToSet(wire[s])
  \/ \E w \in writes[s] : w.buf = b
  \/ \E c \in Context : on[c] = s /\ at[c] = "write" /\ arg[c] = b

(* While a loop runs, a live session of the list is still to be visited,   *)
(* is being visited, or has the message.                                   *)
LoopInv ==
  \A u \in User : at[u] \in SendLabel =>
    \A s \in ToSet(publisher_sessions_) : Live(s) =>
      \/ s \in ToSet(todo[u]) \/ Reached(s, arg[u])
      \/ at[u] = "enqueue" /\ on[u] = s

LEMMA WritesStep == ASSUME TypeInv, WritesInv, Effect PROVE WritesInv'
<1> SUFFICES ASSUME NEW s \in Session, NEW w \in writes'[s], Begun(w) PROVE w.buf \in ToSet(wire'[s])
  BY DEF WritesInv, Begun
<1>1. CASE w \in writes[s] /\ wire'[s] = wire[s]
  BY <1>1 DEF WritesInv
<1>2. ASSUME NEW t \in Session, StrandEffect(t), ~ (w \in writes[s] /\ wire'[s] = wire[s])
      PROVE  w.buf \in ToSet(wire'[s])
  <2>1. s = t
    BY <1>2 DEF StrandEffect, StartEffect, ReadEffect, SetRunningEffect, RestoreEffect, TakeNextEffect,
       WriteCompletesEffect, TransmitEffect, LostEffect, SameBut, SessionSame
  <2>2. TransmitEffect(t)
    BY <1>2, <2>1 DEF StrandEffect, StartEffect, ReadEffect, SetRunningEffect, RestoreEffect, TakeNextEffect,
       WriteCompletesEffect, LostEffect, BufferSame
  <2>3. PICK x \in writes[t], v \in Write :
          /\ v.buf = x.buf /\ writes'[t] = (writes[t] \ {x}) \cup {v}
          /\ wire'[t] = Append(wire[t], x.buf)
    BY <2>2 DEF TransmitEffect
  <2>4. wire[t] \in Seq(Buffer) /\ x.buf \in Buffer
    BY DEF TypeInv, MembersTypeOK, Write
  <2>5. ToSet(wire'[t]) = ToSet(wire[t]) \cup {x.buf}
    BY <2>3, <2>4, AppendToSet
  <2>6. w = v \/ w \in writes[t]
    BY <2>1, <2>3
  <2>7. QED
    BY <2>1, <2>3, <2>5, <2>6 DEF WritesInv
<1>3. ASSUME NEW t \in Session, NEW c \in Context, ContextEffect(t, c)
      PROVE  w \in writes[s] /\ wire'[s] = wire[s]
  <2>1. wire'[s] = wire[s]
    BY <1>3 DEF ContextEffect, CloseEffect, SendEffect, CloseSocketEffect, EnqueueEffect, SameBut, SessionSame,
       BufferSame
  <2>2. CASE SendEffect(t, c)
    BY <2>2 DEF SendEffect, SameBut, SessionSame
  <2>3. CASE ~ SendEffect(t, c)
    BY <1>3, <2>3 DEF ContextEffect, CloseEffect, CloseSocketEffect, EnqueueEffect, SameBut, SessionSame, BufferSame
  <2>4. QED
    BY <2>1, <2>2, <2>3
<1>4. CASE AllSame
  <2>1. SessionSame(s)
    BY <1>4 DEF AllSame
  <2>2. QED
    BY <1>1, <2>1 DEF SessionSame
<1>5. QED
  BY <1>1, <1>2, <1>3, <1>4 DEF Effect, ClosedEffect, UserEffect, LockEffect, GiveEffect, SendEndEffect, OutsideEffect,
     AcceptEffect, PushBackEffect

LEMMA SenderFrom ==
  ASSUME TypeInv, Effect, NEW u \in User, at'[u] \in SendLabel
  PROVE  (at[u] \in SendLabel /\ arg'[u] = arg[u]) \/ LockEffect(u)
<1>own. u \notin Session
  OBVIOUS
<1>sep. SendLabel \cap {"idle", "cancelLoop", "closeSocket", "closedHandler", "setRunning"} = {}
  BY DEF SendLabel
<1>1. CASE at'[u] = at[u] /\ arg'[u] = arg[u]
  BY <1>1
<1>2. ASSUME NEW t \in Session, StrandEffect(t) PROVE at'[u] = at[u] /\ arg'[u] = arg[u]
  BY <1>2, <1>own DEF StrandEffect, StartEffect, ReadEffect, SetRunningEffect, RestoreEffect, TakeNextEffect,
     WriteCompletesEffect, TransmitEffect, LostEffect, Moves, Stays
<1>3. ASSUME NEW t \in Session, NEW c \in Context, ContextEffect(t, c)
      PROVE  at[u] \in SendLabel /\ arg'[u] = arg[u]
  <2>1. CASE c # u
    BY <1>3, <2>1 DEF ContextEffect, CloseEffect, SendEffect, CloseSocketEffect, EnqueueEffect, Moves
  <2>2. CASE c = u
    <3>1. SendEffect(t, u) \/ EnqueueEffect(t, u)
      BY <1>3, <1>sep, <2>2 DEF ContextEffect, CloseEffect, CloseSocketEffect, Moves
    <3>2. QED
      BY <1>own, <3>1 DEF SendEffect, EnqueueEffect, Moves, SendLabel
  <2>3. QED
    BY <2>1, <2>2
<1>4. ASSUME NEW c \in Context, ClosedEffect(c) PROVE at'[u] = at[u] /\ arg'[u] = arg[u]
  BY <1>4, <1>sep DEF ClosedEffect, Moves
<1>5. ASSUME NEW v \in User, UserEffect(v)
      PROVE  (at[u] \in SendLabel /\ arg'[u] = arg[u]) \/ LockEffect(u)
  <2>1. CASE v # u
    BY <1>5, <2>1 DEF UserEffect, LockEffect, GiveEffect, SendEndEffect, OutsideEffect, Moves
  <2>2. CASE v = u
    BY <1>5, <1>sep, <2>2 DEF UserEffect, GiveEffect, SendEndEffect, OutsideEffect, Moves, Outside, SendLabel
  <2>3. QED
    BY <2>1, <2>2
<1>6. CASE AcceptEffect \/ PushBackEffect
  BY <1>6 DEF AcceptEffect, PushBackEffect, Stays
<1>7. QED
  BY <1>1, <1>2, <1>3, <1>4, <1>5, <1>6 DEF Effect

LEMMA SenderStep == ASSUME TypeInv, OneSender, Effect PROVE OneSender'
<1> SUFFICES ASSUME NEW u \in User, NEW v \in User, at'[u] \in SendLabel, at'[v] \in SendLabel PROVE u = v
  BY DEF OneSender
<1>1. (at[u] \in SendLabel \/ LockEffect(u)) /\ (at[v] \in SendLabel \/ LockEffect(v))
  BY SenderFrom
<1>2. ASSUME NEW x \in User, LockEffect(x), NEW y \in User PROVE at[y] \notin SendLabel
  BY <1>2 DEF LockEffect, SessionsMutexFree, SendLabel
<1>3. ASSUME LockEffect(u), LockEffect(v), u # v PROVE FALSE
  BY <1>3, <1>1 DEF LockEffect, Moves
<1>4. QED
  BY <1>1, <1>2, <1>3 DEF OneSender

(* What a live session has, it keeps: a buffer that leaves the place of    *)
(* the next one is written, one that is written comes to the wire.         *)
LEMMA StaysReached ==
  ASSUME TypeInv, DeadInv, WritesInv, OneSender, Effect,
         NEW s \in Session, Live(s), NEW u \in User, at[u] \in SendLabel,
         NEW b, b = arg[u], Reached(s, b)
  PROVE  Reached(s, b)'
<1>up. conn[s] = "up" /\ state_[s] # "Canceled"
  BY DEF Live, DeadInv, Dying
<1>own. /\ \A t \in Session : on[t] = t /\ t \in Context /\ t \notin User
        /\ u \in Context
  BY DEF TypeInv, PlacesOK, WellPlaced
<1>1. CASE next_buffer_to_send_[s] = b
  <2>1. CASE next_buffer_to_send_'[s] = b
    BY <2>1 DEF Reached
  <2>2. ASSUME NEW t \in Session, StrandEffect(t), next_buffer_to_send_'[s] # b PROVE Reached(s, b)'
    <3>1. s = t
      BY <1>1, <2>2 DEF StrandEffect, StartEffect, ReadEffect, SetRunningEffect, RestoreEffect, TakeNextEffect,
         WriteCompletesEffect, TransmitEffect, LostEffect, SameBut, SessionSame
    <3>2. TakeNextEffect(s)
      BY <1>1, <2>2, <3>1 DEF StrandEffect, StartEffect, ReadEffect, SetRunningEffect, RestoreEffect,
         WriteCompletesEffect, TransmitEffect, LostEffect, BufferSame
    <3>3. Moves(s, "write", s, b)
      BY <1>1, <2>2, <3>2 DEF TakeNextEffect
    <3>4. QED
      BY <1>own, <3>3 DEF Reached, Moves
  <2>3. ASSUME NEW t \in Session, NEW c \in Context, ContextEffect(t, c) PROVE next_buffer_to_send_'[s] = b
    <3>1. CASE c \in User /\ EnqueueEffect(t, c)
      <4>1. c = u
        BY <3>1 DEF EnqueueEffect, OneSender, SendLabel
      <4>2. QED
        BY <1>1, <3>1, <4>1 DEF EnqueueEffect, SameBut, SessionSame
    <3>2. CASE ~ (c \in User /\ EnqueueEffect(t, c))
      BY <1>1, <2>3, <3>2 DEF ContextEffect, CloseEffect, SendEffect, CloseSocketEffect, SameBut, SessionSame, BufferSame
    <3>3. QED
      BY <3>1, <3>2
  <2>4. CASE AllSame
    BY <1>1, <2>1, <2>4 DEF AllSame, SessionSame
  <2>5. QED
    BY <2>1, <2>2, <2>3, <2>4 DEF Effect, ClosedEffect, UserEffect, LockEffect, GiveEffect, SendEndEffect,
       OutsideEffect, AcceptEffect, PushBackEffect
<1>2. CASE b \in ToSet(wire[s])
  <2>1. CASE wire'[s] = wire[s]
    BY <1>2, <2>1 DEF Reached
  <2>2. ASSUME NEW t \in Session, StrandEffect(t), wire'[s] # wire[s] PROVE Reached(s, b)'
    <3>1. s = t
      BY <2>2 DEF StrandEffect, StartEffect, ReadEffect, SetRunningEffect, RestoreEffect, TakeNextEffect,
         WriteCompletesEffect, TransmitEffect, LostEffect, SameBut, SessionSame
    <3>2. TransmitEffect(s)
      BY <2>2, <3>1 DEF StrandEffect, StartEffect, ReadEffect, SetRunningEffect, RestoreEffect, TakeNextEffect,
         WriteCompletesEffect, LostEffect, BufferSame
    <3>3. PICK x \in writes[s] : wire'[s] = Append(wire[s], x.buf)
      BY <3>2 DEF TransmitEffect
    <3>4. wire[s] \in Seq(Buffer) /\ x.buf \in Buffer
      BY DEF TypeInv, MembersTypeOK, Write
    <3>5. b \in ToSet(wire'[s])
      BY <1>2, <3>3, <3>4, AppendToSet
    <3>6. QED
      BY <3>5 DEF Reached
  <2>3. ASSUME NEW t \in Session, NEW c \in Context, ContextEffect(t, c) PROVE wire'[s] = wire[s]
    BY <2>3 DEF ContextEffect, CloseEffect, SendEffect, CloseSocketEffect, EnqueueEffect, SameBut, SessionSame,
       BufferSame
  <2>4. CASE AllSame
    BY <2>1, <2>4 DEF AllSame, SessionSame
  <2>5. QED
    BY <2>1, <2>2, <2>3, <2>4 DEF Effect, ClosedEffect, UserEffect, LockEffect, GiveEffect, SendEndEffect,
       OutsideEffect, AcceptEffect, PushBackEffect
<1>3. ASSUME NEW w \in writes[s], w.buf = b, b \notin ToSet(wire[s]) PROVE Reached(s, b)'
  <2>1. CASE w \in writes'[s]
    BY <1>3, <2>1 DEF Reached
  <2>2. ~ Begun(w)
    BY <1>3 DEF WritesInv
  <2>3. w.left # 0
    <3>1. w.buf \in Buffer /\ w.left \in Nat
      BY DEF TypeInv, MembersTypeOK, Write
    <3>2. QED
      BY <2>2, <3>1, ChunksPositive DEF Begun
  <2>4. ASSUME NEW t \in Session, StrandEffect(t), w \notin writes'[s] PROVE Reached(s, b)'
    <3>1. s = t
      BY <2>4 DEF StrandEffect, StartEffect, ReadEffect, SetRunningEffect, RestoreEffect, TakeNextEffect,
         WriteCompletesEffect, TransmitEffect, LostEffect, SameBut, SessionSame
    <3>2. ~ WriteCompletesEffect(s)
      BY <2>3, <2>4 DEF WriteCompletesEffect
    <3>3. TransmitEffect(s)
      BY <2>4, <3>1, <3>2 DEF StrandEffect, StartEffect, ReadEffect, SetRunningEffect, RestoreEffect, TakeNextEffect,
         LostEffect, BufferSame
    <3>4. PICK x \in writes[s], v \in Write :
            v.buf = x.buf /\ writes'[s] = (writes[s] \ {x}) \cup {v}
      BY <3>3 DEF TransmitEffect
    <3>5. x = w /\ v \in writes'[s]
      BY <2>4, <3>4
    <3>6. QED
      BY <1>3, <3>4, <3>5 DEF Reached
  <2>5. ASSUME NEW t \in Session, NEW c \in Context, ContextEffect(t, c) PROVE w \in writes'[s]
    <3>1. CASE s # t
      BY <2>5, <3>1 DEF ContextEffect, CloseEffect, SendEffect, CloseSocketEffect, EnqueueEffect, SameBut, SessionSame
    <3>2. CASE s = t
      <4>1. CASE CloseEffect(t, c)
        BY <1>up, <3>2, <4>1 DEF CloseEffect
      <4>2. CASE SendEffect(t, c)
        BY <3>2, <4>2 DEF SendEffect
      <4>3. CASE CloseSocketEffect(t, c) \/ EnqueueEffect(t, c)
        BY <3>2, <4>3 DEF CloseSocketEffect, EnqueueEffect, BufferSame
      <4>4. QED
        BY <2>5, <4>1, <4>2, <4>3 DEF ContextEffect
    <3>3. QED
      BY <3>1, <3>2
  <2>6. CASE AllSame
    BY <2>1, <2>6 DEF AllSame, SessionSame
  <2>7. QED
    BY <2>1, <2>4, <2>5, <2>6 DEF Effect, ClosedEffect, UserEffect, LockEffect, GiveEffect, SendEndEffect,
       OutsideEffect, AcceptEffect, PushBackEffect
<1>4. ASSUME NEW c \in Context, on[c] = s, at[c] = "write", arg[c] = b PROVE Reached(s, b)'
  <2>1. CASE at'[c] = at[c] /\ on'[c] = on[c] /\ arg'[c] = arg[c]
    BY <1>4, <2>1 DEF Reached
  <2>2. CASE SendEffect(s, c)
    <3>1. PICK w \in Write : w.buf = b /\ w \in writes'[s]
      BY <1>4, <1>up, <2>2 DEF SendEffect
    <3>2. QED
      BY <3>1 DEF Reached
  <2>3. ASSUME NEW t \in Session, StrandEffect(t)
        PROVE  at'[c] = at[c] /\ on'[c] = on[c] /\ arg'[c] = arg[c]
    BY <1>4, <2>3 DEF StrandEffect, StartEffect, ReadEffect, SetRunningEffect, RestoreEffect, TakeNextEffect,
       WriteCompletesEffect, TransmitEffect, LostEffect, Moves, Stays
  <2>4. ASSUME NEW t \in Session, NEW d \in Context, ContextEffect(t, d), ~ SendEffect(s, c)
        PROVE  at'[c] = at[c] /\ on'[c] = on[c] /\ arg'[c] = arg[c]
    BY <1>4, <2>4 DEF ContextEffect, CloseEffect, SendEffect, CloseSocketEffect, EnqueueEffect, Moves
  <2>5. ASSUME NEW d \in Context, ClosedEffect(d) PROVE at'[c] = at[c] /\ on'[c] = on[c] /\ arg'[c] = arg[c]
    BY <1>4, <2>5 DEF ClosedEffect, Moves
  <2>6. ASSUME NEW v \in User, UserEffect(v) PROVE at'[c] = at[c] /\ on'[c] = on[c] /\ arg'[c] = arg[c]
    BY <1>4, <2>6 DEF UserEffect, LockEffect, GiveEffect, SendEndEffect, OutsideEffect, Moves, Outside, InSession, Label
  <2>7. CASE AcceptEffect \/ PushBackEffect
    BY <2>1, <2>7 DEF AcceptEffect, PushBackEffect, Stays
  <2>8. QED
    BY <2>1, <2>2, <2>3, <2>4, <2>5, <2>6, <2>7 DEF Effect
<1>5. QED
  BY <1>1, <1>2, <1>3, <1>4 DEF Reached

(* A session the loop still has to visit stays in it until it is visited.  *)
LEMMA LoopGoesOn ==
  ASSUME TypeInv, DeadInv, Effect, NEW u \in User, at[u] \in SendLabel,
         NEW s \in Session, Live(s), s \in ToSet(todo[u])
  PROVE  s \in ToSet(todo'[u]) \/ (at'[u] = "enqueue" /\ on'[u] = s)
<1>1. CASE todo'[u] = todo[u]
  BY <1>1
<1>2. ASSUME NEW t \in Session, StrandEffect(t) PROVE todo'[u] = todo[u]
  BY <1>2 DEF StrandEffect, StartEffect, ReadEffect, SetRunningEffect, RestoreEffect, TakeNextEffect,
     WriteCompletesEffect, TransmitEffect, LostEffect
<1>3. ASSUME NEW t \in Session, NEW c \in Context, ContextEffect(t, c) PROVE todo'[u] = todo[u]
  BY <1>3 DEF ContextEffect, CloseEffect, SendEffect, CloseSocketEffect, EnqueueEffect, TodoSameBut, SendLabel
<1>4. ASSUME NEW v \in User, UserEffect(v), v # u PROVE todo'[u] = todo[u]
  BY <1>4 DEF UserEffect, LockEffect, GiveEffect, SendEndEffect, OutsideEffect, TodoSameBut
<1>5. CASE LockEffect(u) \/ SendEndEffect(u) \/ OutsideEffect(u)
  BY <1>1, <1>5 DEF LockEffect, SendEndEffect, OutsideEffect, Outside, SendLabel
<1>6. CASE GiveEffect(u)
  <2>1. todo[u] \in Seq(Session) /\ todo[u] # <<>> /\ todo'[u] = Tail(todo[u])
    BY <1>6 DEF GiveEffect, TypeInv, ListOK
  <2>2. s = Head(todo[u]) \/ s \in ToSet(todo'[u])
    BY <2>1, HeadTailToSet
  <2>3. state_[s] # "Canceled"
    BY DEF DeadInv, Dying
  <2>4. QED
    BY <1>6, <2>2, <2>3 DEF GiveEffect, Moves
<1>7. CASE (\E c \in Context : ClosedEffect(c)) \/ AcceptEffect \/ PushBackEffect
  BY <1>1, <1>7 DEF ClosedEffect, AcceptEffect, PushBackEffect
<1>8. QED
  BY <1>1, <1>2, <1>3, <1>4, <1>5, <1>6, <1>7 DEF Effect, UserEffect

(* The session that is visited gets the buffer.                            *)
LEMMA VisitReaches ==
  ASSUME TypeInv, Effect, NEW u \in User, at[u] = "enqueue", NEW s \in Session, on[u] = s, NEW b, b = arg[u]
  PROVE  Reached(s, b)' \/ (at'[u] = "enqueue" /\ on'[u] = s)
<1>own. u \in Context /\ u \notin Session
  OBVIOUS
<1>1. CASE at'[u] = at[u] /\ on'[u] = on[u]
  BY <1>1
<1>2. ASSUME NEW t \in Session, StrandEffect(t) PROVE at'[u] = at[u] /\ on'[u] = on[u]
  BY <1>2, <1>own DEF StrandEffect, StartEffect, ReadEffect, SetRunningEffect, RestoreEffect, TakeNextEffect,
     WriteCompletesEffect, TransmitEffect, LostEffect, Moves, Stays
<1>3. ASSUME NEW t \in Session, NEW c \in Context, ContextEffect(t, c)
      PROVE  Reached(s, b)' \/ (at'[u] = at[u] /\ on'[u] = on[u])
  <2>1. CASE EnqueueEffect(t, c) /\ c = u
    <3>1. CASE Moves(u, "write", s, b)
      BY <1>own, <3>1 DEF Reached, Moves
    <3>2. CASE next_buffer_to_send_'[s] = b
      BY <3>2 DEF Reached
    <3>3. QED
      BY <2>1, <3>1, <3>2 DEF EnqueueEffect
  <2>2. CASE ~ (EnqueueEffect(t, c) /\ c = u)
    BY <1>3, <1>own, <2>2 DEF ContextEffect, CloseEffect, SendEffect, CloseSocketEffect, EnqueueEffect, Moves
  <2>3. QED
    BY <2>1, <2>2
<1>4. ASSUME NEW c \in Context, ClosedEffect(c) PROVE at'[u] = at[u] /\ on'[u] = on[u]
  BY <1>4 DEF ClosedEffect, Moves
<1>5. ASSUME NEW v \in User, UserEffect(v) PROVE at'[u] = at[u] /\ on'[u] = on[u]
  BY <1>5 DEF UserEffect, LockEffect, GiveEffect, SendEndEffect, OutsideEffect, Moves, Outside, InSession, Label
<1>6. CASE AcceptEffect \/ PushBackEffect
  BY <1>1, <1>6 DEF AcceptEffect, PushBackEffect, Stays
<1>7. QED
  BY <1>1, <1>2, <1>3, <1>4, <1>5, <1>6 DEF Effect

LEMMA LoopStep ==
  ASSUME ListInv, WritesInv, OneSender, LoopInv, Effect, TypeInv'
  PROVE  LoopInv'
<1> USE DEF ListInv
<1> SUFFICES ASSUME NEW u \in User, at'[u] \in SendLabel,
                    NEW s \in ToSet(publisher_sessions_'), Live(s)'
             PROVE  \/ s \in ToSet(todo'[u]) \/ Reached(s, arg[u])'
                    \/ at'[u] = "enqueue" /\ on'[u] = s
  BY DEF LoopInv, Reached
<1>1. CASE LockEffect(u)
  BY <1>1 DEF LockEffect, ListSame
<1>2. CASE at[u] \in SendLabel /\ arg'[u] = arg[u]
  <2>1. ~ SessionsMutexFree
    BY <1>2 DEF SessionsMutexFree, SendLabel
  <2>2. publisher_sessions_' = publisher_sessions_
    BY <2>1, ListsStep
  <2>3. s \in Session /\ Started(s)
    BY <2>2 DEF TypeInv, ListOK, ToSet, StartedInv
  <2>4. Live(s)
    BY <2>3, LiveStep DEF StartEffect, Started
  <2>5. CASE s \in ToSet(todo[u])
    BY <1>2, <2>3, <2>4, <2>5, LoopGoesOn
  <2>6. CASE Reached(s, arg[u])
    <3>1. PICK b : b = arg[u]
      OBVIOUS
    <3>2. Reached(s, b)'
      BY <1>2, <2>3, <2>4, <2>6, <3>1, StaysReached
    <3>3. QED
      BY <1>2, <3>1, <3>2 DEF Reached
  <2>7. CASE at[u] = "enqueue" /\ on[u] = s
    <3>1. PICK b : b = arg[u]
      OBVIOUS
    <3>2. Reached(s, b)' \/ (at'[u] = "enqueue" /\ on'[u] = s)
      BY <2>3, <2>7, <3>1, VisitReaches
    <3>3. QED
      BY <1>2, <3>1, <3>2 DEF Reached
  <2>8. QED
    BY <1>2, <2>2, <2>4, <2>5, <2>6, <2>7 DEF LoopInv
<1>3. QED
  BY <1>1, <1>2, SenderFrom

SendInv == ListInv /\ WritesInv /\ OneSender /\ LoopInv

LEMMA SendInit == PublisherInit => SendInv
<1> SUFFICES ASSUME PublisherInit PROVE SendInv
  OBVIOUS
<1>1. ListInv
  BY InitType, StartedInit, DeadInit, ListedInit DEF ListInv
<1>2. WritesInv /\ OneSender /\ LoopInv
  BY DEF PublisherInit, Init, WritesInv, OneSender, LoopInv, SendLabel
<1>3. QED
  BY <1>1, <1>2 DEF SendInv

LEMMA SendStepKeeps == ASSUME SendInv, [PublisherNext]_allVars PROVE SendInv'
<1>1. CASE PublisherNext
  <2>1. TypeInv' /\ Effect
    BY <1>1, StepEffect DEF SendInv, ListInv
  <2>2. ListInv'
    BY <2>1, StartedStep, DeadStep, ListedStep DEF SendInv, ListInv
  <2>3. WritesInv' /\ OneSender' /\ LoopInv'
    BY <2>1, WritesStep, SenderStep, LoopStep DEF SendInv, ListInv
  <2>4. QED
    BY <2>2, <2>3 DEF SendInv
<1>2. CASE UNCHANGED allVars
  <2>1. ListInv'
    BY <1>2, StutterKeepsLists DEF SendInv
  <2>2. WritesInv' /\ OneSender'
    BY <1>2 DEF SendInv, WritesInv, OneSender, allVars, vars, publisherVars, memberVars, socketVars, contextVars
  <2>3. LoopInv'
    BY <1>2 DEF SendInv, LoopInv, Live, Reached, allVars, vars, publisherVars, memberVars, socketVars, contextVars
  <2>4. QED
    BY <2>1, <2>2, <2>3 DEF SendInv
<1>3. QED
  BY <1>1, <1>2

(* The loop of send() only ends when it has visited the list.              *)
LEMMA EndOfLoop ==
  ASSUME TypeInv, Effect, NEW u \in User, at[u] = "sendLoop", at'[u] = "idle" PROVE todo[u] = <<>>
<1>own. u \in Context /\ u \notin Session
  OBVIOUS
<1>1. ASSUME NEW t \in Session, StrandEffect(t) PROVE FALSE
  BY <1>1, <1>own DEF StrandEffect, StartEffect, ReadEffect, SetRunningEffect, RestoreEffect, TakeNextEffect,
     WriteCompletesEffect, TransmitEffect, LostEffect, Moves, Stays
<1>2. ASSUME NEW t \in Session, NEW c \in Context, ContextEffect(t, c) PROVE FALSE
  BY <1>2, <1>own DEF ContextEffect, CloseEffect, SendEffect, CloseSocketEffect, EnqueueEffect, Moves
<1>3. ASSUME NEW c \in Context, ClosedEffect(c) PROVE FALSE
  BY <1>3 DEF ClosedEffect, Moves
<1>4. ASSUME NEW v \in User, UserEffect(v) PROVE todo[u] = <<>>
  BY <1>4 DEF UserEffect, LockEffect, GiveEffect, SendEndEffect, OutsideEffect, Moves, Outside, SendLabel
<1>5. CASE AcceptEffect \/ PushBackEffect
  BY <1>5 DEF AcceptEffect, PushBackEffect, Stays
<1>6. QED
  BY <1>1, <1>2, <1>3, <1>4, <1>5 DEF Effect

(* When send() returns, every live session of the list has the message, or *)
(* a write of it under way, whatever closes or is accepted meanwhile.      *)
THEOREM SendAlwaysReaches == PublisherSpec => SendReachesAll
<1> DEFINE Reaches ==
      \A u \in User :
        at[u] = "sendLoop" /\ at'[u] = "idle" =>
          \A s \in ToSet(publisher_sessions_) : Live(s) => Holds(s, arg[u])
<1>1. SendInv /\ [PublisherNext]_allVars => [Reaches]_allVars
  <2> SUFFICES ASSUME SendInv, PublisherNext, NEW u \in User, at[u] = "sendLoop", at'[u] = "idle",
                      NEW s \in ToSet(publisher_sessions_), Live(s)
               PROVE  Holds(s, arg[u])
    OBVIOUS
  <2>1. todo[u] = <<>>
    BY StepEffect, EndOfLoop DEF SendInv, ListInv
  <2>2. s \notin ToSet(todo[u])
    BY <2>1 DEF ToSet
  <2>3. Reached(s, arg[u])
    BY <2>2 DEF SendInv, LoopInv, SendLabel
  <2>4. QED
    BY <2>3 DEF Reached, Holds
<1>2. PublisherSpec => []SendInv
  BY SendInit, SendStepKeeps, PTL DEF PublisherSpec
<1>3. QED
  BY <1>1, <1>2, PTL DEF PublisherSpec, SendReachesAll

-----------------------------------------------------------------------------
(* Only a session whose end has overtaken the accept handler is stale.     *)

(* A session is put into the list once.                                    *)
OnceInv ==
  /\ Unique(publisher_sessions_)
  /\ accept = "pushBack" => incoming \notin ToSet(publisher_sessions_)

LEMMA UniqueStep == ASSUME TypeInv, OnceInv, Effect PROVE Unique(publisher_sessions_')
<1>1. CASE PushBackEffect
  BY <1>1, AppendUnique DEF PushBackEffect, OnceInv, TypeInv, ListOK
<1>2. ASSUME NEW c \in Context, ClosedEffect(c) PROVE Unique(publisher_sessions_')
  BY <1>2, RemoveFirstUnique DEF ClosedEffect, OnceInv, TypeInv, ListOK
<1>3. CASE publisher_sessions_' = publisher_sessions_
  BY <1>3 DEF OnceInv
<1>4. QED
  BY <1>1, <1>2, <1>3 DEF Effect, StrandEffect, StartEffect, ReadEffect, SetRunningEffect, RestoreEffect,
     TakeNextEffect, WriteCompletesEffect, TransmitEffect, LostEffect, ContextEffect, CloseEffect, SendEffect,
     CloseSocketEffect, EnqueueEffect, UserEffect, LockEffect, GiveEffect, SendEndEffect, OutsideEffect,
     AcceptEffect, ListSame

LEMMA OnceStep == ASSUME TypeInv, StartedInv, OnceInv, Effect PROVE OnceInv'
<1>1. Unique(publisher_sessions_')
  BY UniqueStep
<1>2. ASSUME accept' = "pushBack", NEW t \in Session, StartEffect(t)
      PROVE  incoming' \notin ToSet(publisher_sessions_')
  <2>1. ~ Started(t)
    BY <1>2 DEF StartEffect, Started
  <2>2. QED
    BY <1>2, <2>1 DEF StartEffect, StartedInv
<1>3. ASSUME accept' = "pushBack", ~ \E t \in Session : StartEffect(t)
      PROVE  incoming' \notin ToSet(publisher_sessions_')
  <2>1. accept = "pushBack" /\ incoming' = incoming /\ ~ PushBackEffect
    BY <1>3 DEF Effect, StrandEffect, ReadEffect, SetRunningEffect, RestoreEffect, TakeNextEffect,
       WriteCompletesEffect, TransmitEffect, LostEffect, ContextEffect, CloseEffect, SendEffect,
       CloseSocketEffect, EnqueueEffect, ClosedEffect, UserEffect, LockEffect, GiveEffect, SendEndEffect,
       OutsideEffect, AcceptEffect, PushBackEffect, ListSame
  <2>2. ASSUME NEW c \in Context, ClosedEffect(c)
        PROVE  ToSet(publisher_sessions_') \subseteq ToSet(publisher_sessions_)
    BY <2>2, RemoveFirstKeeps DEF ClosedEffect, TypeInv, ListOK
  <2>3. ToSet(publisher_sessions_') \subseteq ToSet(publisher_sessions_)
    BY <2>1, <2>2 DEF Effect, StrandEffect, StartEffect, ReadEffect, SetRunningEffect, RestoreEffect,
       TakeNextEffect, WriteCompletesEffect, TransmitEffect, LostEffect, ContextEffect, CloseEffect, SendEffect,
       CloseSocketEffect, EnqueueEffect, UserEffect, LockEffect, GiveEffect, SendEndEffect, OutsideEffect,
       AcceptEffect, ListSame
  <2>4. QED
    BY <2>1, <2>3 DEF OnceInv
<1>4. QED
  BY <1>1, <1>2, <1>3 DEF OnceInv

Leaving(s) == \E c \in Context : at[c] = "closedHandler" /\ on[c] = s

(* Only the handler itself leaves its place.                               *)
LEMMA HandlerStays ==
  ASSUME TypeInv, Effect, NEW c \in Context, at[c] = "closedHandler"
  PROVE  (at'[c] = "closedHandler" /\ on'[c] = on[c]) \/ ClosedEffect(c)
<1>1. ASSUME NEW t \in Session, StrandEffect(t) PROVE at'[c] = "closedHandler" /\ on'[c] = on[c]
  BY <1>1 DEF StrandEffect, StartEffect, ReadEffect, SetRunningEffect, RestoreEffect, TakeNextEffect,
     WriteCompletesEffect, TransmitEffect, LostEffect, Moves, Stays
<1>2. ASSUME NEW t \in Session, NEW d \in Context, ContextEffect(t, d)
      PROVE  at'[c] = "closedHandler" /\ on'[c] = on[c]
  BY <1>2 DEF ContextEffect, CloseEffect, SendEffect, CloseSocketEffect, EnqueueEffect, Moves
<1>3. ASSUME NEW d \in Context \ {c}, ClosedEffect(d) PROVE at'[c] = "closedHandler" /\ on'[c] = on[c]
  BY <1>3 DEF ClosedEffect, Moves
<1>4. ASSUME NEW u \in User, UserEffect(u) PROVE at'[c] = "closedHandler" /\ on'[c] = on[c]
  BY <1>4 DEF UserEffect, LockEffect, GiveEffect, SendEndEffect, OutsideEffect, Moves, Outside, InSession,
     UserLabel, SendLabel, Label
<1>5. CASE AcceptEffect \/ PushBackEffect
  BY <1>5 DEF AcceptEffect, PushBackEffect, Stays
<1>6. QED
  BY <1>1, <1>2, <1>3, <1>4, <1>5 DEF Effect

(* A connection becomes closed in close() alone, which goes on to the      *)
(* handler.                                                                *)
LEMMA ClosedFrom ==
  ASSUME TypeInv, Effect, NEW s \in Session, conn[s] # "closed", conn'[s] = "closed"
  PROVE  \E c \in Context : at'[c] = "closedHandler" /\ on'[c] = s
<1>1. ASSUME NEW t \in Session, StrandEffect(t) PROVE FALSE
  BY <1>1 DEF StrandEffect, StartEffect, ReadEffect, SetRunningEffect, RestoreEffect, TakeNextEffect,
     WriteCompletesEffect, TransmitEffect, LostEffect, SameBut, SessionSame
<1>2. ASSUME NEW t \in Session, NEW d \in Context, ContextEffect(t, d)
      PROVE  \E c \in Context : at'[c] = "closedHandler" /\ on'[c] = s
  <2>1. ~ CloseEffect(t, d) /\ ~ SendEffect(t, d) /\ ~ EnqueueEffect(t, d)
    BY DEF CloseEffect, SendEffect, EnqueueEffect, SameBut, SessionSame
  <2>2. CloseSocketEffect(t, d) /\ t = s
    BY <1>2, <2>1 DEF ContextEffect, CloseSocketEffect, SameBut, SessionSame
  <2>3. QED
    BY <2>2 DEF CloseSocketEffect, Moves
<1>3. ~ AllSame
  BY DEF AllSame, SessionSame
<1>4. QED
  BY <1>1, <1>2, <1>3 DEF Effect, ClosedEffect, UserEffect, LockEffect, GiveEffect, SendEndEffect,
     OutsideEffect, AcceptEffect, PushBackEffect

(* A step that leaves a session stale puts it into the list.               *)
LEMMA StaleStep ==
  ASSUME TypeInv, OnceInv, Effect, NEW s \in Session, ~ Stale(s), Stale(s)'
  PROVE  accept = "pushBack" /\ incoming = s
<1>1. s \in ToSet(publisher_sessions_') /\ conn'[s] = "closed" /\ ~ Leaving(s)'
  BY DEF Stale, Leaving
<1>2. conn[s] = "closed"
  BY <1>1, ClosedFrom DEF Leaving
<1>3. CASE s \in ToSet(publisher_sessions_)
  <2>1. PICK c \in Context : at[c] = "closedHandler" /\ on[c] = s
    BY <1>2, <1>3 DEF Stale
  <2>2. ~ ClosedEffect(c)
    BY <1>1, <2>1, RemoveFirstUnique DEF ClosedEffect, OnceInv, TypeInv, ListOK
  <2>3. QED
    BY <1>1, <2>1, <2>2, HandlerStays DEF Leaving
<1>4. CASE s \notin ToSet(publisher_sessions_)
  BY <1>1, <1>4, ListsStep
<1>5. QED
  BY <1>3, <1>4

StaleInv == ListInv /\ OnceInv

LEMMA StaleInit == PublisherInit => StaleInv
<1> SUFFICES ASSUME PublisherInit PROVE StaleInv
  OBVIOUS
<1>1. ListInv
  BY InitType, StartedInit, DeadInit, ListedInit DEF ListInv
<1>2. OnceInv
  BY DEF PublisherInit, OnceInv, Unique
<1>3. QED
  BY <1>1, <1>2 DEF StaleInv

LEMMA StaleKeeps == ASSUME StaleInv, [PublisherNext]_allVars PROVE StaleInv'
<1>1. CASE PublisherNext
  <2>1. TypeInv' /\ Effect
    BY <1>1, StepEffect DEF StaleInv, ListInv
  <2>2. ListInv'
    BY <2>1, StartedStep, DeadStep, ListedStep DEF StaleInv, ListInv
  <2>3. OnceInv'
    BY <2>1, OnceStep DEF StaleInv, ListInv
  <2>4. QED
    BY <2>2, <2>3 DEF StaleInv
<1>2. CASE UNCHANGED allVars
  <2>1. ListInv'
    BY <1>2, StutterKeepsLists DEF StaleInv
  <2>2. OnceInv'
    BY <1>2 DEF StaleInv, OnceInv, Unique, allVars, publisherVars
  <2>3. QED
    BY <2>1, <2>2 DEF StaleInv
<1>3. QED
  BY <1>1, <1>2

(* For any number of threads and users: a closed session stays in the list *)
(* of the publisher only if it has ended between its start() and push_back *)
(* in the accept handler.                                                  *)
THEOREM StaleAlwaysOvertaken == PublisherSpec => StaleOnlyWhenOvertaken
<1> DEFINE Overtaken ==
      \A s \in Session : ~ Stale(s) /\ Stale(s)' => accept = "pushBack" /\ incoming = s
<1>1. StaleInv /\ [PublisherNext]_allVars => [Overtaken]_allVars
  BY StaleStep, StepEffect DEF StaleInv, ListInv
<1>2. PublisherSpec => []StaleInv
  BY StaleInit, StaleKeeps, PTL DEF PublisherSpec
<1>3. QED
  BY <1>1, <1>2, PTL DEF PublisherSpec, StaleOnlyWhenOvertaken
=============================================================================
