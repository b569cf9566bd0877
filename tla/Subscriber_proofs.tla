-------------------------- MODULE Subscriber_proofs --------------------------
(***************************************************************************)
(* Theorems about the subscriber, for any sets of sessions, threads and    *)
(* users and any numbers of calls and messages, made by threads of the     *)
(* user and in callbacks.  Those about callbacks assume Sequential: calls  *)
(* come one after another.  (Runs show what fails when they overlap.)      *)
(***************************************************************************)
EXTENDS Subscriber, TLAPS

USE SubscriberAssumption DEF Context

Sequential == ~ ConcurrentCalls

-----------------------------------------------------------------------------
(* The inductive invariants.                                               *)

(* What members there are where a call stands.                             *)
CallPlace(c) ==
  /\ at[c] \in {"notify", "join"} => callback_thread_ # NoThread /\ callback_thread_stop_
  /\ at[c] \in {"switch", "clear", "spawn", "forget"} => callback_thread_ = NoThread
  /\ at[c] = "spawn" => ~ user_callback_is_synchronous_
  /\ at[c] = "clear" => user_callback_is_synchronous_

(* One call is made at a time.  There is a callback thread only while the  *)
(* callback is asynchronous, and every thread is told to stop while there  *)
(* is none; one that was detached by a callback may live on.               *)
Control ==
  /\ \A c, d \in Context : at[c] \in CallLabels /\ at[d] \in CallLabels => c = d
  /\ callback_thread_ = NoThread => callback_thread_stop_
  /\ user_callback_is_synchronous_ => callback_thread_ = NoThread
  /\ \A c \in Context : CallPlace(c)

Clearing == \E c \in Context : at[c] = "clear"

(* A synchronous callback that is set has found the slot empty, but for    *)
(* the moment before it is cleared.                                        *)
Freed ==
  synchronous_user_callback_ # 0 =>
    /\ user_callback_is_synchronous_
    /\ last_callback_data_ # 0 => Clearing

(* The message m came from session s.                                      *)
CameFrom(m, s) == m # 0 /\ from[m] = s

(* What a call knows of the sessions it will list, or has canceled.        *)
Knows(c) ==
  /\ at[c] = "list" =>
       /\ call[c].sessions \cap session_list_ = {}
       /\ \A s \in call[c].sessions, m \in 1 .. messages : from[m] # s
  /\ at[c] \in {"stop", "notify", "join", "forget"} /\ call[c].op = "cancel" =>
       session_list_ \subseteq canceled_
  /\ at[c] = "forget" => call[c].op = "cancel"

(* What is known of the sessions: only one in the list delivers, a new one *)
(* has delivered nothing, and none in the list outlives cancel().          *)
Listed ==
  /\ \A s \in Session : at[s] # "idle" => s \in session_list_
  /\ \A c \in Context : Knows(c)
  /\ \A m \in 1 .. messages : \A s \in Session :
       from[m] = s => synchronous_callback_[s] # NoCallback

(* Messages are given in order: what a strand holds is newer than what is  *)
(* in the slot, which is newer than what was given.  A session that is not *)
(* canceled and has left a message in the slot when the callback is        *)
(* synchronous, has ended, unless the slot is about to be cleared.         *)
InOrder(s) ==
  /\ newest[s] <= messages
  /\ at[s] = "deliver" =>
       /\ data[s] \in 1 .. messages /\ from[data[s]] = s /\ newest[s] < data[s]
       /\ CameFrom(last_callback_data_, s) => last_callback_data_ < data[s]
  /\ CameFrom(last_callback_data_, s) => newest[s] # last_callback_data_
  /\ CameFrom(last_callback_data_, s) /\ s \notin canceled_ /\ ~ Clearing =>
       /\ newest[s] < last_callback_data_
       /\ user_callback_is_synchronous_ => s \notin session_list_

Ordered ==
  /\ last_callback_data_ <= messages
  /\ last_callback_data_ # 0 => from[last_callback_data_] \in Session
  /\ \A s \in Session : InOrder(s)

-----------------------------------------------------------------------------
(* Type correctness.                                                       *)

Labels == StrandLabels \cup ThreadLabels \cup CallLabels

(* The labels each kind of context can stand at.                           *)
Place(c, label) ==
  /\ c \in Session => label \in StrandLabels \cup CallLabels
  /\ c \in Thread => label \in ThreadLabels \cup CallLabels
  /\ c \in User => label \in {"idle"} \cup CallLabels

AtOK == at \in [Context -> Labels] /\ \A c \in Context : Place(c, at[c])

CallbacksOK ==
  /\ synchronous_callback_ \in [Session -> SessionCallback]
  /\ posted \in [Session -> Seq(SessionCallback \ {NoCallback})]

MembersOK ==
  /\ user_callback_is_synchronous_ \in BOOLEAN
  /\ synchronous_user_callback_ \in Callback
  /\ callback_thread_ \in Thread \cup {NoThread}
  /\ callback_thread_stop_ \in BOOLEAN
  /\ last_callback_data_ \in 0 .. MaxMessages
  /\ mutex \in Context \cup {Nobody}
  /\ session_list_ \subseteq Session /\ canceled_ \subseteq Session

RecordsOK ==
  /\ call \in [Context -> CallRecord]
  /\ callback \in [Thread -> Callback]
  /\ data \in [Context -> 0 .. MaxMessages]
  /\ calls \in Callback /\ messages \in 0 .. MaxMessages
  /\ from \in [1 .. MaxMessages -> Session \cup {Nobody}]
  /\ newest \in [Session -> 0 .. MaxMessages]

LEMMA TypeParts == TypeOK <=> AtOK /\ CallbacksOK /\ MembersOK /\ RecordsOK
BY DEF TypeOK, AtOK, Place, CallbacksOK, MembersOK, RecordsOK, Labels, StrandLabels, ThreadLabels

LEMMA TypeThen ==
  ASSUME AtOK', CallbacksOK', MembersOK', RecordsOK' PROVE TypeOK'
BY DEF TypeOK, AtOK, Place, CallbacksOK, MembersOK, RecordsOK, Labels, StrandLabels, ThreadLabels

LEMMA PlaceGoto ==
  ASSUME AtOK, NEW c \in Context, NEW label, Place(c, label), Goto(c, label)
  PROVE  AtOK'
BY DEF AtOK, Place, Goto, Labels, StrandLabels, ThreadLabels, CallLabels

LEMMA PlaceNotify ==
  ASSUME AtOK, NEW c \in Context, NEW label, Place(c, label), NotifyAll([at EXCEPT ![c] = label])
  PROVE  AtOK'
BY DEF AtOK, Place, NotifyAll, Labels, StrandLabels, ThreadLabels, CallLabels

LEMMA CurrentCallbackType ==
  ASSUME synchronous_user_callback_ \in Callback
  PROVE  CurrentCallback \in SessionCallback \ {NoCallback}
BY DEF CurrentCallback, SessionCallback, Sync, Feed, NoCallback

LEMMA PostType ==
  ASSUME TypeOK, NEW sessions, SetCallbackToSessions(sessions)
  PROVE  posted' \in [Session -> Seq(SessionCallback \ {NoCallback})]
<1>1. CurrentCallback \in SessionCallback \ {NoCallback}
  BY CurrentCallbackType DEF TypeOK
<1>2. QED
  BY <1>1 DEF TypeOK, SetCallbackToSessions

LEMMA StrandType ==
  ASSUME TypeOK, NEW s \in Session, StrandStep(s) \/ Deliver(s) \/ SessionCloses(s)
  PROVE  TypeOK'
<1>1. AtOK /\ CallbacksOK /\ MembersOK /\ RecordsOK /\ s \in Context
  BY TypeParts
<1>idle. Place(s, "idle") /\ Place(s, "deliver") /\ Place(s, "callback")
  BY DEF Place, StrandLabels
<1>2. CASE Install(s)
  <2>1. CallbacksOK'
    BY <1>1, <1>2 DEF Install, CallbacksOK
  <2>2. AtOK' /\ MembersOK' /\ RecordsOK'
    BY <1>1, <1>2 DEF Install, AtOK, Place, MembersOK, RecordsOK, members, slot
  <2>3. QED
    BY <2>1, <2>2, TypeThen
<1>3. CASE Deliver(s)
  <2>1. AtOK'
    BY <1>1, <1>3, <1>idle, PlaceGoto DEF Deliver
  <2>2. CallbacksOK' /\ MembersOK'
    BY <1>1, <1>3 DEF Deliver, CallbacksOK, MembersOK, members, slot, strands
  <2>3. messages + 1 \in 1 .. MaxMessages
    BY <1>1, <1>3 DEF Deliver, RecordsOK
  <2>4. RecordsOK'
    BY <1>1, <1>3, <2>3 DEF Deliver, RecordsOK
  <2>5. QED
    BY <2>1, <2>2, <2>4, TypeThen
<1>4. CASE FeedThread(s)
  <2>1. Goto(s, "idle") \/ NotifyAll([at EXCEPT ![s] = "idle"])
    BY <1>4 DEF FeedThread
  <2>2. AtOK'
    BY <1>1, <1>idle, <2>1, PlaceGoto, PlaceNotify
  <2>3. CallbacksOK' /\ MembersOK' /\ RecordsOK'
    BY <1>1, <1>4 DEF FeedThread, CallbacksOK, MembersOK, RecordsOK, members, strands
  <2>4. QED
    BY <2>2, <2>3, TypeThen
<1>5. CASE CallbackBegins(s)
  <2>1. Goto(s, "idle") \/ Goto(s, "callback")
    BY <1>5 DEF CallbackBegins
  <2>2. AtOK'
    BY <1>1, <1>idle, <2>1, PlaceGoto
  <2>3. CallbacksOK' /\ MembersOK' /\ RecordsOK'
    <3>1. CallbacksOK' /\ MembersOK'
      BY <1>1, <1>5 DEF CallbackBegins, CallbacksOK, MembersOK, members, strands
    <3>2. \/ newest' = newest /\ data' = [data EXCEPT ![s] = 0]
          \/ newest' = [newest EXCEPT ![s] = data[s]] /\ data' = data
      BY <1>5 DEF CallbackBegins
    <3>3. RecordsOK'
      <4>1. data' \in [Context -> 0 .. MaxMessages] /\ newest' \in [Session -> 0 .. MaxMessages]
        <5>1. /\ data \in [Context -> 0 .. MaxMessages] /\ newest \in [Session -> 0 .. MaxMessages]
              /\ 0 \in 0 .. MaxMessages /\ data[s] \in 0 .. MaxMessages
          BY <1>1 DEF RecordsOK
        <5>2. QED
          BY <1>1, <3>2, <5>1
      <4>2. UNCHANGED <<call, callback, calls, messages, from>>
        BY <1>5 DEF CallbackBegins
      <4>3. QED
        BY <1>1, <4>1, <4>2 DEF RecordsOK
    <3>4. QED
      BY <3>1, <3>3
  <2>4. QED
    BY <2>2, <2>3, TypeThen
<1>6. CASE CallbackEnds(s)
  <2>1. AtOK'
    BY <1>1, <1>6, <1>idle, PlaceGoto DEF CallbackEnds
  <2>2. CallbacksOK' /\ MembersOK' /\ RecordsOK'
    BY <1>1, <1>6 DEF CallbackEnds, CallbacksOK, MembersOK, RecordsOK, members, strands
  <2>3. QED
    BY <2>1, <2>2, TypeThen
<1>7. CASE SessionCloses(s)
  BY <1>7 DEF SessionCloses, TypeOK, members, slot
<1>8. QED
  BY <1>2, <1>3, <1>4, <1>5, <1>6, <1>7 DEF StrandStep

LEMMA ThreadType ==
  ASSUME TypeOK, NEW t \in Thread, ThreadStep(t) PROVE TypeOK'
<1>1. AtOK /\ CallbacksOK /\ MembersOK /\ RecordsOK /\ t \in Context
  BY TypeParts
<1>2. PICK label \in ThreadLabels : Goto(t, label)
  BY DEF ThreadStep, Test, Doze, Take, ThreadCallbackEnds, ThreadLabels
<1>3. AtOK'
  BY <1>1, <1>2, PlaceGoto DEF Place
<1>4. CallbacksOK'
  BY <1>1 DEF ThreadStep, Test, Doze, Take, ThreadCallbackEnds, CallbacksOK, strands
<1>5. MembersOK'
  BY <1>1 DEF ThreadStep, Test, Doze, Take, ThreadCallbackEnds, MembersOK, members, slot, strands
<1>6. GivenNow \in [Session -> 0 .. MaxMessages]
  BY <1>1 DEF GivenNow, MembersOK, RecordsOK
<1>7. RecordsOK'
  <2>1. /\ UNCHANGED <<call, callback, calls, messages, from>>
        /\ newest' = newest \/ newest' = GivenNow
        /\ \E m \in 0 .. MaxMessages : data' = data \/ data' = [data EXCEPT ![t] = m]
    BY <1>1 DEF ThreadStep, Test, Doze, Take, ThreadCallbackEnds, MembersOK
  <2>2. data' \in [Context -> 0 .. MaxMessages]
    BY <1>1, <2>1 DEF RecordsOK
  <2>3. QED
    BY <1>1, <1>6, <2>1, <2>2 DEF RecordsOK
<1>8. QED
  BY <1>3, <1>4, <1>5, <1>7, TypeThen

LEMMA CallType ==
  ASSUME TypeOK, NEW c \in Context, Begin(c) \/ CallStep(c) PROVE TypeOK'
<1>1. AtOK /\ CallbacksOK /\ MembersOK /\ RecordsOK
  BY TypeParts
<1>call. \A label \in CallLabels : Place(c, label)
  BY DEF Place
<1>home. ASSUME EndCall(c) PROVE AtOK' /\ call' \in [Context -> CallRecord]
  <2>1. Place(c, Home(c))
    BY DEF Place, Home, StrandLabels, ThreadLabels
  <2>2. AtOK'
    BY <1>1, <1>home, <2>1, PlaceGoto DEF EndCall
  <2>3. NoCall \in CallRecord
    BY DEF NoCall, NewCall, CallRecord, Callback
  <2>4. QED
    BY <1>1, <1>home, <2>2, <2>3 DEF EndCall, RecordsOK
<1>2. ASSUME NEW op \in Calls, BeginCall(c, op) PROVE TypeOK'
  <2>1. Goto(c, "cancelSessions") \/ Goto(c, "stop")
    BY <1>2 DEF BeginCall
  <2>2. AtOK'
    BY <1>1, <1>call, <2>1, PlaceGoto DEF CallLabels
  <2>3. calls + 1 \in Callback
    BY <1>1, <1>2 DEF BeginCall, Callback, RecordsOK
  <2>4. NewCall(op, calls + 1, {}) \in CallRecord
    BY <2>3 DEF NewCall, CallRecord
  <2>5. CallbacksOK' /\ MembersOK' /\ RecordsOK'
    BY <1>1, <1>2, <2>3, <2>4 DEF BeginCall, CallbacksOK, MembersOK, RecordsOK, members, slot, strands
  <2>6. QED
    BY <2>2, <2>5, TypeThen
<1>3. ASSUME NEW s \in Session, AddSession(c, s) PROVE TypeOK'
  <2>1. AtOK'
    BY <1>1, <1>3, <1>call, PlaceGoto DEF AddSession, CallLabels
  <2>2. CallbacksOK'
    BY <1>1, <1>3, PostType DEF AddSession, CallbacksOK
  <2>3. NewCall("addSession", 0, {s}) \in CallRecord
    BY DEF NewCall, CallRecord, Calls, Callback
  <2>4. MembersOK' /\ RecordsOK'
    BY <1>1, <1>3, <2>3 DEF AddSession, MembersOK, RecordsOK, members, slot
  <2>5. QED
    BY <2>1, <2>2, <2>4, TypeThen
<1>4. CASE ListSession(c)
  BY <1>1, <1>4, <1>home, TypeThen
     DEF ListSession, CallbacksOK, MembersOK, RecordsOK, CallRecord, members, slot
<1>5. CASE RenewCallbacks(c)
  <2>1. CallbacksOK'
    BY <1>1, <1>5, PostType DEF RenewCallbacks, CallbacksOK
  <2>2. QED
    BY <1>1, <1>5, <1>home, <2>1, TypeThen
       DEF RenewCallbacks, MembersOK, RecordsOK, members, slot
<1>6. CASE ForgetCallback(c)
  BY <1>1, <1>6, <1>home, TypeThen
     DEF ForgetCallback, CallbacksOK, MembersOK, RecordsOK, slot, strands, Callback
<1>7. CASE CancelSessions(c) \/ StopThread(c) \/ JoinThread(c) \/ ClearSlot(c)
  <2>1. PICK label \in CallLabels : Goto(c, label)
    BY <1>7 DEF CancelSessions, StopThread, JoinThread, ClearSlot, Onwards, CallLabels
  <2>2. AtOK'
    BY <1>1, <1>call, <2>1, PlaceGoto
  <2>3. CallbacksOK' /\ MembersOK' /\ RecordsOK'
    <3>1. CASE CancelSessions(c)
      BY <1>1, <3>1 DEF CancelSessions, CallbacksOK, MembersOK, RecordsOK, members, slot
    <3>2. CASE StopThread(c) \/ JoinThread(c)
      BY <1>1, <3>2
         DEF StopThread, JoinThread, CallbacksOK, MembersOK, RecordsOK, slot, strands
    <3>3. CASE ClearSlot(c)
      BY <1>1, <3>3 DEF ClearSlot, CallbacksOK, MembersOK, RecordsOK, members, strands
    <3>4. QED
      BY <1>7, <3>1, <3>2, <3>3
  <2>4. QED
    BY <2>2, <2>3, TypeThen
<1>8. CASE NotifyThread(c)
  <2>1. AtOK'
    BY <1>1, <1>8, <1>call, PlaceNotify DEF NotifyThread, CallLabels
  <2>2. QED
    BY <1>1, <1>8, <2>1, TypeThen
       DEF NotifyThread, CallbacksOK, MembersOK, RecordsOK, members, slot, strands
<1>9. CASE Switch(c)
  <2>1. Goto(c, "clear") \/ Goto(c, "spawn")
    BY <1>9 DEF Switch
  <2>2. AtOK'
    BY <1>1, <1>call, <2>1, PlaceGoto DEF CallLabels
  <2>3. Renew(c) \in BOOLEAN
    BY <1>1 DEF Renew, MembersOK
  <2>4. [call[c] EXCEPT !.renew = Renew(c)] \in CallRecord /\ call[c].number \in Callback
    <3>1. call[c] \in CallRecord
      BY <1>1 DEF RecordsOK
    <3>2. call[c].number \in Callback
      BY <3>1 DEF CallRecord
    <3>3. [call[c] EXCEPT !.renew = Renew(c)] \in CallRecord
      BY <2>3, <3>1 DEF CallRecord
    <3>4. QED
      BY <3>2, <3>3
  <2>5. CallbacksOK' /\ MembersOK' /\ RecordsOK'
    <3>1. CallbacksOK' /\ MembersOK'
      BY <1>1, <1>9, <2>4 DEF Switch, CallbacksOK, MembersOK, slot, strands, Callback
    <3>2. call' = [call EXCEPT ![c] = [@ EXCEPT !.renew = Renew(c)]]
      BY <1>9 DEF Switch
    <3>3. RecordsOK'
      BY <1>1, <1>9, <2>4, <3>2 DEF Switch, RecordsOK
    <3>4. QED
      BY <3>1, <3>3
  <2>6. QED
    BY <2>2, <2>5, TypeThen
<1>10. CASE SpawnThread(c)
  <2>1. PICK t \in Thread : /\ at' = [at EXCEPT ![t] = "test", ![c] = "renew"]
                            /\ callback_thread_' = t
                            /\ callback' = [callback EXCEPT ![t] = call[c].number]
    BY <1>10 DEF SpawnThread
  <2>2. AtOK'
    BY <1>1, <2>1 DEF AtOK, Place, Labels, ThreadLabels, CallLabels, StrandLabels
  <2>3. call[c].number \in Callback
    BY <1>1 DEF RecordsOK, CallRecord
  <2>4. CallbacksOK' /\ MembersOK' /\ RecordsOK'
    BY <1>1, <1>10, <2>1, <2>3
       DEF SpawnThread, CallbacksOK, MembersOK, RecordsOK, slot, strands
  <2>5. QED
    BY <2>2, <2>4, TypeThen
<1>11. QED
  BY <1>2, <1>3, <1>4, <1>5, <1>6, <1>7, <1>8, <1>9, <1>10 DEF Begin, CallStep

LEMMA SubscriberInitType == Init => TypeOK
<1> SUFFICES ASSUME Init PROVE TypeOK
  OBVIOUS
<1>1. AtOK
  BY DEF Init, AtOK, Place, Labels, StrandLabels, ThreadLabels, CallLabels
<1>2. CallbacksOK
  BY DEF Init, CallbacksOK, SessionCallback
<1>3. MembersOK /\ RecordsOK
  BY DEF Init, MembersOK, RecordsOK, Callback, NoCall, NewCall, CallRecord
<1>4. QED
  BY <1>1, <1>2, <1>3, TypeParts

LEMMA SubscriberStepType == TypeOK /\ [Next]_vars => TypeOK'
<1>1. TypeOK /\ UNCHANGED vars => TypeOK'
  BY DEF vars, members, slot, strands, TypeOK
<1>2. QED
  BY <1>1, StrandType, ThreadType, CallType DEF Next

(* The variables keep their types, for any callers and any calls.          *)
THEOREM SubscriberTypeCorrect == Spec => []TypeOK
BY SubscriberInitType, SubscriberStepType, PTL DEF Spec

-----------------------------------------------------------------------------
(* Control is kept.                                                        *)

(* Context c goes to a label; threads that sleep may be woken.             *)
Goes(c, label) ==
  /\ at'[c] = label
  /\ \A d \in Context \ {c} :
       at'[d] = at[d] \/ (d \in Thread /\ at[d] = "asleep" /\ at'[d] = "test")

LEMMA GotoGoes ==
  ASSUME AtOK, NEW c \in Context, NEW label, Goto(c, label) PROVE Goes(c, label)
BY DEF AtOK, Goto, Goes

LEMMA NotifyGoes ==
  ASSUME AtOK, NEW c \in Context, NEW label, label # "asleep",
         NotifyAll([at EXCEPT ![c] = label])
  PROVE  Goes(c, label)
BY DEF AtOK, Place, NotifyAll, Goes, StrandLabels, CallLabels

(* A step outside of calls.                                                *)
CallsKept ==
  /\ UNCHANGED <<members, canceled_, call>>
  /\ \A c \in Context : at[c] \in CallLabels \/ at'[c] \in CallLabels => at'[c] = at[c]

(* A strand's step moves the strand, and perhaps wakes threads.            *)
LEMMA StrandMoves ==
  ASSUME AtOK, NEW s \in Session, StrandStep(s) \/ Deliver(s) \/ SessionCloses(s)
  PROVE  /\ CallsKept
         /\ at[s] \in StrandLabels /\ at'[s] \in StrandLabels
         /\ \A d \in Context \ {s} :
              at'[d] = at[d] \/ (d \in Thread /\ at[d] = "asleep" /\ at'[d] = "test")
<1>1. \/ at' = at /\ at[s] = "idle"
      \/ at[s] \in StrandLabels /\ \E label \in StrandLabels : Goes(s, label)
  <2>1. CASE Install(s) \/ SessionCloses(s)
    BY <2>1 DEF Install, SessionCloses
  <2>2. CASE Deliver(s) \/ CallbackBegins(s) \/ CallbackEnds(s)
    BY <2>2, GotoGoes DEF Deliver, CallbackBegins, CallbackEnds, StrandLabels
  <2>3. CASE FeedThread(s)
    BY <2>3, GotoGoes, NotifyGoes DEF FeedThread, StrandLabels
  <2>4. QED
    BY <2>1, <2>2, <2>3 DEF StrandStep
<1>2. UNCHANGED <<members, canceled_, call>>
  BY DEF StrandStep, Deliver, SessionCloses, Install, FeedThread, CallbackBegins, CallbackEnds, strands
<1>3. QED
  BY <1>1, <1>2 DEF Goes, CallsKept, CallLabels, StrandLabels

LEMMA ThreadMoves ==
  ASSUME AtOK, NEW t \in Thread, ThreadStep(t)
  PROVE  /\ CallsKept
         /\ \A d \in Context \ {t} : at'[d] = at[d]
<1>1. at[t] \in ThreadLabels /\ \E label \in ThreadLabels : Goto(t, label)
  BY DEF ThreadStep, Test, Doze, Take, ThreadCallbackEnds, ThreadLabels
<1>2. at'[t] \in ThreadLabels /\ \A d \in Context \ {t} : at'[d] = at[d]
  BY <1>1 DEF Goto, AtOK
<1>3. UNCHANGED <<members, canceled_, call>>
  BY DEF ThreadStep, Test, Doze, Take, ThreadCallbackEnds, strands
<1>4. QED
  BY <1>1, <1>2, <1>3 DEF CallsKept, CallLabels, ThreadLabels

(* What a step of a call does to the labels: no other call is made, and    *)
(* the context it runs on stays in the call, or goes back home.            *)
Alone(c) ==
  /\ at[c] \in CallLabels \cup {Home(c)} /\ at'[c] \in CallLabels \cup {Home(c)}
  /\ \A d \in Context \ {c} :
       /\ at[d] \notin CallLabels
       /\ \/ at'[d] = at[d]
          \/ d \in Thread /\ at[d] \in {"asleep", "none"} /\ at'[d] = "test"

LEMMA CallMoves ==
  ASSUME AtOK, Control, Sequential, NEW c \in Context, Begin(c) \/ CallStep(c)
  PROVE  Alone(c)
<1>1. at[c] \in CallLabels \cup {Home(c)}
  BY DEF Begin, CallStep, BeginCall, AddSession, MayCall, ListSession, CancelSessions, StopThread,
         NotifyThread, JoinThread, Switch, ClearSlot, SpawnThread, RenewCallbacks, ForgetCallback,
         CallLabels
<1>2. \A d \in Context \ {c} : at[d] \notin CallLabels
  <2>1. CASE Begin(c)
    BY <2>1 DEF Begin, BeginCall, AddSession, MayCall, NoCalls, Sequential
  <2>2. CASE CallStep(c)
    <3>1. at[c] \in CallLabels
      BY <2>2 DEF CallStep, ListSession, CancelSessions, StopThread, NotifyThread, JoinThread,
                  Switch, ClearSlot, SpawnThread, RenewCallbacks, ForgetCallback, CallLabels
    <3>2. QED
      BY <3>1 DEF Control
  <2>3. QED
    BY <2>1, <2>2
<1>3. CASE NotifyThread(c)
  <2>1. Goes(c, "join")
    BY <1>3, NotifyGoes DEF NotifyThread
  <2>2. QED
    BY <1>1, <1>2, <2>1 DEF Goes, Alone, CallLabels
<1>4. CASE SpawnThread(c)
  <2>1. PICK t \in Thread : at[t] = "none" /\ at' = [at EXCEPT ![t] = "test", ![c] = "renew"]
    BY <1>4 DEF SpawnThread
  <2>2. at'[c] = "renew" /\ at'[t] \in {"test", "renew"} /\ \A d \in Context \ {c, t} : at'[d] = at[d]
    BY <2>1 DEF AtOK
  <2>3. c # t
    BY <1>4, <2>1 DEF SpawnThread
  <2>4. at'[t] = "test"
    BY <2>1, <2>3 DEF AtOK
  <2>5. QED
    BY <1>1, <1>2, <2>1, <2>2, <2>4 DEF Alone, CallLabels
<1>5. CASE ~ NotifyThread(c) /\ ~ SpawnThread(c)
  <2>1. \E label \in CallLabels \cup {Home(c)} : Goto(c, label)
    BY <1>5
       DEF Begin, CallStep, BeginCall, AddSession, ListSession, CancelSessions, StopThread,
           JoinThread, Switch, ClearSlot, RenewCallbacks, ForgetCallback, EndCall, Onwards, CallLabels
  <2>2. QED
    BY <1>1, <1>2, <2>1 DEF Alone, Goto, AtOK
<1>6. QED
  BY <1>3, <1>4, <1>5

(* One step lemma for all calls: only what the caller does is left.        *)
LEMMA CallerControl ==
  ASSUME Control, NEW c \in Context, Alone(c), CallPlace(c)',
         callback_thread_' = NoThread => callback_thread_stop_',
         user_callback_is_synchronous_' => callback_thread_' = NoThread
  PROVE  Control'
<1>1. \A d \in Context \ {c} : at'[d] \notin CallLabels
  BY DEF Alone, CallLabels
<1>2. \A d \in Context : CallPlace(d)'
  BY <1>1 DEF CallPlace, CallLabels
<1>3. QED
  BY <1>1, <1>2 DEF Control

LEMMA CallControl ==
  ASSUME TypeOK, Control, Sequential, NEW c \in Context, Begin(c) \/ CallStep(c)
  PROVE  Control'
<1>1. AtOK /\ Alone(c) /\ CallPlace(c)
  BY TypeParts, CallMoves DEF Control
<1>2. CASE Begin(c) \/ ListSession(c) \/ CancelSessions(c) \/ RenewCallbacks(c)
  <2>1. UNCHANGED members
    BY <1>2 DEF Begin, BeginCall, AddSession, ListSession, CancelSessions, RenewCallbacks
  <2>2. at'[c] \in {"cancelSessions", "stop", "list", Home(c)}
    BY <1>1, <1>2 DEF Begin, BeginCall, AddSession, ListSession, CancelSessions, RenewCallbacks,
                      EndCall, Goto, AtOK
  <2>3. CallPlace(c)'
    BY <2>2 DEF CallPlace, Home
  <2>4. QED
    BY <1>1, <2>1, <2>3, CallerControl DEF Control, members
<1>3. CASE StopThread(c)
  <2>1. /\ callback_thread_' = callback_thread_
        /\ user_callback_is_synchronous_' = user_callback_is_synchronous_
        /\ IF callback_thread_ = NoThread
           THEN /\ at'[c] \in {"forget", "switch"}
                /\ callback_thread_stop_' = callback_thread_stop_
           ELSE at'[c] = "notify" /\ callback_thread_stop_' = TRUE
    BY <1>1, <1>3 DEF StopThread, Onwards, Goto, AtOK
  <2>2. CallPlace(c)'
    BY <2>1 DEF CallPlace
  <2>3. QED
    BY <1>1, <2>1, <2>2, CallerControl DEF Control
<1>4. CASE NotifyThread(c)
  <2>1. UNCHANGED members /\ at[c] = "notify" /\ at'[c] = "join"
    BY <1>1, <1>4, NotifyGoes DEF NotifyThread, Goes
  <2>2. CallPlace(c)'
    BY <1>1, <2>1 DEF CallPlace, members
  <2>3. QED
    BY <1>1, <2>1, <2>2, CallerControl DEF Control, members
<1>5. CASE JoinThread(c)
  <2>1. /\ callback_thread_' = NoThread /\ at'[c] \in {"forget", "switch"}
        /\ callback_thread_stop_' = callback_thread_stop_ /\ at[c] = "join"
    BY <1>1, <1>5 DEF JoinThread, Onwards, Goto, AtOK
  <2>2. CallPlace(c)' /\ callback_thread_stop_
    BY <1>1, <2>1 DEF CallPlace
  <2>3. QED
    BY <1>1, <2>1, <2>2, CallerControl
<1>6. CASE Switch(c)
  <2>1. /\ UNCHANGED <<callback_thread_, callback_thread_stop_>> /\ at[c] = "switch"
        /\ \/ user_callback_is_synchronous_' /\ at'[c] = "clear"
           \/ ~ user_callback_is_synchronous_' /\ at'[c] = "spawn"
    BY <1>1, <1>6 DEF Switch, Goto, AtOK
  <2>2. callback_thread_ = NoThread
    BY <1>1, <2>1 DEF CallPlace
  <2>3. CallPlace(c)'
    BY <2>1, <2>2 DEF CallPlace
  <2>4. QED
    BY <1>1, <2>1, <2>2, <2>3, CallerControl DEF Control
<1>7. CASE ClearSlot(c)
  <2>1. UNCHANGED members /\ at'[c] = "renew"
    BY <1>1, <1>7 DEF ClearSlot, Goto, AtOK
  <2>2. CallPlace(c)'
    BY <2>1 DEF CallPlace
  <2>3. QED
    BY <1>1, <2>1, <2>2, CallerControl DEF Control, members
<1>8. CASE SpawnThread(c)
  <2>1. /\ callback_thread_' \in Thread /\ at'[c] = "renew" /\ at[c] = "spawn"
        /\ user_callback_is_synchronous_' = user_callback_is_synchronous_
    BY <1>1, <1>8 DEF SpawnThread, AtOK
  <2>2. CallPlace(c)' /\ ~ user_callback_is_synchronous_
    BY <1>1, <2>1 DEF CallPlace
  <2>3. QED
    BY <1>1, <2>1, <2>2, CallerControl
<1>9. CASE ForgetCallback(c)
  <2>1. /\ UNCHANGED <<callback_thread_, callback_thread_stop_>>
        /\ at[c] = "forget" /\ at'[c] = Home(c)
    BY <1>1, <1>9 DEF ForgetCallback, EndCall, Goto, AtOK
  <2>2. CallPlace(c)' /\ callback_thread_ = NoThread
    BY <1>1, <2>1 DEF CallPlace, Home
  <2>3. QED
    BY <1>1, <2>1, <2>2, CallerControl DEF Control
<1>10. QED
  BY <1>2, <1>3, <1>4, <1>5, <1>6, <1>7, <1>8, <1>9 DEF CallStep

LEMMA ControlInit == Init => Control
BY DEF Init, Control, CallPlace, CallLabels

LEMMA ControlStep == TypeOK /\ Control /\ Sequential /\ [Next]_vars => Control'
<1> SUFFICES ASSUME TypeOK, Control, Sequential, [Next]_vars PROVE Control'
  OBVIOUS
<1>1. CallsKept => Control'
  <2> SUFFICES ASSUME CallsKept PROVE Control'
    OBVIOUS
  <2>1. \A c \in Context : CallPlace(c)'
    BY DEF CallsKept, Control, CallPlace, CallLabels, members
  <2>2. QED
    BY <2>1 DEF CallsKept, Control, members
<1>2. UNCHANGED vars => CallsKept
  BY DEF vars, strands, CallsKept
<1>3. QED
  BY <1>1, <1>2, TypeParts, StrandMoves, ThreadMoves, CallControl DEF Next

(* Where calls stand agrees with the callback thread there is, for any     *)
(* callers.                                                                *)
THEOREM ControlAlways == ASSUME Sequential PROVE Spec => [](TypeOK /\ Control)
<1>1. Init => TypeOK /\ Control
  BY SubscriberInitType, ControlInit
<1>2. TypeOK /\ Control /\ [Next]_vars => (TypeOK /\ Control)'
  BY SubscriberStepType, ControlStep
<1>3. QED
  BY <1>1, <1>2, PTL DEF Spec

-----------------------------------------------------------------------------
(* The slot is free while a synchronous callback is set.                   *)

LEMMA FreedInit == Init => Freed
BY DEF Init, Freed

LEMMA FreedOutside ==
  ASSUME Freed, CallsKept,
         last_callback_data_' \in {last_callback_data_, 0} \/ ~ user_callback_is_synchronous_
  PROVE  Freed'
<1>1. Clearing => Clearing'
  BY DEF Clearing, CallsKept, CallLabels
<1>2. QED
  BY <1>1 DEF Freed, CallsKept, members

LEMMA FreedCall ==
  ASSUME TypeOK, Control, Freed, Sequential, NEW c \in Context, Begin(c) \/ CallStep(c)
  PROVE  Freed'
<1>1. AtOK /\ Alone(c)
  BY TypeParts, CallMoves
<1>2. CASE Switch(c)
  <2>1. \/ user_callback_is_synchronous_' /\ at'[c] = "clear"
        \/ synchronous_user_callback_' = 0
    BY <1>1, <1>2 DEF Switch, Goto, AtOK
  <2>2. QED
    BY <2>1 DEF Freed, Clearing
<1>3. CASE ClearSlot(c)
  BY <1>3 DEF ClearSlot, Freed, members
<1>4. CASE ForgetCallback(c)
  BY <1>4 DEF ForgetCallback, Freed
<1>5. CASE ~ (Switch(c) \/ ClearSlot(c) \/ ForgetCallback(c))
  <2>1. at[c] # "clear"
    BY <1>5
       DEF Begin, CallStep, BeginCall, AddSession, MayCall, Home, ListSession, CancelSessions,
           StopThread, NotifyThread, JoinThread, SpawnThread, RenewCallbacks
  <2>2. ~ Clearing
    BY <1>1, <2>1 DEF Clearing, Alone, CallLabels
  <2>3. /\ synchronous_user_callback_' = synchronous_user_callback_
        /\ user_callback_is_synchronous_' = user_callback_is_synchronous_
        /\ last_callback_data_' = last_callback_data_
    BY <1>5
       DEF Begin, CallStep, BeginCall, AddSession, ListSession, CancelSessions, StopThread,
           NotifyThread, JoinThread, SpawnThread, RenewCallbacks, members, slot
  <2>4. QED
    BY <2>2, <2>3 DEF Freed
<1>6. QED
  BY <1>2, <1>3, <1>4, <1>5

LEMMA FreedStep == TypeOK /\ Control /\ Freed /\ Sequential /\ [Next]_vars => Freed'
<1> SUFFICES ASSUME TypeOK, Control, Freed, Sequential, [Next]_vars PROVE Freed'
  OBVIOUS
<1>1. ASSUME NEW s \in Session, StrandStep(s) \/ Deliver(s) \/ SessionCloses(s) PROVE Freed'
  <2>1. last_callback_data_' = last_callback_data_ \/ ~ user_callback_is_synchronous_
    BY <1>1 DEF StrandStep, Deliver, SessionCloses, Install, FeedThread, CallbackBegins,
                CallbackEnds, slot
  <2>2. QED
    BY <1>1, <2>1, TypeParts, StrandMoves, FreedOutside
<1>2. ASSUME NEW t \in Thread, ThreadStep(t) PROVE Freed'
  <2>1. last_callback_data_' \in {last_callback_data_, 0}
    BY <1>2 DEF ThreadStep, Test, Doze, Take, ThreadCallbackEnds, slot
  <2>2. QED
    BY <1>2, <2>1, TypeParts, ThreadMoves, FreedOutside
<1>3. CASE UNCHANGED vars
  BY <1>3 DEF vars, members, slot, Freed, Clearing
<1>4. QED
  BY <1>1, <1>2, <1>3, FreedCall DEF Next

(* Between calls no message is kept for a callback thread while a          *)
(* synchronous callback is set, whoever set it, also in a callback.        *)
THEOREM SlotAlwaysFreed == ASSUME Sequential PROVE Spec => []SlotFreed
<1>1. Freed => SlotFreed
  BY DEF Freed, SlotFreed, NoCalls, Clearing, CallLabels
<1>2. QED
  BY <1>1, FreedInit, FreedStep, ControlAlways, PTL DEF Spec

-----------------------------------------------------------------------------
(* Which sessions can still deliver.                                       *)

LEMMA ListedInit == Init => Listed
BY DEF Init, Listed, Knows

LEMMA ListedStrand ==
  ASSUME TypeOK, Listed, NEW s \in Session, StrandStep(s) \/ Deliver(s) \/ SessionCloses(s)
  PROVE  Listed'
<1>1. AtOK /\ CallbacksOK /\ RecordsOK
  BY TypeParts
<1>2. UNCHANGED <<canceled_, call>> /\ session_list_' \subseteq session_list_
  BY DEF StrandStep, Deliver, SessionCloses, Install, FeedThread, CallbackBegins, CallbackEnds, strands
<1>3. \A c \in Context : at'[c] \in CallLabels => at'[c] = at[c]
  BY <1>1, StrandMoves DEF CallsKept
<1>4. \A z \in Session : at'[z] # "idle" => z \in session_list_'
  <2>1. CASE SessionCloses(s)
    BY <2>1 DEF SessionCloses, Listed
  <2>2. CASE ~ SessionCloses(s)
    <3>1. session_list_' = session_list_
      BY <2>2 DEF StrandStep, Deliver, Install, FeedThread, CallbackBegins, CallbackEnds, strands
    <3>2. \A z \in Session \ {s} : at'[z] = at[z]
      BY <1>1, StrandMoves
    <3>3. at'[s] # "idle" => s \in session_list_
      BY <1>1, <2>2 DEF StrandStep, Deliver, Install, FeedThread, CallbackBegins, CallbackEnds,
                        AtOK, Goto, NotifyAll, Listed
    <3>4. QED
      BY <3>1, <3>2, <3>3 DEF Listed
  <2>3. QED
    BY <2>1, <2>2
<1>5. /\ messages \in Nat
      /\ \/ messages' = messages /\ from' = from
         \/ /\ messages' = messages + 1 /\ from' = [from EXCEPT ![messages + 1] = s]
            /\ s \in session_list_ /\ synchronous_callback_[s] # NoCallback
            /\ messages + 1 \in 1 .. MaxMessages
  BY <1>1 DEF StrandStep, Deliver, SessionCloses, Install, FeedThread, CallbackBegins, CallbackEnds,
              RecordsOK
<1>6. \A m \in 1 .. messages' :
         \/ m \in 1 .. messages /\ from'[m] = from[m]
         \/ m = messages + 1 /\ messages' = m /\ from'[m] = s
  <2>1. CASE messages' = messages /\ from' = from
    BY <2>1
  <2>2. CASE messages' = messages + 1 /\ from' = [from EXCEPT ![messages + 1] = s]
    <3>1. DOMAIN from = 1 .. MaxMessages /\ messages + 1 \in 1 .. MaxMessages
      BY <1>1, <1>5, <2>2 DEF RecordsOK
    <3>2. from'[messages + 1] = s /\ \A m \in 1 .. messages : from'[m] = from[m]
      BY <1>5, <2>2, <3>1
    <3>3. QED
      BY <1>5, <2>2, <3>2
  <2>3. QED
    BY <1>5, <2>1, <2>2
<1>7. \A c \in Context : Knows(c)'
  <2>1. TAKE c \in Context
  <2>2. CASE at'[c] = "list"
    <3>1. at[c] = "list"
      BY <1>3, <2>2 DEF CallLabels
    <3>2. call'[c].sessions \cap session_list_ = {}
      BY <1>2, <3>1 DEF Listed, Knows
    <3>3. ASSUME NEW z \in call'[c].sessions, NEW m \in 1 .. messages' PROVE from'[m] # z
      <4>1. CASE m \in 1 .. messages /\ from'[m] = from[m]
        BY <1>2, <3>1, <4>1 DEF Listed, Knows
      <4>2. CASE m = messages + 1 /\ messages' = m /\ from'[m] = s
        <5>1. messages' = messages + 1 /\ s \in session_list_
          BY <1>5, <4>2
        <5>2. QED
          BY <3>2, <4>2, <5>1
      <4>3. QED
        BY <1>6, <4>1, <4>2
    <3>4. QED
      BY <1>2, <2>2, <3>2, <3>3 DEF Knows
  <2>3. CASE at'[c] # "list"
    BY <1>2, <1>3, <2>3 DEF Listed, Knows, CallLabels
  <2>4. QED
    BY <2>2, <2>3
<1>8. \A m \in 1 .. messages', z \in Session :
         from'[m] = z => synchronous_callback_'[z] # NoCallback
  <2>1. CASE Install(s)
    <3>1. synchronous_callback_'[s] # NoCallback
      BY <1>1, <2>1 DEF Install, CallbacksOK
    <3>2. \A z \in Session \ {s} : synchronous_callback_'[z] = synchronous_callback_[z]
      BY <1>1, <2>1 DEF Install, CallbacksOK
    <3>3. QED
      BY <2>1, <3>1, <3>2 DEF Install, Listed
  <2>2. CASE ~ Install(s)
    <3>1. synchronous_callback_' = synchronous_callback_
      BY <2>2 DEF StrandStep, Deliver, SessionCloses, FeedThread, CallbackBegins, CallbackEnds, strands
    <3>2. QED
      BY <1>5, <1>6, <3>1 DEF Listed
  <2>3. QED
    BY <2>1, <2>2
<1>9. QED
  BY <1>4, <1>7, <1>8 DEF Listed

LEMMA ListedCall ==
  ASSUME TypeOK, Control, Sequential, Listed, NEW c \in Context, Begin(c) \/ CallStep(c)
  PROVE  Listed'
<1>1. AtOK /\ RecordsOK /\ Alone(c) /\ Knows(c)
  BY TypeParts, CallMoves DEF Listed
<1>2. UNCHANGED <<synchronous_callback_, messages, from>>
  BY DEF Begin, CallStep, BeginCall, AddSession, ListSession, CancelSessions, StopThread, NotifyThread,
         JoinThread, Switch, ClearSlot, SpawnThread, RenewCallbacks, ForgetCallback, strands
<1>3. session_list_ \subseteq session_list_'
  BY DEF Begin, CallStep, BeginCall, AddSession, ListSession, CancelSessions, StopThread, NotifyThread,
         JoinThread, Switch, ClearSlot, SpawnThread, RenewCallbacks, ForgetCallback, strands
<1>4. \A s \in Session : at'[s] # "idle" => s \in session_list_'
  <2>1. \A s \in Session : at'[s] # "idle" => at[s] # "idle"
    BY <1>1 DEF Alone, Home, CallLabels
  <2>2. QED
    BY <1>3, <2>1 DEF Listed
<1>5. \A d \in Context \ {c} : Knows(d)'
  BY <1>1 DEF Alone, Knows, CallLabels
<1>6. Knows(c)'
  <2>1. ASSUME NEW op \in Calls, BeginCall(c, op) PROVE Knows(c)'
    <3>1. call'[c].op = op
      BY <1>1, <2>1 DEF BeginCall, RecordsOK, NewCall
    <3>2. at'[c] = IF op = "cancel" THEN "cancelSessions" ELSE "stop"
      BY <1>1, <2>1 DEF BeginCall, Goto, AtOK
    <3>3. QED
      BY <3>1, <3>2 DEF Knows
  <2>2. ASSUME NEW s \in Session, AddSession(c, s) PROVE Knows(c)'
    <3>1. call'[c].sessions = {s} /\ session_list_' = session_list_ /\ s \notin session_list_
      BY <1>1, <2>2 DEF AddSession, RecordsOK, NewCall
    <3>2. at'[c] = "list"
      BY <1>1, <2>2 DEF AddSession, Goto, AtOK
    <3>3. \A m \in 1 .. messages : from[m] # s
      BY <2>2 DEF AddSession, Listed
    <3>4. QED
      BY <1>2, <3>1, <3>2, <3>3 DEF Knows
  <2>3. CASE ListSession(c) \/ RenewCallbacks(c) \/ ForgetCallback(c)
    <3>1. at'[c] = Home(c)
      BY <1>1, <2>3 DEF ListSession, RenewCallbacks, ForgetCallback, EndCall, Goto, AtOK
    <3>2. QED
      BY <3>1 DEF Knows, Home
  <2>4. CASE CancelSessions(c)
    <3>1. at'[c] = "stop" /\ session_list_' \subseteq canceled_'
      BY <1>1, <2>4 DEF CancelSessions, Goto, AtOK
    <3>2. QED
      BY <3>1 DEF Knows
  <2>5. CASE StopThread(c) \/ NotifyThread(c) \/ JoinThread(c)
    <3>1. UNCHANGED <<call, session_list_, canceled_>> /\ at[c] \in {"stop", "notify", "join"}
      BY <2>5 DEF StopThread, NotifyThread, JoinThread, strands
    <3>2. at'[c] \in {"notify", "join", Onwards(c)}
      <4>1. CASE NotifyThread(c)
        BY <1>1, <4>1, NotifyGoes DEF NotifyThread, Goes
      <4>2. CASE StopThread(c) \/ JoinThread(c)
        BY <1>1, <4>2 DEF StopThread, JoinThread, Goto, AtOK
      <4>3. QED
        BY <2>5, <4>1, <4>2
    <3>3. QED
      BY <1>1, <3>1, <3>2 DEF Knows, Onwards
  <2>6. CASE Switch(c) \/ ClearSlot(c) \/ SpawnThread(c)
    <3>1. at'[c] \in {"clear", "spawn", "renew"}
      BY <1>1, <2>6 DEF Switch, ClearSlot, SpawnThread, Goto, AtOK
    <3>2. QED
      BY <3>1 DEF Knows
  <2>7. QED
    BY <2>1, <2>2, <2>3, <2>4, <2>5, <2>6 DEF Begin, CallStep
<1>7. QED
  BY <1>2, <1>4, <1>5, <1>6 DEF Listed

LEMMA ListedStep == TypeOK /\ Control /\ Listed /\ Sequential /\ [Next]_vars => Listed'
<1> SUFFICES ASSUME TypeOK, Control, Listed, Sequential, [Next]_vars PROVE Listed'
  OBVIOUS
<1>1. ASSUME NEW t \in Thread, ThreadStep(t) PROVE Listed'
  <2>1. AtOK
    BY TypeParts
  <2>2. UNCHANGED <<strands, call, messages, from>>
    BY <1>1 DEF ThreadStep, Test, Doze, Take, ThreadCallbackEnds
  <2>3. \A c \in Context : at'[c] \in CallLabels => at'[c] = at[c]
    BY <1>1, <2>1, ThreadMoves DEF CallsKept
  <2>4. \A s \in Session : at'[s] = at[s]
    BY <1>1, <2>1, ThreadMoves
  <2>5. \A c \in Context : Knows(c)'
    BY <2>2, <2>3 DEF Listed, Knows, strands, CallLabels
  <2>6. QED
    BY <2>2, <2>4, <2>5 DEF Listed, strands
<1>2. CASE UNCHANGED vars
  BY <1>2 DEF vars, strands, Listed, Knows
<1>3. QED
  BY <1>1, <1>2, ListedStrand, ListedCall DEF Next

-----------------------------------------------------------------------------
(* Messages are given in order.                                            *)

LEMMA OrderedInit == Init => Ordered
BY DEF Init, Ordered, InOrder, CameFrom

(* A step that handles no message.                                         *)
LEMMA OrderedKept ==
  ASSUME Ordered, UNCHANGED <<last_callback_data_, newest, messages, from>>,
         \A s \in Session : at'[s] = "deliver" => at[s] = "deliver" /\ data'[s] = data[s],
         canceled_ \subseteq canceled_', Clearing => Clearing',
         \A s \in Session :
            /\ CameFrom(last_callback_data_, s) /\ s \notin canceled_'
            /\ ~ Clearing' /\ user_callback_is_synchronous_'
            => s \notin session_list_'
  PROVE  Ordered'
<1>1. ASSUME NEW s \in Session PROVE InOrder(s)'
  BY <1>1 DEF Ordered, InOrder, CameFrom
<1>2. QED
  BY <1>1 DEF Ordered

LEMMA OrderedStrand ==
  ASSUME TypeOK, Control, Listed, Ordered, NEW s \in Session,
         StrandStep(s) \/ Deliver(s) \/ SessionCloses(s)
  PROVE  Ordered'
<1>1. AtOK /\ RecordsOK /\ s \in Context /\ messages \in Nat
  BY TypeParts DEF RecordsOK
<1>2. UNCHANGED <<members, canceled_>> /\ session_list_' \subseteq session_list_
  BY DEF StrandStep, Deliver, SessionCloses, Install, FeedThread, CallbackBegins, CallbackEnds, strands
<1>3. Clearing' <=> Clearing
  BY <1>1, StrandMoves DEF Clearing, CallsKept, CallLabels
<1>4. \A z \in Session \ {s} : at'[z] = at[z] /\ data'[z] = data[z]
  <2>1. \A z \in Session \ {s} : at'[z] = at[z]
    BY <1>1, StrandMoves
  <2>2. \A z \in Session \ {s} : data'[z] = data[z]
    BY <1>1 DEF StrandStep, Deliver, SessionCloses, Install, FeedThread, CallbackBegins, CallbackEnds,
                RecordsOK
  <2>3. QED
    BY <2>1, <2>2
<1>5. CASE Install(s) \/ SessionCloses(s) \/ CallbackEnds(s)
  <2>1. UNCHANGED <<last_callback_data_, newest, messages, from>>
    BY <1>5 DEF Install, SessionCloses, CallbackEnds, slot
  <2>2. \A z \in Session : at'[z] = "deliver" => at[z] = "deliver" /\ data'[z] = data[z]
    BY <1>1, <1>4, <1>5 DEF Install, SessionCloses, CallbackEnds, AtOK, Goto
  <2>3. QED
    BY <1>2, <1>3, <2>1, <2>2, OrderedKept DEF members, Ordered, InOrder
<1>6. CASE Deliver(s)
  <2>1. messages' = messages + 1 /\ UNCHANGED <<last_callback_data_, newest>>
    BY <1>6 DEF Deliver, slot
  <2>2. from'[messages + 1] = s /\ \A m \in 1 .. messages : from'[m] = from[m]
    <3>1. from' = [from EXCEPT ![messages + 1] = s] /\ messages + 1 \in 1 .. MaxMessages
      BY <1>1, <1>6 DEF Deliver, RecordsOK
    <3>2. QED
      BY <1>1, <3>1 DEF RecordsOK
  <2>3. data'[s] = messages + 1
    BY <1>1, <1>6 DEF Deliver, RecordsOK
  <2>4. last_callback_data_ \in 0 .. messages
    BY DEF Ordered, TypeOK
  <2>5. \A z \in Session : CameFrom(last_callback_data_, z)' <=> CameFrom(last_callback_data_, z)
    BY <2>1, <2>2, <2>4 DEF CameFrom
  <2>6. \A z \in Session : newest[z] \in 0 .. messages
    BY <1>1 DEF Ordered, InOrder, RecordsOK
  <2>7. InOrder(s)'
    BY <1>1, <1>2, <1>3, <2>1, <2>2, <2>3, <2>4, <2>5, <2>6 DEF Ordered, InOrder, members
  <2>8. ASSUME NEW z \in Session \ {s} PROVE InOrder(z)'
    BY <1>1, <1>2, <1>3, <1>4, <2>1, <2>2, <2>4, <2>5, <2>6 DEF Ordered, InOrder, members
  <2>9. QED
    BY <1>1, <2>1, <2>2, <2>4, <2>7, <2>8 DEF Ordered
<1>7. CASE FeedThread(s)
  <2>1. at[s] = "deliver" /\ at'[s] = "idle" /\ UNCHANGED <<newest, messages, from>>
    BY <1>1, <1>7 DEF FeedThread, AtOK, Goto, NotifyAll
  <2>2. CASE user_callback_is_synchronous_
    <3>1. last_callback_data_' = last_callback_data_
      BY <1>7, <2>2 DEF FeedThread
    <3>2. QED
      BY <1>2, <1>3, <1>4, <2>1, <3>1, OrderedKept DEF members, Ordered, InOrder
  <2>3. CASE ~ user_callback_is_synchronous_
    <3>1. last_callback_data_' = data[s]
      BY <1>7, <2>3 DEF FeedThread
    <3>2. data[s] \in 1 .. messages /\ from[data[s]] = s /\ newest[s] < data[s]
      BY <2>1 DEF Ordered, InOrder
    <3>3. ASSUME NEW z \in Session PROVE InOrder(z)'
      <4>1. CameFrom(last_callback_data_, z)' => z = s
        BY <2>1, <3>1, <3>2 DEF CameFrom
      <4>2. newest'[z] \in Nat /\ newest'[z] <= messages'
        BY <1>1, <2>1 DEF Ordered, InOrder, RecordsOK
      <4>3. at'[z] = "deliver" =>
              data'[z] \in 1 .. messages' /\ from'[data'[z]] = z /\ newest'[z] < data'[z] /\ z # s
        BY <1>4, <2>1 DEF Ordered, InOrder
      <4>4. ~ user_callback_is_synchronous_'
        BY <1>2, <2>3 DEF members
      <4>5. QED
        BY <2>1, <3>1, <3>2, <4>1, <4>2, <4>3, <4>4 DEF InOrder
    <3>4. QED
      BY <1>1, <2>1, <3>1, <3>2, <3>3 DEF Ordered
  <2>4. QED
    BY <2>2, <2>3
<1>8. CASE CallbackBegins(s)
  <2>1. at[s] = "deliver" /\ at'[s] # "deliver" /\ UNCHANGED <<last_callback_data_, messages, from>>
    BY <1>1, <1>8 DEF CallbackBegins, AtOK, Goto
  <2>2. CASE newest' = newest
    BY <1>2, <1>3, <1>4, <2>1, <2>2, OrderedKept DEF members, Ordered, InOrder
  <2>3. CASE newest' # newest
    <3>1. user_callback_is_synchronous_ /\ newest' = [newest EXCEPT ![s] = data[s]]
      BY <1>8, <2>3 DEF CallbackBegins
    <3>2. newest'[s] = data[s] /\ \A z \in Session \ {s} : newest'[z] = newest[z]
      BY <1>1, <3>1 DEF RecordsOK
    <3>3. InOrder(s)'
      <4>1. /\ data[s] \in 1 .. messages
            /\ CameFrom(last_callback_data_, s) => last_callback_data_ < data[s]
        BY <2>1 DEF Ordered, InOrder
      <4>2. s \in session_list_' /\ user_callback_is_synchronous_'
        BY <1>8, <2>1, <3>1 DEF CallbackBegins, Listed, members, strands
      <4>3. CameFrom(last_callback_data_, s) /\ s \notin canceled_ => Clearing
        BY <2>1, <3>1 DEF Ordered, InOrder, Listed
      <4>4. last_callback_data_ \in Nat
        BY DEF TypeOK
      <4>5. QED
        BY <1>2, <1>3, <2>1, <3>2, <4>1, <4>3, <4>4 DEF InOrder, CameFrom
    <3>4. ASSUME NEW z \in Session \ {s} PROVE InOrder(z)'
      BY <1>2, <1>3, <1>4, <2>1, <3>2 DEF Ordered, InOrder, CameFrom, members
    <3>5. QED
      BY <2>1, <3>3, <3>4 DEF Ordered
  <2>4. QED
    BY <2>2, <2>3
<1>9. QED
  BY <1>5, <1>6, <1>7, <1>8 DEF StrandStep

LEMMA OrderedThread ==
  ASSUME TypeOK, Ordered, NEW t \in Thread, ThreadStep(t) PROVE Ordered'
<1>1. AtOK /\ RecordsOK
  BY TypeParts
<1>2. UNCHANGED <<members, strands, messages, from>>
  BY DEF ThreadStep, Test, Doze, Take, ThreadCallbackEnds
<1>3. \A s \in Session : at'[s] = at[s] /\ data'[s] = data[s]
  BY <1>1 DEF ThreadStep, Test, Doze, Take, ThreadCallbackEnds, AtOK, RecordsOK, Goto
<1>4. Clearing' <=> Clearing
  BY <1>1, ThreadMoves DEF Clearing, CallsKept, CallLabels
<1>5. CASE newest' = newest /\ last_callback_data_' = last_callback_data_
  BY <1>2, <1>3, <1>4, <1>5, OrderedKept DEF members, strands, Ordered, InOrder
<1>6. CASE ~ (newest' = newest /\ last_callback_data_' = last_callback_data_)
  <2>1. newest' = GivenNow /\ last_callback_data_' = 0
    BY <1>6 DEF ThreadStep, Test, Doze, Take, ThreadCallbackEnds, slot
  <2>2. ASSUME NEW s \in Session PROVE InOrder(s)'
    <3>1. newest'[s] = IF CameFrom(last_callback_data_, s) THEN last_callback_data_ ELSE newest[s]
      BY <2>1 DEF GivenNow, CameFrom
    <3>2. ~ CameFrom(last_callback_data_, s)'
      BY <2>1 DEF CameFrom
    <3>3. InOrder(s) /\ last_callback_data_ <= messages
      BY DEF Ordered
    <3>4. QED
      BY <1>2, <1>3, <3>1, <3>2, <3>3 DEF InOrder
  <2>3. QED
    BY <1>1, <1>2, <2>1, <2>2 DEF Ordered, RecordsOK
<1>7. QED
  BY <1>5, <1>6

LEMMA OrderedCall ==
  ASSUME TypeOK, Control, Sequential, Listed, Ordered, NEW u \in Context, Begin(u) \/ CallStep(u)
  PROVE  Ordered'
<1>1. AtOK /\ RecordsOK /\ Alone(u)
  BY TypeParts, CallMoves
<1>2. UNCHANGED <<newest, messages, from, data>>
  BY DEF Begin, CallStep, BeginCall, AddSession, ListSession, CancelSessions, StopThread, NotifyThread,
         JoinThread, Switch, ClearSlot, SpawnThread, RenewCallbacks, ForgetCallback
<1>3. \A s \in Session : at'[s] = "deliver" => at[s] = "deliver"
  BY <1>1 DEF Alone, Home, CallLabels
<1>4. CASE ClearSlot(u)
  <2>1. last_callback_data_' = 0
    BY <1>4 DEF ClearSlot
  <2>2. ASSUME NEW s \in Session PROVE InOrder(s)'
    BY <1>2, <1>3, <2>1 DEF Ordered, InOrder, CameFrom
  <2>3. QED
    BY <1>1, <1>2, <2>1, <2>2 DEF Ordered, RecordsOK
<1>5. CASE ~ ClearSlot(u)
  <2>1. last_callback_data_' = last_callback_data_
    BY <1>5
       DEF Begin, CallStep, BeginCall, AddSession, ListSession, CancelSessions, StopThread, NotifyThread,
           JoinThread, Switch, SpawnThread, RenewCallbacks, ForgetCallback, slot
  <2>2. canceled_ \subseteq canceled_'
    BY DEF Begin, CallStep, BeginCall, AddSession, ListSession, CancelSessions, StopThread, NotifyThread,
           JoinThread, Switch, ClearSlot, SpawnThread, RenewCallbacks, ForgetCallback, strands
  <2>3. ~ Clearing
    <3>1. at[u] # "clear"
      BY <1>5
         DEF Begin, CallStep, BeginCall, AddSession, MayCall, Home, ListSession, CancelSessions,
             StopThread, NotifyThread, JoinThread, Switch, SpawnThread, RenewCallbacks, ForgetCallback
    <3>2. QED
      BY <1>1, <3>1 DEF Clearing, Alone, CallLabels
  <2>4. ASSUME NEW s \in Session, CameFrom(last_callback_data_, s), s \notin canceled_',
               ~ Clearing', user_callback_is_synchronous_'
        PROVE  s \notin session_list_'
    <3>1. CASE ListSession(u)
      <4>1. last_callback_data_ \in 1 .. messages /\ from[last_callback_data_] = s
        BY <2>4 DEF CameFrom, Ordered, TypeOK
      <4>2. s \notin call[u].sessions
        BY <3>1, <4>1 DEF ListSession, Listed, Knows
      <4>3. user_callback_is_synchronous_ /\ s \notin canceled_
        BY <2>2, <2>4, <3>1 DEF ListSession, members
      <4>4. s \notin session_list_
        BY <2>3, <2>4, <4>3 DEF Ordered, InOrder
      <4>5. QED
        BY <3>1, <4>2, <4>4 DEF ListSession
    <3>2. CASE ForgetCallback(u)
      <4>1. session_list_ \subseteq canceled_ /\ UNCHANGED <<session_list_, canceled_>>
        BY <3>2 DEF ForgetCallback, Listed, Knows, strands
      <4>2. QED
        BY <2>4, <4>1
    <3>3. CASE Switch(u)
      <4>1. user_callback_is_synchronous_' => at'[u] = "clear"
        BY <1>1, <3>3 DEF Switch, Goto, AtOK
      <4>2. QED
        BY <2>4, <4>1 DEF Clearing
    <3>4. CASE ~ (ListSession(u) \/ ForgetCallback(u) \/ Switch(u))
      <4>1. /\ user_callback_is_synchronous_' = user_callback_is_synchronous_
            /\ session_list_' = session_list_
        BY <1>5, <3>4
           DEF Begin, CallStep, BeginCall, AddSession, CancelSessions, StopThread, NotifyThread,
               JoinThread, SpawnThread, RenewCallbacks, members, strands
      <4>2. s \notin canceled_
        BY <2>2, <2>4
      <4>3. QED
        BY <2>3, <2>4, <4>1, <4>2 DEF Ordered, InOrder
    <3>5. QED
      BY <3>1, <3>2, <3>3, <3>4
  <2>5. QED
    BY <1>2, <1>3, <2>1, <2>2, <2>3, <2>4, OrderedKept
<1>6. QED
  BY <1>4, <1>5

LEMMA OrderedStep ==
  TypeOK /\ Control /\ Listed /\ Ordered /\ Sequential /\ [Next]_vars => Ordered'
<1> SUFFICES ASSUME TypeOK, Control, Listed, Ordered, Sequential, [Next]_vars PROVE Ordered'
  OBVIOUS
<1>1. CASE UNCHANGED vars
  <2>1. ASSUME NEW s \in Session PROVE InOrder(s)'
    BY <1>1 DEF vars, members, slot, strands, Ordered, InOrder, CameFrom, Clearing
  <2>2. QED
    BY <1>1, <2>1 DEF vars, slot, Ordered
<1>2. QED
  BY <1>1, OrderedStrand, OrderedThread, OrderedCall DEF Next

LEMMA MessageGiven ==
  ASSUME TypeOK, Control, Sequential, Ordered, Next, NEW c \in Context,
         at[c] \in {"deliver", "take"}, at'[c] = "callback", data'[c] # 0
  PROVE  /\ newest[from[data'[c]]] # data'[c]
         /\ from[data'[c]] \notin canceled_ => newest[from[data'[c]]] < data'[c]
<1>1. AtOK /\ RecordsOK
  BY TypeParts
<1>2. CASE \E s \in Session : s = c /\ CallbackBegins(s)
  <2>1. data'[c] = data[c] /\ at[c] = "deliver" /\ c \in Session
    BY <1>1, <1>2 DEF CallbackBegins, Goto, AtOK
  <2>2. data[c] \in 1 .. messages /\ from[data[c]] = c /\ newest[c] < data[c]
    BY <2>1 DEF Ordered, InOrder
  <2>3. newest[c] \in Nat /\ data[c] \in Nat
    BY <1>1, <2>1 DEF RecordsOK
  <2>4. QED
    BY <2>1, <2>2, <2>3
<1>3. CASE \E t \in Thread : t = c /\ Take(t)
  <2>1. data'[c] = last_callback_data_ /\ c \in Thread /\ at[c] = "take"
    BY <1>1, <1>3 DEF Take, Goto, AtOK, RecordsOK
  <2>2. ~ callback_thread_stop_
    BY <1>1, <1>3 DEF Take, Goto, AtOK
  <2>3. ~ Clearing
    BY <2>2 DEF Control, CallPlace, Clearing
  <2>4. PICK s \in Session : CameFrom(last_callback_data_, s)
    BY <2>1 DEF Ordered, CameFrom
  <2>5. QED
    BY <2>1, <2>3, <2>4 DEF Ordered, InOrder, CameFrom
<1>4. CASE ~ (\E s \in Session : s = c /\ CallbackBegins(s)) /\ ~ (\E t \in Thread : t = c /\ Take(t))
  <2>1. ASSUME NEW s \in Session, StrandStep(s) \/ Deliver(s) \/ SessionCloses(s) PROVE FALSE
    BY <1>1, <1>4, <2>1
       DEF StrandStep, Deliver, SessionCloses, Install, FeedThread, CallbackBegins, CallbackEnds,
           AtOK, Goto, NotifyAll
  <2>2. ASSUME NEW t \in Thread, ThreadStep(t) PROVE FALSE
    BY <1>1, <1>4, <2>2 DEF ThreadStep, Test, Doze, Take, ThreadCallbackEnds, AtOK, Goto
  <2>3. ASSUME NEW d \in Context, Begin(d) \/ CallStep(d) PROVE FALSE
    <3>1. CASE d = c
      BY <2>3, <3>1
         DEF Begin, CallStep, BeginCall, AddSession, MayCall, Home, ListSession, CancelSessions,
             StopThread, NotifyThread, JoinThread, Switch, ClearSlot, SpawnThread, RenewCallbacks,
             ForgetCallback
    <3>2. CASE d # c
      BY <1>1, <2>3, <3>2, CallMoves DEF Alone
    <3>3. QED
      BY <3>1, <3>2
  <2>4. QED
    BY <2>1, <2>2, <2>3 DEF Next
<1>5. QED
  BY <1>2, <1>3, <1>4

(* Callbacks get no message twice, and those of a session that is not      *)
(* canceled in the order of arrival, whatever callbacks are set meanwhile, *)
(* also in callbacks, on threads that have been detached or not.           *)
THEOREM GivenInOrder == ASSUME Sequential PROVE Spec => MessagesInOrder
<1> DEFINE Inv == TypeOK /\ Control /\ Listed /\ Ordered
<1>1. Init => Inv
  BY SubscriberInitType, ControlInit, ListedInit, OrderedInit
<1>2. Inv /\ [Next]_vars => Inv'
  BY SubscriberStepType, ControlStep, ListedStep, OrderedStep
<1>3. Inv /\ [Next]_vars =>
        [\A c \in Context :
           at[c] \in {"deliver", "take"} /\ at'[c] = "callback" /\ data'[c] # 0 =>
             /\ newest[from[data'[c]]] # data'[c]
             /\ from[data'[c]] \notin canceled_ => newest[from[data'[c]]] < data'[c]]_vars
  BY MessageGiven DEF vars
<1>4. QED
  BY <1>1, <1>2, <1>3, PTL DEF Spec, MessagesInOrder-----------------------------------------------------------------------------
(* The sessions have the callback that is set.                             *)

(* The last callback a session was given, installed or not yet.            *)
Latest(s) ==
  IF Len(posted[s]) = 0 THEN synchronous_callback_[s] ELSE posted[s][Len(posted[s])]

(* A call has set the callback, and is still to give it to the sessions.   *)
Renewing == \E c \in Context : at[c] \in {"clear", "spawn", "renew"} /\ call[c].renew

UpToDate ==
  /\ Renewing \/ \A s \in session_list_ \ canceled_ : Latest(s) = CurrentCallback
  /\ \A c \in Context :
       at[c] = "list" =>
         \A s \in call[c].sessions \ canceled_ : Latest(s) = CurrentCallback

LEMMA UpToDateInit == Init => UpToDate
BY DEF Init, UpToDate

(* Who is given the callback has it; for the others nothing changes.       *)
LEMMA LatestSet ==
  ASSUME TypeOK, NEW sessions, SetCallbackToSessions(sessions),
         synchronous_callback_' = synchronous_callback_, NEW s \in Session
  PROVE  IF s \in sessions \ canceled_ THEN Latest(s)' = CurrentCallback
                                       ELSE Latest(s)' = Latest(s)
<1>1. posted[s] \in Seq(SessionCallback \ {NoCallback})
  BY DEF TypeOK
<1>2. CASE s \in sessions \ canceled_
  <2>1. posted'[s] = Append(posted[s], CurrentCallback)
    BY <1>2 DEF SetCallbackToSessions
  <2>2. CurrentCallback \in SessionCallback \ {NoCallback}
    BY CurrentCallbackType DEF TypeOK
  <2> HIDE DEF CurrentCallback
  <2>3. /\ Append(posted[s], CurrentCallback) # <<>>
        /\ Len(Append(posted[s], CurrentCallback)) = Len(posted[s]) + 1
        /\ Append(posted[s], CurrentCallback)[Len(posted[s]) + 1] = CurrentCallback
    BY <1>1, <2>2
  <2>4. QED
    BY <1>2, <2>1, <2>3 DEF Latest
<1>3. CASE s \notin sessions \ canceled_
  BY <1>3 DEF SetCallbackToSessions, Latest
<1>4. QED
  BY <1>2, <1>3

(* A sequence keeps its last element when it loses its first.              *)
LEMMA LastOfTail ==
  ASSUME NEW S, NEW q \in Seq(S), Len(q) > 1
  PROVE  Len(Tail(q)) # 0 /\ Tail(q)[Len(Tail(q))] = q[Len(q)]
<1>1. Len(q) \in Nat
  OBVIOUS
<1>2. Len(Tail(q)) = Len(q) - 1
  BY <1>1
<1>3. Tail(q)[Len(q) - 1] = q[Len(q)]
  BY <1>1
<1>4. QED
  BY <1>1, <1>2, <1>3

(* Installing a callback that was posted is not getting a new one.         *)
LEMMA LatestInstalled ==
  ASSUME TypeOK, NEW s \in Session, Install(s)
  PROVE  \A z \in Session : Latest(z)' = Latest(z)
<1>1. TAKE z \in Session
<1>2. CASE z # s
  BY <1>2 DEF Install, Latest, TypeOK
<1>3. CASE z = s
  <2>1. posted[s] \in Seq(SessionCallback \ {NoCallback}) /\ posted[s] # <<>>
    BY DEF Install, TypeOK
  <2>2. posted'[s] = Tail(posted[s]) /\ synchronous_callback_'[s] = Head(posted[s])
    BY DEF Install, TypeOK
  <2>3. /\ Len(posted[s]) \in Nat /\ Len(posted[s]) # 0
        /\ Len(Tail(posted[s])) = Len(posted[s]) - 1
    BY <2>1
  <2>4. CASE Len(posted[s]) = 1
    <3>1. Len(Tail(posted[s])) = 0 /\ posted[s][Len(posted[s])] = Head(posted[s])
      BY <2>1, <2>3, <2>4
    <3>2. QED
      BY <1>3, <2>2, <2>4, <3>1 DEF Latest
  <2>5. CASE Len(posted[s]) > 1
    <3>1. /\ Len(Tail(posted[s])) # 0
          /\ Tail(posted[s])[Len(Tail(posted[s]))] = posted[s][Len(posted[s])]
      BY <2>1, <2>5, LastOfTail
    <3>2. Len(posted[s]) # 0 /\ Len(posted'[s]) # 0
      BY <2>2, <2>3, <3>1
    <3>3. Latest(z) = posted[s][Len(posted[s])] /\ Latest(z)' = posted'[s][Len(posted'[s])]
      BY <1>3, <3>2 DEF Latest
    <3>4. QED
      BY <2>2, <3>1, <3>3
  <2>6. Len(posted[s]) = 1 \/ Len(posted[s]) > 1
    <3>1. \A n \in Nat : n # 0 => n = 1 \/ n > 1
      OBVIOUS
    <3>2. QED
      BY <2>3, <3>1, Zenon
  <2>7. QED
    BY <2>4, <2>5, <2>6
<1>4. QED
  BY <1>2, <1>3

(* A step that gives nothing and sets nothing.                             *)
LEMMA UpToDateKept ==
  ASSUME TypeOK, UpToDate, CurrentCallback' = CurrentCallback,
         \A s \in Session : Latest(s)' = Latest(s),
         session_list_' \subseteq session_list_, canceled_ \subseteq canceled_',
         Renewing => Renewing',
         \A c \in Context : at'[c] = "list" => at[c] = "list" /\ call'[c] = call[c]
  PROVE  UpToDate'
<1>1. ASSUME NEW c \in Context, at'[c] = "list",
             NEW s \in call'[c].sessions \ canceled_'
      PROVE  Latest(s)' = CurrentCallback'
  <2>1. s \in call[c].sessions \ canceled_ /\ s \in Session
    BY <1>1 DEF TypeOK, CallRecord
  <2>2. QED
    BY <1>1, <2>1 DEF UpToDate
<1>2. Renewing' \/ \A s \in session_list_' \ canceled_' : Latest(s)' = CurrentCallback'
  BY DEF UpToDate, TypeOK
<1>3. QED
  BY <1>1, <1>2 DEF UpToDate

LEMMA UpToDateStrand ==
  ASSUME TypeOK, UpToDate, NEW s \in Session, StrandStep(s) \/ Deliver(s) \/ SessionCloses(s)
  PROVE  UpToDate'
<1>1. AtOK /\ s \in Context
  BY TypeParts
<1>2. UNCHANGED <<members, canceled_, call>> /\ session_list_' \subseteq session_list_
  BY DEF StrandStep, Deliver, SessionCloses, Install, FeedThread, CallbackBegins, CallbackEnds, strands
<1>3. \A z \in Session : Latest(z)' = Latest(z)
  <2>1. CASE ~ Install(s)
    BY <2>1 DEF StrandStep, Deliver, SessionCloses, FeedThread, CallbackBegins, CallbackEnds, strands,
                Latest
  <2>2. QED
    BY <2>1, LatestInstalled
<1>4. CallsKept
  BY <1>1, StrandMoves
<1>5. CurrentCallback' = CurrentCallback /\ (Renewing => Renewing')
  BY <1>2, <1>4 DEF CurrentCallback, members, Renewing, CallsKept, CallLabels
<1>6. \A c \in Context : at'[c] = "list" => at[c] = "list" /\ call'[c] = call[c]
  BY <1>2, <1>4 DEF CallsKept, CallLabels
<1>7. QED
  BY <1>2, <1>3, <1>5, <1>6, UpToDateKept

LEMMA UpToDateThread ==
  ASSUME TypeOK, UpToDate, NEW t \in Thread, ThreadStep(t) PROVE UpToDate'
<1>1. AtOK
  BY TypeParts
<1>2. UNCHANGED <<members, strands, call>>
  BY DEF ThreadStep, Test, Doze, Take, ThreadCallbackEnds
<1>3. CallsKept
  BY <1>1, ThreadMoves
<1>4. CurrentCallback' = CurrentCallback /\ (Renewing => Renewing')
  BY <1>2, <1>3 DEF CurrentCallback, members, Renewing, CallsKept, CallLabels
<1>5. \A s \in Session : Latest(s)' = Latest(s)
  BY <1>2 DEF Latest, strands
<1>6. \A c \in Context : at'[c] = "list" => at[c] = "list" /\ call'[c] = call[c]
  BY <1>2, <1>3 DEF CallsKept, CallLabels
<1>7. QED
  BY <1>2, <1>4, <1>5, <1>6, UpToDateKept DEF strands

LEMMA UpToDateCall ==
  ASSUME TypeOK, Control, Sequential, Listed, UpToDate,
         NEW u \in Context, Begin(u) \/ CallStep(u)
  PROVE  UpToDate'
<1>1. AtOK /\ RecordsOK
  BY TypeParts
<1>a. \A c \in Context \ {u} : at[c] \notin CallLabels /\ at'[c] \notin CallLabels
  BY <1>1, CallMoves DEF Alone, CallLabels
<1>b. Renewing <=> at[u] \in {"clear", "spawn", "renew"} /\ call[u].renew
  BY <1>a DEF Renewing, CallLabels
<1>c. \A c \in Context : at'[c] = "list" => c = u
  BY <1>a DEF CallLabels
<1>2. ASSUME NEW s \in Session, AddSession(u, s) PROVE UpToDate'
  <2>1. /\ UNCHANGED <<members, session_list_, canceled_, synchronous_callback_>>
        /\ SetCallbackToSessions({s}) /\ s \notin session_list_
    BY <1>2 DEF AddSession
  <2>2. at[u] \in {"idle", "callback"} /\ call'[u].sessions = {s}
    BY <1>1, <1>2 DEF AddSession, MayCall, Home, RecordsOK, NewCall
  <2>3. \A z \in session_list_ \ canceled_ : Latest(z) = CurrentCallback
    BY <1>b, <2>2 DEF UpToDate
  <2>4. CurrentCallback' = CurrentCallback
    BY <2>1 DEF members, CurrentCallback
  <2>5. s \notin canceled_ => Latest(s)' = CurrentCallback
    BY <2>1, LatestSet
  <2>6. \A z \in session_list_ \ canceled_ : Latest(z)' = Latest(z)
    BY <2>1, LatestSet DEF TypeOK
  <2>7. QED
    BY <1>c, <2>1, <2>2, <2>3, <2>4, <2>5, <2>6 DEF UpToDate
<1>3. CASE ListSession(u)
  <2>1. /\ UNCHANGED <<members, canceled_, synchronous_callback_, posted>> /\ at[u] = "list"
        /\ session_list_' = session_list_ \cup call[u].sessions
    BY <1>3 DEF ListSession
  <2>2. at'[u] # "list"
    BY <1>1, <1>3 DEF ListSession, EndCall, Home, Goto, AtOK
  <2>3. \A z \in session_list_ \ canceled_ : Latest(z) = CurrentCallback
    BY <1>b, <2>1 DEF UpToDate
  <2>4. \A z \in call[u].sessions \ canceled_ : Latest(z) = CurrentCallback
    BY <2>1 DEF UpToDate
  <2>5. CurrentCallback' = CurrentCallback /\ \A z : Latest(z)' = Latest(z)
    BY <2>1 DEF members, CurrentCallback, Latest
  <2>6. QED
    BY <1>c, <2>1, <2>2, <2>3, <2>4, <2>5 DEF UpToDate
<1>4. CASE Switch(u)
  <2>1. UNCHANGED strands /\ at[u] = "switch" /\ at'[u] \in {"clear", "spawn"}
    BY <1>1, <1>4 DEF Switch, Goto, AtOK
  <2>2. call'[u].renew = Renew(u)
    <3>1. call[u] \in CallRecord /\ call' = [call EXCEPT ![u] = [@ EXCEPT !.renew = Renew(u)]]
      BY <1>1, <1>4 DEF Switch, RecordsOK
    <3>2. QED
      BY <1>1, <3>1 DEF RecordsOK, CallRecord
  <2>3. \A z \in session_list_ \ canceled_ : Latest(z) = CurrentCallback
    BY <1>b, <2>1 DEF UpToDate
  <2>4. Renewing' \/ CurrentCallback' = CurrentCallback
    <3>1. CASE Renew(u)
      BY <2>1, <2>2, <3>1 DEF Renewing
    <3>2. CASE ~ Renew(u)
      <4>1. ~ user_callback_is_synchronous_ /\ call[u].op # "setSynchronous"
        BY <3>2 DEF Renew
      <4>2. ~ user_callback_is_synchronous_'
        BY <1>4, <4>1 DEF Switch
      <4>3. QED
        BY <4>1, <4>2 DEF CurrentCallback
    <3>3. QED
      BY <3>1, <3>2
  <2>5. \A z : Latest(z)' = Latest(z)
    BY <2>1 DEF strands, Latest
  <2>6. QED
    BY <1>c, <2>1, <2>3, <2>4, <2>5 DEF UpToDate, strands
<1>5. CASE RenewCallbacks(u)
  <2>1. /\ UNCHANGED <<members, session_list_, canceled_, synchronous_callback_>> /\ at[u] = "renew"
        /\ SetCallbackToSessions(IF call[u].renew THEN session_list_ ELSE {})
    BY <1>5 DEF RenewCallbacks
  <2>2. at'[u] # "list"
    BY <1>1, <1>5 DEF RenewCallbacks, EndCall, Home, Goto, AtOK
  <2>3. CurrentCallback' = CurrentCallback
    BY <2>1 DEF members, CurrentCallback
  <2>4. \A z \in session_list_ \ canceled_ : Latest(z)' = CurrentCallback
    <3>1. CASE call[u].renew
      BY <2>1, <3>1, LatestSet DEF TypeOK
    <3>2. CASE ~ call[u].renew
      <4>1. \A z \in session_list_ \ canceled_ : Latest(z) = CurrentCallback
        BY <1>b, <3>2 DEF UpToDate
      <4>2. \A z \in session_list_ \ canceled_ : Latest(z)' = Latest(z)
        BY <2>1, <3>2, LatestSet DEF TypeOK
      <4>3. QED
        BY <4>1, <4>2
    <3>3. QED
      BY <3>1, <3>2
  <2>5. QED
    BY <1>c, <2>1, <2>2, <2>3, <2>4 DEF UpToDate
<1>6. CASE ForgetCallback(u)
  <2>1. session_list_' \subseteq canceled_'
    BY <1>6 DEF ForgetCallback, Listed, Knows, strands
  <2>2. at'[u] # "list"
    BY <1>1, <1>6 DEF ForgetCallback, EndCall, Home, Goto, AtOK
  <2>3. QED
    BY <1>c, <2>1, <2>2 DEF UpToDate
<1>7. CASE ClearSlot(u) \/ SpawnThread(u)
  <2>1. UNCHANGED <<strands, call, user_callback_is_synchronous_, synchronous_user_callback_>>
    BY <1>7 DEF ClearSlot, SpawnThread, members
  <2>2. at'[u] = "renew" /\ at[u] \in {"clear", "spawn"}
    BY <1>1, <1>7 DEF ClearSlot, SpawnThread, Goto, AtOK
  <2>3. CurrentCallback' = CurrentCallback /\ \A s \in Session : Latest(s)' = Latest(s)
    BY <2>1 DEF CurrentCallback, strands, Latest
  <2>4. Renewing => Renewing'
    BY <1>b, <2>1, <2>2 DEF Renewing
  <2>5. QED
    BY <1>c, <2>1, <2>2, <2>3, <2>4, UpToDateKept DEF strands
<1>8. CASE (\E op \in Calls : BeginCall(u, op)) \/ CancelSessions(u) \/ StopThread(u)
             \/ NotifyThread(u) \/ JoinThread(u)
  <2>1. /\ UNCHANGED <<session_list_, synchronous_callback_, posted, user_callback_is_synchronous_,
                       synchronous_user_callback_>>
        /\ canceled_ \subseteq canceled_'
    BY <1>8 DEF BeginCall, CancelSessions, StopThread, NotifyThread, JoinThread, members, strands
  <2>2. at[u] \notin {"clear", "spawn", "renew"}
    BY <1>8 DEF BeginCall, MayCall, Home, CancelSessions, StopThread, NotifyThread, JoinThread
  <2>3. at'[u] # "list"
    BY <1>1, <1>8 DEF BeginCall, CancelSessions, StopThread, NotifyThread, JoinThread, NotifyAll,
                      Onwards, Goto, AtOK
  <2>4. CurrentCallback' = CurrentCallback /\ \A s \in Session : Latest(s)' = Latest(s)
    BY <2>1 DEF CurrentCallback, Latest
  <2>5. ~ Renewing
    BY <1>b, <2>2
  <2>6. QED
    BY <1>c, <2>1, <2>3, <2>4, <2>5, UpToDateKept
<1>9. QED
  BY <1>2, <1>3, <1>4, <1>5, <1>6, <1>7, <1>8 DEF Begin, CallStep

LEMMA UpToDateStep ==
  TypeOK /\ Control /\ Listed /\ UpToDate /\ Sequential /\ [Next]_vars => UpToDate'
<1> SUFFICES ASSUME TypeOK, Control, Listed, UpToDate, Sequential, [Next]_vars PROVE UpToDate'
  OBVIOUS
<1>1. CASE UNCHANGED vars
  BY <1>1 DEF vars, members, strands, UpToDate, Renewing, CurrentCallback, Latest
<1>2. QED
  BY <1>1, UpToDateStrand, UpToDateThread, UpToDateCall DEF Next

(* Between calls every session has, or is about to install, the callback   *)
(* that is set, whoever added it and whoever set that, also in callbacks.  *)
THEOREM SessionsAlwaysUpToDate == ASSUME Sequential PROVE Spec => []SessionsUpToDate
<1>1. TypeOK /\ UpToDate => SessionsUpToDate
  <2> SUFFICES ASSUME TypeOK, UpToDate, NoCalls, NEW s \in session_list_ \ canceled_
               PROVE  (<<synchronous_callback_[s]>> \o posted[s])
                         [Len(<<synchronous_callback_[s]>> \o posted[s])] = CurrentCallback
    BY DEF SessionsUpToDate
  <2>1. Latest(s) = CurrentCallback
    BY DEF UpToDate, NoCalls, Renewing, CallLabels
  <2>2. /\ posted[s] \in Seq(SessionCallback) /\ synchronous_callback_[s] \in SessionCallback
        /\ Len(posted[s]) \in Nat
    BY DEF TypeOK
  <2>3. /\ Len(<<synchronous_callback_[s]>> \o posted[s]) = 1 + Len(posted[s])
        /\ (<<synchronous_callback_[s]>> \o posted[s])[1 + Len(posted[s])] = Latest(s)
    BY <2>2 DEF Latest
  <2>4. QED
    BY <2>1, <2>3
<1>2. TypeOK /\ Control /\ Listed /\ UpToDate /\ [Next]_vars => (Listed /\ UpToDate)'
  BY ListedStep, UpToDateStep
<1>3. QED
  BY <1>1, <1>2, ListedInit, UpToDateInit, ControlAlways, PTL DEF Spec
=============================================================================
