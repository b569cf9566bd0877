------------------------------ MODULE Subscriber ------------------------------
(***************************************************************************)
(* The subscriber (tcp_pubsub/src/subscriber_impl.cpp): its list of        *)
(* sessions and the hand-over of received messages to the user's callback. *)
(*                                                                         *)
(* A session calls its synchronous_callback_ on its strand.  This is       *)
(* either the user's callback, run under last_callback_data_mutex_, or a   *)
(* function that leaves the message in last_callback_data_ for the         *)
(* callback thread.  setCallback() and cancel() switch between the two,    *)
(* while messages arrive, from any thread: one of the user, a strand in a  *)
(* synchronous callback, or a callback thread in an asynchronous one.      *)
(*                                                                         *)
(* A context is anything that has a point of control of its own; at[c] is  *)
(* the label of its next step.                                             *)
(***************************************************************************)
EXTENDS Naturals, Sequences, FiniteSets

CONSTANTS
  Session,       \* the sessions, each with its strand
  Thread,        \* callback threads that can be created
  User,          \* threads of the user
  NoThread,      \* the null callback_thread_
  Nobody,        \* the owner of a mutex that is free
  UserCalls,     \* what threads of the user call ...
  CallbackCalls, \* ... and callbacks: subsets of Calls
  ConcurrentCalls, \* calls may overlap; else they come one after another
  MaxCalls,      \* bound: setCallback() and cancel() calls in a behaviour
  MaxMessages    \* bound: messages received in a behaviour

Calls == {"setSynchronous", "setAsynchronous", "addSession", "cancel"}

ASSUME SubscriberAssumption ==
  /\ Session \cap Thread = {} /\ Session \cap User = {} /\ Thread \cap User = {}
  /\ NoThread \notin Thread
  /\ Nobody \notin Session \cup Thread \cup User
  /\ UserCalls \subseteq Calls /\ CallbackCalls \subseteq Calls
  /\ ConcurrentCalls \in BOOLEAN
  /\ MaxCalls \in Nat /\ MaxMessages \in Nat

VARIABLES
  user_callback_is_synchronous_, synchronous_user_callback_,
  callback_thread_, callback_thread_stop_,
  last_callback_data_,    \* a message, or 0
  mutex,                  \* the owner of last_callback_data_mutex_
  session_list_,
  canceled_,              \* the sessions that are canceled
  synchronous_callback_,  \* of each session
  posted,                 \* synchronous callbacks posted to each strand
  at,                     \* the label of each context
  call,                   \* the call each context makes
  callback,               \* the callback each thread was created with
  data,                   \* the message each context is handling, or 0
  calls, messages,        \* history: calls begun, messages received
  from,                   \* history: the session of each message
  newest                  \* history: of each session, the newest message given

members == <<user_callback_is_synchronous_, synchronous_user_callback_,
             callback_thread_, callback_thread_stop_>>
strands == <<session_list_, canceled_, synchronous_callback_, posted>>
slot == <<last_callback_data_, mutex>>
vars == <<members, slot, strands, at, call, callback, data, calls, messages,
          from, newest>>

Context == Session \cup Thread \cup User

(* Callbacks are named by the call that set them; 0 does nothing.          *)
Callback == 0 .. MaxCalls

(* What setSynchronousCallback() gives to a session: the user's callback,  *)
(* the function that feeds the callback thread, or nothing yet.            *)
Sync(f) == <<"sync", f>>
Feed == <<"feed">>
NoCallback == <<"none">>
SessionCallback == {Sync(f) : f \in Callback} \cup {Feed, NoCallback}

NewCall(op, n, sessions) ==
  [op |-> op, number |-> n, renew |-> FALSE, sessions |-> sessions]
NoCall == NewCall("none", 0, {})
CallRecord == [op : Calls \cup {"none"}, number : Callback, renew : BOOLEAN,
               sessions : SUBSET Session]

StrandLabels == {"idle", "deliver", "callback"}
ThreadLabels == {"none", "test", "doze", "asleep", "take", "callback", "ended"}
CallLabels == {"create", "list", "cancelSessions", "stop", "notify", "join",
               "switch", "clear", "spawn", "renew", "forget"}

TypeOK ==
  /\ user_callback_is_synchronous_ \in BOOLEAN
  /\ synchronous_user_callback_ \in Callback
  /\ callback_thread_ \in Thread \cup {NoThread}
  /\ callback_thread_stop_ \in BOOLEAN
  /\ last_callback_data_ \in 0 .. MaxMessages
  /\ mutex \in Context \cup {Nobody}
  /\ session_list_ \subseteq Session /\ canceled_ \subseteq Session
  /\ synchronous_callback_ \in [Session -> SessionCallback]
  /\ posted \in [Session -> Seq(SessionCallback \ {NoCallback})]
  /\ at \in [Context -> StrandLabels \cup ThreadLabels \cup CallLabels]
  /\ \A s \in Session : at[s] \in StrandLabels \cup CallLabels
  /\ \A t \in Thread : at[t] \in ThreadLabels \cup CallLabels
  /\ \A u \in User : at[u] \in {"idle"} \cup CallLabels
  /\ call \in [Context -> CallRecord]
  /\ callback \in [Thread -> Callback]
  /\ data \in [Context -> 0 .. MaxMessages]
  /\ calls \in Callback /\ messages \in 0 .. MaxMessages
  /\ from \in [1 .. MaxMessages -> Session \cup {Nobody}]
  /\ newest \in [Session -> 0 .. MaxMessages]

Init ==
  /\ user_callback_is_synchronous_ = TRUE
  /\ synchronous_user_callback_ = 0
  /\ callback_thread_ = NoThread
  /\ callback_thread_stop_ = TRUE
  /\ last_callback_data_ = 0
  /\ mutex = Nobody
  /\ session_list_ = {} /\ canceled_ = {}
  /\ synchronous_callback_ = [s \in Session |-> NoCallback]
  /\ posted = [s \in Session |-> <<>>]
  /\ at = [c \in Context |-> IF c \in Thread THEN "none" ELSE "idle"]
  /\ call = [c \in Context |-> NoCall]
  /\ callback = [t \in Thread |-> 0]
  /\ data = [c \in Context |-> 0]
  /\ calls = 0 /\ messages = 0
  /\ from = [m \in 1 .. MaxMessages |-> Nobody]
  /\ newest = [s \in Session |-> 0]

Goto(c, label) == at' = [at EXCEPT ![c] = label]

-----------------------------------------------------------------------------
(* setCallbackToSession(), for a set of sessions: the callback is posted   *)
(* to the strand, unless the session is canceled.                          *)

CurrentCallback ==
  IF user_callback_is_synchronous_ THEN Sync(synchronous_user_callback_) ELSE Feed

SetCallbackToSessions(sessions) ==
  posted' = [s \in Session |->
               IF s \in sessions \ canceled_ THEN Append(posted[s], CurrentCallback)
                                             ELSE posted[s]]

(* Faulty variant: nobody is woken.                                        *)
NotifyNobody(awake) == at' = awake

(* notify_all(), in a step that takes the labels to awake.                 *)
NotifyAll(awake) ==
  at' = [c \in Context |-> IF awake[c] = "asleep" THEN "test" ELSE awake[c]]

-----------------------------------------------------------------------------
(* A session's strand.                                                     *)

(* The task of setSynchronousCallback().                                   *)
Install(s) ==
  /\ at[s] = "idle" /\ posted[s] # <<>>
  /\ synchronous_callback_' = [synchronous_callback_ EXCEPT ![s] = Head(posted[s])]
  /\ posted' = [posted EXCEPT ![s] = Tail(@)]
  /\ UNCHANGED <<members, slot, session_list_, canceled_, at, call, callback,
                 data, calls, messages, from, newest>>

(* The task for a message that was received, past its look at canceled_.   *)
Deliver(s) ==
  /\ at[s] = "idle"
  /\ s \in session_list_ \ canceled_
  /\ synchronous_callback_[s] # NoCallback
  /\ messages < MaxMessages
  /\ messages' = messages + 1
  /\ from' = [from EXCEPT ![messages + 1] = s]
  /\ data' = [data EXCEPT ![s] = messages + 1]
  /\ Goto(s, "deliver")
  /\ UNCHANGED <<members, slot, strands, call, callback, calls, newest>>

(* Faulty variant: it does not ask whether the callback is asynchronous.   *)
FeedThreadAlways(s) ==
  /\ at[s] = "deliver" /\ synchronous_callback_[s] = Feed
  /\ mutex = Nobody
  /\ last_callback_data_' = data[s]
  /\ NotifyAll([at EXCEPT ![s] = "idle"])
  /\ data' = [data EXCEPT ![s] = 0]
  /\ UNCHANGED <<members, mutex, strands, call, callback, calls, messages, from,
                 newest>>

(* Under the mutex: the function that feeds the callback thread.           *)
FeedThread(s) ==
  /\ at[s] = "deliver" /\ synchronous_callback_[s] = Feed
  /\ mutex = Nobody
  /\ IF user_callback_is_synchronous_
     THEN Goto(s, "idle") /\ UNCHANGED last_callback_data_
     ELSE /\ last_callback_data_' = data[s]
          /\ NotifyAll([at EXCEPT ![s] = "idle"])
  /\ data' = [data EXCEPT ![s] = 0]
  /\ UNCHANGED <<members, mutex, strands, call, callback, calls, messages, from,
                 newest>>

(* The user's callback begins, and keeps the mutex ...                     *)
CallbackBegins(s) ==
  /\ at[s] = "deliver" /\ synchronous_callback_[s] \notin {Feed, NoCallback}
  /\ mutex = Nobody
  /\ IF user_callback_is_synchronous_ /\ synchronous_callback_[s] # Sync(0)
     THEN /\ mutex' = s
          /\ newest' = [newest EXCEPT ![s] = data[s]]
          /\ Goto(s, "callback")
          /\ UNCHANGED data
     ELSE /\ data' = [data EXCEPT ![s] = 0]
          /\ Goto(s, "idle")
          /\ UNCHANGED <<mutex, newest>>
  /\ UNCHANGED <<members, last_callback_data_, strands, call, callback, calls,
                 messages, from>>

(* ... until it ends.                                                      *)
CallbackEnds(s) ==
  /\ s \in Session /\ at[s] = "callback"
  /\ mutex' = Nobody
  /\ data' = [data EXCEPT ![s] = 0]
  /\ Goto(s, "idle")
  /\ UNCHANGED <<members, last_callback_data_, strands, call, callback, calls,
                 messages, from, newest>>

(* The session closes (canceled or out of retries) and leaves the list.    *)
SessionCloses(s) ==
  /\ s \in session_list_ /\ at[s] = "idle"
  /\ session_list_' = session_list_ \ {s}
  /\ UNCHANGED <<members, slot, canceled_, synchronous_callback_, posted, at, call,
                 callback, data, calls, messages, from, newest>>

-----------------------------------------------------------------------------
(* A callback thread.                                                      *)

(* The condition it waits for, under the mutex.                            *)
Test(t) ==
  /\ at[t] = "test"
  /\ mutex = Nobody
  /\ mutex' = t
  /\ Goto(t, IF last_callback_data_ # 0 \/ callback_thread_stop_ THEN "take" ELSE "doze")
  /\ UNCHANGED <<members, last_callback_data_, strands, call, callback, data,
                 calls, messages, from, newest>>

(* Only now would a notification wake it.                                  *)
Doze(t) ==
  /\ at[t] = "doze"
  /\ mutex' = Nobody
  /\ Goto(t, "asleep")
  /\ UNCHANGED <<members, last_callback_data_, strands, call, callback, data,
                 calls, messages, from, newest>>

(* Of each session the newest message given, with the one in the slot.     *)
GivenNow ==
  [s \in Session |->
     IF last_callback_data_ # 0 /\ from[last_callback_data_] = s
     THEN last_callback_data_ ELSE newest[s]]

(* Faulty variant: the message stays in the slot.                          *)
TakeCopy(t) ==
  /\ at[t] = "take"
  /\ mutex' = Nobody
  /\ IF callback_thread_stop_
     THEN Goto(t, "ended") /\ UNCHANGED <<data, newest>>
     ELSE /\ data' = [data EXCEPT ![t] = last_callback_data_]
          /\ newest' = GivenNow
          /\ Goto(t, "callback")
  /\ UNCHANGED <<members, last_callback_data_, strands, call, callback, calls,
                 messages, from>>

(* It ends, or takes what is in the slot and calls the user's callback.    *)
Take(t) ==
  /\ at[t] = "take"
  /\ mutex' = Nobody
  /\ IF callback_thread_stop_
     THEN Goto(t, "ended") /\ UNCHANGED <<last_callback_data_, data, newest>>
     ELSE /\ data' = [data EXCEPT ![t] = last_callback_data_]
          /\ newest' = GivenNow
          /\ last_callback_data_' = 0
          /\ Goto(t, "callback")
  /\ UNCHANGED <<members, strands, call, callback, calls, messages, from>>

ThreadCallbackEnds(t) ==
  /\ t \in Thread /\ at[t] = "callback"
  /\ data' = [data EXCEPT ![t] = 0]
  /\ Goto(t, "test")
  /\ UNCHANGED <<members, slot, strands, call, callback, calls, messages, from,
                 newest>>

-----------------------------------------------------------------------------
(* Calls of the user.                                                      *)

Home(c) == IF c \in User THEN "idle" ELSE "callback"

NoCalls == \A c \in Context : at[c] \notin CallLabels

MayCall(c, op) ==
  /\ at[c] = Home(c)
  /\ ConcurrentCalls \/ NoCalls
  /\ op \in IF c \in User THEN UserCalls ELSE CallbackCalls

(* setCallback() and cancel(); only cancel() begins with the sessions.     *)
BeginCall(c, op) ==
  /\ op # "addSession" /\ MayCall(c, op)
  /\ calls < MaxCalls
  /\ calls' = calls + 1
  /\ call' = [call EXCEPT ![c] = NewCall(op, calls + 1, {})]
  /\ Goto(c, IF op = "cancel" THEN "cancelSessions" ELSE "stop")
  /\ UNCHANGED <<members, slot, strands, callback, data, messages, from, newest>>

(* Faulty variant: every call is taken for one of a user's thread.         *)
EndCallOfUser(c) == Goto(c, "idle") /\ call' = [call EXCEPT ![c] = NoCall]

EndCall(c) == Goto(c, Home(c)) /\ call' = [call EXCEPT ![c] = NoCall]

(* addSession(): the callback is set to the new session before it is in    *)
(* the list and starts.                                                    *)
AddSession(c, s) ==
  /\ MayCall(c, "addSession")
  /\ s \notin session_list_
  /\ synchronous_callback_[s] = NoCallback /\ posted[s] = <<>>
  /\ SetCallbackToSessions({s})
  /\ call' = [call EXCEPT ![c] = NewCall("addSession", 0, {s})]
  /\ Goto(c, "list")
  /\ UNCHANGED <<members, slot, session_list_, canceled_, synchronous_callback_,
                 callback, data, calls, messages, from, newest>>

ListSession(c) ==
  /\ at[c] = "list"
  /\ session_list_' = session_list_ \cup call[c].sessions
  /\ EndCall(c)
  /\ UNCHANGED <<members, slot, canceled_, synchronous_callback_, posted, callback,
                 data, calls, messages, from, newest>>

CancelSessions(c) ==
  /\ at[c] = "cancelSessions"
  /\ canceled_' = canceled_ \cup session_list_
  /\ Goto(c, "stop")
  /\ UNCHANGED <<members, slot, session_list_, synchronous_callback_, posted, call,
                 callback, data, calls, messages, from, newest>>

(* Where a call goes on without a callback thread.                         *)
Onwards(c) == IF call[c].op = "cancel" THEN "forget" ELSE "switch"

StopThread(c) ==
  /\ at[c] = "stop"
  /\ IF callback_thread_ = NoThread
     THEN Goto(c, Onwards(c)) /\ UNCHANGED callback_thread_stop_
     ELSE Goto(c, "notify") /\ callback_thread_stop_' = TRUE
  /\ UNCHANGED <<user_callback_is_synchronous_, synchronous_user_callback_,
                 callback_thread_, slot, strands, call, callback, data, calls,
                 messages, from, newest>>

NotifyThread(c) ==
  /\ at[c] = "notify"
  /\ NotifyAll([at EXCEPT ![c] = "join"])
  /\ UNCHANGED <<members, slot, strands, call, callback, data, calls, messages,
                 from, newest>>

(* Faulty variant: a callback thread joins itself.                         *)
JoinThreadAlways(c) ==
  /\ at[c] = "join"
  /\ callback_thread_ # NoThread
  /\ at[callback_thread_] = "ended"
  /\ callback_thread_' = NoThread
  /\ Goto(c, Onwards(c))
  /\ UNCHANGED <<user_callback_is_synchronous_, synchronous_user_callback_,
                 callback_thread_stop_, slot, strands, call, callback, data, calls,
                 messages, from, newest>>

(* join(), or detach() on the callback thread itself.  (Without a thread   *)
(* the program would follow a null pointer: it comes to a stop here.)      *)
JoinThread(c) ==
  /\ at[c] = "join"
  /\ callback_thread_ # NoThread
  /\ callback_thread_ = c \/ at[callback_thread_] = "ended"
  /\ callback_thread_' = NoThread
  /\ Goto(c, Onwards(c))
  /\ UNCHANGED <<user_callback_is_synchronous_, synchronous_user_callback_,
                 callback_thread_stop_, slot, strands, call, callback, data, calls,
                 messages, from, newest>>

(* Faulty variant: only a synchronous callback is given to the sessions.   *)
RenewSynchronous(c) == call[c].op = "setSynchronous"

(* renew_synchronous_callbacks.                                            *)
Renew(c) == call[c].op = "setSynchronous" \/ user_callback_is_synchronous_

(* The function and the flag are stored one after the other: only calls    *)
(* that overlap would tell (they race), not the strands.                   *)
Switch(c) ==
  /\ at[c] = "switch"
  /\ call' = [call EXCEPT ![c].renew = Renew(c)]
  /\ user_callback_is_synchronous_' = (call[c].op = "setSynchronous")
  /\ IF call[c].op = "setSynchronous"
     THEN synchronous_user_callback_' = call[c].number /\ Goto(c, "clear")
     ELSE synchronous_user_callback_' = 0 /\ Goto(c, "spawn")
  /\ UNCHANGED <<callback_thread_, callback_thread_stop_, slot, strands, callback,
                 data, calls, messages, from, newest>>

(* A synchronous callback: free what is in the slot.                       *)
ClearSlot(c) ==
  /\ at[c] = "clear"
  /\ mutex = Nobody
  /\ last_callback_data_' = 0
  /\ Goto(c, "renew")
  /\ UNCHANGED <<members, mutex, strands, call, callback, data, calls, messages,
                 from, newest>>

(* An asynchronous one: start a thread for it.  (To put it in place of a   *)
(* std::thread that can be joined ends the program: it stops here.)        *)
SpawnThread(c) ==
  /\ at[c] = "spawn"
  /\ callback_thread_ = NoThread
  /\ \E t \in Thread :
       /\ at[t] = "none"
       /\ at' = [at EXCEPT ![t] = "test", ![c] = "renew"]
       /\ callback_thread_' = t
       /\ callback' = [callback EXCEPT ![t] = call[c].number]
  /\ callback_thread_stop_' = FALSE
  /\ UNCHANGED <<user_callback_is_synchronous_, synchronous_user_callback_, slot,
                 strands, call, data, calls, messages, from, newest>>

RenewCallbacks(c) ==
  /\ at[c] = "renew"
  /\ SetCallbackToSessions(IF call[c].renew THEN session_list_ ELSE {})
  /\ EndCall(c)
  /\ UNCHANGED <<members, slot, session_list_, canceled_, synchronous_callback_,
                 callback, data, calls, messages, from, newest>>

(* The end of cancel().                                                    *)
ForgetCallback(c) ==
  /\ at[c] = "forget"
  /\ synchronous_user_callback_' = 0
  /\ user_callback_is_synchronous_' = TRUE
  /\ EndCall(c)
  /\ UNCHANGED <<callback_thread_, callback_thread_stop_, slot, strands, callback,
                 data, calls, messages, from, newest>>

-----------------------------------------------------------------------------
StrandStep(s) ==
  Install(s) \/ FeedThread(s) \/ CallbackBegins(s) \/ CallbackEnds(s)

ThreadStep(t) == Test(t) \/ Doze(t) \/ Take(t) \/ ThreadCallbackEnds(t)

CallStep(c) ==
  \/ ListSession(c) \/ CancelSessions(c) \/ StopThread(c) \/ NotifyThread(c)
  \/ JoinThread(c) \/ Switch(c) \/ ClearSlot(c) \/ SpawnThread(c)
  \/ RenewCallbacks(c) \/ ForgetCallback(c)

Begin(c) ==
  \/ \E op \in Calls : BeginCall(c, op)
  \/ \E s \in Session : AddSession(c, s)

Next ==
  \/ \E s \in Session : StrandStep(s) \/ Deliver(s) \/ SessionCloses(s)
  \/ \E t \in Thread : ThreadStep(t)
  \/ \E c \in Context : Begin(c) \/ CallStep(c)

Spec == Init /\ [][Next]_vars

(* Strands and threads run on and callbacks return; nothing makes messages *)
(* arrive, sessions close or the user call.                                *)
FairSpec ==
  /\ Spec
  /\ \A s \in Session : WF_vars(StrandStep(s))
  /\ \A t \in Thread : WF_vars(ThreadStep(t))
  /\ \A c \in Context : WF_vars(CallStep(c))

-----------------------------------------------------------------------------
(* Properties.                                                             *)

(* Callbacks are given no message twice, and those of a session in the     *)
(* order of arrival, whatever callbacks are set meanwhile.  Only of a      *)
(* session that is canceled cancel() may leave one in the slot, to be      *)
(* given by the next asynchronous callback behind a newer one.             *)
MessagesInOrder ==
  [][\A c \in Context :
       at[c] \in {"deliver", "take"} /\ at'[c] = "callback" /\ data'[c] # 0 =>
         /\ newest[from[data'[c]]] # data'[c]
         /\ from[data'[c]] \notin canceled_ => newest[from[data'[c]]] < data'[c]]_vars

(* Once a synchronous callback is set, no message is kept for a callback   *)
(* thread: none is left behind by a strand that was about to store one,    *)
(* whether callbacks or other threads set it.                              *)
SlotFreed == NoCalls /\ synchronous_user_callback_ # 0 => last_callback_data_ = 0

(* Between calls every session has, or is about to install, the callback   *)
(* that is set: so it is when calls come one after another, also those in  *)
(* callbacks.  (subscriber.h:97 and :190 call both addSession() and        *)
(* setCallback() thread-safe; at the same time they do not keep this.)     *)
SessionsUpToDate ==
  NoCalls =>
    \A s \in session_list_ \ canceled_ :
      LET installed == <<synchronous_callback_[s]>> \o posted[s]
      IN installed[Len(installed)] = CurrentCallback

(* An asynchronous callback may set callbacks and cancel, which ends the   *)
(* thread it runs on: the call returns, it does not wait for its own end.  *)
(* (Not so the next call of that callback, on a thread that is detached    *)
(* now: it joins the new thread, and can wait in vain as in CancelReturns.)*)
CallFromThreadReturns ==
  \A t \in Thread :
    callback_thread_ = t /\ call[t].op # "none" ~> call[t].op = "none"

(* A message in the slot is taken by the callback thread or superseded,    *)
(* unless the thread is ended: no notification is lost.                    *)
SlotIsServed ==
  \A m \in 1 .. MaxMessages :
    last_callback_data_ = m ~> last_callback_data_ # m \/ callback_thread_ = NoThread

-----------------------------------------------------------------------------
(* What comments and documentation say, and the code does not keep.        *)

(* subscriber.h:208, "Cancelling will wait until the running callback has  *)
(* finished processing, before returning": it returns then.                *)
CancelReturns ==
  \A u \in User : call[u].op = "cancel" ~> call[u].op # "cancel"
===============================================================================
