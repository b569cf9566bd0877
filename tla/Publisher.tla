------------------------------ MODULE Publisher ------------------------------
(***************************************************************************)
(* The publisher (tcp_pubsub/src/publisher_impl.cpp) with its sessions:    *)
(* accepting subscribers, the session list, send() over all sessions and   *)
(* cancel().  The handlers of the sessions and the accept handler run on   *)
(* the ThreadCount threads of the executor; send() and cancel() run on the *)
(* threads of the user, any number of them at once.                        *)
(***************************************************************************)
EXTENDS PublisherSession

CONSTANT ThreadCount   \* argument of the executor's constructor

ASSUME PublisherAssumption == ThreadCount \in Nat \ {0}

VARIABLES
  is_running_, acceptor_, publisher_sessions_,   \* the members
  accept,       \* the outstanding async_accept and its handler
  incoming,     \* the session it accepted
  todo          \* todo[u]: sessions the loop of user u has still to visit

publisherVars == <<is_running_, acceptor_, publisher_sessions_, accept,
                   incoming, todo>>
allVars == <<vars, publisherVars>>

PublisherLabel ==
  Label \cup {"sendEmpty", "sendLock", "sendLoop", "cancelCopy", "cancelLoop"}

PublisherTypeOK ==
  /\ MembersTypeOK
  /\ ContextsTypeOK(PublisherLabel)
  /\ is_running_ \in BOOLEAN
  /\ acceptor_ \in {"new", "failed", "listening", "closed"}
  /\ publisher_sessions_ \in Seq(Session)
  /\ accept \in {"none", "pending", "accepted", "pushBack"}
  /\ incoming \in Session \cup {NoSession}
  /\ todo \in [User -> Seq(Session)]

PublisherInit ==
  /\ Init
  /\ is_running_ = FALSE
  /\ acceptor_ = "new"
  /\ publisher_sessions_ = <<>>
  /\ accept = "none"
  /\ incoming = NoSession
  /\ todo = [u \in User |-> <<>>]

-----------------------------------------------------------------------------
(* Faulty variant: cancel() keeps the mutex while it cancels the sessions. *)
SessionsMutexFreeOfLoops ==
  \A u \in User :
    at[u] \notin {"sendLoop", "enqueue", "write", "cancelLoop", "closeSocket",
                  "closedHandler"}

(* publisher_sessions_mutex_ is held by send() over its whole loop; every  *)
(* other critical section is a single step.                                *)
SessionsMutexFree ==
  \A u \in User : at[u] \notin {"sendLoop", "enqueue", "write"}

(* Threads of the executor that are inside a handler.                      *)
BusyThreads ==
  Cardinality({s \in Session : at[s] # "idle"})
    + (IF accept = "pushBack" THEN 1 ELSE 0)

ThreadFree == BusyThreads < ThreadCount

-----------------------------------------------------------------------------
(* Starting and accepting.                                                 *)

PublisherStart ==
  /\ acceptor_ = "new"
  /\ \/ /\ acceptor_' = "listening" /\ is_running_' = TRUE /\ accept' = "pending"
     \/ /\ acceptor_' = "failed" /\ UNCHANGED <<is_running_, accept>>
  /\ UNCHANGED <<vars, publisher_sessions_, incoming, todo>>

(* The operating system hands a connection to the outstanding accept.      *)
AcceptConnection(s) ==
  /\ accept = "pending"
  /\ acceptor_ = "listening"
  /\ state_[s] = "NotStarted"
  /\ accept' = "accepted"
  /\ incoming' = s
  /\ UNCHANGED <<vars, is_running_, acceptor_, publisher_sessions_, todo>>

(* The accept handler with an error: the acceptor was closed, or accepting *)
(* failed.  No further accept is started.                                  *)
AcceptFails ==
  /\ accept = "pending"
  /\ ThreadFree
  /\ accept' = "none"
  /\ UNCHANGED <<vars, is_running_, acceptor_, publisher_sessions_, incoming,
                 todo>>

(* The accept handler with a connection: it starts the session ...         *)
HandleAccept ==
  /\ accept = "accepted"
  /\ ThreadFree
  /\ Start(incoming)
  /\ accept' = "pushBack"
  /\ UNCHANGED <<is_running_, acceptor_, publisher_sessions_, incoming, todo>>

(* Faulty variant: the session is not added to the list.                   *)
PushBackNothing ==
  /\ accept = "pushBack"
  /\ SessionsMutexFree
  /\ accept' = "pending"
  /\ incoming' = NoSession
  /\ UNCHANGED <<vars, publisher_sessions_, is_running_, acceptor_, todo>>

(* ... adds it to the list, and accepts the next one.                      *)
PushBack ==
  /\ accept = "pushBack"
  /\ SessionsMutexFree
  /\ publisher_sessions_' = Append(publisher_sessions_, incoming)
  /\ accept' = "pending"
  /\ incoming' = NoSession
  /\ UNCHANGED <<vars, is_running_, acceptor_, todo>>

(* Faulty variant: the handler leaves the list as it is.                   *)
KeepSession(c, back) ==
  /\ SessionsMutexFree
  /\ ClosedHandler(c, back)
  /\ UNCHANGED publisherVars

(* The publisher_session_closed_handler: forget the session, if it is in   *)
(* the list.                                                               *)
RemoveSession(c, back) ==
  /\ SessionsMutexFree
  /\ ClosedHandler(c, back)
  /\ publisher_sessions_' = RemoveFirst(publisher_sessions_, on[c])
  /\ UNCHANGED <<is_running_, acceptor_, accept, incoming, todo>>

-----------------------------------------------------------------------------
(* send().  Messages are numbered in the order their loops run.            *)

Send(u) ==
  /\ at[u] = "idle"
  /\ is_running_
  /\ sent < MaxSends
  /\ at' = [at EXCEPT ![u] = "sendEmpty"]
  /\ UNCHANGED <<memberVars, socketVars, on, arg, old, historyVars,
                 publisherVars>>

SendCheckEmpty(u) ==
  /\ at[u] = "sendEmpty"
  /\ SessionsMutexFree
  /\ at' = [at EXCEPT ![u] =
              IF publisher_sessions_ = <<>> THEN "idle" ELSE "sendLock"]
  /\ UNCHANGED <<memberVars, socketVars, on, arg, old, historyVars,
                 publisherVars>>

SendLock(u) ==
  /\ at[u] = "sendLock"
  /\ SessionsMutexFree
  /\ sent' = sent + 1
  /\ at' = [at EXCEPT ![u] = "sendLoop"]
  /\ arg' = [arg EXCEPT ![u] = sent + 1]
  /\ todo' = [todo EXCEPT ![u] = publisher_sessions_]
  /\ UNCHANGED <<memberVars, socketVars, on, old, closedCalls, is_running_,
                 acceptor_, publisher_sessions_, accept, incoming>>

(* Faulty variant: the loop ends at the first canceled session.            *)
SendLoopBreaks(u) ==
  /\ at[u] = "sendLoop"
  /\ \/ /\ todo[u] # <<>>
        /\ SendDataBuffer(u, Head(todo[u]), arg[u], "sendLoop")
        /\ todo' = [todo EXCEPT ![u] =
                      IF state_[Head(@)] = "Canceled" THEN <<>> ELSE Tail(@)]
        /\ UNCHANGED sent
     \/ /\ todo[u] = <<>>
        /\ Return(u, "idle")
        /\ UNCHANGED <<memberVars, socketVars, old, historyVars, todo>>
  /\ UNCHANGED <<is_running_, acceptor_, publisher_sessions_, accept, incoming>>

(* The next session of the loop, or the end of the call.                   *)
SendLoop(u) ==
  /\ at[u] = "sendLoop"
  /\ \/ /\ todo[u] # <<>>
        /\ SendDataBuffer(u, Head(todo[u]), arg[u], "sendLoop")
        /\ todo' = [todo EXCEPT ![u] = Tail(@)]
        /\ UNCHANGED sent
     \/ /\ todo[u] = <<>>
        /\ Return(u, "idle")
        /\ UNCHANGED <<memberVars, socketVars, old, historyVars, todo>>
  /\ UNCHANGED <<is_running_, acceptor_, publisher_sessions_, accept, incoming>>

-----------------------------------------------------------------------------
(* cancel(): close the acceptor, copy the list under the mutex, cancel     *)
(* every session of the copy without it.                                   *)

PublisherCancel(u) ==
  /\ at[u] = "idle"
  /\ acceptor_ # "new"
  /\ acceptor_' = "closed"
  /\ is_running_' = FALSE
  /\ at' = [at EXCEPT ![u] = "cancelCopy"]
  /\ UNCHANGED <<memberVars, socketVars, on, arg, old, historyVars,
                 publisher_sessions_, accept, incoming, todo>>

CancelCopy(u) ==
  /\ at[u] = "cancelCopy"
  /\ SessionsMutexFree
  /\ at' = [at EXCEPT ![u] = "cancelLoop"]
  /\ todo' = [todo EXCEPT ![u] = publisher_sessions_]
  /\ UNCHANGED <<memberVars, socketVars, on, arg, old, historyVars,
                 is_running_, acceptor_, publisher_sessions_, accept, incoming>>

CancelLoop(u) ==
  /\ at[u] = "cancelLoop"
  /\ \/ /\ todo[u] # <<>>
        /\ SessionClosedHandler(u, Head(todo[u]), "cancelLoop")
        /\ todo' = [todo EXCEPT ![u] = Tail(@)]
     \/ /\ todo[u] = <<>>
        /\ Return(u, "idle")
        /\ UNCHANGED <<memberVars, old, todo>>
  /\ UNCHANGED <<socketVars, historyVars, is_running_, acceptor_,
                 publisher_sessions_, accept, incoming>>

-----------------------------------------------------------------------------
(* A handler of a session needs a free thread to start; a started one goes *)
(* on until it returns or waits for a mutex.                               *)
HandlerStarts(s) ==
  \E w \in writes[s] : WriteCompletes(s, w) \/ WriteFails(s, w)

HandlerGoesOn(s) ==
  SetRunning(s) \/ RestoreState(s) \/ TakeNext(s)
    \/ SendBufferToClient(s, "idle") \/ CloseSocket(s)

SessionHandler(s) ==
  \/ ThreadFree /\ HandlerStarts(s) /\ UNCHANGED publisherVars
  \/ HandlerGoesOn(s) /\ UNCHANGED publisherVars
  \/ RemoveSession(s, "idle")

AcceptHandler == HandleAccept \/ PushBack

UserCall(u) ==
  \/ SendCheckEmpty(u) \/ SendLock(u) \/ SendLoop(u)
  \/ CancelCopy(u) \/ CancelLoop(u) \/ RemoveSession(u, "cancelLoop")
  \/ /\ Enqueue(u, "sendLoop") \/ SendBufferToClient(u, "sendLoop") \/ CloseSocket(u)
     /\ UNCHANGED publisherVars

PublisherNext ==
  \/ PublisherStart \/ AcceptHandler \/ AcceptFails
  \/ \E s \in Session :
       \/ AcceptConnection(s) \/ SessionHandler(s)
       \/ ThreadFree /\ ReadStep(s) /\ UNCHANGED publisherVars
       \/ (NetworkStep(s) \/ ConnectionLost(s)) /\ UNCHANGED publisherVars
  \/ \E u \in User : Send(u) \/ PublisherCancel(u) \/ UserCall(u)

PublisherSpec == PublisherInit /\ [][PublisherNext]_allVars

PublisherFairSpec ==
  /\ PublisherSpec
  /\ WF_allVars(AcceptHandler)
  /\ \A s \in Session : WF_allVars(SessionHandler(s))
  /\ \A u \in User : WF_allVars(UserCall(u))

-----------------------------------------------------------------------------
(* Properties.                                                             *)

(* A subscriber whose connection lives is in the list, from the moment the *)
(* accept handler has added it: send() and cancel() do not miss it.        *)
LiveSessionsListed ==
  \A s \in Session :
    Live(s) /\ state_[s] # "Canceled" /\ ~ (accept = "pushBack" /\ incoming = s)
    => s \in ToSet(publisher_sessions_)

(* Buffer b is on its way to the subscriber of s, or already there.        *)
Holds(s, b) ==
  \/ next_buffer_to_send_[s] = b
  \/ b \in ToSet(wire[s])
  \/ \E w \in writes[s] : w.buf = b
  \/ \E c \in Context : on[c] = s /\ at[c] \in {"write", "takeNext"} /\ arg[c] = b

(* When send() returns, every live session of the list has the message on  *)
(* its way: the loop misses none, whatever closes meanwhile.               *)
SendReachesAll ==
  [][\A u \in User :
       at[u] = "sendLoop" /\ at'[u] = "idle" =>
         \A s \in ToSet(publisher_sessions_) : Live(s) => Holds(s, arg[u])
    ]_allVars

(* Session s has closed, with all its handlers, and is still in the list.  *)
Stale(s) ==
  /\ s \in ToSet(publisher_sessions_)
  /\ conn[s] = "closed"
  /\ ~ \E c \in Context : at[c] = "closedHandler" /\ on[c] = s

(* A closed session stays in the list of the publisher only if its end has *)
(* overtaken the accept handler, which puts it there after starting it: of *)
(* every session closed once it is in the list the closed handler frees    *)
(* the list, however closes, sends and cancels meet.                       *)
StaleOnlyWhenOvertaken ==
  [][\A s \in Session :
       ~ Stale(s) /\ Stale(s)' => accept = "pushBack" /\ incoming = s]_allVars

(* send() and cancel() return: neither mutex is ever waited for in a       *)
(* circle, although closing a session calls back into the publisher.       *)
CallsReturn == \A u \in User : (at[u] # "idle") ~> (at[u] = "idle")

(* A session cancel() found in the list is closed and leaves the list.     *)
CancelEmptiesList ==
  \A u \in User, s \in Session :
    (at[u] = "cancelLoop" /\ s \in ToSet(todo[u]))
      ~> (conn[s] = "closed" /\ s \notin ToSet(publisher_sessions_))
=============================================================================
