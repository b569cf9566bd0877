------------------------------ MODULE Executor ------------------------------
(***************************************************************************)
(* The thread pool and who keeps it alive (tcp_pubsub/src/executor.cpp,    *)
(* tcp_pubsub/src/executor_impl.cpp).                                      *)
(*                                                                         *)
(* Nobody waits for the pool: the last shared_ptr to the Executor stops    *)
(* it, and the threads, which own the Executor_Impl, detach themselves.    *)
(* The user, the publishers and subscribers (the owners) hold the          *)
(* Executor.  An owner is held by the user, who may also hold it through   *)
(* the handle of a session; by every operation, pending, queued or         *)
(* running, whose handler captures it or one of its sessions; by every     *)
(* session in its list, whose closed handler captures it; and a Subscriber *)
(* by its callback thread.                                                 *)
(*                                                                         *)
(* Of a session only that counts: of the operations it has under way (a    *)
(* read, a write, a timer) one is kept, beside the handlers that run.      *)
(***************************************************************************)
EXTENDS Naturals

CONSTANTS
  Thread,          \* threads of the pool, possibly none
  Publisher,       \* the Publisher_Impl objects
  Subscriber,      \* the Subscriber_Impl objects
  Session,         \* bound: the sessions each of them ever has
  Accept, Refuse,  \* an accept operation of a publisher, and a failed one
  Nobody, Outside

Owner == Publisher \cup Subscriber
Target == Session \cup {Accept, Refuse}

(* What a handler is of: a session, or the acceptor, of an owner.          *)
Work == Owner \X Target
Sessions == Owner \X Session

ASSUME ExecutorAssumption ==
  /\ Publisher \cap Subscriber = {}
  /\ {Accept, Refuse} \cap Session = {} /\ Accept # Refuse
  /\ Nobody \notin Thread \cup Work \cup Session \cup {Outside}
  /\ Outside \notin Thread

VARIABLES
  handle,       \* the user holds a shared_ptr<Executor>
  owner,        \* each owner in the hands of the user
  state,        \* each session
  listed,       \* publisher_sessions_ and session_list_
  feeding,      \* subscribers with a callback thread
  pending,      \* operations under way
  ready,        \* those whose handler is queued in the io_context
  handler,      \* the handler each thread runs
  incoming,     \* the session an accept handler has started, not yet listed
  thread,       \* each thread of the pool
  guard,        \* dummy_work_
  stopped,      \* the io_context is stopped
  destroyer,    \* the thread that dropped the last reference to the Executor
  destroyAt,    \* where ~Executor stands
  detachedBy    \* the thread that has run ~Executor_Impl

sessionVars == <<state, listed>>
operationVars == <<pending, ready>>
useVars == <<handle, owner, feeding, sessionVars, operationVars>>
poolVars == <<handler, incoming, thread>>
endVars == <<guard, stopped, destroyer, destroyAt, detachedBy>>
vars == <<useVars, poolVars, endVars>>

TypeOK ==
  /\ handle \in BOOLEAN
  /\ owner \in [Owner -> {"none", "used", "canceled", "released"}]
  /\ state \in [Sessions -> {"none", "open", "canceled", "closed"}]
  /\ listed \subseteq Sessions /\ feeding \subseteq Subscriber
  /\ pending \subseteq Work /\ ready \subseteq Work
  /\ handler \in [Thread -> Work \cup {Nobody}]
  /\ incoming \in [Thread -> Session \cup {Nobody}]
  /\ thread \in [Thread -> {"created", "running", "leaving", "last", "ended"}]
  /\ guard \in BOOLEAN /\ stopped \in BOOLEAN
  /\ destroyer \in Thread \cup {Nobody, Outside}
  /\ destroyAt \in {"guard", "stop", "release", "done"}
  /\ detachedBy \in Thread \cup {Nobody, Outside}

(* Executor_Impl::start() has made the threads, which may take their time  *)
(* to call run().                                                          *)
Init ==
  /\ handle = TRUE
  /\ owner = [o \in Owner |-> "none"]
  /\ state = [w \in Sessions |-> "none"]
  /\ listed = {} /\ feeding = {}
  /\ pending = {} /\ ready = {}
  /\ handler = [t \in Thread |-> Nobody]
  /\ incoming = [t \in Thread |-> Nobody]
  /\ thread = [t \in Thread |-> "created"]
  /\ guard = TRUE /\ stopped = FALSE
  /\ destroyer = Nobody /\ destroyAt = "guard" /\ detachedBy = Nobody

-----------------------------------------------------------------------------
(* References.                                                             *)

ByUser(o) == owner[o] \in {"used", "canceled"}

(* Faulty variant: the handlers do not capture their owner.                *)
OwnerHeldByUser(o) == ByUser(o) \/ o \in feeding

OwnerHeld(o) ==
  \/ ByUser(o)
  \/ o \in feeding
  \/ \E x \in Target :
       \/ <<o, x>> \in pending \cup ready \cup listed
       \/ \E t \in Thread : handler[t] = <<o, x>>

ExecutorHeld == handle \/ \E o \in Owner : OwnerHeld(o)

(* A reference is dropped: the last one destroys the Executor.             *)
DropBy(who) ==
  /\ destroyer' = IF ExecutorHeld' THEN destroyer ELSE who
  /\ UNCHANGED <<guard, stopped, destroyAt, detachedBy>>

-----------------------------------------------------------------------------
(* The user, on a thread of its own or in a callback.                      *)

(* A new Publisher may be started: it accepts.                             *)
CreateOwner(o) ==
  /\ handle /\ owner[o] = "none"
  /\ owner' = [owner EXCEPT ![o] = "used"]
  /\ \/ pending' = pending
     \/ o \in Publisher /\ pending' = pending \cup {<<o, Accept>>}
  /\ UNCHANGED <<handle, feeding, sessionVars, ready, poolVars, endVars>>

(* addSession() lists and starts a session under one lock.                 *)
AddSession(o, s) ==
  /\ o \in Subscriber /\ ByUser(o)
  /\ state[<<o, s>>] = "none"
  /\ owner' = [owner EXCEPT ![o] = "used"]
  /\ state' = [state EXCEPT ![<<o, s>>] = "open"]
  /\ listed' = listed \cup {<<o, s>>}
  /\ pending' = pending \cup {<<o, s>>}
  /\ UNCHANGED <<handle, feeding, ready, poolVars, endVars>>

(* setCallback() makes a callback thread.                                  *)
SetCallback(o) ==
  /\ o \in Subscriber /\ ByUser(o)
  /\ feeding' = feeding \cup {o}
  /\ owner' = [owner EXCEPT ![o] = "used"]
  /\ UNCHANGED <<handle, sessionVars, operationVars, poolVars, endVars>>

(* cancel(), also in the destructors of Publisher and Subscriber, whether  *)
(* or not it was called before.  The acceptor is closed and the sessions   *)
(* of the list are canceled: a publisher's are closed here, those of a     *)
(* subscriber end with their operation.  The callback thread is joined, or *)
(* detached if it is the one that calls.                                   *)
CancelOwner(o) ==
  LET canceled == {w \in listed : w[1] = o /\ state[w] = "open"}
      aborted == pending \cap (canceled \cup {<<o, Accept>>})
  IN
  /\ ByUser(o)
  /\ owner' = [owner EXCEPT ![o] = "canceled"]
  /\ state' = [w \in Sessions |->
       IF w \in canceled THEN IF o \in Publisher THEN "closed" ELSE "canceled" ELSE state[w]]
  /\ listed' = IF o \in Publisher THEN listed \ canceled ELSE listed
  /\ pending' = pending \ aborted
  /\ ready' = ready \cup {IF w[2] = Accept THEN <<o, Refuse>> ELSE w : w \in aborted}
  /\ feeding' \in {feeding, feeding \ {o}}
  /\ UNCHANGED <<handle, poolVars, endVars>>

(* A detached callback thread ends when its callback returns.              *)
CallbackThreadEnds(o) ==
  /\ o \in feeding /\ owner[o] \in {"canceled", "released"}
  /\ feeding' = feeding \ {o}
  /\ UNCHANGED <<handle, owner, sessionVars, operationVars, poolVars>>
  /\ DropBy(Outside)

ReleaseOwner(o) ==
  /\ owner[o] = "canceled"
  /\ owner' = [owner EXCEPT ![o] = "released"]
  /\ UNCHANGED <<handle, feeding, sessionVars, operationVars, poolVars>>
  /\ DropBy(Outside)

DropHandle ==
  /\ handle
  /\ handle' = FALSE
  /\ UNCHANGED <<owner, feeding, sessionVars, operationVars, poolVars>>
  /\ DropBy(Outside)

-----------------------------------------------------------------------------
(* Operations and their handlers.                                          *)

(* A session goes on with an operation: in its handler, or, at a           *)
(* publisher, in send() of the user.                                       *)
StartOperation(w) ==
  /\ w \in Sessions /\ state[w] = "open"
  /\ w \notin pending \cup ready
  /\ \/ \E t \in Thread : handler[t] = w
     \/ w[1] \in Publisher /\ ByUser(w[1]) /\ w \in listed
  /\ pending' = pending \cup {w}
  /\ UNCHANGED <<handle, owner, feeding, sessionVars, ready, poolVars, endVars>>

(* An operation has completed.  An accept that fails, fails for good: at    *)
(* the latest when the sessions that are the bound are used up.            *)
CompleteOperation(w) ==
  /\ w \in pending
  /\ pending' = pending \ {w}
  /\ \/ /\ w[2] = Accept => \E s \in Session : state[<<w[1], s>>] = "none"
        /\ ready' = ready \cup {w}
     \/ w[2] = Accept /\ ready' = ready \cup {<<w[1], Refuse>>}
  /\ UNCHANGED <<handle, owner, feeding, sessionVars, poolVars, endVars>>

EnterRun(t) ==
  /\ thread[t] = "created"
  /\ thread' = [thread EXCEPT ![t] = "running"]
  /\ UNCHANGED <<useVars, handler, incoming, endVars>>

Idle(t) == thread[t] = "running" /\ handler[t] = Nobody /\ destroyer # t

RunHandler(t, w) ==
  /\ Idle(t) /\ ~ stopped
  /\ w \in ready /\ w[2] # Accept
  /\ ready' = ready \ {w}
  /\ handler' = [handler EXCEPT ![t] = w]
  /\ UNCHANGED <<handle, owner, feeding, sessionVars, pending, incoming, thread, endVars>>

(* The accept handler starts the new session, ...                          *)
AcceptClient(t, o, s) ==
  /\ Idle(t) /\ ~ stopped
  /\ <<o, Accept>> \in ready /\ state[<<o, s>>] = "none"
  /\ ready' = ready \ {<<o, Accept>>}
  /\ handler' = [handler EXCEPT ![t] = <<o, Accept>>]
  /\ incoming' = [incoming EXCEPT ![t] = s]
  /\ state' = [state EXCEPT ![<<o, s>>] = "open"]
  /\ pending' = pending \cup {<<o, s>>}
  /\ UNCHANGED <<handle, owner, feeding, listed, thread, endVars>>

(* ... puts it into the list, whatever has become of it and of the         *)
(* publisher, and accepts the next one, which fails at a closed acceptor.  *)
PushBack(t) ==
  LET o == handler[t][1] IN
  /\ incoming[t] # Nobody
  /\ incoming' = [incoming EXCEPT ![t] = Nobody]
  /\ listed' = listed \cup {<<o, incoming[t]>>}
  /\ IF owner[o] = "used"
     THEN pending' = pending \cup {<<o, Accept>>} /\ UNCHANGED ready
     ELSE ready' = ready \cup {<<o, Refuse>>} /\ UNCHANGED pending
  /\ UNCHANGED <<handle, owner, feeding, state, handler, thread, endVars>>

(* A handler closes its session: the closed handler takes it off the list, *)
(* if it is there, and the other operations of the session end.            *)
CloseSession(t) ==
  LET w == handler[t] IN
  /\ w \in Sessions /\ state[w] \in {"open", "canceled"}
  /\ state' = [state EXCEPT ![w] = "closed"]
  /\ listed' = listed \ {w}
  /\ pending' = pending \ {w}
  /\ ready' = IF w \in pending THEN ready \cup {w} ELSE ready
  /\ UNCHANGED <<handle, owner, feeding, poolVars, endVars>>

(* The handler returns, and what it has captured is destroyed.  A session  *)
(* of a publisher may have nothing to do, one of a subscriber reads or     *)
(* waits until it is closed.                                               *)
HandlerReturns(t) ==
  LET w == handler[t] IN
  /\ w # Nobody /\ incoming[t] = Nobody
  /\ w \in Sessions /\ w[1] \in Subscriber => state[w] = "closed" \/ w \in pending \cup ready
  /\ handler' = [handler EXCEPT ![t] = Nobody]
  /\ UNCHANGED <<useVars, incoming, thread>>
  /\ DropBy(t)

-----------------------------------------------------------------------------
(* The end.                                                                *)

(* stop() in ~Executor.                                                    *)
ResetGuard ==
  /\ destroyer # Nobody /\ destroyAt = "guard"
  /\ guard' = FALSE
  /\ destroyAt' = "stop"
  /\ UNCHANGED <<useVars, poolVars, stopped, destroyer, detachedBy>>

StopContext ==
  /\ destroyAt = "stop"
  /\ stopped' = TRUE
  /\ destroyAt' = "release"
  /\ UNCHANGED <<useVars, poolVars, guard, destroyer, detachedBy>>

ThreadsHold == \E t \in Thread : thread[t] # "ended"

(* The Executor's own reference to the Executor_Impl goes; ~Executor_Impl  *)
(* runs here if all the threads have gone before.                          *)
ReleaseImpl ==
  /\ destroyAt = "release"
  /\ destroyAt' = "done"
  /\ detachedBy' = IF ThreadsHold THEN detachedBy ELSE destroyer
  /\ UNCHANGED <<useVars, poolVars, guard, stopped, destroyer>>

(* Faulty variant: without the dummy work, run() returns when it has       *)
(* nothing to do.                                                          *)
IdleRunReturns ==
  stopped \/ (pending \cup ready = {} /\ \A t \in Thread : handler[t] = Nobody)

(* When run() returns: stopped, or out of work.  The destroyer's handler   *)
(* counts as work until ~Executor is through.                              *)
RunReturns ==
  \/ stopped
  \/ /\ ~ guard /\ pending \cup ready = {}
     /\ \A t \in Thread : handler[t] = Nobody
     /\ destroyer \in Thread => destroyAt = "done"

LeaveRun(t) ==
  /\ thread[t] = "running" /\ handler[t] = Nobody
  /\ destroyer = t => destroyAt = "done"
  /\ RunReturns
  /\ thread' = [thread EXCEPT ![t] = "leaving"]
  /\ UNCHANGED <<useVars, handler, incoming, endVars>>

(* The thread drops its reference to the Executor_Impl; the last one runs  *)
(* the destructor.                                                         *)
DropImpl(t) ==
  /\ thread[t] = "leaving"
  /\ thread' = [thread EXCEPT ![t] =
       IF destroyAt = "done" /\ \A u \in Thread \ {t} : thread[u] = "ended"
       THEN "last" ELSE "ended"]
  /\ UNCHANGED <<useVars, handler, incoming, endVars>>

(* Faulty variant: the threads are joined.                                 *)
JoinThreads(t) ==
  /\ thread[t] = "last"
  /\ \A u \in Thread : thread[u] = "ended"
  /\ thread' = [thread EXCEPT ![t] = "ended"]
  /\ detachedBy' = t
  /\ UNCHANGED <<useVars, handler, incoming, guard, stopped, destroyer, destroyAt>>

(* ~Executor_Impl on a thread of the pool: all are detached, itself too.   *)
DetachThreads(t) ==
  /\ thread[t] = "last"
  /\ thread' = [thread EXCEPT ![t] = "ended"]
  /\ detachedBy' = t
  /\ UNCHANGED <<useVars, handler, incoming, guard, stopped, destroyer, destroyAt>>

-----------------------------------------------------------------------------
UserStep ==
  \/ DropHandle
  \/ \E o \in Owner :
       \/ CreateOwner(o) \/ SetCallback(o) \/ CancelOwner(o) \/ ReleaseOwner(o)
       \/ \E s \in Session : AddSession(o, s)

OperationStep == \E w \in Work : StartOperation(w) \/ CompleteOperation(w)

ThreadStep(t) ==
  \/ EnterRun(t) \/ PushBack(t) \/ CloseSession(t) \/ HandlerReturns(t)
  \/ LeaveRun(t) \/ DropImpl(t) \/ DetachThreads(t)
  \/ \E w \in ready : RunHandler(t, w)
  \/ \E o \in Owner, s \in Session : AcceptClient(t, o, s)

DestroyerStep == ResetGuard \/ StopContext \/ ReleaseImpl

Next ==
  \/ UserStep \/ OperationStep \/ DestroyerStep
  \/ \E o \in Owner : CallbackThreadEnds(o)
  \/ \E t \in Thread : ThreadStep(t)

Spec == Init /\ [][Next]_vars

(* Threads run on, and the handlers, with the callbacks they call, return. *)
FairSpec ==
  /\ Spec /\ WF_vars(DestroyerStep)
  /\ \A t \in Thread : WF_vars(ThreadStep(t))
  /\ \A o \in Owner : WF_vars(CallbackThreadEnds(o))

-----------------------------------------------------------------------------
(* Properties.                                                             *)

(* Stopping the io_context abandons nothing: no operation is under way, no *)
(* handler queued or running, no session listed, and no callback thread    *)
(* left, whoever dropped the last reference.                               *)
NothingAbandoned ==
  stopped => /\ pending \cup ready \cup listed = {} /\ feeding = {}
             /\ \A t \in Thread : handler[t] = Nobody

(* The threads serve as long as anybody holds the Executor, also while     *)
(* there is nothing to do.                                                 *)
HeldPoolServes ==
  ExecutorHeld => \A t \in Thread : thread[t] \in {"created", "running"}

LetGo == ~ handle /\ \A o \in Owner : owner[o] \in {"none", "released"}

PoolEnded == detachedBy # Nobody /\ \A t \in Thread : thread[t] = "ended"

(* A publisher's session that cancel() has missed, alive or dead.          *)
SessionStays == \E o \in Publisher, s \in Session : <<o, s>> \in listed

(* When the user has let go of everything, the queued handlers run, the    *)
(* sessions that were canceled end, and so do the callback threads and the *)
(* threads of the pool, and the last of them destroys it.  Only a session  *)
(* that the accept handler has put into a publisher's list behind cancel() *)
(* keeps it: the list, the session and its closed handler then hold each   *)
(* other, and the Executor.                                                *)
PoolEnds == LetGo ~> PoolEnded \/ SessionStays
=============================================================================
