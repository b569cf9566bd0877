-------------------------- MODULE SubscriberSession --------------------------
(***************************************************************************)
(* The subscriber's side of one TCP connection                             *)
(* (tcp_pubsub/src/subscriber_session_impl.cpp): resolving, connecting,    *)
(* the handshake request, reading frames, handing payloads to the          *)
(* callback, reconnecting and cancelling.                                  *)
(*                                                                         *)
(* The session is a chain of asynchronous operations, each started by the  *)
(* completion handler of the one before; stage is the link it has reached. *)
(* Every function of the chain looks at canceled_ before it starts its     *)
(* operation: cancel(), on a thread of the user, can fall in between.      *)
(***************************************************************************)
EXTENDS Integers, Sequences, TcpHeader

CONSTANTS
  MaxReconnections,  \* max_reconnection_attempts; negative: no limit
  PublisherCount,    \* length of publisher_list_
  MaxAttempts,       \* bound: attempts to connect in a behaviour
  MaxPayloads,       \* bound: payloads received in a behaviour
  HeaderSizes        \* the header_size fields that frames arrive with

ASSUME SubscriberSessionAssumption ==
  /\ MaxReconnections \in Int
  /\ PublisherCount \in Nat \ {0}
  /\ MaxAttempts \in Nat \ {0}
  /\ MaxPayloads \in Nat
  /\ HeaderSizes \subseteq UInt16

VARIABLES
  canceled_, retries_left_,  \* the members
  timerExpired,              \* the expiry time of retry_timer_ has passed
  socket,                    \* data_socket_
  stage,                     \* the link of the chain
  operation,                 \* what has become of the operation of the link
  index,                     \* publisher_list_index
  tasks,                     \* tasks posted to the strand
  frame,                     \* header_size, and its bytes still unread
  endpoint,                  \* connected_publisher_endpoint_, by its index
  cancelAt,                  \* where cancel() stands
  listed,                    \* the session is in the subscriber's list
  closedCalls, attempts, total, payloads, waited, tried  \* history

connectionVars == <<frame, endpoint>>
chainVars == <<stage, operation, index, tasks, connectionVars>>
historyVars == <<closedCalls, attempts, total, payloads, waited, tried>>
vars == <<canceled_, retries_left_, timerExpired, socket, chainVars, cancelAt,
          listed, historyVars>>

NoFrame == [size |-> 0, unread |-> 0]
NoEndpoint == -1

Reads == {"headerLength", "headerContent", "discard", "payload"}
SocketOperations == {"connect", "handshake"} \cup Reads
Stages == {"new", "resolve", "wait", "failed", "closing", "tasks", "callback",
           "none"} \cup SocketOperations

TypeOK ==
  /\ canceled_ \in BOOLEAN /\ retries_left_ \in Int
  /\ timerExpired \in BOOLEAN
  /\ socket \in {"closed", "connecting", "connected"}
  /\ stage \in Stages
  /\ operation \in {"none", "started", "completed"}
  /\ index \in 0 .. PublisherCount - 1
  /\ tasks \in Seq({"callback", "read"})
  /\ frame \in [size : UInt16, unread : UInt16]
  /\ endpoint \in 0 .. PublisherCount - 1 \cup {NoEndpoint}
  /\ cancelAt \in {"idle", "close", "timer", "done"}
  /\ listed \in BOOLEAN
  /\ closedCalls \in Nat /\ attempts \in Nat /\ total \in Nat
  /\ payloads \in Nat /\ waited \in BOOLEAN
  /\ tried \subseteq 0 .. PublisherCount - 1

Init ==
  /\ canceled_ = FALSE /\ retries_left_ = MaxReconnections
  /\ timerExpired = FALSE /\ socket = "closed"
  /\ stage = "new" /\ operation = "none" /\ index = 0 /\ tasks = <<>>
  /\ frame = NoFrame /\ endpoint = NoEndpoint
  /\ cancelAt = "idle" /\ listed = FALSE
  /\ closedCalls = 0 /\ attempts = 0 /\ total = 0 /\ payloads = 0
  /\ waited = FALSE /\ tried = {}

-----------------------------------------------------------------------------
(* Going from one link to the next.                                        *)

Goto(next) == stage' = next /\ operation' = "none"

(* The beginning of each function of the chain.                            *)
Enter(next) == Goto(IF canceled_ THEN "failed" ELSE next)

Started(link) == stage = link /\ operation = "started"
Completed(link) == stage = link /\ operation = "completed"

(* The function, past its look at canceled_, starts the operation.         *)
(* async_connect opens the socket, also one that was closed.               *)
StartOperation ==
  /\ stage \in {"resolve", "wait"} \cup SocketOperations /\ operation = "none"
  /\ operation' = "started"
  /\ socket' = IF stage = "connect" THEN "connecting" ELSE socket
  /\ tried' = IF stage = "connect" THEN tried \cup {index} ELSE tried
  /\ IF stage = "resolve" /\ index = 0
     THEN attempts' = attempts + 1 /\ total' = total + 1
     ELSE UNCHANGED <<attempts, total>>
  /\ waited' = (waited /\ stage # "wait")
  /\ UNCHANGED <<canceled_, retries_left_, timerExpired, stage, index, tasks,
                 connectionVars, cancelAt, listed, closedCalls, payloads>>

(* The operation is done and its handler queued: what cancel() does from   *)
(* here on does not change its result.  (At the bound on attempts only a   *)
(* canceled session waits no longer.)                                      *)
OperationSucceeds ==
  /\ operation = "started" /\ stage # "callback"
  /\ stage = "wait" => timerExpired /\ (total < MaxAttempts \/ canceled_)
  /\ stage \in SocketOperations
       => socket = IF stage = "connect" THEN "connecting" ELSE "connected"
  /\ stage = "payload" => payloads < MaxPayloads
  /\ operation' = "completed"
  /\ socket' = IF stage = "connect" THEN "connected" ELSE socket
  /\ UNCHANGED <<canceled_, retries_left_, timerExpired, stage, index, tasks,
                 connectionVars, cancelAt, listed, historyVars>>

-----------------------------------------------------------------------------
(* Connecting.                                                             *)

(* addSession(): the session is put into the list and started.             *)
Start ==
  /\ stage = "new"
  /\ listed' = TRUE
  /\ Enter("resolve")
  /\ UNCHANGED <<canceled_, retries_left_, timerExpired, socket, index, tasks,
                 connectionVars, cancelAt, historyVars>>

(* The links up to reading, each with the next.                            *)
Advance ==
  /\ \/ Completed("resolve") /\ Enter("connect") /\ UNCHANGED endpoint
     \/ Completed("connect") /\ Enter("handshake") /\ endpoint' = index
     \/ Completed("handshake") /\ Enter("headerLength") /\ UNCHANGED endpoint
  /\ UNCHANGED <<canceled_, retries_left_, timerExpired, socket, index, tasks,
                 frame, cancelAt, listed, historyVars>>

(* Faulty variant: the end of the list is not looked for.                  *)
ResolveFailedUnbounded ==
  /\ Started("resolve")
  /\ index' = index + 1 /\ Enter("resolve")
  /\ tried' = tried \cup {index}
  /\ UNCHANGED <<canceled_, retries_left_, timerExpired, socket, tasks,
                 connectionVars, cancelAt, listed, closedCalls, attempts,
                 total, payloads, waited>>

(* Faulty variant: the first publisher that cannot be resolved ends it.    *)
ResolveFailedAtOnce ==
  /\ Started("resolve")
  /\ Goto("failed") /\ UNCHANGED index
  /\ tried' = tried \cup {index}
  /\ UNCHANGED <<canceled_, retries_left_, timerExpired, socket, tasks,
                 connectionVars, cancelAt, listed, closedCalls, attempts, total,
                 payloads, waited>>

(* Only a publisher that cannot be resolved makes room for the next one.   *)
ResolveFailed ==
  /\ Started("resolve")
  /\ IF index + 1 < PublisherCount
     THEN index' = index + 1 /\ Enter("resolve")
     ELSE Goto("failed") /\ UNCHANGED index
  /\ tried' = tried \cup {index}
  /\ UNCHANGED <<canceled_, retries_left_, timerExpired, socket, tasks,
                 connectionVars, cancelAt, listed, closedCalls, attempts,
                 total, payloads, waited>>

(* An operation on the socket fails.                                       *)
OperationFailed ==
  /\ stage \in SocketOperations /\ operation = "started"
  /\ Goto("failed")
  /\ UNCHANGED <<canceled_, retries_left_, timerExpired, socket, index, tasks,
                 connectionVars, cancelAt, listed, historyVars>>

(* Faulty variants: one attempt too many, one too few.                     *)
MayRetryOnceMore == ~ canceled_
MayRetryOnceLess == ~ canceled_ /\ (retries_left_ < 0 \/ retries_left_ > 1)

MayRetry == ~ canceled_ /\ retries_left_ # 0

RetryOrClose ==
  IF MayRetry
  THEN /\ retries_left_' = IF retries_left_ > 0 THEN retries_left_ - 1
                                                ELSE retries_left_
       /\ Goto("wait")
  ELSE Goto("closing") /\ UNCHANGED retries_left_

(* Faulty variant: the socket is left to the next attempt.                 *)
ConnectionFailedOpen ==
  /\ stage = "failed"
  /\ frame' = NoFrame /\ endpoint' = NoEndpoint
  /\ RetryOrClose
  /\ UNCHANGED <<canceled_, timerExpired, socket, index, tasks, cancelAt,
                 listed, historyVars>>

(* Faulty variant: a canceled session goes on reporting its publisher.     *)
ConnectionFailedReporting ==
  /\ stage = "failed"
  /\ socket' = "closed"
  /\ frame' = NoFrame
  /\ endpoint' = IF MayRetry THEN NoEndpoint ELSE endpoint
  /\ RetryOrClose
  /\ UNCHANGED <<canceled_, timerExpired, index, tasks, cancelAt, listed,
                 historyVars>>

(* connectionFailedHandler(): close the socket, and with it what was still *)
(* to be read, then wait for the retry timer or give up.                   *)
ConnectionFailed ==
  /\ stage = "failed"
  /\ socket' = "closed"
  /\ frame' = NoFrame /\ endpoint' = NoEndpoint
  /\ RetryOrClose
  /\ UNCHANGED <<canceled_, timerExpired, index, tasks, cancelAt, listed,
                 historyVars>>

TimerFired ==
  /\ Completed("wait")
  /\ index' = 0
  /\ tried' = {}
  /\ Enter("resolve")
  /\ UNCHANGED <<canceled_, retries_left_, timerExpired, socket, tasks,
                 connectionVars, cancelAt, listed, closedCalls, attempts,
                 total, payloads, waited>>

(* session_closed_handler_: leave the subscriber's list.  Tasks that are   *)
(* still posted run afterwards.                                            *)
SessionClosed ==
  /\ stage = "closing"
  /\ listed' = FALSE
  /\ closedCalls' = closedCalls + 1
  /\ Goto(IF tasks = <<>> THEN "none" ELSE "tasks")
  /\ UNCHANGED <<canceled_, retries_left_, timerExpired, socket, index, tasks,
                 connectionVars, cancelAt, attempts, total, payloads, waited,
                 tried>>

-----------------------------------------------------------------------------
(* Reading frames, on the strand.                                          *)

(* readHeaderContent(): how much is read depends on the length received.   *)
HeaderLengthRead ==
  /\ Completed("headerLength")
  /\ \E size \in HeaderSizes :
       IF TooShort(size)
       THEN Goto("failed") /\ UNCHANGED frame
       ELSE /\ Enter("headerContent")
            /\ frame' = [size |-> size, unread |-> size - SizeOfLength]

(* readPayload(): an empty payload leads back to the header.               *)
ReadPayload ==
  \E empty \in BOOLEAN :
    /\ WithoutDataSize(frame.size) => empty
    /\ Enter(IF empty THEN "headerLength" ELSE "payload")

HeaderContentRead ==
  /\ Completed("headerContent")
  /\ frame' = [frame EXCEPT !.unread = @ - BytesToRead(frame.size)]
  /\ IF BytesToDiscard(frame.size) > 0 THEN Enter("discard") ELSE ReadPayload

(* discardDataBetweenHeaderAndPayload(), and on.                           *)
DiscardRead ==
  /\ Completed("discard")
  /\ frame' = [frame EXCEPT !.unread = @ - BytesToDiscard(frame.size)]
  /\ ReadPayload

ReadCompleted ==
  /\ HeaderLengthRead \/ HeaderContentRead \/ DiscardRead
  /\ UNCHANGED <<canceled_, retries_left_, timerExpired, socket, index, tasks,
                 endpoint, cancelAt, listed, historyVars>>

(* Faulty variant: a message posts reading on, and so does every frame.    *)
PayloadReceivedReadsTwice ==
  /\ Completed("payload")
  /\ payloads' = payloads + 1
  /\ retries_left_' = MaxReconnections
  /\ attempts' = 0
  /\ \/ /\ tasks' \in {<<"callback", "read", "read">>, <<"read">>}
        /\ Goto("tasks")
     \/ Goto("failed") /\ UNCHANGED tasks
  /\ UNCHANGED <<canceled_, timerExpired, socket, index, connectionVars,
                 cancelAt, listed, closedCalls, total, waited, tried>>

(* A whole frame gives all the retries back.  A handshake of an unknown    *)
(* version fails; else reading the next frame is posted, behind a message  *)
(* for the callback if the frame holds one.                                *)
PayloadReceived ==
  /\ Completed("payload")
  /\ payloads' = payloads + 1
  /\ retries_left_' = MaxReconnections
  /\ attempts' = 0
  /\ \/ tasks' \in {<<"callback", "read">>, <<"read">>} /\ Goto("tasks")
     \/ Goto("failed") /\ UNCHANGED tasks
  /\ UNCHANGED <<canceled_, timerExpired, socket, index, connectionVars,
                 cancelAt, listed, closedCalls, total, waited, tried>>

(* A posted task starts.                                                   *)
StrandTask ==
  /\ stage = "tasks"
  /\ Enter(IF Head(tasks) = "callback" THEN "callback" ELSE "headerLength")
  /\ tasks' = Tail(tasks)
  /\ UNCHANGED <<canceled_, retries_left_, timerExpired, socket, index,
                 connectionVars, cancelAt, listed, historyVars>>

(* The callback is called and returns.                                     *)
CallbackRuns ==
  /\ stage = "callback" /\ operation = "none"
  /\ operation' = "started"
  /\ UNCHANGED <<canceled_, retries_left_, timerExpired, socket, stage, index,
                 tasks, connectionVars, cancelAt, listed, historyVars>>

CallbackReturns ==
  /\ Started("callback")
  /\ Goto("tasks")
  /\ UNCHANGED <<canceled_, retries_left_, timerExpired, socket, index, tasks,
                 connectionVars, cancelAt, listed, historyVars>>

-----------------------------------------------------------------------------
(* cancel(), and time.                                                     *)

(* Only the first call goes past the exchange.                             *)
Cancel ==
  /\ cancelAt = "idle" /\ stage # "new"
  /\ canceled_' = TRUE
  /\ cancelAt' = "close"
  /\ UNCHANGED <<retries_left_, timerExpired, socket, chainVars, listed,
                 historyVars>>

CancelSocket ==
  /\ cancelAt = "close"
  /\ socket' = "closed"
  /\ cancelAt' = "timer"
  /\ UNCHANGED <<canceled_, retries_left_, timerExpired, chainVars, listed,
                 historyVars>>

(* Faulty variant: the handler of a canceled wait just returns.            *)
CancelTimerLost ==
  /\ cancelAt = "timer"
  /\ cancelAt' = "done"
  /\ IF Started("wait") THEN Goto("none") ELSE UNCHANGED <<stage, operation>>
  /\ UNCHANGED <<canceled_, retries_left_, timerExpired, socket, index, tasks,
                 connectionVars, listed, historyVars>>

(* retry_timer_.cancel(): a wait that is not over ends with an error, and  *)
(* its handler closes the session.                                         *)
CancelTimer ==
  /\ cancelAt = "timer"
  /\ cancelAt' = "done"
  /\ IF Started("wait") THEN Goto("closing") ELSE UNCHANGED <<stage, operation>>
  /\ UNCHANGED <<canceled_, retries_left_, timerExpired, socket, index, tasks,
                 connectionVars, listed, historyVars>>

SecondPasses ==
  /\ ~ (timerExpired /\ waited)
  /\ timerExpired' = TRUE
  /\ waited' = TRUE
  /\ UNCHANGED <<canceled_, retries_left_, socket, chainVars, cancelAt, listed,
                 closedCalls, attempts, total, payloads, tried>>

(* The publisher may stay silent on a connection that stands; everything   *)
(* else goes on by itself.                                                 *)
Silent == stage \in Reads /\ operation = "started" /\ socket = "connected"

Operation == OperationSucceeds \/ OperationFailed

ChainStep ==
  \/ StartOperation \/ Start \/ Advance \/ ResolveFailed \/ ConnectionFailed
  \/ TimerFired \/ SessionClosed \/ ReadCompleted \/ PayloadReceived
  \/ StrandTask \/ CallbackRuns \/ CallbackReturns
  \/ ~ Silent /\ Operation

PeerStep == Silent /\ Operation

CancelStep == CancelSocket \/ CancelTimer

Next == ChainStep \/ PeerStep \/ CancelStep \/ Cancel \/ SecondPasses

Spec == Init /\ [][Next]_vars

(* Threads run on, callbacks return, time passes; resolving and connecting *)
(* come to an end.                                                         *)
FairSpec ==
  Spec /\ WF_vars(ChainStep) /\ WF_vars(CancelStep) /\ WF_vars(SecondPasses)

-----------------------------------------------------------------------------
(* Properties.                                                             *)

(* A session gives an attempt up as unresolved only when it has asked for  *)
(* each publisher of its list.                                             *)
ResolvesEveryPublisher ==
  [][stage = "resolve" /\ stage' = "failed" /\ ~ canceled_
       => tried' = 0 .. PublisherCount - 1]_vars

(* A canceled session closes and leaves the list, wherever the chain stood *)
(* between its looks at canceled_.                                         *)
CancelCloses == canceled_ ~> (closedCalls > 0 /\ ~ listed /\ stage = "none")

(* A session that has closed holds no socket, even when cancel() closed it *)
(* before async_connect opened it again.                                   *)
ClosedHoldsNoSocket == stage = "none" => socket = "closed"

(* A session that has reported its end to the subscriber does not come     *)
(* back: no attempt, no callback.  If cancel() came before the two tasks   *)
(* posted for a message, and the first of them reported it, the second     *)
(* still runs, and that alone leads to a second report.                    *)
EndsAgainOnlyByLastTask ==
  [][closedCalls > 0 /\ stage' # stage
       => /\ canceled_
          /\ \/ stage = "tasks" /\ tasks = <<"read">> /\ tasks' = <<>> /\ stage' = "failed"
             \/ stage = "failed" /\ stage' = "closing"
             \/ stage = "closing" /\ stage' = "none"]_vars

(* A payload, like the next header, is read from where the frame's header  *)
(* ends, whatever length the peer's header has.                            *)
HeaderConsumed ==
  stage \in {"payload", "headerLength", "tasks", "callback"} => frame.unread = 0

(* The publisher that getConnectedPublisher() names is the one the session *)
(* is connected to, and there is none while it waits or when it has ended. *)
ReportsConnectedPublisher ==
  /\ stage \in {"handshake"} \cup Reads => endpoint = index
  /\ stage \in {"wait", "closing", "none"} => endpoint = NoEndpoint

(* Between two payloads there are at most MaxReconnections attempts to     *)
(* reconnect after the first attempt or the lost connection.               *)
AttemptsBounded ==
  MaxReconnections >= 0 => attempts <= MaxReconnections + 1

(* A session only closes itself when its retries are used up.              *)
GivesUpExhausted == closedCalls > 0 => canceled_ \/ retries_left_ = 0

-----------------------------------------------------------------------------
(* What the documentation says, and the code does not keep.                *)

(* subscriber.h:92: "Between reconnection attemps the Session will wait 1  *)
(* second."                                                                *)
WaitsBeforeRetry == [][stage = "wait" /\ stage' = "resolve" => waited]_vars
==============================================================================
