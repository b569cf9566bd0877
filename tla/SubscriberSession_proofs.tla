----------------------- MODULE SubscriberSession_proofs -----------------------
(***************************************************************************)
(* The safety properties of module SubscriberSession for every limit of    *)
(* reconnections, list of publishers and set of header lengths, and the    *)
(* arithmetic of header lengths for every uint16_t.                        *)
(***************************************************************************)
EXTENDS SubscriberSession, TLAPS

(* What the operators of TcpHeader promise: a header that is long enough   *)
(* is consumed to its last byte, and never more of it is read into the     *)
(* struct than fits.                                                       *)
THEOREM HeaderConsumedExactly ==
  ASSUME NEW size \in UInt16, ~ TooShort(size)
  PROVE  /\ BytesToRead(size) \in 0 .. MyHeaderSize - SizeOfLength
         /\ BytesToDiscard(size) \in UInt16
         /\ SizeOfLength + BytesToRead(size) + BytesToDiscard(size) = size
<1>1. size \in Nat /\ size < 65536 /\ size >= 2
  BY DEF UInt16, TooShort, SizeOfLength
<1>2. CASE size < 12
  <2>1. BytesToRead(size) = size - 2
    BY <1>1, <1>2 DEF BytesToRead, Narrow, Smaller, MyHeaderSize, SizeOfLength
  <2>2. BytesToDiscard(size) = 0
    BY <1>1, <1>2 DEF BytesToDiscard, MyHeaderSize
  <2> QED
    BY <1>1, <1>2, <2>1, <2>2 DEF MyHeaderSize, SizeOfLength, UInt16
<1>3. CASE size >= 12
  <2>1. BytesToRead(size) = 10
    BY <1>1, <1>3 DEF BytesToRead, Narrow, Smaller, MyHeaderSize, SizeOfLength
  <2>2. BytesToDiscard(size) = size - 12
    BY <1>1, <1>3 DEF BytesToDiscard, Narrow, MyHeaderSize
  <2>3. size - 12 \in Nat /\ size - 12 < 65536
    BY <1>1, <1>3
  <2> QED
    BY <1>1, <1>3, <2>1, <2>2, <2>3 DEF MyHeaderSize, SizeOfLength, UInt16
<1> QED
  BY <1>1, <1>2, <1>3

-----------------------------------------------------------------------------
(* The inductive invariant.                                                *)

CancelOK == cancelAt # "idle" => canceled_

(* From connectionFailedHandler() to the next attempt there is no socket,  *)
(* and no publisher is reported.                                           *)
SocketOK == stage \in {"wait", "closing", "none"} => socket = "closed"

EndpointOK ==
  /\ stage \in {"handshake"} \cup Reads => endpoint = index
  /\ stage \in {"tasks", "callback"} /\ ~ canceled_ => endpoint = index
  /\ stage \in {"wait", "closing", "none"} => endpoint = NoEndpoint

(* Tasks wait for the strand only behind a payload, or in a session that   *)
(* is canceled before it comes to them.                                    *)
TasksOK ==
  /\ tasks \in {<<>>, <<"read">>, <<"callback", "read">>}
  /\ stage = "callback" => tasks = <<"read">>
  /\ stage = "tasks" => tasks # <<>>
  /\ tasks # <<>> => \/ stage \in {"tasks", "callback"}
                     \/ canceled_ /\ stage \in {"failed", "closing"}
  /\ stage \in {"failed", "closing"} => tasks # <<"callback", "read">>

(* What a session that has told its end may still do.                      *)
ClosedOK ==
  /\ stage = "closing" => canceled_ \/ retries_left_ = 0
  /\ closedCalls > 0 =>
       \/ stage = "none" /\ (canceled_ \/ retries_left_ = 0)
       \/ canceled_ /\ stage \in {"tasks", "failed", "closing"}
  /\ closedCalls + Len(tasks)
       + (IF stage \in {"failed", "closing"} THEN 1 ELSE 0) <= 2
  /\ closedCalls > 1 => canceled_

(* Each attempt but the first has cost a retry; before an attempt one is   *)
(* still due.                                                              *)
AttemptsOK ==
  MaxReconnections >= 0 =>
    /\ retries_left_ \in 0 .. MaxReconnections
    /\ attempts <= MaxReconnections - retries_left_ + 1
    /\ \/ stage \in {"new", "wait"}
       \/ stage = "resolve" /\ operation = "none" /\ index = 0
       => attempts <= MaxReconnections - retries_left_

(* What is left of the header where the chain stands.                      *)
FrameOK ==
  /\ stage \in {"headerContent", "discard"} => ~ TooShort(frame.size)
  /\ stage = "headerContent" => frame.unread = frame.size - SizeOfLength
  /\ stage = "discard" => frame.unread = BytesToDiscard(frame.size)
  /\ stage \notin {"headerContent", "discard", "failed"} => frame.unread = 0

Inv == CancelOK /\ SocketOK /\ EndpointOK /\ TasksOK /\ ClosedOK
         /\ AttemptsOK /\ FrameOK

IInv == TypeOK /\ Inv

(* A new session satisfies it.                                             *)
LEMMA InitInv == Init => IInv
<1> SUFFICES ASSUME Init PROVE IInv
  OBVIOUS
<1> USE SubscriberSessionAssumption DEF Init, NoFrame, NoEndpoint
<1>1. TypeOK
  <2>1. tasks \in Seq({"callback", "read"})
    OBVIOUS
  <2>2. frame \in [size : UInt16, unread : UInt16]
    BY DEF UInt16
  <2>3. index \in 0 .. PublisherCount - 1
    OBVIOUS
  <2> QED
    BY <2>1, <2>2, <2>3 DEF TypeOK, Stages
<1>2. CancelOK /\ SocketOK /\ EndpointOK /\ TasksOK /\ AttemptsOK /\ FrameOK
  BY DEF CancelOK, SocketOK, EndpointOK, TasksOK, AttemptsOK, FrameOK, Reads
<1>3. ClosedOK
  BY DEF ClosedOK
<1> QED
  BY <1>1, <1>2, <1>3 DEF IInv, Inv

(* An operation starts: an attempt is counted, a socket opened.            *)
LEMMA StartOperationKeeps == IInv /\ StartOperation => IInv'
<1> SUFFICES ASSUME IInv, StartOperation PROVE IInv'
  OBVIOUS
<1> USE SubscriberSessionAssumption
        DEF IInv, Inv, StartOperation,
            vars, chainVars, connectionVars, historyVars
<1>1. TypeOK'
  BY DEF TypeOK, Stages, SocketOperations, Reads
<1>2. CancelOK'
  BY DEF CancelOK
<1>3. SocketOK'
  BY DEF SocketOK, TypeOK
<1>4. EndpointOK'
  BY DEF EndpointOK, Reads, TypeOK
<1>5. TasksOK'
  BY DEF TasksOK
<1>6. ClosedOK'
  BY DEF ClosedOK, TypeOK, TasksOK
<1>7. AttemptsOK'
  BY DEF AttemptsOK, TypeOK
<1>8. FrameOK'
  BY DEF FrameOK, TypeOK
<1> QED
  BY <1>1, <1>2, <1>3, <1>4, <1>5, <1>6, <1>7, <1>8

(* An operation is done; the chain stands where it stood.                  *)
LEMMA OperationSucceedsKeeps == IInv /\ OperationSucceeds => IInv'
<1> SUFFICES ASSUME IInv, OperationSucceeds PROVE IInv'
  OBVIOUS
<1> USE SubscriberSessionAssumption
        DEF IInv, Inv, OperationSucceeds, SocketOperations,
            vars, chainVars, connectionVars, historyVars
<1>1. TypeOK'
  BY DEF TypeOK, Stages, SocketOperations, Reads
<1>2. CancelOK'
  BY DEF CancelOK
<1>3. SocketOK'
  BY DEF SocketOK, TypeOK
<1>4. EndpointOK'
  BY DEF EndpointOK, Reads, TypeOK
<1>5. TasksOK'
  BY DEF TasksOK
<1>6. ClosedOK'
  BY DEF ClosedOK, TypeOK, TasksOK
<1>7. AttemptsOK'
  BY DEF AttemptsOK, TypeOK
<1>8. FrameOK'
  BY DEF FrameOK, TypeOK
<1> QED
  BY <1>1, <1>2, <1>3, <1>4, <1>5, <1>6, <1>7, <1>8

(* The session starts with an attempt that is due.                         *)
LEMMA StartKeeps == IInv /\ Start => IInv'
<1> SUFFICES ASSUME IInv, Start PROVE IInv'
  OBVIOUS
<1> USE SubscriberSessionAssumption
        DEF IInv, Inv, Start, Enter, Goto,
            vars, chainVars, connectionVars, historyVars
<1>1. TypeOK'
  BY DEF TypeOK, Stages, SocketOperations, Reads
<1>2. CancelOK'
  BY DEF CancelOK
<1>3. SocketOK'
  BY DEF SocketOK, TypeOK
<1>4. EndpointOK'
  BY DEF EndpointOK, Reads, TypeOK
<1>5. TasksOK'
  BY DEF TasksOK
<1>6. ClosedOK'
  BY DEF ClosedOK, TypeOK, TasksOK
<1>7. AttemptsOK'
  BY DEF AttemptsOK, TypeOK
<1>8. FrameOK'
  BY DEF FrameOK, TypeOK
<1> QED
  BY <1>1, <1>2, <1>3, <1>4, <1>5, <1>6, <1>7, <1>8

(* Connected: the session reports the publisher it asked for.              *)
LEMMA AdvanceKeeps == IInv /\ Advance => IInv'
<1> SUFFICES ASSUME IInv, Advance PROVE IInv'
  OBVIOUS
<1> USE SubscriberSessionAssumption
        DEF IInv, Inv, Advance, Enter, Goto, Completed,
            vars, chainVars, connectionVars, historyVars
<1>1. TypeOK'
  BY DEF TypeOK, Stages, SocketOperations, Reads
<1>2. CancelOK'
  BY DEF CancelOK
<1>3. SocketOK'
  BY DEF SocketOK, TypeOK
<1>4. EndpointOK'
  BY DEF EndpointOK, Reads, TypeOK
<1>5. TasksOK'
  BY DEF TasksOK
<1>6. ClosedOK'
  BY DEF ClosedOK, TypeOK, TasksOK
<1>7. AttemptsOK'
  BY DEF AttemptsOK, TypeOK
<1>8. FrameOK'
  BY DEF FrameOK, TypeOK
<1> QED
  BY <1>1, <1>2, <1>3, <1>4, <1>5, <1>6, <1>7, <1>8

(* The next publisher is part of the same attempt.                         *)
LEMMA ResolveFailedKeeps == IInv /\ ResolveFailed => IInv'
<1> SUFFICES ASSUME IInv, ResolveFailed PROVE IInv'
  OBVIOUS
<1> USE SubscriberSessionAssumption
        DEF IInv, Inv, ResolveFailed, Enter, Goto, Started,
            vars, chainVars, connectionVars, historyVars
<1>1. TypeOK'
  BY DEF TypeOK, Stages, SocketOperations, Reads
<1>2. CancelOK'
  BY DEF CancelOK
<1>3. SocketOK'
  BY DEF SocketOK, TypeOK
<1>4. EndpointOK'
  BY DEF EndpointOK, Reads, TypeOK
<1>5. TasksOK'
  BY DEF TasksOK
<1>6. ClosedOK'
  BY DEF ClosedOK, TypeOK, TasksOK
<1>7. AttemptsOK'
  BY DEF AttemptsOK, TypeOK
<1>8. FrameOK'
  BY DEF FrameOK, TypeOK
<1> QED
  BY <1>1, <1>2, <1>3, <1>4, <1>5, <1>6, <1>7, <1>8

(* A failed operation leaves no task posted.                               *)
LEMMA OperationFailedKeeps == IInv /\ OperationFailed => IInv'
<1> SUFFICES ASSUME IInv, OperationFailed PROVE IInv'
  OBVIOUS
<1> USE SubscriberSessionAssumption
        DEF IInv, Inv, OperationFailed, Goto, SocketOperations,
            vars, chainVars, connectionVars, historyVars
<1>1. TypeOK'
  BY DEF TypeOK, Stages, SocketOperations, Reads
<1>2. CancelOK'
  BY DEF CancelOK
<1>3. SocketOK'
  BY DEF SocketOK, TypeOK
<1>4. EndpointOK'
  BY DEF EndpointOK, Reads, TypeOK
<1>5. TasksOK'
  BY DEF TasksOK, Reads
<1>6. ClosedOK'
  BY <1>5 DEF ClosedOK, TypeOK, TasksOK, Reads
<1>7. AttemptsOK'
  BY DEF AttemptsOK, TypeOK
<1>8. FrameOK'
  BY DEF FrameOK, TypeOK
<1> QED
  BY <1>1, <1>2, <1>3, <1>4, <1>5, <1>6, <1>7, <1>8

(* One retry is spent, or the session closes without socket and publisher. *)
LEMMA ConnectionFailedKeeps == IInv /\ ConnectionFailed => IInv'
<1> SUFFICES ASSUME IInv, ConnectionFailed PROVE IInv'
  OBVIOUS
<1> USE SubscriberSessionAssumption
        DEF IInv, Inv, ConnectionFailed, Goto, RetryOrClose, MayRetry, NoFrame, NoEndpoint,
            vars, chainVars, connectionVars, historyVars
<1>1. TypeOK'
  <2>1. frame' \in [size : UInt16, unread : UInt16]
    BY DEF UInt16
  <2>2. stage' \in Stages /\ retries_left_' \in Int
    BY DEF TypeOK, Stages
  <2> QED
    BY <2>1, <2>2 DEF TypeOK
<1>2. CancelOK'
  BY DEF CancelOK
<1>3. SocketOK'
  BY DEF SocketOK, TypeOK
<1>4. EndpointOK'
  BY DEF EndpointOK, Reads, TypeOK
<1>5. TasksOK'
  BY DEF TasksOK
<1>6. ClosedOK'
  BY DEF ClosedOK, TypeOK, TasksOK
<1>7. AttemptsOK'
  BY DEF AttemptsOK, TypeOK
<1>8. FrameOK'
  BY DEF FrameOK, TypeOK
<1> QED
  BY <1>1, <1>2, <1>3, <1>4, <1>5, <1>6, <1>7, <1>8

(* The attempt that was due begins.                                        *)
LEMMA TimerFiredKeeps == IInv /\ TimerFired => IInv'
<1> SUFFICES ASSUME IInv, TimerFired PROVE IInv'
  OBVIOUS
<1> USE SubscriberSessionAssumption
        DEF IInv, Inv, TimerFired, Enter, Goto, Completed,
            vars, chainVars, connectionVars, historyVars
<1>1. TypeOK'
  BY DEF TypeOK, Stages, SocketOperations, Reads
<1>2. CancelOK'
  BY DEF CancelOK
<1>3. SocketOK'
  BY DEF SocketOK, TypeOK
<1>4. EndpointOK'
  BY DEF EndpointOK, Reads, TypeOK
<1>5. TasksOK'
  BY DEF TasksOK
<1>6. ClosedOK'
  BY DEF ClosedOK, TypeOK, TasksOK
<1>7. AttemptsOK'
  BY DEF AttemptsOK, TypeOK
<1>8. FrameOK'
  BY DEF FrameOK, TypeOK
<1> QED
  BY <1>1, <1>2, <1>3, <1>4, <1>5, <1>6, <1>7, <1>8

(* The end is told; tasks are left only if the session is canceled.        *)
LEMMA SessionClosedKeeps == IInv /\ SessionClosed => IInv'
<1> SUFFICES ASSUME IInv, SessionClosed PROVE IInv'
  OBVIOUS
<1> USE SubscriberSessionAssumption
        DEF IInv, Inv, SessionClosed, Goto,
            vars, chainVars, connectionVars, historyVars
<1>1. TypeOK'
  <2>1. stage' \in Stages /\ operation' = "none"
    BY DEF Stages
  <2>2. closedCalls' \in Nat /\ listed' = FALSE
    BY DEF TypeOK
  <2>3. UNCHANGED <<canceled_, retries_left_, timerExpired, socket, index, tasks,
                    frame, endpoint, cancelAt, attempts, total, payloads, waited,
                    tried>>
    OBVIOUS
  <2> HIDE DEF SessionClosed, Goto, IInv, Inv
  <2>4. TypeOK
    BY DEF IInv
  <2> QED
    BY <2>1, <2>2, <2>3, <2>4 DEF TypeOK
<1>2. CancelOK'
  BY DEF CancelOK
<1>3. SocketOK'
  BY DEF SocketOK, TypeOK
<1>4. EndpointOK'
  BY DEF EndpointOK, Reads, TypeOK, TasksOK
<1>5. TasksOK'
  BY DEF TasksOK
<1>6. ClosedOK'
  BY DEF ClosedOK, TypeOK, TasksOK
<1>7. AttemptsOK'
  BY DEF AttemptsOK, TypeOK
<1>8. FrameOK'
  BY DEF FrameOK, TypeOK
<1> QED
  BY <1>1, <1>2, <1>3, <1>4, <1>5, <1>6, <1>7, <1>8

(* The three reads of a header, by what is left of it.                     *)
LEMMA ReadCompletedKeeps == IInv /\ ReadCompleted => IInv'
<1> SUFFICES ASSUME IInv, ReadCompleted PROVE IInv'
  OBVIOUS
<1> USE SubscriberSessionAssumption DEF IInv, Inv
<1>a. UNCHANGED <<canceled_, retries_left_, timerExpired, socket, index, tasks,
                  endpoint, cancelAt, listed, historyVars>>
  BY DEF ReadCompleted
<1>b. stage \in {"headerLength", "headerContent", "discard"}
  BY DEF ReadCompleted, HeaderLengthRead, HeaderContentRead, DiscardRead, Completed
<1>c. tasks = <<>> /\ closedCalls = 0
  BY <1>b DEF TasksOK, ClosedOK, TypeOK
<1>d. /\ stage' \in {"headerContent", "discard", "payload", "headerLength", "failed"}
      /\ operation' = "none"
      /\ stage' # "failed" => ~ canceled_
  BY DEF ReadCompleted, HeaderLengthRead, HeaderContentRead, DiscardRead,
         ReadPayload, Enter, Goto
<1>e. frame \in [size : UInt16, unread : UInt16]
  BY DEF TypeOK
<1>f. /\ frame' \in [size : UInt16, unread : UInt16]
      /\ stage' \in {"headerContent", "discard"} => ~ TooShort(frame'.size)
      /\ stage' = "headerContent" => frame'.unread = frame'.size - SizeOfLength
      /\ stage' = "discard" => frame'.unread = BytesToDiscard(frame'.size)
      /\ stage' \in {"payload", "headerLength"} => frame'.unread = 0
  <2>1. CASE HeaderLengthRead
    <3>1. CASE stage' = "failed" /\ UNCHANGED frame
      BY <1>e, <3>1
    <3>2. CASE \E size \in HeaderSizes :
                 /\ ~ TooShort(size) /\ stage' \in {"headerContent", "failed"}
                 /\ frame' = [size |-> size, unread |-> size - SizeOfLength]
      <4>1. PICK size \in HeaderSizes :
                 /\ ~ TooShort(size) /\ stage' \in {"headerContent", "failed"}
                 /\ frame' = [size |-> size, unread |-> size - SizeOfLength]
        BY <3>2
      <4>2. size \in UInt16 /\ size - SizeOfLength \in UInt16
        BY <4>1 DEF UInt16, TooShort, SizeOfLength
      <4> QED
        BY <4>1, <4>2
    <3> QED
      BY <2>1, <3>1, <3>2 DEF HeaderLengthRead, Enter, Goto
  <2>2. CASE HeaderContentRead
    <3>1. /\ frame.size \in UInt16 /\ ~ TooShort(frame.size)
          /\ frame.unread = frame.size - SizeOfLength
      BY <1>e, <2>2 DEF FrameOK, HeaderContentRead, Completed
    <3>2. frame.unread - BytesToRead(frame.size) = BytesToDiscard(frame.size)
      BY <3>1, HeaderConsumedExactly DEF UInt16, MyHeaderSize, SizeOfLength
    <3>3. BytesToDiscard(frame.size) \in UInt16
      BY <3>1, HeaderConsumedExactly
    <3>4. frame'.size = frame.size /\ frame'.unread = BytesToDiscard(frame.size)
          /\ frame' \in [size : UInt16, unread : UInt16]
      BY <1>e, <2>2, <3>2, <3>3 DEF HeaderContentRead
    <3>5. stage' # "headerContent"
          /\ (stage' \in {"payload", "headerLength"} => BytesToDiscard(frame.size) = 0)
      <4>1. BytesToDiscard(frame.size) > 0 \/ BytesToDiscard(frame.size) = 0
        BY <3>3 DEF UInt16
      <4> QED
        BY <2>2, <4>1 DEF HeaderContentRead, ReadPayload, Enter, Goto
    <3> QED
      BY <3>1, <3>4, <3>5
  <2>3. CASE DiscardRead
    <3>1. frame.unread = BytesToDiscard(frame.size)
      BY <2>3 DEF FrameOK, DiscardRead, Completed
    <3>2. frame'.unread = 0 /\ frame' \in [size : UInt16, unread : UInt16]
      BY <1>e, <2>3, <3>1 DEF DiscardRead, UInt16
    <3>3. stage' \in {"payload", "headerLength", "failed"}
      BY <2>3 DEF DiscardRead, ReadPayload, Enter, Goto
    <3> QED
      BY <3>2, <3>3
  <2> QED
    BY <2>1, <2>2, <2>3 DEF ReadCompleted
<1>1. TypeOK'
  BY <1>a, <1>d, <1>f DEF TypeOK, Stages, SocketOperations, Reads, historyVars
<1>2. CancelOK' /\ SocketOK' /\ TasksOK'
  BY <1>a, <1>c, <1>d DEF CancelOK, SocketOK, TasksOK
<1>3. EndpointOK'
  BY <1>a, <1>b, <1>d DEF EndpointOK, Reads
<1>4. ClosedOK'
  <2>1. Len(tasks') = 0 /\ closedCalls' = 0
    BY <1>a, <1>c DEF historyVars
  <2> QED
    BY <1>d, <2>1 DEF ClosedOK
<1>5. AttemptsOK'
  BY <1>a, <1>d DEF AttemptsOK, TypeOK, historyVars
<1>6. FrameOK'
  BY <1>d, <1>f DEF FrameOK
<1> QED
  BY <1>1, <1>2, <1>3, <1>4, <1>5, <1>6

(* At most two tasks are posted, and none were there before.               *)
LEMMA PayloadReceivedKeeps == IInv /\ PayloadReceived => IInv'
<1> SUFFICES ASSUME IInv, PayloadReceived PROVE IInv'
  OBVIOUS
<1> USE SubscriberSessionAssumption
        DEF IInv, Inv, PayloadReceived, Goto, Completed,
            vars, chainVars, connectionVars, historyVars
<1>1. TypeOK'
  <2>1. tasks' \in Seq({"callback", "read"})
    <3>1. CASE tasks' = <<"callback", "read">>
      BY <3>1
    <3>2. CASE tasks' = <<"read">>
      BY <3>2
    <3> QED
      BY <3>1, <3>2 DEF TypeOK
  <2>2. stage' \in Stages
    BY DEF Stages
  <2> QED
    BY <2>1, <2>2 DEF TypeOK
<1>2. CancelOK'
  BY DEF CancelOK
<1>3. SocketOK'
  BY DEF SocketOK, TypeOK
<1>4. EndpointOK'
  BY DEF EndpointOK, Reads, TypeOK
<1>5. TasksOK'
  BY DEF TasksOK
<1>6. ClosedOK'
  <2>1. tasks = <<>> /\ closedCalls = 0
    BY DEF TasksOK, ClosedOK, TypeOK
  <2>2. Len(tasks') <= 2 /\ (stage' = "failed" => Len(tasks') = 0)
    <3>1. CASE tasks' = <<"callback", "read">> /\ stage' = "tasks"
      BY <3>1
    <3>2. CASE tasks' = <<"read">> /\ stage' = "tasks"
      BY <3>2
    <3>3. CASE stage' = "failed" /\ UNCHANGED tasks
      BY <2>1, <3>3
    <3> QED
      BY <3>1, <3>2, <3>3
  <2>3. stage' \in {"tasks", "failed"} /\ closedCalls' = 0 /\ Len(tasks') \in Nat
    BY <2>1
  <2> QED
    BY <2>2, <2>3 DEF ClosedOK
<1>7. AttemptsOK'
  BY DEF AttemptsOK, TypeOK
<1>8. FrameOK'
  BY DEF FrameOK, TypeOK
<1> QED
  BY <1>1, <1>2, <1>3, <1>4, <1>5, <1>6, <1>7, <1>8

(* A task of a canceled session leads to its end once more.                *)
LEMMA StrandTaskKeeps == IInv /\ StrandTask => IInv'
<1> SUFFICES ASSUME IInv, StrandTask PROVE IInv'
  OBVIOUS
<1> USE SubscriberSessionAssumption
        DEF IInv, Inv, StrandTask, Enter, Goto,
            vars, chainVars, connectionVars, historyVars
<1>1. TypeOK'
  <2>1. tasks' \in Seq({"callback", "read"}) /\ stage' \in Stages
    BY DEF TypeOK, TasksOK, Stages, Reads, SocketOperations
  <2> QED
    BY <2>1 DEF TypeOK
<1>2. CancelOK'
  BY DEF CancelOK
<1>3. SocketOK'
  BY DEF SocketOK, TypeOK
<1>4. EndpointOK'
  BY DEF EndpointOK, Reads, TypeOK
<1>5. TasksOK'
  <2>1. CASE tasks = <<"read">>
    BY <2>1 DEF TasksOK
  <2>2. CASE tasks = <<"callback", "read">>
    <3>1. Head(tasks) = "callback" /\ Tail(tasks) = <<"read">>
      BY <2>2
    <3> QED
      BY <2>2, <3>1 DEF TasksOK
  <2> QED
    BY <2>1, <2>2 DEF TasksOK
<1>6. ClosedOK'
  BY DEF ClosedOK, TypeOK, TasksOK
<1>7. AttemptsOK'
  BY DEF AttemptsOK, TypeOK
<1>8. FrameOK'
  BY DEF FrameOK, TypeOK
<1> QED
  BY <1>1, <1>2, <1>3, <1>4, <1>5, <1>6, <1>7, <1>8

(* The callback starts.                                                    *)
LEMMA CallbackRunsKeeps == IInv /\ CallbackRuns => IInv'
<1> SUFFICES ASSUME IInv, CallbackRuns PROVE IInv'
  OBVIOUS
<1> USE SubscriberSessionAssumption
        DEF IInv, Inv, CallbackRuns,
            vars, chainVars, connectionVars, historyVars
<1>1. TypeOK'
  BY DEF TypeOK, Stages, SocketOperations, Reads
<1>2. CancelOK'
  BY DEF CancelOK
<1>3. SocketOK'
  BY DEF SocketOK, TypeOK
<1>4. EndpointOK'
  BY DEF EndpointOK, Reads, TypeOK
<1>5. TasksOK'
  BY DEF TasksOK
<1>6. ClosedOK'
  BY DEF ClosedOK, TypeOK, TasksOK
<1>7. AttemptsOK'
  BY DEF AttemptsOK, TypeOK
<1>8. FrameOK'
  BY DEF FrameOK, TypeOK
<1> QED
  BY <1>1, <1>2, <1>3, <1>4, <1>5, <1>6, <1>7, <1>8

(* The task that reads on follows the callback.                            *)
LEMMA CallbackReturnsKeeps == IInv /\ CallbackReturns => IInv'
<1> SUFFICES ASSUME IInv, CallbackReturns PROVE IInv'
  OBVIOUS
<1> USE SubscriberSessionAssumption
        DEF IInv, Inv, CallbackReturns, Goto, Started,
            vars, chainVars, connectionVars, historyVars
<1>1. TypeOK'
  BY DEF TypeOK, Stages, SocketOperations, Reads
<1>2. CancelOK'
  BY DEF CancelOK
<1>3. SocketOK'
  BY DEF SocketOK, TypeOK
<1>4. EndpointOK'
  BY DEF EndpointOK, Reads, TypeOK
<1>5. TasksOK'
  BY DEF TasksOK
<1>6. ClosedOK'
  BY DEF ClosedOK, TypeOK, TasksOK
<1>7. AttemptsOK'
  BY DEF AttemptsOK, TypeOK
<1>8. FrameOK'
  BY DEF FrameOK, TypeOK
<1> QED
  BY <1>1, <1>2, <1>3, <1>4, <1>5, <1>6, <1>7, <1>8

(* cancel() begins.                                                        *)
LEMMA CancelKeeps == IInv /\ Cancel => IInv'
<1> SUFFICES ASSUME IInv, Cancel PROVE IInv'
  OBVIOUS
<1> USE SubscriberSessionAssumption
        DEF IInv, Inv, Cancel,
            vars, chainVars, connectionVars, historyVars
<1>1. TypeOK'
  BY DEF TypeOK, Stages, SocketOperations, Reads
<1>2. CancelOK'
  BY DEF CancelOK
<1>3. SocketOK'
  BY DEF SocketOK, TypeOK
<1>4. EndpointOK'
  BY DEF EndpointOK, Reads, TypeOK
<1>5. TasksOK'
  BY DEF TasksOK
<1>6. ClosedOK'
  BY DEF ClosedOK, TypeOK, TasksOK
<1>7. AttemptsOK'
  BY DEF AttemptsOK, TypeOK
<1>8. FrameOK'
  BY DEF FrameOK, TypeOK
<1> QED
  BY <1>1, <1>2, <1>3, <1>4, <1>5, <1>6, <1>7, <1>8

(* cancel() closes the socket.                                             *)
LEMMA CancelSocketKeeps == IInv /\ CancelSocket => IInv'
<1> SUFFICES ASSUME IInv, CancelSocket PROVE IInv'
  OBVIOUS
<1> USE SubscriberSessionAssumption
        DEF IInv, Inv, CancelSocket,
            vars, chainVars, connectionVars, historyVars
<1>1. TypeOK'
  BY DEF TypeOK, Stages, SocketOperations, Reads
<1>2. CancelOK'
  BY DEF CancelOK
<1>3. SocketOK'
  BY DEF SocketOK, TypeOK
<1>4. EndpointOK'
  BY DEF EndpointOK, Reads, TypeOK
<1>5. TasksOK'
  BY DEF TasksOK
<1>6. ClosedOK'
  BY DEF ClosedOK, TypeOK, TasksOK
<1>7. AttemptsOK'
  BY DEF AttemptsOK, TypeOK
<1>8. FrameOK'
  BY DEF FrameOK, TypeOK
<1> QED
  BY <1>1, <1>2, <1>3, <1>4, <1>5, <1>6, <1>7, <1>8

(* cancel() ends a wait, and with it the session.                          *)
LEMMA CancelTimerKeeps == IInv /\ CancelTimer => IInv'
<1> SUFFICES ASSUME IInv, CancelTimer PROVE IInv'
  OBVIOUS
<1> USE SubscriberSessionAssumption
        DEF IInv, Inv, CancelTimer, Goto, Started,
            vars, chainVars, connectionVars, historyVars
<1>1. TypeOK'
  BY DEF TypeOK, Stages, SocketOperations, Reads
<1>2. CancelOK'
  BY DEF CancelOK
<1>3. SocketOK'
  BY DEF SocketOK, TypeOK
<1>4. EndpointOK'
  BY DEF EndpointOK, Reads, TypeOK
<1>5. TasksOK'
  BY DEF TasksOK
<1>6. ClosedOK'
  BY DEF ClosedOK, TypeOK, TasksOK, CancelOK
<1>7. AttemptsOK'
  BY DEF AttemptsOK, TypeOK
<1>8. FrameOK'
  BY DEF FrameOK, TypeOK
<1> QED
  BY <1>1, <1>2, <1>3, <1>4, <1>5, <1>6, <1>7, <1>8

(* Time passes.                                                            *)
LEMMA SecondPassesKeeps == IInv /\ SecondPasses => IInv'
<1> SUFFICES ASSUME IInv, SecondPasses PROVE IInv'
  OBVIOUS
<1> USE SubscriberSessionAssumption
        DEF IInv, Inv, SecondPasses,
            vars, chainVars, connectionVars, historyVars
<1>1. TypeOK'
  BY DEF TypeOK, Stages, SocketOperations, Reads
<1>2. CancelOK'
  BY DEF CancelOK
<1>3. SocketOK'
  BY DEF SocketOK, TypeOK
<1>4. EndpointOK'
  BY DEF EndpointOK, Reads, TypeOK
<1>5. TasksOK'
  BY DEF TasksOK
<1>6. ClosedOK'
  BY DEF ClosedOK, TypeOK, TasksOK
<1>7. AttemptsOK'
  BY DEF AttemptsOK, TypeOK
<1>8. FrameOK'
  BY DEF FrameOK, TypeOK
<1> QED
  BY <1>1, <1>2, <1>3, <1>4, <1>5, <1>6, <1>7, <1>8

-----------------------------------------------------------------------------
(* The invariant is inductive.                                             *)
LEMMA StepInv == IInv /\ [Next]_vars => IInv'
<1> SUFFICES ASSUME IInv, [Next]_vars PROVE IInv'
  OBVIOUS
<1>1. CASE UNCHANGED vars
  <2>1. TypeOK'
    BY <1>1 DEF IInv, TypeOK, vars, chainVars, connectionVars, historyVars
  <2>2. Inv'
    BY <1>1 DEF IInv, Inv, CancelOK, SocketOK, EndpointOK, TasksOK, ClosedOK,
       AttemptsOK, FrameOK, vars, chainVars, connectionVars, historyVars
  <2> QED
    BY <2>1, <2>2 DEF IInv
<1>2. CASE Operation
  BY <1>2, OperationSucceedsKeeps, OperationFailedKeeps DEF Operation
<1>3. CASE ChainStep /\ ~ Operation
  BY <1>3, StartOperationKeeps, StartKeeps, AdvanceKeeps, ResolveFailedKeeps,
     ConnectionFailedKeeps, TimerFiredKeeps, SessionClosedKeeps,
     ReadCompletedKeeps, PayloadReceivedKeeps, StrandTaskKeeps,
     CallbackRunsKeeps, CallbackReturnsKeeps DEF ChainStep
<1>4. CASE Cancel \/ CancelStep \/ SecondPasses
  BY <1>4, CancelKeeps, CancelSocketKeeps, CancelTimerKeeps, SecondPassesKeeps
  DEF CancelStep
<1> QED
  BY <1>1, <1>2, <1>3, <1>4 DEF Next, PeerStep, ChainStep

(* It holds in every reachable state.                                      *)
LEMMA Inductive == Spec => []IInv
<1> QED
  BY InitInv, StepInv, PTL DEF Spec

(* Every reachable state of a session is well typed.                       *)
THEOREM TypeCorrect == Spec => []TypeOK
<1>1. IInv => TypeOK
  BY DEF IInv
<1> QED
  BY <1>1, Inductive, PTL

(* No socket outlives the session, wherever cancel() falls.                *)
THEOREM NoSocketOutlives == Spec => []ClosedHoldsNoSocket
<1>1. IInv => ClosedHoldsNoSocket
  BY DEF IInv, Inv, SocketOK, ClosedHoldsNoSocket
<1> QED
  BY <1>1, Inductive, PTL

(* The limit of reconnections is kept, for every limit.                    *)
THEOREM AttemptsAlwaysBounded == Spec => []AttemptsBounded
<1>1. IInv => AttemptsBounded
  BY SubscriberSessionAssumption DEF IInv, Inv, AttemptsOK, AttemptsBounded, TypeOK
<1> QED
  BY <1>1, Inductive, PTL

(* And it is used up before a session gives up by itself.                  *)
THEOREM RetriesUsedUp == Spec => []GivesUpExhausted
<1>1. IInv => GivesUpExhausted
  BY DEF IInv, Inv, ClosedOK, GivesUpExhausted
<1> QED
  BY <1>1, Inductive, PTL

(* What a session that has reported its end still does, in one step.       *)
LEMMA EndedStep ==
  ASSUME IInv, [Next]_vars, closedCalls > 0, stage' # stage
  PROVE  /\ canceled_
         /\ \/ stage = "tasks" /\ tasks = <<"read">> /\ tasks' = <<>> /\ stage' = "failed"
            \/ stage = "failed" /\ stage' = "closing"
            \/ stage = "closing" /\ stage' = "none"
<1>1. /\ closedCalls \in Nat
      /\ tasks \in {<<>>, <<"read">>, <<"callback", "read">>}
      /\ stage = "tasks" => tasks # <<>>
      /\ stage = "none" \/ (canceled_ /\ stage \in {"tasks", "failed", "closing"})
      /\ closedCalls + Len(tasks)
           + (IF stage \in {"failed", "closing"} THEN 1 ELSE 0) <= 2
  BY DEF IInv, Inv, TypeOK, TasksOK, ClosedOK
<1>2. Len(tasks) \in Nat /\ (tasks = <<"read">> => Len(tasks) = 1)
        /\ (tasks = <<"callback", "read">> => Len(tasks) = 2)
  BY <1>1
<1>3. stage = "tasks" => tasks = <<"read">>
  BY <1>1, <1>2
<1>4. stage = "closing" => tasks = <<>>
  BY <1>1, <1>2
<1> USE DEF vars, chainVars, connectionVars, historyVars, Enter, Goto, Completed, Started
<1>5. \/ StrandTask /\ stage = "tasks"
      \/ ConnectionFailed /\ stage = "failed"
      \/ SessionClosed /\ stage = "closing"
  <2>1. stage \in {"none", "tasks", "failed", "closing"}
    BY <1>1
  <2>2. ~ (Start \/ Advance \/ ResolveFailed \/ TimerFired)
    BY <2>1 DEF Start, Advance, ResolveFailed, TimerFired
  <2>3. ~ (ReadCompleted \/ PayloadReceived \/ CallbackRuns \/ CallbackReturns)
    BY <2>1 DEF ReadCompleted, HeaderLengthRead, HeaderContentRead, DiscardRead,
                PayloadReceived, CallbackRuns, CallbackReturns
  <2>4. ~ (StartOperation \/ OperationSucceeds \/ OperationFailed)
    BY <2>1 DEF StartOperation, OperationSucceeds, OperationFailed,
                SocketOperations, Reads
  <2>5. ~ (UNCHANGED vars \/ Cancel \/ CancelSocket \/ CancelTimer \/ SecondPasses)
    BY <2>1 DEF Cancel, CancelSocket, CancelTimer, SecondPasses
  <2> QED
    BY <2>2, <2>3, <2>4, <2>5
    DEF Next, ChainStep, PeerStep, CancelStep, Operation, StrandTask,
        ConnectionFailed, SessionClosed
<1>6. CASE StrandTask /\ stage = "tasks"
  <2>1. tasks' = <<>>
    BY <1>3, <1>6 DEF StrandTask
  <2> QED
    BY <1>1, <1>3, <1>6, <2>1 DEF StrandTask
<1>7. CASE ConnectionFailed /\ stage = "failed"
  BY <1>1, <1>7 DEF ConnectionFailed, RetryOrClose, MayRetry
<1>8. CASE SessionClosed /\ stage = "closing"
  BY <1>1, <1>4, <1>8 DEF SessionClosed
<1> QED
  BY <1>5, <1>6, <1>7, <1>8

(* A session that has reported its end never connects, reads or calls the  *)
(* callback again; only the second task of a message that met cancel()     *)
(* makes it report its end once more.                                      *)
THEOREM EndedStaysEnded == Spec => EndsAgainOnlyByLastTask
<1>1. IInv /\ [Next]_vars
        => [closedCalls > 0 /\ stage' # stage
              => /\ canceled_
                 /\ \/ stage = "tasks" /\ tasks = <<"read">> /\ tasks' = <<>> /\ stage' = "failed"
                    \/ stage = "failed" /\ stage' = "closing"
                    \/ stage = "closing" /\ stage' = "none"]_vars
  BY EndedStep
<1> QED
  BY <1>1, Inductive, PTL DEF Spec, EndsAgainOnlyByLastTask

(* Payloads begin where headers end, for every header length a peer sends. *)
THEOREM PayloadBehindHeader == Spec => []HeaderConsumed
<1>1. IInv => HeaderConsumed
  BY DEF IInv, Inv, FrameOK, HeaderConsumed
<1> QED
  BY <1>1, Inductive, PTL

(* getConnectedPublisher() tells the publisher of the connection, or none. *)
THEOREM ConnectedPublisherReported == Spec => []ReportsConnectedPublisher
<1>1. IInv => ReportsConnectedPublisher
  BY DEF IInv, Inv, EndpointOK, ReportsConnectedPublisher
<1> QED
  BY <1>1, Inductive, PTL
-----------------------------------------------------------------------------
(* Resolving.  The list is gone through from its beginning: what is before *)
(* the index has been asked for.                                           *)
TriedOK ==
  /\ stage = "new" => index = 0
  /\ stage = "resolve" => 0 .. index - 1 \subseteq tried

(* A step that neither begins to resolve nor changes where it stands.      *)
LEMMA TriedKept ==
  ASSUME TriedOK, index' = index, tried \subseteq tried',
         stage' \in {"new", "resolve"} => stage' = stage
  PROVE  TriedOK'
BY DEF TriedOK

LEMMA TriedStep == TypeOK /\ TriedOK /\ [Next]_vars => TriedOK'
<1> SUFFICES ASSUME TypeOK, TriedOK, [Next]_vars PROVE TriedOK'
  OBVIOUS
<1> USE DEF vars, chainVars, connectionVars, historyVars, Enter, Goto
<1>1. CASE UNCHANGED vars \/ StartOperation \/ Operation
  BY <1>1, TriedKept DEF StartOperation, Operation, OperationSucceeds, OperationFailed
<1>2. CASE Advance \/ ConnectionFailed \/ SessionClosed
  BY <1>2, TriedKept DEF Advance, Completed, ConnectionFailed, RetryOrClose, SessionClosed
<1>3. CASE ReadCompleted
  <2>1. stage' \notin {"new", "resolve"}
    BY <1>3 DEF ReadCompleted, HeaderLengthRead, HeaderContentRead, DiscardRead, ReadPayload
  <2>2. QED
    BY <1>3, <2>1, TriedKept DEF ReadCompleted
<1>4. CASE PayloadReceived \/ StrandTask \/ CallbackRuns \/ CallbackReturns
  BY <1>4, TriedKept DEF PayloadReceived, StrandTask, CallbackRuns, CallbackReturns
<1>5. CASE Cancel \/ CancelStep \/ SecondPasses
  BY <1>5, TriedKept DEF Cancel, CancelStep, CancelSocket, CancelTimer, SecondPasses
<1>6. CASE Start \/ TimerFired
  <2>1. index' = 0 /\ stage' # "new"
    BY <1>6 DEF Start, TimerFired, TriedOK
  <2>2. QED
    BY <2>1 DEF TriedOK
<1>7. CASE ResolveFailed
  <2>1. 0 .. index - 1 \subseteq tried /\ tried' = tried \cup {index} /\ index \in Nat
    BY <1>7 DEF ResolveFailed, Started, TriedOK, TypeOK
  <2>2. stage' # "new" /\ (stage' = "resolve" => index' = index + 1)
    BY <1>7 DEF ResolveFailed
  <2>3. QED
    BY <2>1, <2>2 DEF TriedOK
<1>8. QED
  BY <1>1, <1>2, <1>3, <1>4, <1>5, <1>6, <1>7 DEF Next, ChainStep, PeerStep

(* An attempt is given up as unresolved only when each publisher of the    *)
(* list has been asked for, for every length of the list.                  *)
THEOREM EveryPublisherResolved == Spec => ResolvesEveryPublisher
<1>1. Init => TriedOK
  BY DEF Init, TriedOK
<1>2. TypeOK /\ TriedOK /\ [Next]_vars =>
        [stage = "resolve" /\ stage' = "failed" /\ ~ canceled_
           => tried' = 0 .. PublisherCount - 1]_vars
  <2> SUFFICES ASSUME TypeOK, TriedOK, Next,
                      stage = "resolve", stage' = "failed", ~ canceled_
               PROVE  tried' = 0 .. PublisherCount - 1
    OBVIOUS
  <2> USE DEF chainVars, connectionVars, historyVars, Enter, Goto
  <2>1. ResolveFailed
    <3>1. ~ (StartOperation \/ Start \/ Operation \/ Advance \/ ConnectionFailed \/ TimerFired)
      BY DEF StartOperation, Start, Operation, OperationSucceeds, OperationFailed, SocketOperations,
             Reads, Advance, Completed, ConnectionFailed, TimerFired
    <3>2. ~ (SessionClosed \/ ReadCompleted \/ PayloadReceived \/ StrandTask \/ CallbackRuns
               \/ CallbackReturns)
      BY DEF SessionClosed, ReadCompleted, HeaderLengthRead, HeaderContentRead, DiscardRead, Completed,
             PayloadReceived, StrandTask, CallbackRuns, CallbackReturns, Started
    <3>3. ~ (Cancel \/ CancelStep \/ SecondPasses)
      BY DEF Cancel, CancelStep, CancelSocket, CancelTimer, Started, SecondPasses
    <3>4. QED
      BY <3>1, <3>2, <3>3 DEF Next, ChainStep, PeerStep
  <2>2. index + 1 = PublisherCount /\ tried' = tried \cup {index}
    BY <2>1, SubscriberSessionAssumption DEF ResolveFailed, TypeOK
  <2>3. 0 .. index - 1 \subseteq tried /\ tried \subseteq 0 .. PublisherCount - 1
    BY DEF TriedOK, TypeOK
  <2>4. index \in Int /\ PublisherCount \in Int
    BY SubscriberSessionAssumption DEF TypeOK
  <2>5. ASSUME NEW i \in 0 .. PublisherCount - 1 PROVE i \in tried'
    <3>1. i \in 0 .. index - 1 \/ i = index
      BY <2>2, <2>4
    <3>2. QED
      BY <2>2, <2>3, <3>1
  <2>6. tried' \subseteq 0 .. PublisherCount - 1
    BY <2>2, <2>3 DEF TypeOK
  <2>7. QED
    BY <2>5, <2>6
<1>3. QED
  BY <1>1, <1>2, TriedStep, TypeCorrect, PTL DEF Spec, ResolvesEveryPublisher
=============================================================================
