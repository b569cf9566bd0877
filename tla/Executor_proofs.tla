--------------------------- MODULE Executor_proofs ---------------------------
(***************************************************************************)
(* The pool of module Executor is never stopped, and no thread leaves it,  *)
(* while anybody holds the Executor: for any number of threads, owners and *)
(* sessions.                                                               *)
(***************************************************************************)
EXTENDS Executor, TLAPS

(* A session on its way into the list is in the hands of a handler.        *)
IncomingIsHandled == \A t \in Thread : incoming[t] # Nobody => handler[t] # Nobody

(* While the Executor is held nobody destroys it; the guard, the io_context*)
(* and the threads go only once somebody does.                             *)
HeldIsAlive == ExecutorHeld => destroyer = Nobody

EndsByDestroyer ==
  destroyer = Nobody =>
    /\ guard /\ ~ stopped /\ destroyAt = "guard"
    /\ \A t \in Thread : thread[t] \in {"created", "running"}

IInv == TypeOK /\ IncomingIsHandled /\ HeldIsAlive /\ EndsByDestroyer

(* The invariant holds when the pool has just been made.                   *)
LEMMA InitInv == Init => IInv
<1> USE ExecutorAssumption
<1> SUFFICES ASSUME Init PROVE IInv
  OBVIOUS
<1>1. TypeOK
  BY DEF Init, TypeOK
<1>2. HeldIsAlive /\ EndsByDestroyer
  BY DEF Init, HeldIsAlive, EndsByDestroyer
<1>3. IncomingIsHandled
  BY DEF Init, IncomingIsHandled
<1> QED
  BY <1>1, <1>2, <1>3 DEF IInv

(* What is work: a pair of an owner and a target.                          *)
LEMMA WorkParts ==
  ASSUME NEW w \in Work
  PROVE  w[1] \in Owner /\ w[2] \in Target /\ w = <<w[1], w[2]>>
  BY DEF Work

LEMMA SessionIsWork == Sessions \subseteq Work
  BY DEF Sessions, Work, Target

LEMMA AcceptIsWork ==
  ASSUME NEW o \in Owner
  PROVE  <<o, Accept>> \in Work /\ <<o, Refuse>> \in Work
  BY DEF Work, Target

(* A thread with an incoming session runs a handler of its owner.          *)
LEMMA IncomingParts ==
  ASSUME TypeOK, IncomingIsHandled, NEW t \in Thread, incoming[t] # Nobody
  PROVE  /\ handler[t] \in Work /\ handler[t][1] \in Owner
         /\ <<handler[t][1], incoming[t]>> \in Sessions
<1>1. handler[t] \in Work /\ incoming[t] \in Session
  BY DEF TypeOK, IncomingIsHandled
<1> QED
  BY <1>1, WorkParts DEF Sessions

(* Every step keeps the types.                                             *)
LEMMA TypeStep == TypeOK /\ IncomingIsHandled /\ [Next]_vars => TypeOK'
<1> USE ExecutorAssumption
<1> SUFFICES ASSUME TypeOK, IncomingIsHandled, [Next]_vars PROVE TypeOK'
  OBVIOUS
<1>a. Publisher \subseteq Owner /\ Subscriber \subseteq Owner
  BY DEF Owner
<1> USE DEF TypeOK
<1>1. CASE UNCHANGED vars
  BY <1>1 DEF vars, useVars, sessionVars, operationVars, poolVars, endVars
<1>2. CASE DropHandle
  BY <1>2 DEF DropHandle, DropBy, sessionVars, operationVars, poolVars
<1>3. ASSUME NEW o \in Owner, CreateOwner(o) PROVE TypeOK'
  BY <1>3, AcceptIsWork DEF CreateOwner, sessionVars, poolVars, endVars
<1>4. ASSUME NEW o \in Owner, NEW s \in Session, AddSession(o, s) PROVE TypeOK'
  <2>1. <<o, s>> \in Sessions
    BY DEF Sessions
  <2> QED
    BY <1>4, <2>1, SessionIsWork DEF AddSession, poolVars, endVars
<1>5. ASSUME NEW o \in Owner, SetCallback(o) PROVE TypeOK'
  BY <1>5 DEF SetCallback, sessionVars, operationVars, poolVars, endVars
<1>6. ASSUME NEW o \in Owner, CancelOwner(o) PROVE TypeOK'
  <2> DEFINE canceled == {w \in listed : w[1] = o /\ state[w] = "open"}
             aborted == pending \cap (canceled \cup {<<o, Accept>>})
  <2>1. {IF w[2] = Accept THEN <<o, Refuse>> ELSE w : w \in aborted} \subseteq Work
    <3>1. \A w \in aborted : w \in Work
      OBVIOUS
    <3>2. <<o, Refuse>> \in Work
      BY AcceptIsWork
    <3> HIDE DEF aborted
    <3> QED
      BY <3>1, <3>2
  <2>2. ready' \subseteq Work /\ pending' \subseteq Work
    BY <1>6, <2>1 DEF CancelOwner
  <2>3. state' \in [Sessions -> {"none", "open", "canceled", "closed"}]
    BY <1>6 DEF CancelOwner
  <2>4. listed' \subseteq Sessions /\ feeding' \subseteq Subscriber
    BY <1>6 DEF CancelOwner
  <2> QED
    BY <1>6, <2>2, <2>3, <2>4 DEF CancelOwner, poolVars, endVars
<1>7. ASSUME NEW o \in Owner, CallbackThreadEnds(o) PROVE TypeOK'
  BY <1>7 DEF CallbackThreadEnds, DropBy, sessionVars, operationVars, poolVars
<1>8. ASSUME NEW o \in Owner, ReleaseOwner(o) PROVE TypeOK'
  BY <1>8 DEF ReleaseOwner, DropBy, sessionVars, operationVars, poolVars
<1>9. ASSUME NEW w \in Work, StartOperation(w) PROVE TypeOK'
  BY <1>9 DEF StartOperation, sessionVars, poolVars, endVars
<1>10. ASSUME NEW w \in Work, CompleteOperation(w) PROVE TypeOK'
  BY <1>10, WorkParts, AcceptIsWork DEF CompleteOperation, sessionVars, poolVars, endVars
<1>11. CASE DestroyerStep
  BY <1>11 DEF DestroyerStep, ResetGuard, StopContext, ReleaseImpl, useVars,
               sessionVars, operationVars, poolVars
<1>12. ASSUME NEW t \in Thread, NEW w \in ready, RunHandler(t, w) PROVE TypeOK'
  BY <1>12 DEF RunHandler, sessionVars, endVars
<1>13. ASSUME NEW t \in Thread, NEW o \in Owner, NEW s \in Session, AcceptClient(t, o, s)
       PROVE TypeOK'
  <2>1. <<o, s>> \in Sessions /\ <<o, s>> \in Work /\ <<o, Accept>> \in Work
    BY AcceptIsWork, SessionIsWork DEF Sessions
  <2> QED
    BY <1>13, <2>1 DEF AcceptClient, endVars
<1>14. ASSUME NEW t \in Thread, PushBack(t) PROVE TypeOK'
  <2>1. /\ handler[t][1] \in Owner /\ <<handler[t][1], incoming[t]>> \in Sessions
        /\ <<handler[t][1], Accept>> \in Work /\ <<handler[t][1], Refuse>> \in Work
    BY <1>14, IncomingParts, AcceptIsWork DEF PushBack
  <2> QED
    BY <1>14, <2>1 DEF PushBack, endVars
<1>15. ASSUME NEW t \in Thread, CloseSession(t) PROVE TypeOK'
  BY <1>15, SessionIsWork DEF CloseSession, poolVars, endVars
<1>16. ASSUME NEW t \in Thread, HandlerReturns(t) PROVE TypeOK'
  BY <1>16 DEF HandlerReturns, DropBy, useVars, sessionVars, operationVars
<1>17. ASSUME NEW t \in Thread, EnterRun(t) \/ LeaveRun(t) \/ DropImpl(t) PROVE TypeOK'
  BY <1>17 DEF EnterRun, LeaveRun, DropImpl, useVars, sessionVars, operationVars, endVars
<1>18. ASSUME NEW t \in Thread, DetachThreads(t) PROVE TypeOK'
  BY <1>18 DEF DetachThreads, useVars, sessionVars, operationVars
<1> QED
  BY <1>1, <1>2, <1>3, <1>4, <1>5, <1>6, <1>7, <1>8, <1>9, <1>10, <1>11, <1>12,
     <1>13, <1>14, <1>15, <1>16, <1>17, <1>18
  DEF Next, UserStep, OperationStep, ThreadStep

(* A session on its way stays with its handler: it is listed before the    *)
(* handler returns.                                                        *)
LEMMA IncomingStep == TypeOK /\ IncomingIsHandled /\ [Next]_vars => IncomingIsHandled'
<1> USE ExecutorAssumption
<1> SUFFICES ASSUME TypeOK, IncomingIsHandled, [Next]_vars PROVE IncomingIsHandled'
  OBVIOUS
<1> USE DEF IncomingIsHandled
<1>1. CASE UNCHANGED <<handler, incoming>>
  BY <1>1
<1>2. ASSUME NEW t \in Thread, NEW w \in ready, RunHandler(t, w) PROVE IncomingIsHandled'
  <2>1. w # Nobody
    BY DEF TypeOK
  <2> QED
    BY <1>2, <2>1 DEF RunHandler, TypeOK
<1>3. ASSUME NEW t \in Thread, NEW o \in Owner, NEW s \in Session, AcceptClient(t, o, s)
      PROVE IncomingIsHandled'
  <2>1. <<o, Accept>> # Nobody
    BY AcceptIsWork
  <2> QED
    BY <1>3, <2>1 DEF AcceptClient, TypeOK
<1>4. ASSUME NEW t \in Thread, PushBack(t) PROVE IncomingIsHandled'
  BY <1>4 DEF PushBack, TypeOK
<1>5. ASSUME NEW t \in Thread, HandlerReturns(t) PROVE IncomingIsHandled'
  BY <1>5 DEF HandlerReturns, TypeOK
<1>6. ASSUME \/ UserStep \/ OperationStep \/ DestroyerStep \/ UNCHANGED vars
             \/ \E o \in Owner : CallbackThreadEnds(o)
      PROVE  UNCHANGED <<handler, incoming>>
  BY <1>6 DEF UserStep, OperationStep, DestroyerStep, DropHandle, CreateOwner, AddSession,
              SetCallback, CancelOwner, CallbackThreadEnds, ReleaseOwner, StartOperation,
              CompleteOperation, ResetGuard, StopContext, ReleaseImpl, vars, poolVars
<1>7. ASSUME NEW t \in Thread,
             EnterRun(t) \/ CloseSession(t) \/ LeaveRun(t) \/ DropImpl(t) \/ DetachThreads(t)
      PROVE  UNCHANGED <<handler, incoming>>
  BY <1>7 DEF EnterRun, CloseSession, LeaveRun, DropImpl, DetachThreads, poolVars
<1> QED
  BY <1>1, <1>2, <1>3, <1>4, <1>5, <1>6, <1>7 DEF Next, ThreadStep

(* A dropped reference keeps both parts of the invariant: only the last    *)
(* one makes a destroyer.                                                  *)
LEMMA DropKeeps ==
  ASSUME NEW who, DropBy(who), HeldIsAlive, EndsByDestroyer,
         ExecutorHeld' => ExecutorHeld, thread' = thread, who # Nobody
  PROVE  HeldIsAlive' /\ EndsByDestroyer'
<1>1. HeldIsAlive'
  BY DEF DropBy, HeldIsAlive
<1>2. destroyer' = Nobody => destroyer = Nobody
  BY DEF DropBy
<1>3. EndsByDestroyer'
  BY <1>2 DEF DropBy, EndsByDestroyer
<1> QED
  BY <1>1, <1>3

(* So does a step that leaves the end of the pool alone.                   *)
LEMMA UseKeeps ==
  ASSUME HeldIsAlive, EndsByDestroyer, ExecutorHeld' => ExecutorHeld,
         UNCHANGED endVars,
         \A t \in Thread : \/ thread'[t] = thread[t]
                           \/ thread'[t] \in {"created", "running"}
                           \/ destroyer # Nobody
  PROVE  HeldIsAlive' /\ EndsByDestroyer'
  BY DEF HeldIsAlive, EndsByDestroyer, endVars

(* Work that is under way or listed holds its owner, and so the Executor.  *)
LEMMA WorkHolds ==
  ASSUME NEW w \in Work,
         w \in pending \cup ready \cup listed \/ \E t \in Thread : handler[t] = w
  PROVE  ExecutorHeld
<1>1. w[1] \in Owner /\ w[2] \in Target /\ w = <<w[1], w[2]>>
  BY WorkParts
<1>2. OwnerHeld(w[1])
  BY <1>1 DEF OwnerHeld
<1> QED
  BY <1>1, <1>2 DEF ExecutorHeld

LEMMA UserHolds ==
  ASSUME NEW o \in Owner, ByUser(o)
  PROVE  ExecutorHeld
  BY DEF OwnerHeld, ExecutorHeld

(* Who does not hold the Executor gets no reference any more: a reference  *)
(* is only made from another one.                                          *)
LEMMA HeldBefore ==
  TypeOK /\ IncomingIsHandled /\ [Next]_vars => (ExecutorHeld' => ExecutorHeld)
<1> USE ExecutorAssumption
<1> SUFFICES ASSUME TypeOK, IncomingIsHandled, [Next]_vars, ExecutorHeld'
             PROVE  ExecutorHeld
  OBVIOUS
<1> DEFINE Fewer ==
      /\ handle' => handle
      /\ owner' = owner \/ \E o \in Owner : owner' = [owner EXCEPT ![o] = "released"]
      /\ feeding' \subseteq feeding
      /\ UNCHANGED <<listed, pending, ready>>
      /\ \A t \in Thread : handler'[t] = handler[t] \/ handler'[t] = Nobody
<1>f. Fewer => ExecutorHeld
  <2> SUFFICES ASSUME Fewer PROVE ExecutorHeld
    OBVIOUS
  <2>1. ASSUME NEW o \in Owner, OwnerHeld(o)' PROVE OwnerHeld(o)
    <3>1. ByUser(o)' => ByUser(o)
      BY DEF ByUser, TypeOK
    <3>2. ASSUME NEW x \in Target, NEW t \in Thread, handler'[t] = <<o, x>>
          PROVE  handler[t] = <<o, x>>
      BY <3>2 DEF Work
    <3> QED
      BY <2>1, <3>1, <3>2 DEF OwnerHeld
  <2> QED
    BY <2>1 DEF ExecutorHeld
<1> HIDE DEF Fewer
<1>w. ASSUME NEW w \in pending \cup ready \cup listed PROVE ExecutorHeld
  <2>1. w \in Work
    BY SessionIsWork DEF TypeOK
  <2> QED
    BY <2>1, WorkHolds
<1>t. ASSUME NEW t \in Thread, handler[t] \in Work PROVE ExecutorHeld
  BY <1>t, WorkHolds
<1>1. CASE UNCHANGED vars
  BY <1>1, <1>f DEF Fewer, vars, useVars, sessionVars, operationVars, poolVars
<1>2. CASE DropHandle
  BY <1>2, <1>f DEF Fewer, DropHandle, sessionVars, operationVars, poolVars
<1>3. ASSUME NEW o \in Owner, CreateOwner(o) PROVE ExecutorHeld
  BY <1>3 DEF CreateOwner, ExecutorHeld
<1>4. ASSUME NEW o \in Owner,
             \/ SetCallback(o) \/ CancelOwner(o) \/ \E s \in Session : AddSession(o, s)
      PROVE  ExecutorHeld
  BY <1>4, UserHolds DEF SetCallback, CancelOwner, AddSession
<1>5. ASSUME NEW o \in Owner, CallbackThreadEnds(o) PROVE ExecutorHeld
  BY <1>5, <1>f DEF Fewer, CallbackThreadEnds, sessionVars, operationVars, poolVars
<1>6. ASSUME NEW o \in Owner, ReleaseOwner(o) PROVE ExecutorHeld
  BY <1>6, <1>f DEF Fewer, ReleaseOwner, sessionVars, operationVars, poolVars
<1>7. ASSUME NEW w \in Work, StartOperation(w) PROVE ExecutorHeld
  BY <1>7, <1>w, <1>t DEF StartOperation
<1>8. ASSUME NEW w \in Work, CompleteOperation(w) PROVE ExecutorHeld
  BY <1>8, <1>w DEF CompleteOperation
<1>9. CASE DestroyerStep
  BY <1>9, <1>f DEF Fewer, DestroyerStep, ResetGuard, StopContext, ReleaseImpl, useVars,
               sessionVars, operationVars, poolVars
<1>10. ASSUME NEW t \in Thread, NEW w \in ready, RunHandler(t, w) PROVE ExecutorHeld
  BY <1>10, <1>w
<1>11. ASSUME NEW t \in Thread, NEW o \in Owner, NEW s \in Session, AcceptClient(t, o, s)
       PROVE  ExecutorHeld
  BY <1>11, <1>w DEF AcceptClient
<1>12. ASSUME NEW t \in Thread, PushBack(t) PROVE ExecutorHeld
  BY <1>12, <1>t, IncomingParts DEF PushBack
<1>13. ASSUME NEW t \in Thread, CloseSession(t) PROVE ExecutorHeld
  BY <1>13, <1>t, SessionIsWork DEF CloseSession
<1>14. ASSUME NEW t \in Thread, HandlerReturns(t) PROVE ExecutorHeld
  <2>1. \A u \in Thread : handler'[u] = handler[u] \/ handler'[u] = Nobody
    BY <1>14 DEF HandlerReturns, TypeOK
  <2> QED
    BY <1>14, <2>1, <1>f DEF Fewer, HandlerReturns, useVars, sessionVars, operationVars
<1>15. ASSUME NEW t \in Thread,
              EnterRun(t) \/ LeaveRun(t) \/ DropImpl(t) \/ DetachThreads(t)
       PROVE ExecutorHeld
  BY <1>15, <1>f DEF Fewer, EnterRun, LeaveRun, DropImpl, DetachThreads, useVars,
                sessionVars, operationVars
<1> QED
  BY <1>1, <1>2, <1>3, <1>4, <1>5, <1>6, <1>7, <1>8, <1>9, <1>10, <1>11, <1>12,
     <1>13, <1>14, <1>15
  DEF Next, UserStep, OperationStep, ThreadStep

(* The invariant is inductive.                                             *)
LEMMA StepInv == IInv /\ [Next]_vars => IInv'
<1> USE ExecutorAssumption
<1> SUFFICES ASSUME IInv, [Next]_vars PROVE IInv'
  OBVIOUS
<1>t. TypeOK /\ IncomingIsHandled /\ HeldIsAlive /\ EndsByDestroyer
  BY DEF IInv
<1>h. ExecutorHeld' => ExecutorHeld
  BY <1>t, HeldBefore
<1> SUFFICES HeldIsAlive' /\ EndsByDestroyer'
  BY <1>t, TypeStep, IncomingStep DEF IInv
<1>u. ASSUME UNCHANGED endVars, thread' = thread PROVE HeldIsAlive' /\ EndsByDestroyer'
  BY <1>u, <1>t, <1>h, UseKeeps
<1>1. ASSUME \/ OperationStep \/ UNCHANGED vars
             \/ \E o \in Owner : CreateOwner(o) \/ SetCallback(o) \/ CancelOwner(o)
             \/ \E o \in Owner, s \in Session : AddSession(o, s)
             \/ \E t \in Thread : PushBack(t) \/ CloseSession(t)
             \/ \E t \in Thread, w \in ready : RunHandler(t, w)
             \/ \E t \in Thread, o \in Owner, s \in Session : AcceptClient(t, o, s)
      PROVE  HeldIsAlive' /\ EndsByDestroyer'
  BY <1>1, <1>u DEF OperationStep, CreateOwner, SetCallback, CancelOwner, AddSession,
       StartOperation, CompleteOperation, PushBack, CloseSession, RunHandler, AcceptClient,
       vars, poolVars
<1>2. CASE DropHandle
  BY <1>2, <1>t, <1>h, DropKeeps DEF DropHandle, poolVars
<1>3. ASSUME NEW o \in Owner, ReleaseOwner(o) \/ CallbackThreadEnds(o)
      PROVE HeldIsAlive' /\ EndsByDestroyer'
  BY <1>3, <1>t, <1>h, DropKeeps DEF ReleaseOwner, CallbackThreadEnds, poolVars
<1>7. CASE DestroyerStep
  BY <1>7, <1>t, <1>h
  DEF DestroyerStep, ResetGuard, StopContext, ReleaseImpl, useVars, poolVars,
      HeldIsAlive, EndsByDestroyer
<1>9. ASSUME NEW t \in Thread, HandlerReturns(t)
      PROVE HeldIsAlive' /\ EndsByDestroyer'
  <2>1. t # Nobody
    OBVIOUS
  <2> QED
    BY <1>9, <1>t, <1>h, <2>1, DropKeeps DEF HandlerReturns
<1>10. ASSUME NEW t \in Thread, EnterRun(t) PROVE HeldIsAlive' /\ EndsByDestroyer'
  <2>1. \A u \in Thread : thread'[u] = thread[u] \/ thread'[u] = "running"
    BY <1>10, <1>t DEF EnterRun, TypeOK
  <2> QED
    BY <1>10, <1>t, <1>h, <2>1, UseKeeps DEF EnterRun
<1>11. ASSUME NEW t \in Thread, LeaveRun(t) PROVE HeldIsAlive' /\ EndsByDestroyer'
  <2>1. destroyer # Nobody
    BY <1>11, <1>t DEF LeaveRun, RunReturns, EndsByDestroyer
  <2> QED
    BY <1>11, <1>t, <1>h, <2>1, UseKeeps DEF LeaveRun
<1>12. ASSUME NEW t \in Thread, DropImpl(t) \/ DetachThreads(t)
       PROVE HeldIsAlive' /\ EndsByDestroyer'
  <2>1. destroyer # Nobody
    BY <1>12, <1>t DEF DropImpl, DetachThreads, EndsByDestroyer
  <2>2. destroyer' = destroyer
    BY <1>12 DEF DropImpl, DetachThreads, endVars
  <2> QED
    BY <1>t, <1>h, <2>1, <2>2 DEF HeldIsAlive, EndsByDestroyer
<1> QED
  BY <1>1, <1>2, <1>3, <1>7, <1>9, <1>10, <1>11, <1>12
  DEF Next, UserStep, ThreadStep

-----------------------------------------------------------------------------
(* Whoever drops the last reference to the Executor, stop() in ~Executor   *)
(* leaves no operation behind, no handler queued or running, no session    *)
(* listed and no callback thread.                                          *)
THEOREM StopAbandonsNothing == Spec => []NothingAbandoned
<1>1. IInv => NothingAbandoned
  <2> SUFFICES ASSUME IInv, stopped PROVE NothingAbandoned
    BY DEF NothingAbandoned
  <2>1. destroyer # Nobody
    BY DEF IInv, EndsByDestroyer
  <2>2. \A o \in Owner : ~ OwnerHeld(o)
    BY <2>1 DEF IInv, HeldIsAlive, ExecutorHeld
  <2>3. pending \cup ready \cup listed = {}
    <3> SUFFICES ASSUME NEW w \in pending \cup ready \cup listed PROVE FALSE
      OBVIOUS
    <3>1. w \in Work
      BY SessionIsWork DEF IInv, TypeOK
    <3> QED
      BY <3>1, <2>1, WorkHolds DEF IInv, HeldIsAlive
  <2>4. \A t \in Thread : handler[t] = Nobody
    BY <2>1, WorkHolds DEF IInv, TypeOK, HeldIsAlive
  <2>5. feeding = {}
    BY <2>2 DEF IInv, TypeOK, OwnerHeld, Owner
  <2> QED
    BY <2>3, <2>4, <2>5 DEF NothingAbandoned
<1> QED
  BY <1>1, InitInv, StepInv, PTL DEF Spec

(* run() does not return on any thread while somebody holds the Executor:  *)
(* dummy_work_ bridges the times without a publisher or subscriber.        *)
THEOREM PoolServesHolders == Spec => []HeldPoolServes
<1>1. IInv => HeldPoolServes
  BY DEF IInv, HeldIsAlive, EndsByDestroyer, HeldPoolServes
<1> QED
  BY <1>1, InitInv, StepInv, PTL DEF Spec
=============================================================================
