-------------------------- MODULE CommLayer_proofs --------------------------
(***************************************************************************)
(* Proofs about CommLayer, for every number of messages, timers and        *)
(* signals and every length of time: type correctness, that no wakeup is   *)
(* lost to a message, that no timer is forgotten, and that the layer       *)
(* implements EventService.                                                *)
(***************************************************************************)
EXTENDS CommLayer, WellFoundedInduction, TLAPS

-----------------------------------------------------------------------------
(* The first timer of a list.                                              *)

\* A set of naturals that is not empty has a least element.
LEMMA LeastNatural ==
  ASSUME NEW S \in SUBSET Nat, S # {}
  PROVE  \E x \in S : \A y \in S : x <= y
<1> DEFINE R == {ss \in Nat \X Nat : ss[1] < ss[2]}
<1>1. IsWellFoundedOn(R, Nat)
  BY NatLessThanWellFounded DEF OpToRel
<1>2. \E x \in S : \A y \in S : ~ (<<y, x>> \in R)
  <2> HIDE DEF R
  <2> QED BY <1>1, WFMin
<1>3. PICK x \in S : \A y \in S : ~ (<<y, x>> \in R)
  BY <1>2
<1>4. ASSUME NEW y \in S PROVE x <= y
  <2>1. <<y, x>> \notin R
    BY <1>3
  <2>2. ~ (y < x)
    BY <2>1
  <2> QED BY <2>2
<1> QED BY <1>4

Lists(n) == SUBSET [id : 1 .. n, timeout : Nat]

\* Front(list) is a timer of the list, and none is due before it.
LEMMA FrontIsFirst ==
  ASSUME NEW n \in Nat, NEW list \in Lists(n), list # {}
  PROVE  /\ Front(list) \in list
         /\ \A u \in list : Front(list).timeout <= u.timeout
<1> USE DEF Lists
<1> DEFINE timeouts == {t.timeout : t \in list}
<1>1. PICK least \in timeouts : \A y \in timeouts : least <= y
  <2>1. timeouts \in SUBSET Nat /\ timeouts # {}
    OBVIOUS
  <2> HIDE DEF timeouts
  <2> QED BY <2>1, LeastNatural
<1> DEFINE due  == {t \in list : t.timeout = least}
           ages == {n - t.id : t \in due}
<1>2. PICK back \in ages : \A y \in ages : back <= y
  <2>1. ages \in SUBSET Nat /\ ages # {}
    <3>1. \A t \in due : n - t.id \in Nat
      OBVIOUS
    <3>2. due # {}
      OBVIOUS
    <3> QED BY <3>1, <3>2
  <2> HIDE DEF ages
  <2> QED BY <2>1, LeastNatural
<1>3. PICK t \in due : back = n - t.id
  BY <1>2
<1>4. ASSUME NEW u \in list
      PROVE  t.timeout < u.timeout \/ (t.timeout = u.timeout /\ u.id <= t.id)
  <2>1. least <= u.timeout /\ t.timeout = least /\ u.timeout \in Nat /\ least \in Nat
    BY <1>1
  <2>2. CASE u.timeout = least
    <3>1. n - t.id <= n - u.id
      BY <1>2, <1>3, <2>2
    <3> QED BY <3>1, <2>1, <2>2
  <2> QED BY <2>1, <2>2
<1>5. /\ Front(list) \in list
      /\ \A u \in list : \/ Front(list).timeout < u.timeout
                         \/ (Front(list).timeout = u.timeout /\ u.id <= Front(list).id)
  BY <1>4 DEF Front
<1> QED BY <1>5

-----------------------------------------------------------------------------
(* Type correctness.                                                       *)

\* The messages of the layer have their type.
LEMMA MessagesOK ==
  ASSUME NEW n \in Nat
  PROVE  Message(n) \in Messages /\ TimerMsg(n) \in Messages
BY DEF Message, TimerMsg, Messages

\* Every step of the threads, the clock and the signals keeps the types.
LEMMA TypeStep == TypeOK /\ [Next]_vars => TypeOK'
<1> SUFFICES ASSUME TypeOK, [Next]_vars PROVE TypeOK'
  OBVIOUS
<1> USE CommLayerConstants DEF TypeOK, MainPcs, IoPcs, Threads, Nobody, Times, NoWait
<1>1. CASE Receive
  BY <1>1, MessagesOK DEF Receive, Enqueue, Notifier, mainVars, sigVars, timerVars, ioVars
<1>2. CASE SendLocal
  BY <1>2, MessagesOK DEF SendLocal, Enqueue, Notifier, mainVars, sigVars, timerVars, ioVars
<1>3. ASSUME NEW p \in {"io", "task", "signal"}, NotifyAll(p) PROVE TypeOK'
  BY <1>3 DEF NotifyAll, timerVars, ioVars
<1>4. CASE BeginLoop
  BY <1>4 DEF BeginLoop, MainAt, NotMain, queueVars, sigVars, timerVars, ioVars
<1>5. CASE TestExit
  BY <1>5 DEF TestExit, MainAt, NotMain, queueVars, sigVars, timerVars, ioVars
<1>6. CASE LockQueue
  BY <1>6 DEF LockQueue, MainAt, NotMain, queueVars, sigVars, timerVars, ioVars
<1>7. CASE TestEmpty
  BY <1>7 DEF TestEmpty, MainAt, NotMain, queueVars, sigVars, timerVars, ioVars
<1>8. CASE Relock
  BY <1>8 DEF Relock, MainAt, NotMain, queueVars, sigVars, timerVars, ioVars
<1>9. CASE TakeMessage
  <2>1. messageQueue' \in Seq(Messages)
    <3>1. messageQueue \in Seq(Messages)
      OBVIOUS
    <3>2. messageQueue # <<>> => Tail(messageQueue) \in Seq(Messages)
      BY ONLY <3>1
    <3>3. \/ messageQueue' = messageQueue
          \/ messageQueue # <<>> /\ messageQueue' = Tail(messageQueue)
      BY <1>9 DEF TakeMessage
    <3> QED BY ONLY <3>1, <3>2, <3>3
  <2>2. mainPc' \in MainPcs /\ alive' \in BOOLEAN /\ queueLocked' = FALSE
    BY <1>9 DEF TakeMessage, MainAt
  <2>3. ~ (alive' /\ mainPc' \in {"testing", "taking"})
    BY <1>9 DEF TakeMessage, MainAt
  <2> QED
    BY <1>9, <2>1, <2>2, <2>3 DEF TakeMessage, sigVars, timerVars, ioVars
<1>10. CASE EndHandling
  BY <1>10 DEF EndHandling, MainAt, NotMain, queueVars, sigVars, timerVars, ioVars
<1>11. ASSUME NEW thread \in Threads, Signal(thread) PROVE TypeOK'
  BY <1>11 DEF Signal, queueVars, mainVars, timerVars, ioVars
<1>12. CASE StopEventLoop
  BY <1>12 DEF StopEventLoop, sigVars, timerVars, ioVars
<1>13. ASSUME NEW timeout \in Times, SetTimer(timeout) PROVE TypeOK'
  <2>1. timerId' = timerId + 1 /\ timerList' = timerList \cup {Timer(timerId + 1, timeout)}
    BY <1>13 DEF SetTimer
  <2>2. timerList' \subseteq [id : 1 .. timerId', timeout : Times]
    BY <2>1 DEF Timer
  <2>3. Front(timerList') \in timerList'
    <3>1. timerList' \in Lists(timerId') /\ timerList' # {} /\ timerId' \in Nat
      BY <2>1, <2>2 DEF Lists
    <3> QED BY <3>1, FrontIsFirst
  <2>4. wait' \in Times
    BY <1>13, <2>2, <2>3 DEF SetTimer, SetAsyncTimer, NextTimeout
  <2>5. posted' \in Nat
    BY <1>13 DEF SetTimer, SetAsyncTimer
  <2> QED
    BY <1>13, <2>2, <2>4, <2>5 DEF SetTimer, queueVars, mainVars, sigVars, ioVars
<1>14. ASSUME NEW t \in timerList, CancelTimer(t) PROVE TypeOK'
  BY <1>14 DEF CancelTimer, queueVars, mainVars, sigVars, ioVars
<1>15. CASE WaitEnds
  BY <1>15 DEF WaitEnds, queueVars, mainVars, sigVars, ioVars
<1>16. CASE EnterCheckExpired
  BY <1>16 DEF EnterCheckExpired, queueVars, mainVars, sigVars
<1>17. CASE LockTimers
  BY <1>17 DEF LockTimers, queueVars, mainVars, sigVars, timerVars
<1>18. CASE FireTimer
  <2>1. Front(timerList) \in timerList
    BY <1>18, FrontIsFirst DEF FireTimer, Lists
  <2>2. Front(timerList).id \in Nat
    BY <2>1
  <2>3. TimerMsg(Front(timerList).id) \in Messages
    BY <2>2, MessagesOK
  <2>4. messageQueue' \in Seq(Messages)
    BY <1>18, <2>3 DEF FireTimer, Enqueue
  <2> QED
    BY <1>18, <2>4 DEF FireTimer, Enqueue, Notifier, mainVars, sigVars, ioVars
<1>19. CASE LeaveCheckExpired
  <2>1. wait' \in Times \cup {NoWait} /\ posted' \in Nat
    <3>1. CASE timerList = {}
      BY <1>19, <3>1 DEF LeaveCheckExpired, ProgramNext
    <3>2. CASE timerList # {}
      <4>1. Front(timerList) \in timerList
        BY <3>2, FrontIsFirst DEF Lists
      <4>2. Front(timerList).timeout \in Times
        BY <4>1
      <4>3. wait' = Front(timerList).timeout /\ posted' = posted + (IF wait = NoWait THEN 0 ELSE 1)
        BY <1>19, <3>2 DEF LeaveCheckExpired, ProgramNext, NextTimeout, SetAsyncTimer
      <4> QED BY <4>2, <4>3
    <3> QED BY <3>1, <3>2
  <2> QED
    BY <1>19, <2>1 DEF LeaveCheckExpired, queueVars, mainVars, sigVars
<1>20. CASE Tick
  BY <1>20 DEF Tick, queueVars, mainVars, sigVars, timerVars, ioVars
<1>21. CASE UNCHANGED vars
  BY <1>21 DEF vars, queueVars, mainVars, sigVars, timerVars, ioVars
<1> QED
  BY <1>1, <1>2, <1>3, <1>4, <1>5, <1>6, <1>7, <1>8, <1>9, <1>10, <1>11, <1>12, <1>13,
     <1>14, <1>15, <1>16, <1>17, <1>18, <1>19, <1>20, <1>21 DEF Next

\* The state of the layer has its type, and queueMutex is held by the main
\* thread exactly in its critical sections.
THEOREM TypeCorrect == Spec => []TypeOK
<1>1. Init => TypeOK
  <2> SUFFICES ASSUME Init PROVE TypeOK
    OBVIOUS
  <2> USE CommLayerConstants DEF CommLayerConstants, Init, Times, NoWait
  <2>1. messageQueue \in Seq(Messages)
    OBVIOUS
  <2>2. /\ mainPc \in MainPcs /\ ioPc \in IoPcs /\ signalIn \in Threads \cup {Nobody}
        /\ ~ (mainPc \in {"testing", "taking"})
    BY DEF MainPcs, IoPcs, Threads, Nobody
  <2>3. /\ sent \in 0 .. MaxSent /\ signals \in 0 .. MaxSignals
        /\ timerId \in 0 .. MaxTimers /\ now \in Times /\ ct \in 0 .. now
        /\ wait \in Times \cup {NoWait} /\ posted \in Nat
    OBVIOUS
  <2> QED
    BY <2>1, <2>2, <2>3 DEF TypeOK
<1> QED
  BY <1>1, TypeStep, PTL DEF Spec

-----------------------------------------------------------------------------
(* No wakeup is lost.                                                      *)

\* Only TestEmpty makes the event loop wait, with the mutex and an empty queue;
\* a thread that enqueues has to notify from then on, and its notification
\* ends the wait.
LEMMA WaitStep == TypeOK /\ NoWaitWithMessages /\ [Next]_vars => NoWaitWithMessages'
<1> SUFFICES ASSUME TypeOK, NoWaitWithMessages, [Next]_vars PROVE NoWaitWithMessages'
  OBVIOUS
<1> USE DEF NoWaitWithMessages
<1>1. ASSUME NEW p, NEW msg, Enqueue(p, msg) PROVE notifying' # {}
  BY <1>1 DEF Enqueue, Notifier
<1>2. CASE Receive \/ SendLocal \/ FireTimer
  BY <1>1, <1>2 DEF Receive, SendLocal, FireTimer
<1>3. ASSUME NEW p \in {"io", "task", "signal"}, NotifyAll(p) PROVE NoWaitWithMessages'
  BY <1>3 DEF NotifyAll
<1>4. CASE BeginLoop \/ TestExit \/ LockQueue \/ Relock \/ TakeMessage \/ EndHandling
  BY <1>4 DEF BeginLoop, TestExit, LockQueue, Relock, TakeMessage, EndHandling, MainAt
<1>5. CASE TestEmpty
  BY <1>5 DEF TestEmpty, NotMain, queueVars
<1>6. CASE StopEventLoop
  BY <1>6 DEF StopEventLoop
<1>7. CASE (\E thread \in Threads : Signal(thread)) \/ WaitEnds \/ EnterCheckExpired
             \/ LockTimers \/ LeaveCheckExpired \/ Tick
             \/ (\E timeout \in Times : SetTimer(timeout))
             \/ (\E t \in timerList : CancelTimer(t)) \/ UNCHANGED vars
  BY <1>7 DEF Signal, WaitEnds, EnterCheckExpired, LockTimers, LeaveCheckExpired, Tick,
              SetTimer, CancelTimer, vars, queueVars, mainVars
<1> QED
  BY <1>2, <1>3, <1>4, <1>5, <1>6, <1>7 DEF Next

\* While the event loop waits, the queue is empty or a notification is to come.
THEOREM NoLostWakeup == Spec => []NoWaitWithMessages
<1>1. Init => NoWaitWithMessages
  BY DEF Init, NoWaitWithMessages
<1> QED
  BY <1>1, WaitStep, TypeCorrect, PTL DEF Spec

-----------------------------------------------------------------------------
(* No timer is forgotten.                                                  *)

\* A wait that is programmed for the first timer covers the list.
LEMMA Programmed ==
  ASSUME TypeOK', timerList' # {}, SetAsyncTimer(NextTimeout(timerList'))
  PROVE  TimersAreCovered'
<1>1. timerList' \in Lists(timerId') /\ timerId' \in Nat
  BY DEF TypeOK, Lists, Times
<1>2. /\ Front(timerList') \in timerList'
      /\ \A u \in timerList' : Front(timerList').timeout <= u.timeout
  BY <1>1, FrontIsFirst
<1>3. Front(timerList').timeout # NoWait
  BY <1>2 DEF TypeOK, Times, NoWait
<1> QED
  BY <1>2, <1>3 DEF SetAsyncTimer, NextTimeout, TimersAreCovered

LEMMA CoverStep ==
  TypeOK /\ TypeOK' /\ TimersAreCovered /\ [Next]_vars => TimersAreCovered'
<1> SUFFICES ASSUME TypeOK, TypeOK', TimersAreCovered, [Next]_vars PROVE TimersAreCovered'
  OBVIOUS
<1>1. ASSUME NEW timeout \in Times, SetTimer(timeout) PROVE TimersAreCovered'
  BY <1>1, Programmed DEF SetTimer
<1>2. CASE LeaveCheckExpired
  BY <1>2, Programmed DEF LeaveCheckExpired, ProgramNext, TimersAreCovered
<1>3. ASSUME NEW t \in timerList, CancelTimer(t) PROVE TimersAreCovered'
  BY <1>3 DEF CancelTimer, ioVars, TimersAreCovered
<1>4. CASE WaitEnds
  BY <1>4 DEF WaitEnds, TypeOK, TimersAreCovered
<1>5. CASE EnterCheckExpired \/ LockTimers \/ FireTimer
  BY <1>5 DEF EnterCheckExpired, LockTimers, FireTimer, ioVars, TimersAreCovered
<1>6. CASE UNCHANGED <<timerVars, ioVars>>
  BY <1>6 DEF timerVars, ioVars, TimersAreCovered
<1>7. CASE Receive \/ SendLocal \/ (\E p \in {"io", "task", "signal"} : NotifyAll(p))
             \/ BeginLoop \/ TestExit \/ LockQueue \/ TestEmpty \/ Relock \/ TakeMessage
             \/ EndHandling \/ (\E thread \in Threads : Signal(thread)) \/ StopEventLoop
             \/ Tick \/ UNCHANGED vars
  BY <1>6, <1>7 DEF Receive, SendLocal, NotifyAll, BeginLoop, TestExit, LockQueue,
                    TestEmpty, Relock, TakeMessage, EndHandling, Signal, StopEventLoop,
                    Tick, vars, NotMain
<1> QED
  BY <1>1, <1>2, <1>3, <1>4, <1>5, <1>7 DEF Next

\* While there are timers, a call to checkExpired is to come, not later than
\* the first of them.
THEOREM NoForgottenTimer == Spec => []TimersAreCovered
<1>1. Init => TimersAreCovered
  BY DEF Init, TimersAreCovered
<1> QED
  BY <1>1, CoverStep, TypeCorrect, PTL DEF Spec

-----------------------------------------------------------------------------
(* The layer implements the event service.                                 *)

LEMMA ServiceStep == TypeOK /\ [Next]_vars => [Service!Next]_Service!vars
<1> SUFFICES ASSUME TypeOK, [Next]_vars PROVE Service!Next \/ UNCHANGED Service!vars
  OBVIOUS
<1> USE DEF Service!vars
<1>1. CASE Receive \/ SendLocal
  <2>1. Service!Arrive
    BY <1>1 DEF Receive, SendLocal, Enqueue, Message, timerVars, Service!Arrive,
                Service!Message
  <2> QED BY <2>1 DEF Service!Next
<1>2. CASE TakeMessage
  <2>1. Service!HandOver \/ UNCHANGED Service!vars
    BY <1>2 DEF TakeMessage, timerVars, Service!HandOver
  <2> QED BY <2>1 DEF Service!Next
<1>3. ASSUME NEW timeout \in Times, SetTimer(timeout) PROVE Service!Next
  <2>1. Service!Set(timeout)
    BY <1>3 DEF SetTimer, Timer, queueVars, Service!Set, Service!Timer
  <2> QED BY <2>1 DEF Service!Next
<1>4. ASSUME NEW t \in timerList, CancelTimer(t) PROVE Service!Next
  <2>1. Service!Cancel(t)
    BY <1>4 DEF CancelTimer, queueVars, Service!Cancel
  <2> QED BY <2>1 DEF Service!Next
<1>5. CASE FireTimer
  <2> DEFINE t == Front(timerList)
  <2>1. /\ t \in timerList
        /\ \A u \in timerList : t.timeout <= u.timeout
    BY <1>5, FrontIsFirst DEF FireTimer, TypeOK, Lists, Times
  <2>2. t.timeout <= now
    <3>1. t.timeout <= ct /\ t.timeout \in Nat /\ ct \in Nat /\ ct <= now /\ now \in Nat
      BY <1>5, <2>1 DEF FireTimer, TypeOK, Times
    <3> QED BY <3>1
  <2>3. Service!Fire(t)
    BY <1>5, <2>1, <2>2 DEF FireTimer, Enqueue, TimerMsg, Service!Fire, Service!TimerMsg
  <2> QED BY <2>1, <2>3 DEF Service!Next
<1>6. CASE Tick
  BY <1>6 DEF Tick, queueVars, timerVars, Service!Tick, Service!Next
<1>7. CASE (\E p \in {"io", "task", "signal"} : NotifyAll(p)) \/ BeginLoop \/ TestExit
             \/ LockQueue \/ TestEmpty \/ Relock \/ EndHandling
             \/ (\E thread \in Threads : Signal(thread)) \/ StopEventLoop \/ WaitEnds
             \/ EnterCheckExpired \/ LockTimers \/ LeaveCheckExpired \/ UNCHANGED vars
  BY <1>7 DEF NotifyAll, BeginLoop, TestExit, LockQueue, TestEmpty, Relock, EndHandling,
              Signal, StopEventLoop, WaitEnds, EnterCheckExpired, LockTimers,
              LeaveCheckExpired, vars, NotMain, queueVars, timerVars
<1> QED
  BY <1>1, <1>2, <1>3, <1>4, <1>5, <1>6, <1>7 DEF Next

\* Messages are handed over once and in order, and timers expire once, in
\* order, not early and never after being cancelled.
THEOREM ImplementsService == Spec => KeepsPromises
<1>1. Init => Service!Init
  BY DEF Init, Service!Init
<1> QED
  BY <1>1, ServiceStep, TypeCorrect, PTL DEF Spec, KeepsPromises, Service!Spec

=============================================================================
