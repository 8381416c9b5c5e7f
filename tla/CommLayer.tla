----------------------------- MODULE CommLayer -----------------------------
(***************************************************************************)
(* The communication layer of a peer (include/CommLayer.hpp,               *)
(* src/lib/core/CommLayer.cpp, the timer of src/lib/core/NetworkManager.cpp).*)
(* The event loop runs in the main thread: it takes the messages of a      *)
(* queue one by one and hands them to the services.  The io thread puts    *)
(* there the messages that arrive from the network and those of the timers *)
(* that expire; the threads of tasks put local messages.  SIGINT sets a    *)
(* flag that ends the event loop.                                          *)
(*                                                                         *)
(* A critical section of queueMutex is one step unless it may be suspended *)
(* inside: the main thread keeps the mutex over several steps, because a   *)
(* signal handler may run in between.  enqueueMessage and stopEventLoop    *)
(* notify after they have unlocked the mutex, in a step of its own.        *)
(***************************************************************************)
EXTENDS Integers, Sequences, FiniteSets

CONSTANTS
  MaxSent,     \* Bound: messages that arrive or are sent to the local node
  MaxTimers,   \* Bound: timers set
  MaxTime,     \* Bound: the clock
  MaxSignals   \* Bound: SIGINTs

ASSUME CommLayerConstants == {MaxSent, MaxTimers, MaxTime, MaxSignals} \subseteq Nat

VARIABLES
  messageQueue,  \* Messages to hand to the services.
  queueLocked,   \* Whether the main thread holds queueMutex.
  exitSignaled,  \* The event loop must end.
  mainPc,        \* Where the main thread is.
  alive,         \* FALSE once front() was called on an empty queue.
  notifying,     \* Threads between the unlock of queueMutex and notify_all.
  signalIn,      \* Thread that intTrap has interrupted.
  signals,       \* SIGINTs so far.
  sent,          \* Messages sent so far.
  timerList,     \* Timers set: those of one timeout go from the newest on.
  timerId,       \* Timer::timerId, the number of the last timer.
  wait,          \* Timeout of the pending wait of the asio timer.
  posted,        \* Waits that are over, and whose handler is to run.
  ioPc,          \* Where the io thread is.
  ct,            \* The time that checkExpired read.
  now            \* The clock.

queueVars == <<messageQueue, notifying, sent>>
mainVars  == <<queueLocked, exitSignaled, mainPc, alive>>
sigVars   == <<signalIn, signals>>
timerVars == <<timerList, timerId, wait, posted>>
ioVars    == <<ioPc, ct>>
vars      == <<queueVars, mainVars, sigVars, timerVars, ioVars, now>>

Message(n)         == [type |-> "message", id |-> n]
TimerMsg(id)       == [type |-> "timer", id |-> id]
Timer(id, timeout) == [id |-> id, timeout |-> timeout]

Times  == 0 .. MaxTime
NoWait == -1

MainPcs == {"begin", "loop", "locking", "testing", "waiting", "woken",
            "taking", "handling", "done"}
IoPcs   == {"idle", "entered", "checking"}
Threads == {"main", "other"}     \* the threads that a signal may interrupt
Nobody  == "nobody"

Init ==
  /\ messageQueue = <<>> /\ notifying = {} /\ sent = 0
  /\ queueLocked = FALSE /\ exitSignaled = FALSE /\ mainPc = "begin" /\ alive = TRUE
  /\ signalIn = Nobody /\ signals = 0
  /\ timerList = {} /\ timerId = 0 /\ wait = NoWait /\ posted = 0
  /\ ioPc = "idle" /\ ct = 0 /\ now = 0

-----------------------------------------------------------------------------
(* The queue.                                                              *)

\* Mutant of Notifier: the notification is forgotten.
NotifierNever(p) == {}

\* The thread that has to call notify_all after thread p has enqueued.
Notifier(p) == {p}

\* enqueueMessage, by thread p, until it unlocks queueMutex.
Enqueue(p, msg) ==
  /\ alive /\ ~queueLocked
  /\ p \notin notifying
  /\ messageQueue' = Append(messageQueue, msg)
  /\ notifying' = notifying \cup Notifier(p)

\* The notify_all of enqueueMessage, or that of stopEventLoop.
NotifyAll(p) ==
  /\ alive /\ p \in notifying
  /\ notifying' = notifying \ {p}
  /\ mainPc' = IF mainPc = "waiting" THEN "woken" ELSE mainPc
  /\ signalIn' = IF p = "signal" THEN Nobody ELSE signalIn
  /\ UNCHANGED <<messageQueue, sent, queueLocked, exitSignaled, alive, signals,
                 timerVars, ioVars, now>>

\* A message of the network: handleRead, in the io thread.
Receive ==
  /\ ioPc = "idle"
  /\ sent < MaxSent
  /\ sent' = sent + 1
  /\ Enqueue("io", Message(sent'))
  /\ UNCHANGED <<mainVars, sigVars, timerVars, ioVars, now>>

\* sendLocalMessage, in the thread of a task.
SendLocal ==
  /\ sent < MaxSent
  /\ sent' = sent + 1
  /\ Enqueue("task", Message(sent'))
  /\ UNCHANGED <<mainVars, sigVars, timerVars, ioVars, now>>

-----------------------------------------------------------------------------
(* The event loop.                                                         *)

\* The main thread goes on from pc, unless a signal handler runs in it.
MainAt(pc) == alive /\ mainPc = pc /\ signalIn # "main"

NotMain == <<queueVars, sigVars, timerVars, ioVars, now>>

\* commEventLoop sets the flag again, without the mutex.
BeginLoop ==
  /\ MainAt("begin")
  /\ mainPc' = "loop"
  /\ exitSignaled' = FALSE
  /\ UNCHANGED <<queueLocked, alive, NotMain>>

TestExit ==
  /\ MainAt("loop")
  /\ mainPc' = IF exitSignaled THEN "done" ELSE "locking"
  /\ UNCHANGED <<queueLocked, exitSignaled, alive, NotMain>>

LockQueue ==
  /\ MainAt("locking")
  /\ queueLocked' = TRUE
  /\ mainPc' = "testing"
  /\ UNCHANGED <<exitSignaled, alive, NotMain>>

\* Mutant of TestEmpty: the wait does not release the mutex.
TestEmptyKeepsLock ==
  /\ MainAt("testing")
  /\ mainPc' = IF messageQueue = <<>> THEN "waiting" ELSE "taking"
  /\ UNCHANGED <<queueLocked, exitSignaled, alive, NotMain>>

\* "if (messageQueue.empty()) nonEmptyQueue.wait(lock)".
TestEmpty ==
  /\ MainAt("testing")
  /\ queueLocked' = (messageQueue # <<>>)
  /\ mainPc' = IF messageQueue = <<>> THEN "waiting" ELSE "taking"
  /\ UNCHANGED <<exitSignaled, alive, NotMain>>

\* The wait gets the mutex back.
Relock ==
  /\ MainAt("woken")
  /\ queueLocked' = TRUE
  /\ mainPc' = "taking"
  /\ UNCHANGED <<exitSignaled, alive, NotMain>>

\* The first message, taken out of the queue, or the way out.
TakeMessage ==
  /\ MainAt("taking")
  /\ queueLocked' = FALSE
  /\ IF exitSignaled
     THEN mainPc' = "loop" /\ UNCHANGED <<messageQueue, alive>>
     ELSE IF messageQueue = <<>>
          THEN alive' = FALSE /\ UNCHANGED <<messageQueue, mainPc>>
          ELSE /\ mainPc' = "handling"
               /\ messageQueue' = Tail(messageQueue)
               /\ UNCHANGED alive
  /\ UNCHANGED <<exitSignaled, notifying, sent, sigVars, timerVars, ioVars, now>>

\* The services have handled the message.
EndHandling ==
  /\ MainAt("handling")
  /\ mainPc' = "loop"
  /\ UNCHANGED <<queueLocked, exitSignaled, alive, NotMain>>

-----------------------------------------------------------------------------
(* SIGINT.                                                                 *)

\* intTrap starts in one of the threads.
Signal(thread) ==
  /\ alive /\ mainPc # "done"
  /\ signals < MaxSignals
  /\ signalIn = Nobody
  /\ signalIn' = thread
  /\ signals' = signals + 1
  /\ UNCHANGED <<queueVars, mainVars, timerVars, ioVars, now>>

\* stopEventLoop, until it unlocks queueMutex.
StopEventLoop ==
  /\ alive /\ signalIn # Nobody
  /\ "signal" \notin notifying
  /\ ~queueLocked
  /\ exitSignaled' = TRUE
  /\ notifying' = notifying \cup {"signal"}
  /\ UNCHANGED <<messageQueue, sent, queueLocked, mainPc, alive, sigVars,
                 timerVars, ioVars, now>>

-----------------------------------------------------------------------------
(* Timers.                                                                 *)

\* Mutant of Front: the list is not sorted, new timers go to the front.
FrontNewest(list) == CHOOSE t \in list : \A u \in list : u.id <= t.id

\* The first timer of a list that is not empty.
Front(list) ==
  CHOOSE t \in list : \A u \in list :
    t.timeout < u.timeout \/ (t.timeout = u.timeout /\ u.id <= t.id)

NextTimeout(list) == Front(list).timeout

\* expires_at cancels the pending wait, whose handler runs as well: it is
\* checkExpired, which does not look at the error code.
SetAsyncTimer(timeout) ==
  /\ wait' = timeout
  /\ posted' = posted + (IF wait = NoWait THEN 0 ELSE 1)

\* The services run in the main thread, before the loop or within it.
ServicesRun == \E pc \in {"begin", "handling"} : MainAt(pc)

\* setTimer with a time in the past does nothing.
SetTimer(timeout) ==
  /\ ServicesRun
  /\ ioPc # "checking"
  /\ timerId < MaxTimers
  /\ timeout >= now
  /\ timerId' = timerId + 1
  /\ timerList' = timerList \cup {Timer(timerId', timeout)}
  /\ SetAsyncTimer(NextTimeout(timerList'))
  /\ UNCHANGED <<queueVars, mainVars, sigVars, ioVars, now>>

CancelTimer(t) ==
  /\ ServicesRun
  /\ ioPc # "checking"
  /\ t \in timerList
  /\ timerList' = timerList \ {t}
  /\ UNCHANGED <<queueVars, mainVars, sigVars, timerId, wait, posted, ioVars, now>>

\* The time of the wait comes.
WaitEnds ==
  /\ alive
  /\ wait # NoWait /\ wait <= now
  /\ wait' = NoWait
  /\ posted' = posted + 1
  /\ UNCHANGED <<queueVars, mainVars, sigVars, timerList, timerId, ioVars, now>>

\* The io thread enters checkExpired, and reads the clock before it gets
\* timerMutex.
EnterCheckExpired ==
  /\ alive /\ ioPc = "idle" /\ "io" \notin notifying
  /\ posted > 0
  /\ posted' = posted - 1
  /\ ioPc' = "entered"
  /\ ct' = now
  /\ UNCHANGED <<queueVars, mainVars, sigVars, timerList, timerId, wait, now>>

LockTimers ==
  /\ alive /\ ioPc = "entered"
  /\ ioPc' = "checking"
  /\ UNCHANGED <<queueVars, mainVars, sigVars, timerVars, ct, now>>

\* An iteration of checkExpired for a timer that has expired.
FireTimer ==
  /\ ioPc = "checking"
  /\ timerList # {}
  /\ Front(timerList).timeout <= ct
  /\ Enqueue("io", TimerMsg(Front(timerList).id))
  /\ timerList' = timerList \ {Front(timerList)}
  /\ UNCHANGED <<sent, mainVars, sigVars, timerId, wait, posted, ioVars, now>>

\* Mutant of ProgramNext: the last iteration does not program the next timer.
ProgramNextForgotten == UNCHANGED <<wait, posted>>

\* The last iteration: nothing more has expired at ct.
ProgramNext ==
  IF timerList = {} THEN UNCHANGED <<wait, posted>>
                    ELSE SetAsyncTimer(NextTimeout(timerList))

LeaveCheckExpired ==
  /\ alive /\ ioPc = "checking" /\ "io" \notin notifying
  /\ timerList # {} => Front(timerList).timeout > ct
  /\ ioPc' = "idle"
  /\ ProgramNext
  /\ UNCHANGED <<queueVars, mainVars, sigVars, timerList, timerId, ct, now>>

Tick ==
  /\ alive /\ now < MaxTime
  /\ now' = now + 1
  /\ UNCHANGED <<queueVars, mainVars, sigVars, timerVars, ioVars>>

-----------------------------------------------------------------------------

Main == BeginLoop \/ TestExit \/ LockQueue \/ TestEmpty \/ Relock \/ TakeMessage
          \/ EndHandling

CheckExpired == EnterCheckExpired \/ LockTimers \/ FireTimer \/ LeaveCheckExpired

Next ==
  \/ Receive
  \/ SendLocal
  \/ \E p \in {"io", "task", "signal"} : NotifyAll(p)
  \/ BeginLoop
  \/ TestExit
  \/ LockQueue
  \/ TestEmpty
  \/ Relock
  \/ TakeMessage
  \/ EndHandling
  \/ \E thread \in Threads : Signal(thread)
  \/ StopEventLoop
  \/ \E timeout \in Times : SetTimer(timeout)
  \/ \E t \in timerList : CancelTimer(t)
  \/ WaitEnds
  \/ EnterCheckExpired
  \/ LockTimers
  \/ FireTimer
  \/ LeaveCheckExpired
  \/ Tick

Spec == Init /\ [][Next]_vars

(***************************************************************************)
(* The threads run, and so does the clock.  Messages, timers and signals   *)
(* come or not.                                                            *)
(***************************************************************************)
ThreadsRun ==
  /\ WF_vars(Main)
  /\ WF_vars(CheckExpired)
  /\ WF_vars(WaitEnds)
  /\ WF_vars(StopEventLoop)
  /\ \A p \in {"io", "task", "signal"} : WF_vars(NotifyAll(p))

\* Time may stand still: what must not depend on it.
FairSpec == Spec /\ ThreadsRun

TimedSpec == FairSpec /\ WF_vars(Tick)

-----------------------------------------------------------------------------
(* Properties.                                                             *)

Messages == [type : {"message", "timer"}, id : Nat]

\* The threads are where they may be; queueMutex is held by the main thread
\* exactly in its critical sections.
TypeOK ==
  /\ messageQueue \in Seq(Messages)
  /\ notifying \subseteq {"io", "task", "signal"}
  /\ sent \in 0 .. MaxSent
  /\ exitSignaled \in BOOLEAN /\ alive \in BOOLEAN /\ queueLocked \in BOOLEAN
  /\ mainPc \in MainPcs
  /\ queueLocked <=> alive /\ mainPc \in {"testing", "taking"}
  /\ signalIn \in Threads \cup {Nobody} /\ signals \in 0 .. MaxSignals
  /\ timerList \subseteq [id : 1 .. timerId, timeout : Times]
  /\ timerId \in 0 .. MaxTimers
  /\ wait \in Times \cup {NoWait} /\ posted \in Nat
  /\ ioPc \in IoPcs /\ now \in Times /\ ct \in 0 .. now

\* No wakeup is lost: while the event loop waits, the queue is empty or some
\* thread is about to notify it, although enqueueMessage notifies without the
\* mutex.
NoWaitWithMessages ==
  alive /\ mainPc = "waiting" => messageQueue = <<>> \/ notifying # {}

\* No timer is forgotten: while there are timers, some call to checkExpired
\* is to come, not later than the first of them, whatever timers are set,
\* cancelled and expire in the meantime.
TimersAreCovered ==
  timerList # {} =>
    \/ ioPc # "idle"
    \/ posted > 0
    \/ wait # NoWait /\ \A t \in timerList : wait <= t.timeout

\* The layer keeps its promises to the services.
Service == INSTANCE EventService WITH queue <- messageQueue, timers <- timerList
KeepsPromises == Service!Spec

\* Every timer is over at last, expired or cancelled, unless a signal comes:
\* its handler may lock the event loop for ever, and the io thread after it.
TimersEnd ==
  \A id \in 1 .. MaxTimers :
    (\E t \in timerList : t.id = id) ~>
      (~alive \/ mainPc = "done" \/ signals > 0 \/ \A t \in timerList : t.id # id)

\* Every message is handed to the services, unless the loop ends before.
MessagesAreHandled ==
  \A n \in 1 .. MaxSent :
    (sent >= n) ~>
      (\/ ~alive \/ signals > 0
       \/ \A i \in DOMAIN messageQueue : messageQueue[i] # Message(n))

\* Nothing that the services sent or set is waited for in vain.
EverythingComes == TimersEnd /\ MessagesAreHandled

=============================================================================
