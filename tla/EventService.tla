---------------------------- MODULE EventService ----------------------------
(***************************************************************************)
(* What the communication layer promises to the services of a peer         *)
(* (include/CommLayer.hpp): every message is handed to them once, in the   *)
(* order in which it got in the queue, and a timer puts its message in the *)
(* queue once, not before its time, after every earlier timer, and never   *)
(* after it was cancelled.                                                 *)
(***************************************************************************)
EXTENDS Integers, Sequences

CONSTANT Times   \* The timeouts.

VARIABLES
  queue,     \* Messages not handed to the services yet.
  sent,      \* Messages that arrived so far.
  timers,    \* Timers set and neither expired nor cancelled.
  timerId,   \* Timers set so far.
  now        \* The time.

vars == <<queue, sent, timers, timerId, now>>

Message(n)         == [type |-> "message", id |-> n]
TimerMsg(id)       == [type |-> "timer", id |-> id]
Timer(id, timeout) == [id |-> id, timeout |-> timeout]

Init == queue = <<>> /\ sent = 0 /\ timers = {} /\ timerId = 0 /\ now = 0

Arrive ==
  /\ sent' = sent + 1
  /\ queue' = Append(queue, Message(sent'))
  /\ UNCHANGED <<timers, timerId, now>>

HandOver ==
  /\ queue # <<>>
  /\ queue' = Tail(queue)
  /\ UNCHANGED <<sent, timers, timerId, now>>

Set(timeout) ==
  /\ timeout >= now
  /\ timerId' = timerId + 1
  /\ timers' = timers \cup {Timer(timerId', timeout)}
  /\ UNCHANGED <<queue, sent, now>>

Cancel(t) ==
  /\ timers' = timers \ {t}
  /\ UNCHANGED <<queue, sent, timerId, now>>

Fire(t) ==
  /\ t.timeout <= now
  /\ \A u \in timers : t.timeout <= u.timeout
  /\ queue' = Append(queue, TimerMsg(t.id))
  /\ timers' = timers \ {t}
  /\ UNCHANGED <<sent, timerId, now>>

Tick ==
  /\ now' = now + 1
  /\ UNCHANGED <<queue, sent, timers, timerId>>

Next ==
  \/ Arrive
  \/ HandOver
  \/ \E timeout \in Times : Set(timeout)
  \/ \E t \in timers : Cancel(t)
  \/ \E t \in timers : Fire(t)
  \/ Tick

Spec == Init /\ [][Next]_vars

=============================================================================
