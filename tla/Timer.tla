--------------------------------- MODULE Timer ---------------------------------
(***************************************************************************)
(* The software timers of bertos/drv/timer.c: a queue of timers sorted by  *)
(* expiry tick.  The tick counter and the expiry ticks are signed integers *)
(* of W bits that wrap around (the build has -fwrapv), so the order in the *)
(* queue is an order of differences.  The history variable left counts,    *)
(* without wrapping, the ticks a queued timer still has to wait; the       *)
(* invariants say that the W-bit arithmetic never disagrees with it.       *)
(*                                                                         *)
(* The queue is the one that the timer interrupt polls at each tick        *)
(* (timer_add) or, when sync, one that a process polls whenever it gets to *)
(* it (synctimer_add).                                                     *)
(***************************************************************************)
EXTENDS List

CONSTANTS
  Timers,    \* the Timer structures
  Periodic,  \* those whose callback adds the timer again
  W,         \* the width of ticks_t in bits
  Delays,    \* the delays the timers are given
  MaxLate    \* bound: how many ticks late a process polls a synctimer queue

Half == 2 ^ (W - 1)

(* The order of differences needs all ticks in the queue within half the   *)
(* range.  A delay of 0 would keep a periodic timer in timer_poll()        *)
(* forever.  (That a power of 2 is a positive number needs an induction.)  *)
ASSUME TimerAssumption ==
  /\ W \in Nat \ {0} /\ Half \in Nat \ {0}
  /\ Periodic \subseteq Timers
  /\ MaxLate \in 0..(Half - 1)
  /\ Delays \subseteq 1..(Half - 1 - MaxLate)

VARIABLES
  sync,     \* which queue
  clock,    \* _clock
  queue,    \* timers_queue, or the queue the process owns
  tick,     \* tick[t]: t->tick
  delay,    \* delay[t]: t->_delay
  polling,  \* timer_poll() is running
  left      \* history: left[t] ticks from now t is to expire

vars == <<sync, clock, queue, tick, delay, polling, left>>

Wrap(n) == ((n + Half) % (2 * Half)) - Half

Init ==
  /\ sync \in BOOLEAN
  /\ clock = 0
  /\ queue = <<>>
  /\ tick = [t \in Timers |-> 0]
  /\ delay = [t \in Timers |-> 0]
  /\ polling = FALSE
  /\ left = [t \in Timers |-> 0]

Active(t) == Contains(queue, t)

(* mutant: the ticks are compared, not their difference *)
Later_mutant(a, b) == a > b

Later(a, b) == Wrap(a - b) > 0

(* The timer goes before the first one that expires later. *)
timer_addToList(q, t, tk) ==
  InsertBefore(q, t, {i \in 1..Len(q) : Later(tk[q[i]], tk[t])})

(* timer_add() and synctimer_add(), after timer_setDelay(): called by a    *)
(* process, or by the callback of another timer while the queue is polled. *)
timer_add(t, d) ==
  /\ ~Active(t)
  /\ delay' = [delay EXCEPT ![t] = d]
  /\ tick' = [tick EXCEPT ![t] = Wrap(clock + d)]
  /\ queue' = timer_addToList(queue, t, tick')
  /\ left' = [left EXCEPT ![t] = d]
  /\ UNCHANGED <<sync, clock, polling>>

(* A timer that left the queue for good: its fields are set before they    *)
(* are read again, and the model does not keep them.                       *)
Gone(t) ==
  /\ tick' = [tick EXCEPT ![t] = 0]
  /\ delay' = [delay EXCEPT ![t] = 0]
  /\ left' = [left EXCEPT ![t] = 0]

timer_abort(t) ==
  /\ Active(t)
  /\ queue' = REMOVE(queue, t)
  /\ Gone(t)
  /\ UNCHANGED <<sync, clock, polling>>

(* The timer interrupt counts the tick and polls its queue before it       *)
(* returns.  It does not touch a synctimer queue.                          *)
timer_isr ==
  /\ sync \/ ~polling
  /\ \A t \in Timers : sync /\ Active(t) => left[t] > -MaxLate
  /\ clock' = Wrap(clock + 1)
  /\ left' = [t \in Timers |-> IF Active(t) THEN left[t] - 1 ELSE 0]
  /\ polling' = (polling \/ ~sync)
  /\ UNCHANGED <<sync, queue, tick, delay>>

synctimer_poll ==
  /\ sync
  /\ ~polling
  /\ polling' = TRUE
  /\ UNCHANGED <<sync, clock, queue, tick, delay, left>>

(* mutant: the timer that expires right now is left in the queue *)
Expired_mutant(t) == Wrap(clock - tick[t]) > 0

Expired(t) == Wrap(clock - tick[t]) >= 0

(* mutant: the timer is added again without its delay *)
Again_mutant(t, q) ==
  /\ queue' = timer_addToList(q, t, tick)
  /\ UNCHANGED <<tick, delay, left>>

(* The callback of a periodic timer adds it again to q, the queue without  *)
(* it: with timer_add(), or with synctimer_readd(), that counts from the   *)
(* tick it was due.                                                        *)
Again(t, q) ==
  LET base == IF sync THEN tick[t] ELSE clock
  IN  /\ tick' = [tick EXCEPT ![t] = Wrap(base + delay[t])]
      /\ queue' = timer_addToList(q, t, tick')
      /\ left' = [left EXCEPT ![t] = IF sync THEN @ + delay[t] ELSE delay[t]]
      /\ UNCHANGED delay

(* One turn of the loop of timer_poll(): the first timer is removed and    *)
(* its event executed, or the loop ends.                                   *)
timer_poll ==
  /\ polling
  /\ IF queue # <<>> /\ Expired(Head(queue))
     THEN /\ IF Head(queue) \in Periodic
             THEN Again(Head(queue), Tail(queue))
             ELSE queue' = Tail(queue) /\ Gone(Head(queue))
          /\ UNCHANGED polling
     ELSE /\ polling' = FALSE
          /\ UNCHANGED <<queue, tick, delay, left>>
  /\ UNCHANGED <<sync, clock>>

synctimer_nextTimeout ==
  IF queue = <<>>
  THEN -1
  ELSE LET n == Wrap(tick[Head(queue)] - clock) IN IF n > 0 THEN n ELSE 0

Next ==
  \/ \E t \in Timers, d \in Delays : timer_add(t, d)
  \/ \E t \in Timers : timer_abort(t)
  \/ timer_isr
  \/ synctimer_poll
  \/ timer_poll

Spec == Init /\ [][Next]_vars
-----------------------------------------------------------------------------
(* "The list is sorted by expiry time": by the time that is really left,   *)
(* also when the counter wraps between one timer and the next, and each    *)
(* timer is in the queue once.                                             *)
QueueSorted ==
  \A i, j \in DOMAIN queue : i < j =>
    /\ left[queue[i]] <= left[queue[j]]
    /\ queue[i] # queue[j]

(* A timer expires at its tick, not before: and when the interrupt handler *)
(* returns, no timer of its queue is left that should have expired.        *)
OnTime ==
  /\ \A t \in Timers : Active(t) => (Expired(t) <=> left[t] <= 0)
  /\ ~sync /\ ~polling => \A t \in Timers : Active(t) => left[t] > 0
=============================================================================
