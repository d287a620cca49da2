-------------------------------- MODULE RTask --------------------------------
(***************************************************************************)
(* The recurrent tasks of bertos/kern/rtask.c: one process, rtask_proc,    *)
(* runs the callbacks of a synctimer queue.  It sleeps until the first of  *)
(* them is due, takes it and runs it; other processes add tasks with       *)
(* rtask_add() and wake it with the signal NEW_TASK.                       *)
(*                                                                         *)
(* The kernel is cooperative (CONFIG_KERN_PREEMPT is 0): rtask_add() never *)
(* waits for the semaphore, that rtask_proc holds only while it runs, and  *)
(* so is one step; rtask_proc is cut where it sleeps and where it calls    *)
(* back.  Ticks come at any time.  A queue that belongs to rtask_proc is   *)
(* one of the uses of a queue; the others are those of module Timer.       *)
(***************************************************************************)
EXTENDS Timer

VARIABLES
  rtask,    \* rtask_proc has the queue
  pc,       \* where rtask_proc is
  NEW_TASK, \* the signal is pending
  wake,     \* ticks until timer_delayTicks() wakes it
  running   \* the task whose callback runs, or none

none == "none"

ASSUME RTaskAssumption == none \notin Timers

rtaskVars == <<rtask, pc, NEW_TASK, wake, running>>
allVars == <<vars, rtaskVars>>

RTaskInit ==
  /\ Init
  /\ rtask \in BOOLEAN
  /\ rtask => sync
  /\ pc = none /\ NEW_TASK = FALSE /\ wake = 0 /\ running = none

(* rtask_add(), when the pool has a task: the process is created by the    *)
(* first call.                                                             *)
rtask_add(t, d) ==
  /\ running # t
  /\ timer_add(t, d)
  /\ pc' = IF pc = none THEN "start" ELSE pc
  /\ NEW_TASK' = TRUE
  /\ UNCHANGED <<rtask, wake, running>>

(* mutant: a signal of a task that has run meanwhile is left pending *)
ForgetSignal_mutant == NEW_TASK' = NEW_TASK

ForgetSignal == NEW_TASK' = FALSE

(* timer_delayTicks(): the timer is polled after the next tick at the      *)
(* earliest.                                                               *)
Delay(n) == wake' = IF n < 1 THEN 1 ELSE n

(* From the top of the loop of rtask_proc to where it sleeps: for a task,  *)
(* or until the first one is due.                                          *)
Loop ==
  /\ ForgetSignal
  /\ IF queue' = <<>>
     THEN pc' = "wait" /\ UNCHANGED wake
     ELSE pc' = "delay" /\ Delay(synctimer_nextTimeout')

(* rtask_proc runs for the first time. *)
Begin ==
  /\ pc = "start"
  /\ UNCHANGED <<vars, rtask, running>>
  /\ Loop

(* sig_wait(NEW_TASK) returns. *)
Woken ==
  /\ pc = "wait" /\ NEW_TASK
  /\ NEW_TASK' = FALSE
  /\ pc' = "delay" /\ Delay(synctimer_nextTimeout)
  /\ UNCHANGED <<vars, rtask, running>>

(* The first task is taken and its callback begins. *)
Take ==
  /\ pc = "delay" /\ wake = 0
  /\ queue # <<>>
  /\ running' = Head(queue)
  /\ queue' = Tail(queue)
  /\ pc' = "run"
  /\ UNCHANGED <<sync, clock, tick, delay, polling, left, rtask, NEW_TASK, wake>>

(* rtask_trampoline(): the callback returns, and the task goes back to the *)
(* queue or to the pool.                                                   *)
Return ==
  /\ pc = "run"
  /\ \/ running \in Periodic /\ Again(running, queue)
     \/ Gone(running) /\ UNCHANGED queue
  /\ running' = none
  /\ UNCHANGED <<sync, clock, polling, rtask>>
  /\ Loop

rtask_proc == Begin \/ Woken \/ Take \/ Return

Asleep == pc = none \/ (pc = "wait" /\ ~NEW_TASK) \/ (pc = "delay" /\ wake > 0)

(* The tick interrupt.  The process, once ready, gets the CPU and its      *)
(* callback returns before a task is more than MaxLate ticks overdue; how  *)
(* late a task is when the process wakes up is up to the code.             *)
Tick ==
  /\ Asleep \/ \A t \in Timers : Active(t) \/ running = t => left[t] > -MaxLate
  /\ clock' = Wrap(clock + 1)
  /\ left' = [t \in Timers |-> IF Active(t) \/ running = t THEN left[t] - 1 ELSE 0]
  /\ wake' = IF wake = 0 THEN 0 ELSE wake - 1
  /\ UNCHANGED <<sync, queue, tick, delay, polling, rtask, pc, NEW_TASK, running>>

RTaskNext ==
  \/ ~rtask /\ Next /\ UNCHANGED rtaskVars
  \/ /\ rtask
     /\ \/ \E t \in Timers, d \in Delays : rtask_add(t, d)
        \/ rtask_proc
        \/ Tick

(* The clock never stops, a loop that has begun goes on, and a process     *)
(* that has a queue keeps polling it.                                      *)
RTaskSpec ==
  /\ RTaskInit
  /\ [][RTaskNext]_allVars
  /\ WF_allVars(rtask /\ Tick)
  /\ WF_allVars(rtask /\ rtask_proc)
  /\ WF_allVars(~rtask /\ timer_isr /\ UNCHANGED rtaskVars)
  /\ WF_allVars(~rtask /\ timer_poll /\ UNCHANGED rtaskVars)
  /\ WF_allVars(~rtask /\ synctimer_poll /\ UNCHANGED rtaskVars)
-----------------------------------------------------------------------------
(* The assertions of rtask_proc: when it wakes up there is a task to take, *)
(* and it is due.  A task added while the process sleeps for another one,  *)
(* or a signal left from a task that has already run, must not make it     *)
(* take a task too early or from an empty queue.                           *)
TakesDueTask ==
  pc = "delay" /\ wake = 0 => queue # <<>> /\ left[Head(queue)] <= 0

(* Every timer gets its turn, whoever polls the queue: it expires or is    *)
(* aborted, also when a periodic timer is always expiring before it; and   *)
(* every task of rtask_proc is taken, so that no signal that tells it of a *)
(* task is lost.                                                           *)
AllExpire ==
  \A t \in Timers : Active(t) /\ (rtask \/ t \notin Periodic) ~> ~Active(t)
=============================================================================
