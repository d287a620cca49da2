--------------------------------- MODULE Proc ---------------------------------
(***************************************************************************)
(* The process scheduler: bertos/kern/proc.c, proc_p.h and proc.h.         *)
(*                                                                         *)
(* There is one CPU.  A process runs until it calls the kernel, until it   *)
(* blocks, or, in a build with CONFIG_KERN_PREEMPT, until an interrupt     *)
(* takes the CPU away from it.  A stretch of code that runs with the       *)
(* interrupts disabled is one step: nothing else can run in it.  A         *)
(* proc_forbid()/proc_permit() section is one step too, since what it      *)
(* touches is touched by no interrupt.  A call that has a window between   *)
(* two such stretches is split there, and pc says where the process is.    *)
(*                                                                         *)
(* This module holds the scheduler's state and its operations.  The        *)
(* semaphores (Sem) and the signals (Signal) use them, and Kernel composes *)
(* the three with the interrupts into one specification.                   *)
(***************************************************************************)
EXTENDS List

CONSTANTS
  Process,   \* the process control blocks: main_process and the heap's slots
  Main,      \* main_process, "the one that executes main()"
  NULL,      \* the null pointer
  Pris,      \* the priorities proc_setPri() is called with
  PREEMPT,   \* CONFIG_KERN_PREEMPT
  PRI,       \* CONFIG_KERN_PRI
  QUANTUM,   \* CONFIG_KERN_QUANTUM, in timer ticks
  MaxForbid  \* bound: nesting of proc_forbid() by the processes

ASSUME ProcAssumption ==
  /\ Main \in Process
  /\ NULL \notin Process
  /\ Pris \subseteq Int
  /\ PREEMPT \in BOOLEAN
  /\ PRI \in BOOLEAN
  /\ QUANTUM \in Nat
  /\ MaxForbid \in Nat

VARIABLES
  current,   \* current_process; NULL while proc_schedule() idles
  ready,     \* proc_ready_list
  pri,       \* pri[p]: the priority in the link of p
  quantum,   \* _proc_quantum
  preempt,   \* preempt_count
  zombie,    \* zombie_list
  pc,        \* pc[p]: where p is in the kernel, "user" when outside of it
  target     \* target[p]: a process p holds in a local variable of a call

procVars == <<current, ready, pri, quantum, preempt, zombie, pc, target>>

(* Places in the kernel where a process can be seen by the other actors.   *)
Live == {"user", "setPri", "reap", "create", "obtain", "asleep", "wakeup", "sigwait"}
Over == {"exit", "zombie", "reaping", "free", "gone"}

Alive(p) == pc[p] \in Live

-----------------------------------------------------------------------------
(* The lists of processes.  Without CONFIG_KERN_PRI the priority is 0 for  *)
(* all, and enqueueing is ADDTAIL() or ADDHEAD().                          *)

Prio(p, pr) == IF PRI THEN pr[p] ELSE 0

SCHED_ENQUEUE(l, p, pr) ==
  InsertBefore(l, p, {i \in 1..Len(l) : Prio(l[i], pr) < Prio(p, pr)})

SCHED_ENQUEUE_HEAD(l, p, pr) ==
  InsertBefore(l, p, {i \in 1..Len(l) : Prio(l[i], pr) <= Prio(p, pr)})

(* mutant: the new priority does not move the process *)
sched_reenqueue_mutant(l, p, pr) == l

sched_reenqueue(l, p, pr) ==
  IF Contains(l, p) THEN SCHED_ENQUEUE(REMOVE(l, p), p, pr) ELSE l

preempt_reset_quantum == quantum' = IF PREEMPT THEN QUANTUM ELSE 0

(* mutant: decrement without the test for zero *)
proc_decQuantum_mutant == IF PREEMPT THEN quantum - 1 ELSE quantum

proc_decQuantum == IF PREEMPT /\ quantum > 0 THEN quantum - 1 ELSE quantum

proc_preemptAllowed == preempt = 0

(* proc_schedule() with ready list l: the first ready process runs, or the *)
(* CPU idles on the stack of the old process with current_process NULL.    *)
proc_schedule(l) ==
  IF l = <<>>
  THEN current' = NULL /\ ready' = l
  ELSE current' = Head(l) /\ ready' = Tail(l)

proc_switch ==
  /\ preempt_reset_quantum
  /\ proc_schedule(ready)

(* mutant: the process goes before its peers, not after them *)
proc_switchTo_mutant(p, l) ==
  /\ ready' = SCHED_ENQUEUE_HEAD(l, current, pri)
  /\ preempt_reset_quantum
  /\ current' = p

proc_switchTo(p, l) ==
  /\ ready' = SCHED_ENQUEUE(l, current, pri)
  /\ preempt_reset_quantum
  /\ current' = p

proc_wakeup(p) ==
  IF Prio(p, pri) >= Prio(current, pri)
  THEN proc_switchTo(p, ready)
  ELSE /\ ready' = SCHED_ENQUEUE_HEAD(ready, p, pri)
       /\ UNCHANGED <<current, quantum>>

(* What an interrupt tests before it returns, with the ready list l and    *)
(* the quantum n that its handler left.                                    *)
proc_needPreempt(l, n) ==
  /\ PREEMPT
  /\ current # NULL
  /\ proc_preemptAllowed
  /\ l # <<>>
  /\ IF n > 0 THEN Prio(Head(l), pri) > Prio(current, pri)
              ELSE Prio(Head(l), pri) >= Prio(current, pri)

proc_preempt(l) ==
  /\ preempt_reset_quantum
  /\ proc_schedule(SCHED_ENQUEUE(l, current, pri))

(* The way out of an interrupt handler: the timer's always, with           *)
(* CONFIG_KERN_PRI every handler, tests whether it has to preempt.         *)
IsrExit(l, n, isTimer) ==
  IF (isTimer \/ PRI) /\ proc_needPreempt(l, n)
  THEN proc_preempt(l)
  ELSE /\ ready' = l
       /\ quantum' = n
       /\ UNCHANGED current

-----------------------------------------------------------------------------
(* p runs its own code, outside the kernel. *)
Calls(p) == current = p /\ pc[p] = "user"

At(p, label) == current = p /\ pc[p] = label

Goto(p, label) == pc' = [pc EXCEPT ![p] = label]

proc_yield(p) ==
  /\ Calls(p)
  /\ proc_preemptAllowed
  /\ ready # <<>>
  /\ proc_switchTo(Head(ready), Tail(ready))
  /\ UNCHANGED <<pri, preempt, zombie, pc, target>>

proc_forbid(p) ==
  /\ PREEMPT
  /\ Calls(p)
  /\ preempt < MaxForbid
  /\ preempt' = preempt + 1
  /\ UNCHANGED <<current, ready, pri, quantum, zombie, pc, target>>

proc_permit(p) ==
  /\ PREEMPT
  /\ Calls(p)
  /\ preempt > 0
  /\ preempt' = preempt - 1
  /\ UNCHANGED <<current, ready, pri, quantum, zombie, pc, target>>

(* proc_setPri() stores the priority with interrupts enabled, and fixes    *)
(* the ready list in a second stretch, with interrupts disabled.           *)
proc_setPri(p, q, n) ==
  /\ PRI
  /\ Calls(p)
  /\ Alive(q)
  /\ pri[q] # n
  /\ pri' = [pri EXCEPT ![q] = n]
  /\ IF q # p
     THEN Goto(p, "setPri") /\ target' = [target EXCEPT ![p] = q]
     ELSE UNCHANGED <<pc, target>>
  /\ UNCHANGED <<current, ready, quantum, preempt, zombie>>

proc_setPri_reenqueue(p) ==
  /\ At(p, "setPri")
  /\ ready' = sched_reenqueue(ready, target[p], pri)
  /\ Goto(p, "user")
  /\ target' = [target EXCEPT ![p] = NULL]
  /\ UNCHANGED <<current, pri, quantum, preempt, zombie>>

(* mutant: current_process is not cleared before preemption is permitted *)
proc_exit_mutant(p) ==
  /\ Calls(p)
  /\ proc_preemptAllowed
  /\ zombie' = Append(zombie, p)
  /\ Goto(p, "exit")
  /\ UNCHANGED <<current, ready, pri, quantum, preempt, target>>

(* proc_exit(): the process puts itself in the zombie list and is current  *)
(* no more, in one section; then proc_switch() leaves its stack for good.  *)
proc_exit(p) ==
  /\ Calls(p)
  /\ proc_preemptAllowed
  /\ zombie' = Append(zombie, p)
  /\ current' = NULL
  /\ Goto(p, "exit")
  /\ UNCHANGED <<ready, pri, quantum, preempt, target>>

proc_exit_switch(p) ==
  /\ current = NULL
  /\ pc[p] = "exit"
  /\ proc_switch
  /\ Goto(p, "zombie")
  /\ UNCHANGED <<pri, preempt, zombie, target>>

(* The loop of proc_schedule() finds a process an interrupt made ready. *)
Idling == current = NULL /\ \A p \in Process : pc[p] # "exit"

proc_schedule_idle ==
  /\ Idling
  /\ ready # <<>>
  /\ proc_schedule(ready)
  /\ UNCHANGED <<pri, quantum, preempt, zombie, pc, target>>

(* proc_new() frees the zombies, then takes a stack from the heap and      *)
(* makes the new process ready; it returns NULL when the heap is empty.    *)
proc_new(p) ==
  /\ Calls(p)
  /\ Goto(p, "reap")
  /\ UNCHANGED <<current, ready, pri, quantum, preempt, zombie, target>>

proc_freeZombies_remHead(p) ==
  /\ At(p, "reap")
  /\ target[p] = NULL
  /\ IF zombie = <<>>
     THEN Goto(p, "create") /\ UNCHANGED <<zombie, target>>
     ELSE /\ zombie' = Tail(zombie)
          /\ target' = [target EXCEPT ![p] = Head(zombie)]
          /\ Goto(Head(zombie), "reaping")
  /\ UNCHANGED <<current, ready, pri, quantum, preempt>>

(* main_process has no PF_FREESTACK: its block is never used again. *)
proc_freeZombies_free(p) ==
  /\ At(p, "reap")
  /\ target[p] # NULL
  /\ Goto(target[p], IF target[p] = Main THEN "gone" ELSE "free")
  /\ target' = [target EXCEPT ![p] = NULL]
  /\ UNCHANGED <<current, ready, pri, quantum, preempt, zombie>>

proc_new_enqueue(p, q) ==
  /\ At(p, "create")
  /\ pc[q] = "free"
  /\ pri' = [pri EXCEPT ![q] = 0]
  /\ ready' = SCHED_ENQUEUE(ready, q, pri')
  /\ pc' = [pc EXCEPT ![p] = "user", ![q] = "user"]
  /\ UNCHANGED <<current, quantum, preempt, zombie, target>>

proc_new_fails(p) ==
  /\ At(p, "create")
  /\ \A q \in Process : pc[q] # "free"
  /\ Goto(p, "user")
  /\ UNCHANGED <<current, ready, pri, quantum, preempt, zombie, target>>

(* proc_init(), then main() creates the processes in Started and gives     *)
(* them, and itself, their priorities.                                     *)
StartPri == [Process -> Pris]

StartReady(Started, pr) ==
  {l \in [1..Cardinality(Started) -> Started] :
     /\ Distinct(l)
     /\ \A i, j \in DOMAIN l : i < j => Prio(l[i], pr) >= Prio(l[j], pr)}

StartPc(Started) ==
  [p \in Process |-> IF p = Main \/ p \in Started THEN "user" ELSE "free"]

ProcInit(Started) ==
  /\ current = Main
  /\ pri \in StartPri
  /\ ready \in StartReady(Started, pri)
  /\ quantum = 0
  /\ preempt = 0
  /\ zombie = <<>>
  /\ pc = StartPc(Started)
  /\ target = [p \in Process |-> NULL]

(* The same after a reset of the board. *)
ProcReset(Started) ==
  /\ current' = Main
  /\ pri' \in StartPri
  /\ ready' \in StartReady(Started, pri')
  /\ quantum' = 0
  /\ preempt' = 0
  /\ zombie' = <<>>
  /\ pc' = StartPc(Started)
  /\ target' = [p \in Process |-> NULL]
===============================================================================
