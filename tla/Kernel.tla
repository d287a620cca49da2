-------------------------------- MODULE Kernel --------------------------------
(***************************************************************************)
(* The BeRTOS kernel: the scheduler (Proc), the semaphores (Sem) and the   *)
(* signals (Signal), called by processes that make any call their contract *)
(* allows in any order, and interrupted wherever interrupts are enabled.   *)
(***************************************************************************)
EXTENDS Sem, Signal

CONSTANTS
  Started,   \* the processes main() has created
  Ops        \* the kernel calls and interrupts of this instance

ASSUME KernelAssumption ==
  /\ IsFiniteSet(Process)
  /\ Started \subseteq Process \ {Main}
  /\ {"ready", "zombie"} \cap Semaphore = {}

kernelVars == <<procVars, semVars, sigVars>>

Init ==
  /\ ProcInit(Started)
  /\ SemInit
  /\ SignalInit

(* A process waits in sig_wait() with interrupts disabled, and they are    *)
(* still disabled when it resumes; anywhere else the saved flags are       *)
(* restored before the process can do anything another actor sees.         *)
InterruptsEnabled == \A p \in Process : pc[p] = "sigwait" => current # p

(* The timer interrupt when it expires no timer. *)
timer_isr ==
  /\ InterruptsEnabled
  /\ IsrExit(ready, proc_decQuantum, TRUE)
  /\ UNCHANGED <<pri, preempt, zombie, pc, target, semVars, sigVars>>

(* An interrupt handler, the timer's or another, that posts signals.       *)
isr_post(q, m, isTimer) ==
  /\ InterruptsEnabled
  /\ Alive(q)
  /\ Deliver(q, m)
  /\ ClearWait(q, m)
  /\ IsrExit(Posted(q, m), IF isTimer THEN proc_decQuantum ELSE quantum, isTimer)
  /\ UNCHANGED <<pri, preempt, zombie, pc, target, semVars, sigs>>

(* A process ends its life owning no semaphore: "each call to sem_obtain() *)
(* must be matched by a call to sem_release()".                            *)
Exits(p) == proc_exit(p) /\ \A s \in Semaphore : held[s][p] = 0

(* What the current process may do next: a call ... *)
ProcCall(p) ==
  \/ "yield" \in Ops /\ proc_yield(p)
  \/ "forbid" \in Ops /\ (proc_forbid(p) \/ proc_permit(p))
  \/ "setPri" \in Ops /\ \E q \in Process, n \in Pris : proc_setPri(p, q, n)
  \/ "exit" \in Ops /\ Exits(p)
  \/ "new" \in Ops /\ proc_new(p)

SemCall(p) ==
  \E s \in Semaphore :
    \/ "attempt" \in Ops /\ sem_attempt(p, s)
    \/ sem_obtain(p, s)
    \/ sem_obtain_enqueue(p, s)
    \/ sem_release(p, s)

SignalCall(p) ==
  \E m \in Mask :
    \/ "wait" \in Ops /\ sig_waitSignal(p, m)
    \/ "check" \in Ops /\ sig_checkSignal(p, m)
    \/ "send" \in Ops /\ \E q \in Process : sig_sendSignal(p, q, m)
    \/ "post" \in Ops /\ \E q \in Process : sig_postSignal(p, q, m)

Call(p) ==
  \/ ProcCall(p) /\ UNCHANGED <<semVars, sigVars>>
  \/ SemCall(p) /\ UNCHANGED sigVars
  \/ SignalCall(p) /\ UNCHANGED semVars

(* ... or the rest of the call it is in. *)
NewProcess(p) == \E q \in Process : proc_new_enqueue(p, q) /\ ClearSignals(q)

ProcContinue(p) ==
  \/ proc_setPri_reenqueue(p)
  \/ proc_exit_switch(p)
  \/ proc_freeZombies_remHead(p)
  \/ proc_freeZombies_free(p)
  \/ proc_new_fails(p)

SemContinue(p) ==
  \/ sem_obtain_switch(p)
  \/ sem_obtain_return(p)
  \/ sem_release_wakeup(p)

Continue(p) ==
  \/ ProcContinue(p) /\ UNCHANGED <<semVars, sigVars>>
  \/ NewProcess(p) /\ UNCHANGED semVars
  \/ SemContinue(p) /\ UNCHANGED sigVars
  \/ sig_waitSignal_resume(p) /\ UNCHANGED semVars

Idle == proc_schedule_idle /\ UNCHANGED <<semVars, sigVars>>

PostingIsr == "isr" \in Ops /\ \E q \in Process, m \in Mask, t \in BOOLEAN : isr_post(q, m, t)

(* An assertion that fails resets the board (__bassert), and everything    *)
(* starts over.                                                            *)
bassert ==
  /\ \E p \in Process, s \in Semaphore : sem_obtain_asserts(p, s)
  /\ ProcReset(Started)
  /\ SemReset
  /\ SignalReset

Next ==
  \/ \E p \in Process : Call(p) \/ Continue(p)
  \/ bassert
  \/ Idle
  \/ timer_isr
  \/ PostingIsr

Spec == Init /\ [][Next]_kernelVars

(* The CPU keeps running: the idle loop finds a ready process, and a       *)
(* process that is given the CPU often enough gets on with the kernel call *)
(* it is in.                                                               *)
Running ==
  /\ WF_kernelVars(Idle)
  /\ \A p \in Process : SF_kernelVars(Continue(p))

(* The cooperative kernel, with processes that keep the rules: they yield  *)
(* now and then, and they release what they have obtained.                 *)
CoopSpec ==
  /\ Spec
  /\ Running
  /\ \A p \in Process :
       /\ SF_kernelVars(proc_yield(p) /\ UNCHANGED <<semVars, sigVars>>)
       /\ \A s \in Semaphore : SF_kernelVars(sem_release(p, s) /\ UNCHANGED sigVars)
-----------------------------------------------------------------------------
(* The variables keep their types; the quantum stays within its bound      *)
(* although proc_decQuantum() runs at every tick, also while preemption is *)
(* forbidden.                                                              *)
TypeOK ==
  /\ current \in Process \cup {NULL}
  /\ ready \in Seq(Process)
  /\ pri \in [Process -> Int]
  /\ quantum \in 0..QUANTUM
  /\ preempt \in 0..MaxForbid
  /\ zombie \in Seq(Process)
  /\ pc \in [Process -> Live \cup Over]
  /\ target \in [Process -> Process \cup {NULL}]
  /\ owner \in [Semaphore -> Process \cup {NULL}]
  /\ nest \in [Semaphore -> Nat]
  /\ waitQueue \in [Semaphore -> Seq(Process)]
  /\ wanted \in [Process -> Semaphore \cup {NULL}]
  /\ held \in [Semaphore -> [Process -> Nat]]
  /\ recv \in [Process -> SUBSET SigBits]
  /\ wait \in [Process -> SUBSET SigBits]
  /\ sigs \in [Process -> SUBSET SigBits]

(* All the lists a process can be linked in.  A process has one link, so   *)
(* one list at a time and one position in it is all the code can represent.*)
ListOf == [x \in {"ready", "zombie"} \cup Semaphore |->
             CASE x = "ready" -> ready [] x = "zombie" -> zombie [] OTHER -> waitQueue[x]]

Linked(p) == \E x \in DOMAIN ListOf : Contains(ListOf[x], p)

(* The link of a process is never in two lists, nor twice in one: what     *)
(* LIST_ASSERT_NOT_CONTAINS and LIST_ASSERT_VALID can only test for one    *)
(* list at a time.  The running process is never in the ready list.        *)
LinkOnce ==
  /\ \A x, y \in DOMAIN ListOf :
       \A i \in DOMAIN ListOf[x], j \in DOMAIN ListOf[y] :
         ListOf[x][i] = ListOf[y][j] => x = y /\ i = j
  /\ ~Contains(ready, current)

(* The next owner of a semaphore, between the two halves of sem_release(). *)
HandedOver(p) == \E q \in Process : pc[q] = "wakeup" /\ target[q] = p

(* No live process is forgotten: it runs, or it is ready, or it waits in   *)
(* the queue of a semaphore that has an owner, or it has been handed the   *)
(* semaphore and the old owner is about to wake it up, or it sleeps with   *)
(* its wait mask set, where __sig_signal() will find it.                   *)
NoneForgotten ==
  \A p \in Process : Alive(p) =>
    \/ current = p
    \/ Contains(ready, p)
    \/ \E s \in Semaphore : /\ Contains(waitQueue[s], p)
                            /\ owner[s] \notin {NULL, p}
                            /\ Alive(owner[s])
    \/ HandedOver(p)
    \/ wait[p] # {}

(* The race sig_waitSignal() is written against cannot happen: a process   *)
(* never sleeps on a signal it has already received, and one that wakes up *)
(* has one of its signals and no wait mask left (the ASSERTs after         *)
(* proc_switch()).  __sig_signal() never finds the running process asleep. *)
NoLostWakeup ==
  \A p \in Process :
    /\ wait[p] # {} => /\ pc[p] = "sigwait"
                       /\ wait[p] = sigs[p]
                       /\ recv[p] \cap wait[p] = {}
                       /\ current # p
                       /\ ~Linked(p)
    /\ pc[p] = "sigwait" /\ wait[p] = {} => recv[p] \cap sigs[p] # {}

(* Mutual exclusion: a process that came back from sem_obtain() is the     *)
(* owner, alone, and the nesting count is the number of its obtains; a     *)
(* semaphore without owner has nobody waiting.                             *)
MutualExclusion ==
  \A s \in Semaphore :
    /\ \A p \in Process : held[s][p] > 0 => owner[s] = p /\ nest[s] = held[s][p]
    /\ owner[s] = NULL => nest[s] = 0 /\ waitQueue[s] = <<>>

(* With CONFIG_KERN_PRI the ready list is sorted, so that its head is a    *)
(* process of the highest priority, except while proc_setPri() is at work. *)
ReadySorted ==
  (\A p \in Process : pc[p] # "setPri") =>
    \A i, j \in DOMAIN ready : i < j => Prio(ready[i], pri) >= Prio(ready[j], pri)

(* Seen by its users a semaphore is a Lock.  In line are the processes in  *)
(* the wait queue, after the one that has been handed the semaphore and    *)
(* has not come back from sem_obtain() yet.                                *)
InLine(s) ==
  (IF owner[s] # NULL /\ held[s][owner[s]] = 0 THEN <<owner[s]>> ELSE <<>>) \o waitQueue[s]

SemLock == INSTANCE Lock WITH line <- [s \in Semaphore |-> InLine(s)]

(* Every step of the kernel is a step of the lock, or nothing to it: the   *)
(* processes get a semaphore one at a time and in the order of their       *)
(* calls, although sem_release() and sem_obtain() hand it over in several  *)
(* steps.  The owner may lock it again while others wait with              *)
(* sem_attempt(); if it calls sem_obtain() for that, the assertion on the  *)
(* queue resets the board, and the lock starts over.                       *)
ImplementsLock == SemLock!Spec

(* A process that waits for a semaphore gets it in the end. *)
SemaphoreGranted ==
  \A p \in Process : pc[p] \in {"obtain", "asleep"} ~> pc[p] = "user"

(* "Processes of equal priority share the CPU time according to a simple   *)
(* round-robin policy": whoever is made ready by proc_yield() or by        *)
(* sem_release() gets the CPU in the end.                                  *)
ReadyRuns ==
  \A p \in Process : Contains(ready, p) ~> current = p

(* "We will wake up only when the current owner calls sem_release()": a    *)
(* process that is in the queue of a semaphore is not ready.               *)
WakesOnlyByRelease ==
  \A p \in Process, s \in Semaphore : Contains(waitQueue[s], p) => ~Contains(ready, p)
-----------------------------------------------------------------------------
(* The inductive invariant of the cooperative kernel, from which           *)
(* MutualExclusion and LinkOnce follow.  Without preemption a process in   *)
(* the middle of a call has the CPU, except when it sleeps.                *)
Queued(p) == \E s \in Semaphore : Contains(waitQueue[s], p)

Midway == {"setPri", "reap", "create", "obtain", "wakeup"}

Runnable(p) == current = p \/ Contains(ready, p)

(* Who can be on the CPU or in the ready list, in the zombie list, or in a *)
(* local variable of somebody else.                                        *)
SchedInv ==
  /\ Distinct(ready)
  /\ Distinct(zombie)
  /\ \A p \in Process :
       /\ pc[p] \in Midway => current = p
       /\ Contains(ready, p) => current # p
       /\ Runnable(p) => /\ pc[p] \in Live
                         /\ wait[p] = {}
                         /\ pc[p] = "asleep" => ~Queued(p)
       /\ Contains(zombie, p) => pc[p] \in {"exit", "zombie"}
       /\ wait[p] # {} => pc[p] = "sigwait"
       /\ target[p] # NULL => pc[p] \in {"setPri", "reap", "wakeup"}
       /\ pc[p] = "reap" /\ target[p] # NULL => pc[target[p]] = "reaping"
       /\ pc[p] = "wakeup" => /\ target[p] \in Process
                              /\ pc[target[p]] = "asleep"
                              /\ ~Queued(target[p])
                              /\ ~Contains(ready, target[p])

(* p has been handed s and has not come back from sem_obtain() yet. *)
Granted(p, s) == pc[p] = "asleep" /\ wanted[p] = s

SemOK(s) ==
  /\ Distinct(waitQueue[s])
  /\ \A p \in Process : Contains(waitQueue[s], p) =>
       wanted[p] = s /\ pc[p] \in {"obtain", "asleep"} /\ owner[s] # p
  /\ \A p \in Process : held[s][p] > 0 => owner[s] = p
  /\ owner[s] = NULL => nest[s] = 0 /\ waitQueue[s] = <<>>
  /\ owner[s] # NULL =>
       /\ nest[s] > 0
       /\ nest[s] = IF Granted(owner[s], s) THEN 1 ELSE held[s][owner[s]]

WaiterOK(p) ==
  pc[p] \in {"obtain", "asleep"} =>
    /\ wanted[p] \in Semaphore
    /\ held[wanted[p]][p] = 0
    /\ Queued(p) \/ (pc[p] = "asleep" /\ owner[wanted[p]] = p)

SemInv ==
  /\ \A s \in Semaphore : SemOK(s)
  /\ \A p \in Process : WaiterOK(p)

(* Both: the whole of what the cooperative kernel keeps true between any   *)
(* two steps of proc.c, sem.c and signal.c.                                *)
CoopInv == SchedInv /\ SemInv
===============================================================================
