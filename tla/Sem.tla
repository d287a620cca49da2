---------------------------------- MODULE Sem ----------------------------------
(***************************************************************************)
(* The semaphores of bertos/kern/sem.c: recursive mutexes with an owner, a *)
(* nesting count and a FIFO queue of waiting processes.  sem_release()     *)
(* hands the semaphore over to the first of the queue, who finds it locked *)
(* on its behalf when it wakes up.                                         *)
(***************************************************************************)
EXTENDS Proc

CONSTANTS
  Semaphore,  \* the semaphores
  MaxNest     \* bound: how deep the processes nest sem_obtain()

ASSUME SemAssumption == MaxNest \in Nat

VARIABLES
  owner,      \* owner[s]: s->owner
  nest,       \* nest[s]: s->nest_count
  waitQueue,  \* waitQueue[s]: s->wait_queue
  wanted,     \* wanted[p]: the argument of the sem_obtain() p waits in
  held        \* history: held[s][p] obtains and attempts of p that returned
              \* with s locked and that p has not released yet

semVars == <<owner, nest, waitQueue, wanted, held>>

SemInit ==
  /\ owner = [s \in Semaphore |-> NULL]
  /\ nest = [s \in Semaphore |-> 0]
  /\ waitQueue = [s \in Semaphore |-> <<>>]
  /\ wanted = [p \in Process |-> NULL]
  /\ held = [s \in Semaphore |-> [p \in Process |-> 0]]

(* The memory of the semaphores after a reset. *)
SemReset ==
  /\ owner' = [s \in Semaphore |-> NULL]
  /\ nest' = [s \in Semaphore |-> 0]
  /\ waitQueue' = [s \in Semaphore |-> <<>>]
  /\ wanted' = [p \in Process |-> NULL]
  /\ held' = [s \in Semaphore |-> [p \in Process |-> 0]]

(* The caller becomes, or stays, the owner. *)
Lock(p, s) ==
  /\ owner' = [owner EXCEPT ![s] = p]
  /\ nest' = [nest EXCEPT ![s] = @ + 1]
  /\ held' = [held EXCEPT ![s][p] = @ + 1]
  /\ UNCHANGED <<waitQueue, wanted>>

(* mutant: the queue is tested instead of the owner *)
Available_mutant(p, s) == waitQueue[s] = <<>>

Available(p, s) == owner[s] \in {NULL, p}

sem_attempt(p, s) ==
  /\ Calls(p)
  /\ held[s][p] < MaxNest
  /\ Available(p, s)
  /\ Lock(p, s)
  /\ UNCHANGED procVars

(* sem_obtain() of a semaphore that is free or the caller's own, and that  *)
(* nobody waits for.                                                       *)
sem_obtain(p, s) ==
  /\ Calls(p)
  /\ held[s][p] < MaxNest
  /\ Available(p, s)
  /\ waitQueue[s] = <<>>
  /\ Lock(p, s)
  /\ UNCHANGED procVars

(* ASSERT(LIST_EMPTY(&s->wait_queue)) fails: the owner calls sem_obtain()  *)
(* again while others wait.                                                *)
sem_obtain_asserts(p, s) ==
  /\ Calls(p)
  /\ held[s][p] < MaxNest
  /\ Available(p, s)
  /\ waitQueue[s] # <<>>

(* mutant: ADDHEAD() for ADDTAIL() *)
sem_obtain_enqueue_mutant(p, s) ==
  /\ Calls(p)
  /\ proc_preemptAllowed
  /\ ~Available(p, s)
  /\ waitQueue' = [waitQueue EXCEPT ![s] = <<p>> \o @]
  /\ wanted' = [wanted EXCEPT ![p] = s]
  /\ Goto(p, "obtain")
  /\ UNCHANGED <<current, ready, pri, quantum, preempt, zombie, target>>
  /\ UNCHANGED <<owner, nest, held>>

(* sem_obtain() of a semaphore owned by another process: the caller links  *)
(* itself in the queue and permits preemption ...                          *)
sem_obtain_enqueue(p, s) ==
  /\ Calls(p)
  /\ proc_preemptAllowed
  /\ ~Available(p, s)
  /\ waitQueue' = [waitQueue EXCEPT ![s] = Append(@, p)]
  /\ wanted' = [wanted EXCEPT ![p] = s]
  /\ Goto(p, "obtain")
  /\ UNCHANGED <<current, ready, pri, quantum, preempt, zombie, target>>
  /\ UNCHANGED <<owner, nest, held>>

(* ... then gives the CPU away ... *)
sem_obtain_switch(p) ==
  /\ At(p, "obtain")
  /\ proc_switch
  /\ Goto(p, "asleep")
  /\ UNCHANGED <<pri, preempt, zombie, target>>
  /\ UNCHANGED semVars

(* ... and returns when the CPU comes back: "the semaphore will already be *)
(* locked for us".                                                         *)
sem_obtain_return(p) ==
  /\ At(p, "asleep")
  /\ held' = [held EXCEPT ![wanted[p]][p] = @ + 1]
  /\ wanted' = [wanted EXCEPT ![p] = NULL]
  /\ Goto(p, "user")
  /\ UNCHANGED <<current, ready, pri, quantum, preempt, zombie, target>>
  /\ UNCHANGED <<owner, nest, waitQueue>>

(* The section of sem_release(): the next owner is chosen and unlinked. *)
sem_release(p, s) ==
  /\ Calls(p)
  /\ held[s][p] > 0
  /\ held' = [held EXCEPT ![s][p] = @ - 1]
  /\ IF nest[s] > 1
     THEN /\ nest' = [nest EXCEPT ![s] = @ - 1]
          /\ UNCHANGED <<owner, waitQueue, pc, target>>
     ELSE IF waitQueue[s] = <<>>
     THEN /\ nest' = [nest EXCEPT ![s] = 0]
          /\ owner' = [owner EXCEPT ![s] = NULL]
          /\ UNCHANGED <<waitQueue, pc, target>>
     ELSE /\ proc_preemptAllowed
          /\ nest' = [nest EXCEPT ![s] = 1]
          /\ owner' = [owner EXCEPT ![s] = Head(waitQueue[s])]
          /\ waitQueue' = [waitQueue EXCEPT ![s] = Tail(@)]
          /\ Goto(p, "wakeup")
          /\ target' = [target EXCEPT ![p] = Head(waitQueue[s])]
  /\ UNCHANGED <<current, ready, pri, quantum, preempt, zombie, wanted>>

(* mutant: the new owner is not woken up *)
sem_release_wakeup_mutant(p) ==
  /\ At(p, "wakeup")
  /\ Goto(p, "user")
  /\ target' = [target EXCEPT ![p] = NULL]
  /\ UNCHANGED <<current, ready, quantum, pri, preempt, zombie>>
  /\ UNCHANGED semVars

(* The tail of sem_release(), with interrupts disabled. *)
sem_release_wakeup(p) ==
  /\ At(p, "wakeup")
  /\ proc_wakeup(target[p])
  /\ Goto(p, "user")
  /\ target' = [target EXCEPT ![p] = NULL]
  /\ UNCHANGED <<pri, preempt, zombie>>
  /\ UNCHANGED semVars
===============================================================================
