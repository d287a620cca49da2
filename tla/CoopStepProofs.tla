--------------------------- MODULE CoopStepProofs ----------------------------
(***************************************************************************)
(* The steps by which the cooperative kernel keeps the invariants of       *)
(* module CoopProofs: the steps of the scheduler (proc_yield(),            *)
(* proc_exit(), proc_setPri(), proc_new() and the way a process resumes)   *)
(* and then those of the semaphores, for CoopInv and for LifeInv, which    *)
(* says where a live process can be found.                                 *)
(***************************************************************************)
EXTENDS KernelProofs

(* The steps of the scheduler in the cooperative kernel.                   *)

(* What a step does to the CPU and the ready list, at most: the processes  *)
(* of S become runnable.                                                   *)
CpuMoves(S) ==
  /\ Distinct(ready')
  /\ \A q \in Process : /\ Contains(ready', q) => current' # q
                        /\ Runnable(q)' => Runnable(q) \/ q \in S

Stays(S) == \A q \in Process : Contains(ready', q) => Contains(ready, q) \/ q \in S

-----------------------------------------------------------------------------
(* proc_schedule() makes nobody runnable.                                  *)
LEMMA ScheduleMoves ==
  ASSUME TypeOK, Distinct(ready), proc_schedule(ready)
  PROVE  CpuMoves({}) /\ Stays({}) /\ \A q \in Process : current' = q => Contains(ready, q)
<1>1. CASE ready = <<>>
  <2>1. current' = NULL /\ ready' = ready
    BY <1>1 DEF proc_schedule
  <2>2. NULL \notin Process
    BY ProcAssumption DEF ProcAssumption
  <2> QED
    BY <2>1, <2>2 DEF CpuMoves, Runnable, Stays
<1>2. CASE ready # <<>>
  <2>1. current' = Head(ready) /\ ready' = Tail(ready)
    BY <1>2 DEF proc_schedule
  <2>2. /\ \A q : Contains(ready, q) <=> q = Head(ready) \/ Contains(Tail(ready), q)
        /\ Distinct(Tail(ready)) /\ ~Contains(Tail(ready), Head(ready))
    BY <1>2, TailContents DEF TypeOK
  <2> QED
    BY <2>1, <2>2 DEF CpuMoves, Runnable, Stays
<1> QED
  BY <1>1, <1>2

(* proc_switchTo() puts the current process in the list l, p on the CPU.   *)
LEMMA SwitchToMoves ==
  ASSUME TypeOK, current \in Process, NEW l \in Seq(Process), NEW p \in Process,
         Distinct(l), \A q : Contains(l, q) => Contains(ready, q) /\ q # p,
         ~Contains(ready, current), p # current, proc_switchTo(p, l)
  PROVE  CpuMoves({p}) /\ Stays({current})
<1>1. /\ \A q : Contains(ready', q) <=> Contains(l, q) \/ q = current
      /\ Distinct(l) /\ ~Contains(l, current) => Distinct(ready')
  BY EnqueueProperties DEF proc_switchTo
<1> QED
  BY <1>1 DEF CpuMoves, Runnable, Stays, proc_switchTo

(* proc_wakeup() makes p runnable.                                         *)
LEMMA WakeupMoves ==
  ASSUME TypeOK, current \in Process, NEW p \in Process, Distinct(ready),
         ~Contains(ready, current), ~Contains(ready, p), p # current, proc_wakeup(p)
  PROVE  CpuMoves({p}) /\ Stays({current, p})
<1>1. CASE proc_switchTo(p, ready)
  <2>1. \A q : Contains(ready, q) => q # p
    OBVIOUS
  <2>2. CpuMoves({p}) /\ Stays({current})
    BY <1>1, <2>1, SwitchToMoves, Zenon DEF TypeOK
  <2> QED
    BY <2>2 DEF Stays
<1>2. CASE /\ ready' = SCHED_ENQUEUE_HEAD(ready, p, pri)
           /\ UNCHANGED <<current, quantum>>
  <2>1. /\ \A q : Contains(ready', q) <=> Contains(ready, q) \/ q = p
        /\ Distinct(ready')
    BY <1>2, EnqueueProperties, Zenon DEF TypeOK
  <2> QED
    BY <1>2, <2>1 DEF CpuMoves, Runnable, Stays
<1> QED
  BY <1>1, <1>2 DEF proc_wakeup

(* sig_postSignal() enqueues the process it awakens and nobody else.       *)
LEMMA PostedMoves ==
  ASSUME TypeOK, SchedInv, NEW q \in Process, NEW m, ready' = Posted(q, m), current' = current
  PROVE  /\ CpuMoves(IF Awaken(q, m) THEN {q} ELSE {})
         /\ Stays(IF Awaken(q, m) THEN {q} ELSE {})
<1>1. CASE Awaken(q, m)
  <2>1. ~Contains(ready, q) /\ current # q
    <3>1. wait[q] # {}
      BY <1>1 DEF Awaken
    <3> QED
      BY <3>1 DEF SchedInv, Runnable
  <2>2. /\ \A r : Contains(ready', r) <=> Contains(ready, r) \/ r = q
        /\ Distinct(ready')
    <3>1. ready' = SCHED_ENQUEUE_HEAD(ready, q, pri)
      BY <1>1 DEF Posted
    <3> QED
      BY <2>1, <3>1, EnqueueProperties, Zenon DEF TypeOK, SchedInv
  <2> QED
    BY <1>1, <2>1, <2>2 DEF CpuMoves, Runnable, Stays, SchedInv
<1>2. CASE ~Awaken(q, m)
  <2>1. ready' = ready
    BY <1>2 DEF Posted
  <2> QED
    BY <1>2, <2>1 DEF CpuMoves, Runnable, Stays, SchedInv
<1> QED
  BY <1>1, <1>2

-----------------------------------------------------------------------------
(* A step that touches no semaphore and moves nobody in or out of          *)
(* sem_obtain() preserves what is known of the semaphores.                 *)
LEMMA SemStable ==
  ASSUME TypeOK, SemInv, UNCHANGED semVars,
         \A q \in Process : pc'[q] = pc[q] \/ {pc[q], pc'[q]} \cap {"obtain", "asleep"} = {}
  PROVE  SemInv' /\ \A q : Queued(q)' <=> Queued(q)
<1>1. \A q : Queued(q)' <=> Queued(q)
  BY DEF Queued, semVars
<1>2. \A q \in Process : /\ pc'[q] \in {"obtain", "asleep"} <=> pc[q] \in {"obtain", "asleep"}
                         /\ pc'[q] = "asleep" <=> pc[q] = "asleep"
  BY Zenon
<1>3. \A q \in Process, s \in Semaphore : Granted(q, s)' <=> Granted(q, s)
  BY <1>2 DEF Granted, semVars
<1> QED
  BY <1>1, <1>2, <1>3 DEF SemInv, SemOK, WaiterOK, semVars, TypeOK

(* A process in user code, or in a call other than sem_obtain(), is in no  *)
(* queue.                                                                  *)
LEMMA NotQueued ==
  ASSUME SemInv, NEW p \in Process, pc[p] \notin {"obtain", "asleep"}
  PROVE  ~Queued(p)
  BY DEF SemInv, SemOK, Queued

(* The calls of the scheduler.                                             *)
LEMMA CoopProcCall ==
  ASSUME TypeOK, CoopInv, ~PREEMPT, NEW p \in Process, ProcCall(p), UNCHANGED <<semVars, sigVars>>
  PROVE  CoopInv'
<1> USE DEF Calls, Goto, sigVars
<1>0. current = p /\ pc[p] = "user" /\ current \in Process
  BY DEF ProcCall, proc_yield, proc_forbid, proc_permit, proc_setPri, Exits, proc_exit, proc_new
<1>1. SemInv' /\ \A q : Queued(q)' <=> Queued(q)
  <2>1. \A q \in Process : pc'[q] = pc[q] \/ {pc[q], pc'[q]} \cap {"obtain", "asleep"} = {}
    BY <1>0 DEF TypeOK, ProcCall, proc_yield, proc_forbid, proc_permit, proc_setPri,
                Exits, proc_exit, proc_new
  <2> QED
    BY <2>1, SemStable DEF CoopInv
<1>2. CASE proc_yield(p)
  <2>1. CpuMoves({}) /\ UNCHANGED <<pc, zombie, target>>
    <3>1. /\ \A q : Contains(ready, q) <=> q = Head(ready) \/ Contains(Tail(ready), q)
          /\ Distinct(Tail(ready)) /\ ~Contains(Tail(ready), Head(ready))
          /\ Tail(ready) \in Seq(Process) /\ Head(ready) \in Process
      BY <1>2, TailContents DEF TypeOK, CoopInv, SchedInv, proc_yield
    <3>2. /\ \A q : Contains(Tail(ready), q) => Contains(ready, q) /\ q # Head(ready)
          /\ ~Contains(ready, current) /\ Head(ready) # current
      BY <1>0, <3>1 DEF CoopInv, SchedInv
    <3>3. CpuMoves({Head(ready)})
      BY <1>0, <1>2, <3>1, <3>2, SwitchToMoves, Zenon DEF proc_yield
    <3> QED
      BY <1>2, <3>1, <3>3 DEF CpuMoves, Runnable, proc_yield
  <2> QED
    BY <1>0, <1>1, <2>1 DEF CoopInv, SchedInv, CpuMoves, Midway
<1>3. CASE proc_forbid(p) \/ proc_permit(p)
  BY <1>3 DEF proc_forbid, proc_permit
<1>4. ASSUME NEW q \in Process, NEW n \in Pris, proc_setPri(p, q, n)
      PROVE  CoopInv'
  <2>1. UNCHANGED <<current, ready, zombie>>
    BY <1>4 DEF proc_setPri
  <2>2. CASE UNCHANGED <<pc, target>>
    BY <1>1, <2>1, <2>2 DEF CoopInv, SchedInv, Runnable
  <2>3. CASE /\ pc' = [pc EXCEPT ![p] = "setPri"]
             /\ target' = [target EXCEPT ![p] = q]
    BY <1>0, <1>1, <2>1, <2>3, Zenon DEF CoopInv, SchedInv, Runnable, Midway, Live, TypeOK
  <2> QED
    BY <1>4, <2>2, <2>3 DEF proc_setPri
<1>5. CASE Exits(p)
  <2>1. /\ zombie' = Append(zombie, p) /\ current' = NULL /\ ready' = ready
        /\ target' = target /\ pc' = [pc EXCEPT ![p] = "exit"]
    BY <1>5 DEF Exits, proc_exit
  <2>2. /\ Distinct(zombie')
        /\ \A q : Contains(zombie', q) <=> Contains(zombie, q) \/ q = p
    <3>1. zombie \in Seq(Process) /\ Distinct(zombie) /\ ~Contains(zombie, p)
      BY <1>0, Zenon DEF CoopInv, SchedInv, TypeOK
    <3> QED
      BY <2>1, <3>1, AppendContents
  <2>3. NULL \notin Process
    BY ProcAssumption DEF ProcAssumption
  <2> QED
    BY <1>0, <1>1, <2>1, <2>2, <2>3, Zenon DEF CoopInv, SchedInv, Runnable, Midway, Live, TypeOK
<1>6. CASE proc_new(p)
  BY <1>0, <1>1, <1>6, Zenon DEF CoopInv, SchedInv, Runnable, Midway, Live, TypeOK, proc_new
<1> QED
  BY <1>2, <1>3, <1>4, <1>5, <1>6 DEF ProcCall

(* The rests of the calls of the scheduler.                                *)
LEMMA CoopProcContinue ==
  ASSUME TypeOK, CoopInv, NEW p \in Process, ProcContinue(p), UNCHANGED <<semVars, sigVars>>
  PROVE  CoopInv'
<1> USE DEF At, Goto, sigVars
<1>1. CASE proc_setPri_reenqueue(p)
  <2>1. /\ current = p /\ pc[p] = "setPri" /\ UNCHANGED <<current, zombie>>
        /\ pc' = [pc EXCEPT ![p] = "user"]
        /\ target' = [target EXCEPT ![p] = NULL]
    BY <1>1 DEF proc_setPri_reenqueue
  <2>2. SemInv' /\ \A q : Queued(q)' <=> Queued(q)
    BY <2>1, SemStable DEF CoopInv, TypeOK
  <2>3. Distinct(ready') /\ \A q : Contains(ready', q) <=> Contains(ready, q)
    <3>1. ready \in Seq(Process) /\ Distinct(ready)
      BY DEF TypeOK, CoopInv, SchedInv
    <3>2. ready' = sched_reenqueue(ready, target[p], pri)
      BY <1>1 DEF proc_setPri_reenqueue
    <3> QED
      BY <3>1, <3>2, ReenqueueContents, SMTT(30)
  <2> QED
    BY <2>1, <2>2, <2>3, Zenon DEF CoopInv, SchedInv, Runnable, Midway, Live, TypeOK
<1>2. CASE proc_exit_switch(p)
  <2>1. /\ current = NULL /\ pc[p] = "exit" /\ UNCHANGED <<zombie, target>>
        /\ pc' = [pc EXCEPT ![p] = "zombie"]
    BY <1>2 DEF proc_exit_switch
  <2>2. SemInv' /\ \A q : Queued(q)' <=> Queued(q)
    BY <2>1, SemStable DEF CoopInv, TypeOK
  <2>3. CpuMoves({}) /\ Stays({})
    BY <1>2, ScheduleMoves DEF CoopInv, SchedInv, proc_exit_switch, proc_switch
  <2>4. NULL \notin Process
    BY ProcAssumption DEF ProcAssumption
  <2> QED
    BY <2>1, <2>2, <2>3, <2>4, SMTT(30) DEF CoopInv, SchedInv, CpuMoves, Stays, Midway, Live, TypeOK
<1>3. CASE proc_freeZombies_remHead(p)
  <2>1. current = p /\ pc[p] = "reap" /\ target[p] = NULL /\ UNCHANGED <<current, ready>>
    BY <1>3 DEF proc_freeZombies_remHead
  <2>2. CASE zombie = <<>>
    <3>1. UNCHANGED <<zombie, target>> /\ pc' = [pc EXCEPT ![p] = "create"]
      BY <1>3, <2>2 DEF proc_freeZombies_remHead
    <3>2. SemInv' /\ \A q : Queued(q)' <=> Queued(q)
      BY <2>1, <3>1, SemStable, SMTT(30) DEF CoopInv, TypeOK
    <3> QED
      BY <2>1, <3>1, <3>2 DEF CoopInv, SchedInv, Runnable, Midway, Live, TypeOK
  <2>3. CASE zombie # <<>>
    <3>1. /\ zombie' = Tail(zombie)
          /\ target' = [target EXCEPT ![p] = Head(zombie)]
          /\ pc' = [pc EXCEPT ![Head(zombie)] = "reaping"]
      BY <1>3, <2>3 DEF proc_freeZombies_remHead
    <3>2. /\ Head(zombie) \in Process
          /\ \A q : Contains(zombie, q) <=> q = Head(zombie) \/ Contains(zombie', q)
          /\ Distinct(zombie') /\ ~Contains(zombie', Head(zombie))
      BY <2>3, <3>1, TailContents, SMTT(30) DEF CoopInv, SchedInv, TypeOK
    <3>3. pc[Head(zombie)] \in {"exit", "zombie"}
      BY <3>2 DEF CoopInv, SchedInv
    <3>4. SemInv' /\ \A q : Queued(q)' <=> Queued(q)
      BY <3>1, <3>2, <3>3, SemStable, SMTT(30) DEF CoopInv, TypeOK
    <3> QED
      BY <2>1, <3>1, <3>2, <3>3, <3>4, SMTT(30) DEF CoopInv, SchedInv, Runnable, Midway, Live, TypeOK
  <2> QED
    BY <2>2, <2>3
<1>4. CASE proc_freeZombies_free(p)
  <2>1. /\ current = p /\ pc[p] = "reap" /\ target[p] # NULL
        /\ UNCHANGED <<current, ready, zombie>>
        /\ target' = [target EXCEPT ![p] = NULL]
    BY <1>4 DEF proc_freeZombies_free
  <2>2. PICK label \in {"gone", "free"} : pc' = [pc EXCEPT ![target[p]] = label]
    BY <1>4, Zenon DEF proc_freeZombies_free
  <2>3. target[p] \in Process /\ pc[target[p]] = "reaping"
    BY <2>1 DEF CoopInv, SchedInv, TypeOK
  <2>4. SemInv' /\ \A q : Queued(q)' <=> Queued(q)
    BY <2>2, <2>3, SemStable, SMTT(30) DEF CoopInv, TypeOK
  <2> QED
    BY <2>1, <2>2, <2>3, <2>4, Zenon DEF CoopInv, SchedInv, Runnable, Midway, Live, TypeOK
<1>5. CASE proc_new_fails(p)
  <2>1. /\ current = p /\ pc[p] = "create" /\ UNCHANGED <<current, ready, zombie, target>>
        /\ pc' = [pc EXCEPT ![p] = "user"]
    BY <1>5 DEF proc_new_fails
  <2>2. SemInv' /\ \A q : Queued(q)' <=> Queued(q)
    BY <2>1, SemStable DEF CoopInv, TypeOK
  <2> QED
    BY <2>1, <2>2, Zenon DEF CoopInv, SchedInv, Runnable, Midway, Live, TypeOK
<1> QED
  BY <1>1, <1>2, <1>3, <1>4, <1>5 DEF ProcContinue

(* A new process.                                                          *)
LEMMA CoopNewProcess ==
  ASSUME TypeOK, CoopInv, NEW p \in Process, NEW q \in Process,
         proc_new_enqueue(p, q), ClearSignals(q), UNCHANGED semVars
  PROVE  CoopInv'
<1>1. /\ current = p /\ pc[p] = "create" /\ pc[q] = "free"
      /\ UNCHANGED <<current, zombie, target>>
      /\ pc' = [pc EXCEPT ![p] = "user", ![q] = "user"]
      /\ wait' = [wait EXCEPT ![q] = {}]
  BY DEF proc_new_enqueue, At, ClearSignals
<1>2. SemInv' /\ \A r : Queued(r)' <=> Queued(r)
  BY <1>1, SemStable DEF CoopInv, TypeOK
<1>3. ready \in Seq(Process) /\ Distinct(ready) /\ ~Contains(ready, q)
  BY <1>1, Zenon DEF TypeOK, CoopInv, SchedInv, Runnable, Live
<1>4. PICK pr : ready' = SCHED_ENQUEUE(ready, q, pr)
  BY DEF proc_new_enqueue
<1>5. Distinct(ready') /\ \A r : Contains(ready', r) <=> Contains(ready, r) \/ r = q
  BY <1>3, <1>4, EnqueueProperties
<1> QED
  BY <1>1, <1>2, <1>5, Zenon DEF CoopInv, SchedInv, Runnable, Midway, Live, TypeOK
-----------------------------------------------------------------------------
(* Why nobody is forgotten: every live process is runnable or somewhere    *)
(* where it will be woken up, and the owner of a semaphore is alive.       *)
Reachable(p) == Runnable(p) \/ Queued(p) \/ HandedOver(p) \/ wait[p] # {}

LifeInv ==
  /\ \A p \in Process : Alive(p) => Reachable(p)
  /\ \A s \in Semaphore : owner[s] # NULL => Alive(owner[s])

(* Only a process that is about to wake up another has handed over.        *)
LEMMA NoHandOver ==
  ASSUME CoopInv, \A p \in Process : current = p => pc[p] # "wakeup"
  PROVE  \A q \in Process : ~HandedOver(q)
  BY DEF CoopInv, SchedInv, HandedOver, Midway

(* proc_schedule() loses no ready process.                                 *)
LEMMA ScheduleKeeps ==
  ASSUME TypeOK, proc_schedule(ready)
  PROVE  \A q \in Process : Contains(ready, q) => Runnable(q)'
<1>1. CASE ready = <<>>
  BY <1>1 DEF proc_schedule, Contains
<1>2. CASE ready # <<>>
  <2>1. \A q : Contains(ready, q) <=> q = Head(ready) \/ Contains(Tail(ready), q)
    BY <1>2, TailContents DEF TypeOK
  <2> QED
    BY <1>2, <2>1, Zenon DEF proc_schedule, Runnable
<1> QED
  BY <1>1, <1>2

(* Neither does proc_switchTo(), nor the process that calls it ...         *)
LEMMA SwitchToKeeps ==
  ASSUME TypeOK, current \in Process, NEW l \in Seq(Process), NEW p \in Process,
         \A q : Contains(ready, q) => Contains(l, q) \/ q = p, proc_switchTo(p, l)
  PROVE  Runnable(p)' /\ \A q \in Process : Runnable(q) => Runnable(q)'
<1>1. \A q : Contains(ready', q) <=> Contains(l, q) \/ q = current
  BY EnqueueProperties, Zenon DEF proc_switchTo
<1> QED
  BY <1>1 DEF Runnable, proc_switchTo

(* ... nor proc_wakeup().                                                  *)
LEMMA WakeupKeeps ==
  ASSUME TypeOK, current \in Process, NEW p \in Process, proc_wakeup(p)
  PROVE  Runnable(p)' /\ \A q \in Process : Runnable(q) => Runnable(q)'
<1>1. CASE proc_switchTo(p, ready)
  BY <1>1, SwitchToKeeps DEF TypeOK
<1>2. CASE ready' = SCHED_ENQUEUE_HEAD(ready, p, pri) /\ UNCHANGED current
  <2>1. \A q : Contains(ready', q) <=> Contains(ready, q) \/ q = p
    BY <1>2, EnqueueProperties, Zenon DEF TypeOK
  <2> QED
    BY <1>2, <2>1 DEF Runnable
<1> QED
  BY <1>1, <1>2 DEF proc_wakeup

(* A process that owns no semaphore by its own count owns none at all.     *)
LEMMA OwnsNothing ==
  ASSUME TypeOK, CoopInv, NEW p \in Process, pc[p] = "user", NEW s \in Semaphore, held[s][p] = 0
  PROVE  owner[s] # p
<1>1. SemOK(s) /\ ~Granted(p, s) /\ p # NULL
  BY ProcAssumption DEF ProcAssumption, CoopInv, SemInv, Granted
<1> QED
  BY <1>1 DEF SemOK

-----------------------------------------------------------------------------
(* The calls of the scheduler: only proc_exit() takes a process away, and  *)
(* with it no semaphore.                                                   *)
LEMMA LifeProcCall ==
  ASSUME TypeOK, CoopInv, LifeInv, NEW p \in Process, ProcCall(p), UNCHANGED <<semVars, sigVars>>
  PROVE  LifeInv'
<1> USE DEF Calls, Goto
<1>1. current = p /\ pc[p] = "user" /\ current \in Process
  BY DEF ProcCall, proc_yield, proc_forbid, proc_permit, proc_setPri, Exits, proc_exit, proc_new
<1>2. \A q \in Process : ~HandedOver(q)
  BY <1>1, NoHandOver
<1>3. UNCHANGED <<wait, owner>> /\ \A q : Queued(q)' <=> Queued(q)
  BY DEF semVars, sigVars, Queued
<1>4. CASE proc_yield(p)
  <2>1. /\ Tail(ready) \in Seq(Process) /\ Head(ready) \in Process
        /\ \A q : Contains(ready, q) => Contains(Tail(ready), q) \/ q = Head(ready)
    BY <1>4, TailContents DEF TypeOK, proc_yield
  <2>2. \A q \in Process : Runnable(q) => Runnable(q)'
    BY <1>1, <1>4, <2>1, SwitchToKeeps, Zenon DEF proc_yield
  <2>3. UNCHANGED pc
    BY <1>4 DEF proc_yield
  <2> QED
    BY <1>2, <1>3, <2>2, <2>3 DEF LifeInv, Reachable, Alive
<1>5. CASE Exits(p)
  <2>1. current' = NULL /\ ready' = ready /\ pc' = [pc EXCEPT ![p] = "exit"]
    BY <1>5 DEF Exits, proc_exit
  <2>2. \A s \in Semaphore : owner[s] # p
    BY <1>1, <1>5, OwnsNothing DEF Exits
  <2> QED
    BY <1>1, <1>2, <1>3, <2>1, <2>2, SMTT(30) DEF LifeInv, Reachable, Runnable, Alive, Live, TypeOK
<1>6. CASE UNCHANGED <<current, ready>> /\ \A q \in Process : pc'[q] \in Live <=> pc[q] \in Live
  BY <1>2, <1>3, <1>6, SMTT(30) DEF LifeInv, Reachable, Runnable, Alive, TypeOK
<1>7. ASSUME \/ proc_forbid(p) \/ proc_permit(p) \/ proc_new(p)
             \/ \E q \in Process, n \in Pris : proc_setPri(p, q, n)
      PROVE  LifeInv'
  BY <1>1, <1>6, <1>7, SMTT(30) DEF proc_forbid, proc_permit, proc_new, proc_setPri, Live, TypeOK
<1> QED
  BY <1>4, <1>5, <1>7 DEF ProcCall

(* The rests of the calls of the scheduler: what is reaped is dead.        *)
LEMMA LifeProcContinue ==
  ASSUME TypeOK, CoopInv, LifeInv, NEW p \in Process, ProcContinue(p), UNCHANGED <<semVars, sigVars>>
  PROVE  LifeInv'
<1> USE DEF At, Goto
<1>1. NULL \notin Process
  BY ProcAssumption DEF ProcAssumption
<1>2. \A q \in Process : ~HandedOver(q)
  <2>1. \A q \in Process : current = q => pc[q] # "wakeup"
    BY <1>1 DEF ProcContinue, proc_setPri_reenqueue, proc_exit_switch,
                proc_freeZombies_remHead, proc_freeZombies_free, proc_new_fails
  <2> QED
    BY <2>1, NoHandOver, SMTT(30)
<1>3. UNCHANGED <<wait, owner>> /\ \A q : Queued(q)' <=> Queued(q)
  BY DEF semVars, sigVars, Queued
<1>4. \A q \in Process : Runnable(q) => Runnable(q)'
  <2>1. CASE proc_setPri_reenqueue(p)
    <3>1. \A q : Contains(ready', q) <=> Contains(ready, q)
      BY <2>1, ReenqueueContents DEF proc_setPri_reenqueue, TypeOK, CoopInv, SchedInv
    <3> QED
      BY <2>1, <3>1 DEF proc_setPri_reenqueue, Runnable
  <2>2. CASE proc_exit_switch(p)
    BY <1>1, <2>2, ScheduleKeeps DEF proc_exit_switch, proc_switch, Runnable
  <2>3. CASE UNCHANGED <<current, ready>>
    BY <2>3 DEF Runnable
  <2> QED
    BY <2>1, <2>2, <2>3 DEF ProcContinue, proc_freeZombies_remHead, proc_freeZombies_free,
                            proc_new_fails
<1>5. \A q \in Process : pc'[q] \in Live <=> pc[q] \in Live
  <2>1. CASE proc_freeZombies_remHead(p)
    <3>1. CASE zombie = <<>>
      BY <2>1, <3>1 DEF proc_freeZombies_remHead, TypeOK, Live
    <3>2. CASE zombie # <<>>
      <4>1. Head(zombie) \in Process /\ Contains(zombie, Head(zombie))
        BY <3>2, TailContents DEF TypeOK
      <4>2. pc[Head(zombie)] \in {"exit", "zombie"}
        BY <4>1 DEF CoopInv, SchedInv
      <4>3. pc' = [pc EXCEPT ![Head(zombie)] = "reaping"]
        BY <2>1, <3>2 DEF proc_freeZombies_remHead
      <4> QED
        BY <4>1, <4>2, <4>3, SMTT(30) DEF TypeOK, Live
    <3> QED
      BY <3>1, <3>2
  <2>2. CASE proc_freeZombies_free(p)
    <3>1. target[p] \in Process /\ pc[target[p]] = "reaping"
      BY <2>2 DEF proc_freeZombies_free, CoopInv, SchedInv, TypeOK
    <3> QED
      BY <2>2, <3>1, SMTT(30) DEF proc_freeZombies_free, TypeOK, Live
  <2>3. CASE proc_setPri_reenqueue(p) \/ proc_exit_switch(p) \/ proc_new_fails(p)
    BY <2>3 DEF proc_setPri_reenqueue, proc_exit_switch, proc_new_fails, TypeOK, Live
  <2> QED
    BY <2>1, <2>2, <2>3 DEF ProcContinue
<1> QED
  BY <1>2, <1>3, <1>4, <1>5, SMTT(30) DEF LifeInv, Reachable, Alive, TypeOK

(* proc_new() makes the new process ready.                                 *)
LEMMA LifeNewProcess ==
  ASSUME TypeOK, CoopInv, LifeInv, NEW p \in Process, NEW q \in Process,
         proc_new_enqueue(p, q), ClearSignals(q), UNCHANGED semVars
  PROVE  LifeInv'
<1>1. /\ current = p /\ pc[p] = "create" /\ UNCHANGED current
      /\ pc' = [pc EXCEPT ![p] = "user", ![q] = "user"]
      /\ wait' = [wait EXCEPT ![q] = {}]
  BY DEF proc_new_enqueue, At, ClearSignals
<1>2. \A r : Contains(ready', r) <=> Contains(ready, r) \/ r = q
  BY EnqueueProperties, Zenon DEF proc_new_enqueue, TypeOK
<1>3. \A r \in Process : ~HandedOver(r)
  BY <1>1, NoHandOver
<1>4. UNCHANGED owner /\ \A r : Queued(r)' <=> Queued(r)
  BY DEF semVars, Queued
<1> QED
  BY <1>1, <1>2, <1>3, <1>4, Zenon DEF LifeInv, Reachable, Runnable, Alive, Live, TypeOK

-----------------------------------------------------------------------------
(* The steps of the semaphores in the cooperative kernel.                  *)

(* sem_attempt(), and sem_obtain() of a free semaphore or of one's own.    *)
LEMMA CoopLock ==
  ASSUME TypeOK, CoopInv, NEW p \in Process, NEW s \in Semaphore,
         Calls(p), Available(p, s), Lock(p, s), UNCHANGED <<procVars, sigVars>>
  PROVE  CoopInv'
<1> USE DEF procVars, sigVars
<1>1. pc[p] = "user"
  BY DEF Calls
<1>2. /\ owner' = [owner EXCEPT ![s] = p]
      /\ nest' = [nest EXCEPT ![s] = @ + 1]
      /\ held' = [held EXCEPT ![s][p] = @ + 1]
      /\ UNCHANGED <<waitQueue, wanted>>
      /\ owner[s] = NULL \/ owner[s] = p
  BY DEF Lock, Available
<1>3. \A q : Queued(q)' <=> Queued(q)
  BY <1>2 DEF Queued
<1>4. \A q, t : Granted(q, t)' <=> Granted(q, t)
  BY <1>2, SMTT(30) DEF Granted
<1>5. SchedInv'
  BY <1>3 DEF CoopInv, SchedInv, Runnable
<1>6. ASSUME NEW t \in Semaphore, t # s
      PROVE  owner'[t] = owner[t] /\ nest'[t] = nest[t] /\ held'[t] = held[t]
  BY <1>2, <1>6, SMTT(30) DEF TypeOK
<1>7. /\ owner'[s] = p /\ nest'[s] = nest[s] + 1
      /\ held'[s][p] = held[s][p] + 1 /\ \A q \in Process : q # p => held'[s][q] = held[s][q]
  BY <1>2 DEF TypeOK
<1>8. nest[s] = held[s][p]
  <2>1. nest[s] \in Nat /\ held[s][p] \in Nat
    BY SMTT(30) DEF TypeOK
  <2>2. CASE owner[s] = NULL
    BY <2>1, <2>2, ProcAssumption DEF ProcAssumption, CoopInv, SemInv, SemOK
  <2>3. CASE owner[s] = p
    BY <1>1, <2>3, ProcAssumption, Zenon DEF ProcAssumption, CoopInv, SemInv, SemOK, Granted
  <2> QED
    BY <1>2, <2>2, <2>3
<1>9. ASSUME NEW t \in Semaphore
      PROVE  SemOK(t)'
  <2>1. SemOK(t)
    BY DEF CoopInv, SemInv
  <2>2. CASE t # s
    BY <1>2, <1>4, <1>6, <2>1, <2>2, SMTT(30) DEF SemOK
  <2>3. CASE t = s
    <3>1. \A q : ~Contains(<<>>, q)
      BY DEF Contains
    <3>2. p # NULL /\ ~Granted(p, s)
      BY <1>1, ProcAssumption DEF ProcAssumption, Granted
    <3>3. nest[s] \in Nat /\ \A q \in Process : held[s][q] \in Nat
      BY DEF TypeOK
    <3>4. \A q \in Process : q # p => held[s][q] = 0
      BY <1>2, <2>1, <2>3, <3>3, ProcAssumption, SMTT(30) DEF ProcAssumption, SemOK
    <3>5. \A q : Contains(waitQueue[s], q) => owner[s] # NULL
      BY <2>1, <2>3, <3>1, Zenon DEF SemOK
    <3> QED
      BY <1>2, <1>4, <1>7, <1>8, <2>1, <2>3, <3>2, <3>3, <3>4, <3>5, SMTT(30) DEF SemOK
  <2> QED
    BY <2>2, <2>3
<1>10. ASSUME NEW q \in Process
       PROVE  WaiterOK(q)'
  <2>1. WaiterOK(q)
    BY DEF CoopInv, SemInv
  <2>2. q # NULL
    BY ProcAssumption DEF ProcAssumption
  <2>3. CASE q = p
    BY <1>1, <2>3 DEF WaiterOK
  <2>4. CASE q # p
    BY <1>2, <1>3, <1>6, <1>7, <2>1, <2>2, <2>4, SMTT(30) DEF WaiterOK
  <2> QED
    BY <2>3, <2>4
<1> QED
  BY <1>5, <1>9, <1>10 DEF CoopInv, SemInv

(* sem_obtain() of somebody else's semaphore, up to proc_switch().         *)
LEMMA CoopEnqueue ==
  ASSUME TypeOK, CoopInv, NEW p \in Process, NEW s \in Semaphore,
         sem_obtain_enqueue(p, s), UNCHANGED sigVars
  PROVE  CoopInv'
<1> USE DEF sigVars
<1>1. /\ current = p /\ pc[p] = "user" /\ owner[s] # NULL /\ owner[s] # p
      /\ waitQueue' = [waitQueue EXCEPT ![s] = Append(@, p)]
      /\ wanted' = [wanted EXCEPT ![p] = s]
      /\ pc' = [pc EXCEPT ![p] = "obtain"]
      /\ UNCHANGED <<current, ready, zombie, target, owner, nest, held>>
  BY DEF sem_obtain_enqueue, Calls, Available, Goto
<1>2. SemOK(s) /\ waitQueue[s] \in Seq(Process)
  BY DEF CoopInv, SemInv, TypeOK
<1>3. ~Contains(waitQueue[s], p)
  BY <1>1, <1>2 DEF SemOK
<1>4. /\ \A q : Contains(waitQueue'[s], q) <=> Contains(waitQueue[s], q) \/ q = p
      /\ Distinct(waitQueue'[s])
  <2>1. waitQueue'[s] = Append(waitQueue[s], p)
    BY <1>1 DEF TypeOK
  <2> QED
    BY <1>2, <1>3, <2>1, AppendContents, SMTT(30) DEF SemOK
<1>5. \A t \in Semaphore : t # s => waitQueue'[t] = waitQueue[t]
  BY <1>1 DEF TypeOK
<1>6. \A q : Queued(q)' <=> Queued(q) \/ q = p
  BY <1>4, <1>5, SMTT(30) DEF Queued
<1>7. \A q \in Process : \A t : Granted(q, t)' <=> Granted(q, t)
  BY <1>1 DEF Granted, TypeOK
<1>8. /\ pc'[p] = "obtain" /\ wanted'[p] = s /\ held' = held /\ owner' = owner
      /\ \A q \in Process : q # p => pc'[q] = pc[q] /\ wanted'[q] = wanted[q]
  BY <1>1 DEF TypeOK
<1>9. SchedInv'
  BY <1>1, <1>6, <1>8, Zenon DEF CoopInv, SchedInv, Runnable, Midway, Live, TypeOK
<1>10. ASSUME NEW t \in Semaphore
       PROVE  SemOK(t)'
  <2>1. SemOK(t) /\ owner[t] \in Process \cup {NULL}
    BY DEF CoopInv, SemInv, TypeOK
  <2>2. \A q \in Process : Contains(waitQueue[t], q) => q # p
    BY <1>1, <2>1, Zenon DEF SemOK
  <2>3. CASE t # s
    BY <1>1, <1>5, <1>7, <1>8, <2>1, <2>2, <2>3, Zenon DEF SemOK
  <2>4. CASE t = s
    BY <1>1, <1>4, <1>7, <1>8, <2>1, <2>2, <2>4, Zenon DEF SemOK
  <2> QED
    BY <2>3, <2>4
<1>11. ASSUME NEW q \in Process
       PROVE  WaiterOK(q)'
  <2>1. WaiterOK(q)
    BY DEF CoopInv, SemInv
  <2>2. held[s][p] = 0
    BY <1>1, <1>2, SMTT(30) DEF SemOK, TypeOK
  <2>3. CASE q = p
    <3>1. Queued(q)'
      BY <1>6, <2>3, SMTT(30)
    <3>2. wanted'[q] \in Semaphore /\ held'[wanted'[q]][q] = 0
      BY <1>8, <2>2, <2>3, SMTT(30)
    <3> QED
      BY <3>1, <3>2 DEF WaiterOK
  <2>4. CASE q # p
    BY <1>6, <1>8, <2>1, <2>4 DEF WaiterOK
  <2> QED
    BY <2>3, <2>4
<1> QED
  BY <1>9, <1>10, <1>11, SMTT(30) DEF CoopInv, SemInv

(* proc_switch() in sem_obtain(): only here is the caller asleep.          *)
LEMMA CoopSleep ==
  ASSUME TypeOK, CoopInv, NEW p \in Process, sem_obtain_switch(p), UNCHANGED sigVars
  PROVE  CoopInv'
<1> USE DEF sigVars
<1>1. /\ current = p /\ pc[p] = "obtain" /\ pc' = [pc EXCEPT ![p] = "asleep"]
      /\ UNCHANGED <<zombie, target, owner, nest, held, waitQueue, wanted>>
  BY DEF sem_obtain_switch, At, Goto, semVars
<1>2. CpuMoves({}) /\ Stays({}) /\ \A q \in Process : current' = q => Contains(ready, q)
  BY ScheduleMoves DEF CoopInv, SchedInv, sem_obtain_switch, proc_switch
<1>3. \A q : Queued(q)' <=> Queued(q)
  BY <1>1 DEF Queued
<1>4. /\ pc'[p] = "asleep"
      /\ \A q \in Process : q # p => pc'[q] = pc[q]
  BY <1>1 DEF TypeOK
<1>5. ~Contains(ready, p)
  BY <1>1, Zenon DEF CoopInv, SchedInv
<1>6. SchedInv'
  BY <1>1, <1>2, <1>3, <1>4, <1>5, Zenon DEF CoopInv, SchedInv, CpuMoves, Stays, Runnable, Midway, Live, TypeOK
<1>7. ASSUME NEW t \in Semaphore
      PROVE  SemOK(t)'
  <2>1. SemOK(t) /\ owner[t] \in Process \cup {NULL}
    BY SMTT(30) DEF CoopInv, SemInv, TypeOK
  <2>2. wanted[p] = t => owner[t] # p
    <3>1. WaiterOK(p) /\ \A r \in Semaphore : SemOK(r)
      BY DEF CoopInv, SemInv
    <3>2. PICK r \in Semaphore : Contains(waitQueue[r], p)
      BY <1>1, <3>1 DEF WaiterOK, Queued
    <3>3. wanted[p] = r /\ owner[r] # p
      BY <3>1, <3>2, Zenon DEF SemOK
    <3> QED
      BY <3>3
  <2>3. Granted(owner[t], t)' <=> Granted(owner[t], t)
    BY <1>1, <1>4, <2>1, <2>2, SMTT(30) DEF Granted
  <2> QED
    BY <1>1, <1>4, <2>1, <2>3, Zenon DEF SemOK
<1>8. ASSUME NEW q \in Process
      PROVE  WaiterOK(q)'
  <2>1. WaiterOK(q)
    BY DEF CoopInv, SemInv
  <2> QED
    BY <1>1, <1>3, <1>4, <2>1 DEF WaiterOK
<1> QED
  BY <1>6, <1>7, <1>8 DEF CoopInv, SemInv

(* The way out of sem_obtain(): a process that has the CPU after it slept  *)
(* is in no queue, hence the owner.                                        *)
LEMMA CoopReturn ==
  ASSUME TypeOK, CoopInv, NEW p \in Process, sem_obtain_return(p), UNCHANGED sigVars
  PROVE  CoopInv'
<1> USE DEF sigVars
<1> DEFINE s == wanted[p]
<1>1. /\ current = p /\ pc[p] = "asleep"
      /\ held' = [held EXCEPT ![s][p] = @ + 1]
      /\ wanted' = [wanted EXCEPT ![p] = NULL]
      /\ pc' = [pc EXCEPT ![p] = "user"]
      /\ UNCHANGED <<current, ready, zombie, target, owner, nest, waitQueue>>
  BY DEF sem_obtain_return, At, Goto
<1>2. s \in Semaphore /\ held[s][p] = 0 /\ owner[s] = p /\ ~Queued(p)
  BY <1>1 DEF CoopInv, SchedInv, SemInv, WaiterOK, Runnable
<1> HIDE DEF s
<1>3. \A q : Queued(q)' <=> Queued(q)
  BY <1>1 DEF Queued
<1>4. /\ pc'[p] = "user"
      /\ \A q \in Process : q # p => pc'[q] = pc[q] /\ wanted'[q] = wanted[q]
  BY <1>1, SMTT(30) DEF TypeOK
<1>5. /\ held'[s][p] = 1 /\ \A q \in Process : q # p => held'[s][q] = held[s][q]
      /\ \A t \in Semaphore : t # s => held'[t] = held[t]
  BY <1>1, <1>2, SMTT(30) DEF TypeOK
<1>6. SchedInv'
  <2>1. \A q \in Process : pc[q] \notin Midway /\ pc'[q] \notin Midway
    BY <1>1, <1>4, SMTT(30) DEF CoopInv, SchedInv, Midway
  <2>2. target[p] = NULL /\ ~Contains(zombie, p) /\ wait[p] = {}
    BY <1>1 DEF CoopInv, SchedInv, Runnable
  <2>3. \A q \in Process : pc'[q] # "reap" /\ pc'[q] # "wakeup"
    BY <2>1 DEF Midway
  <2> QED
    BY <1>1, <1>3, <1>4, <2>1, <2>2, <2>3, SMTT(30) DEF CoopInv, SchedInv, Runnable, Live
<1>7. ASSUME NEW t \in Semaphore
      PROVE  SemOK(t)'
  <2>1. SemOK(t) /\ owner[t] \in Process \cup {NULL} /\ p # NULL
    BY ProcAssumption, SMTT(30) DEF ProcAssumption, CoopInv, SemInv, TypeOK
  <2>2. ~Contains(waitQueue[t], p)
    BY <1>2 DEF Queued
  <2>3. CASE t # s
    <3>1. Granted(owner[t], t)' <=> Granted(owner[t], t)
      BY <1>1, <1>4, <2>1, <2>3, SMTT(30) DEF Granted, TypeOK, s
    <3> QED
      BY <1>1, <1>4, <1>5, <2>1, <2>2, <2>3, <3>1, SMTT(30) DEF SemOK
  <2>4. CASE t = s
    <3>1. Granted(p, s) /\ ~Granted(p, s)'
      BY <1>1, <1>4 DEF Granted, s
    <3> QED
      BY <1>1, <1>2, <1>4, <1>5, <2>1, <2>2, <2>4, <3>1, SMTT(30) DEF SemOK
  <2> QED
    BY <2>3, <2>4
<1>8. ASSUME NEW q \in Process
      PROVE  WaiterOK(q)'
  <2>1. WaiterOK(q)
    BY DEF CoopInv, SemInv
  <2> QED
    BY <1>1, <1>3, <1>4, <1>5, <2>1 DEF WaiterOK
<1> QED
  BY <1>6, <1>7, <1>8 DEF CoopInv, SemInv

(* The section of sem_release().                                           *)
LEMMA CoopRelease ==
  ASSUME TypeOK, CoopInv, NEW p \in Process, NEW s \in Semaphore,
         sem_release(p, s), UNCHANGED sigVars
  PROVE  CoopInv'
<1> USE DEF sigVars
<1>1. /\ current = p /\ pc[p] = "user" /\ held[s][p] > 0
      /\ held' = [held EXCEPT ![s][p] = @ - 1]
      /\ UNCHANGED <<current, ready, zombie, wanted>>
  BY DEF sem_release, Calls
<1>2. p # NULL /\ SemOK(s) /\ owner[s] = p /\ ~Granted(p, s) /\ nest[s] = held[s][p]
  BY <1>1, ProcAssumption, SMTT(30) DEF ProcAssumption, CoopInv, SemInv, SemOK, Granted
<1>3. /\ held'[s][p] = held[s][p] - 1 /\ \A q \in Process : q # p => held'[s][q] = held[s][q]
      /\ \A t \in Semaphore : t # s => held'[t] = held[t]
  BY <1>1, SMTT(30) DEF TypeOK
<1>4. /\ \A q \in Process : q # p => held[s][q] = 0
      /\ nest[s] \in Nat /\ held[s][p] \in Nat
  BY <1>2 DEF SemOK, TypeOK
<1>5. \A q \in Process : WaiterOK(q)
  BY DEF CoopInv, SemInv
<1>6. CASE /\ nest[s] > 1
           /\ nest' = [nest EXCEPT ![s] = @ - 1]
           /\ UNCHANGED <<owner, waitQueue, pc, target>>
  <2>1. \A q : Queued(q)' <=> Queued(q)
    BY <1>6 DEF Queued
  <2>2. \A q, t : Granted(q, t)' <=> Granted(q, t)
    BY <1>1, <1>6, SMTT(30) DEF Granted
  <2>3. SchedInv'
    BY <1>1, <1>6, <2>1, SMTT(30) DEF CoopInv, SchedInv, Runnable
  <2>4. ASSUME NEW t \in Semaphore
        PROVE  SemOK(t)'
    <3>1. SemOK(t)
      BY DEF CoopInv, SemInv
    <3>2. nest'[s] = nest[s] - 1 /\ (t # s => nest'[t] = nest[t])
      BY <1>6, SMTT(30) DEF TypeOK
    <3> QED
      BY <1>1, <1>2, <1>3, <1>4, <1>6, <2>2, <3>1, <3>2, SMTT(30) DEF SemOK
  <2>5. \A q \in Process : WaiterOK(q)'
    BY <1>1, <1>3, <1>4, <1>5, <1>6, <2>1, SMTT(30) DEF WaiterOK
  <2> QED
    BY <2>3, <2>4, <2>5 DEF CoopInv, SemInv
<1>7. CASE /\ nest[s] <= 1 /\ waitQueue[s] = <<>>
           /\ nest' = [nest EXCEPT ![s] = 0]
           /\ owner' = [owner EXCEPT ![s] = NULL]
           /\ UNCHANGED <<waitQueue, pc, target>>
  <2>1. \A q : Queued(q)' <=> Queued(q)
    BY <1>7, Zenon DEF Queued
  <2>2. \A q, t : Granted(q, t)' <=> Granted(q, t)
    BY <1>1, <1>7 DEF Granted
  <2>3. /\ nest'[s] = 0 /\ owner'[s] = NULL
        /\ \A t \in Semaphore : t # s => nest'[t] = nest[t] /\ owner'[t] = owner[t]
    BY <1>7 DEF TypeOK
  <2>4. \A q \in Process : held'[s][q] = 0
    BY <1>1, <1>2, <1>3, <1>4, <1>7, SMTT(30)
  <2>5. SchedInv'
    BY <1>1, <1>7, <2>1, SMTT(30) DEF CoopInv, SchedInv, Runnable
  <2>6. ASSUME NEW t \in Semaphore
        PROVE  SemOK(t)'
    <3>1. SemOK(t)
      BY DEF CoopInv, SemInv
    <3>2. CASE t # s
      BY <1>1, <1>3, <1>7, <2>2, <2>3, <3>1, <3>2, SMTT(30) DEF SemOK
    <3>3. CASE t = s
      <4>1. \A q : ~Contains(<<>>, q)
        BY DEF Contains
      <4>2. waitQueue'[s] = <<>> /\ \A q \in Process : ~(held'[s][q] > 0)
        <5>1. ~(0 > 0)
          OBVIOUS
        <5> QED
          BY <1>7, <2>4, <5>1, Zenon
      <4>3. Distinct(waitQueue[s])
        BY <3>1, <3>3, Zenon DEF SemOK
      <4>4. waitQueue[s] = waitQueue'[s]
        BY <1>7
      <4> QED
        BY <2>3, <3>3, <4>1, <4>2, <4>3, <4>4, Zenon DEF SemOK
    <3> QED
      BY <3>2, <3>3
  <2>7. \A q \in Process : WaiterOK(q)'
    BY <1>1, <1>2, <1>3, <1>5, <1>7, <2>1, <2>3, <2>4, SMTT(30) DEF WaiterOK
  <2> QED
    BY <2>5, <2>6, <2>7 DEF CoopInv, SemInv
<1>8. CASE /\ nest[s] <= 1 /\ waitQueue[s] # <<>>
           /\ nest' = [nest EXCEPT ![s] = 1]
           /\ owner' = [owner EXCEPT ![s] = Head(waitQueue[s])]
           /\ waitQueue' = [waitQueue EXCEPT ![s] = Tail(@)]
           /\ pc' = [pc EXCEPT ![p] = "wakeup"]
           /\ target' = [target EXCEPT ![p] = Head(waitQueue[s])]
  <2>1. PICK h \in Process :
          /\ h = Head(waitQueue[s])
          /\ \A q : Contains(waitQueue[s], q) <=> q = h \/ Contains(Tail(waitQueue[s]), q)
          /\ Distinct(Tail(waitQueue[s])) /\ ~Contains(Tail(waitQueue[s]), h)
    BY <1>2, <1>8, TailContents DEF TypeOK, SemOK
  <2>2. /\ nest'[s] = 1 /\ owner'[s] = h /\ waitQueue'[s] = Tail(waitQueue[s])
        /\ \A t \in Semaphore : t # s => /\ nest'[t] = nest[t] /\ owner'[t] = owner[t]
                                         /\ waitQueue'[t] = waitQueue[t]
        /\ pc'[p] = "wakeup" /\ target'[p] = h
        /\ \A q \in Process : q # p => pc'[q] = pc[q] /\ target'[q] = target[q]
    <3>1. /\ DOMAIN nest = Semaphore /\ DOMAIN owner = Semaphore /\ DOMAIN waitQueue = Semaphore
          /\ DOMAIN pc = Process /\ DOMAIN target = Process
      BY DEF TypeOK
    <3>2. /\ nest'[s] = 1 /\ \A t \in Semaphore : t # s => nest'[t] = nest[t]
      BY <1>8, <3>1
    <3>3. /\ owner'[s] = h /\ \A t \in Semaphore : t # s => owner'[t] = owner[t]
      BY <1>8, <2>1, <3>1
    <3>4. /\ waitQueue'[s] = Tail(waitQueue[s])
          /\ \A t \in Semaphore : t # s => waitQueue'[t] = waitQueue[t]
      BY <1>8, <3>1
    <3>5. /\ pc'[p] = "wakeup" /\ target'[p] = h
          /\ \A q \in Process : q # p => pc'[q] = pc[q] /\ target'[q] = target[q]
      BY <1>8, <2>1, <3>1, SMTT(30)
    <3> QED
      BY <3>2, <3>3, <3>4, <3>5, Zenon
  <2>3. h # p /\ h # NULL /\ wanted[h] = s /\ pc[h] \in {"obtain", "asleep"}
    <3>1. NULL \notin Process
      BY ProcAssumption DEF ProcAssumption
    <3>2. Contains(waitQueue[s], h)
      BY <2>1, SMTT(30)
    <3> QED
      BY <1>2, <3>1, <3>2 DEF SemOK
  <2>4. pc[h] = "asleep" /\ Queued(h) /\ ~Runnable(h)
    <3>1. Queued(h)
      BY <2>1 DEF Queued
    <3>2. pc[h] # "obtain"
      BY <1>1, <2>1, <2>3, SMTT(30) DEF CoopInv, SchedInv, Midway
    <3> QED
      BY <2>1, <2>3, <3>1, <3>2, SMTT(30) DEF CoopInv, SchedInv
  <2>5. \A q \in Process : Queued(q)' <=> Queued(q) /\ q # h
    <3>1. \A t \in Semaphore : t # s => ~Contains(waitQueue[t], h)
      BY <2>1, <2>3 DEF CoopInv, SemInv, SemOK
    <3> QED
      BY <2>1, <2>2, <3>1, SMTT(30) DEF Queued
  <2>6. \A q \in Process : \A t : Granted(q, t)' <=> Granted(q, t)
    BY <1>1, <2>2, SMTT(30) DEF Granted
  <2>7. \A q \in Process : held'[s][q] = 0
    BY <1>1, <1>2, <1>3, <1>4, <1>8, SMTT(30)
  <2>8. SchedInv'
    <3>1. \A q \in Process : q # p => pc'[q] \notin Midway
      BY <1>1, <2>2 DEF CoopInv, SchedInv
    <3>2. \A q \in Process : q # p => pc'[q] # "reap" /\ pc'[q] # "wakeup"
      BY <3>1 DEF Midway
    <3> QED
      BY <1>1, <2>1, <2>2, <2>3, <2>4, <2>5, <3>1, <3>2, SMTT(30) DEF CoopInv, SchedInv, Runnable, Live
  <2>9. ASSUME NEW t \in Semaphore
        PROVE  SemOK(t)'
    <3>1. SemOK(t) /\ owner[t] \in Process \cup {NULL}
      BY DEF CoopInv, SemInv, TypeOK
    <3>2. \A q \in Process : Contains(waitQueue[t], q) => q # p
      BY <1>1, <3>1, SMTT(30) DEF SemOK
    <3>3. CASE t # s
      BY <1>1, <1>3, <2>2, <2>6, <3>1, <3>2, <3>3, SMTT(30) DEF SemOK
    <3>4. CASE t = s
      <4>1. Granted(h, s)'
        BY <1>1, <2>1, <2>2, <2>3, <2>4, SMTT(30) DEF Granted
      <4> QED
        BY <1>1, <2>1, <2>2, <2>3, <2>7, <3>1, <3>2, <3>4, <4>1, SMTT(30) DEF SemOK
    <3> QED
      BY <3>3, <3>4
  <2>10. ASSUME NEW q \in Process
         PROVE  WaiterOK(q)'
    <3>1. CASE q = p
      BY <2>2, <3>1 DEF WaiterOK
    <3>2. CASE q = h
      BY <1>1, <2>2, <2>3, <2>4, <2>7, <3>2, SMTT(30) DEF WaiterOK
    <3>3. CASE q # p /\ q # h
      BY <1>1, <1>2, <1>3, <1>5, <2>2, <2>5, <2>7, <3>3, SMTT(30) DEF WaiterOK
    <3> QED
      BY <3>1, <3>2, <3>3, SMTT(30)
  <2> QED
    BY <2>8, <2>9, <2>10, SMTT(30) DEF CoopInv, SemInv
<1> QED
  BY <1>4, <1>6, <1>7, <1>8, SMTT(30) DEF sem_release, Goto

(* The tail of sem_release().                                              *)
LEMMA CoopWakeup ==
  ASSUME TypeOK, CoopInv, NEW p \in Process, sem_release_wakeup(p), UNCHANGED sigVars
  PROVE  CoopInv'
<1> USE DEF sigVars
<1>1. /\ current = p /\ pc[p] = "wakeup" /\ UNCHANGED <<zombie, semVars>>
      /\ pc' = [pc EXCEPT ![p] = "user"]
      /\ target' = [target EXCEPT ![p] = NULL]
      /\ proc_wakeup(target[p])
  BY SMTT(30) DEF sem_release_wakeup, At, Goto
<1>2. PICK h \in Process : /\ h = target[p] /\ pc[h] = "asleep" /\ h # p
                          /\ ~Queued(h) /\ ~Contains(ready, h)
  <2>1. /\ target[p] \in Process /\ pc[target[p]] = "asleep"
        /\ ~Queued(target[p]) /\ ~Contains(ready, target[p])
    BY <1>1, Zenon DEF CoopInv, SchedInv
  <2>2. target[p] # p
    BY <1>1, <2>1, SMTT(30)
  <2> QED
    BY <2>1, <2>2, Zenon
<1>3. SemInv' /\ \A q : Queued(q)' <=> Queued(q)
  BY <1>1, SemStable, SMTT(30) DEF CoopInv, TypeOK
<1>4. CpuMoves({h}) /\ Stays({p, h})
  BY <1>1, <1>2, WakeupMoves, SMTT(30) DEF CoopInv, SchedInv
<1>5. /\ pc'[p] = "user" /\ target'[p] = NULL
      /\ \A q \in Process : q # p => pc'[q] = pc[q] /\ target'[q] = target[q]
  BY <1>1 DEF TypeOK
<1>6. \A q \in Process : pc'[q] \notin Midway /\ pc'[q] # "reap" /\ pc'[q] # "wakeup"
  BY <1>1, <1>5, Zenon DEF CoopInv, SchedInv, Midway
<1>7. wait[p] = {} /\ wait[h] = {} /\ pc[p] \in Live
  <2>1. \A q \in Process : wait[q] # {} => pc[q] = "sigwait"
    BY Zenon DEF CoopInv, SchedInv
  <2> QED
    BY <1>1, <1>2, <2>1 DEF Live
<1>8. SchedInv'
  BY <1>1, <1>2, <1>3, <1>4, <1>5, <1>6, <1>7, SMTT(30) DEF CoopInv, SchedInv, CpuMoves, Live
<1> QED
  BY <1>3, <1>8 DEF CoopInv

(* The calls of semaphores that do not wake anybody up: whoever sleeps is  *)
(* in the queue, and whoever leaves it has been handed the semaphore.      *)
LEMMA LifeSem ==
  ASSUME TypeOK, CoopInv, LifeInv, NEW p \in Process, UNCHANGED sigVars,
         SemCall(p) \/ sem_obtain_switch(p) \/ sem_obtain_return(p)
  PROVE  LifeInv'
<1> USE DEF Calls, At, Goto, sigVars
<1>1. current = p /\ pc[p] \in {"user", "obtain", "asleep"}
  BY DEF SemCall, sem_attempt, sem_obtain, sem_obtain_enqueue, sem_release,
         sem_obtain_switch, sem_obtain_return
<1>2. \A q \in Process : ~HandedOver(q)
  BY <1>1, NoHandOver
<1>3. ASSUME NEW s \in Semaphore, sem_attempt(p, s) \/ sem_obtain(p, s)
      PROVE  LifeInv'
  <2>1. /\ UNCHANGED <<current, ready, pc, waitQueue>> /\ owner' = [owner EXCEPT ![s] = p]
        /\ pc[p] = "user"
    BY <1>3, SMTT(30) DEF sem_attempt, sem_obtain, Lock, procVars
  <2> QED
    BY <1>2, <2>1, Zenon DEF LifeInv, Reachable, Runnable, Queued, Alive, Live, TypeOK
<1>4. ASSUME NEW s \in Semaphore, sem_obtain_enqueue(p, s)
      PROVE  LifeInv'
  <2>1. /\ UNCHANGED <<current, ready, owner>> /\ pc' = [pc EXCEPT ![p] = "obtain"]
        /\ pc[p] = "user"
    BY <1>4 DEF sem_obtain_enqueue
  <2>2. \A q \in Process : Queued(q) => Queued(q)'
    <3>1. /\ waitQueue' = [waitQueue EXCEPT ![s] = Append(@, p)]
          /\ waitQueue \in [Semaphore -> Seq(Process)]
      BY <1>4 DEF sem_obtain_enqueue, TypeOK
    <3>2. \A q : Contains(waitQueue[s], q) => Contains(Append(waitQueue[s], p), q)
      BY <3>1, SMTT(30) DEF Contains
    <3> QED
      BY <3>1, <3>2, SMTT(30) DEF Queued
  <2> QED
    BY <1>1, <1>2, <2>1, <2>2, SMTT(30) DEF LifeInv, Reachable, Runnable, Alive, Live, TypeOK
<1>5. CASE sem_obtain_switch(p)
  <2>1. /\ UNCHANGED <<owner, waitQueue>> /\ pc' = [pc EXCEPT ![p] = "asleep"]
        /\ pc[p] = "obtain" /\ proc_schedule(ready)
    BY <1>5, SMTT(30) DEF sem_obtain_switch, proc_switch, semVars
  <2>2. Queued(p) /\ \A q : Queued(q)' <=> Queued(q)
    BY <2>1 DEF CoopInv, SemInv, WaiterOK, Queued
  <2>3. \A q \in Process : Runnable(q) /\ q # p => Runnable(q)'
    BY <1>1, <2>1, ScheduleKeeps DEF Runnable
  <2> QED
    BY <1>2, <2>1, <2>2, <2>3, SMTT(30) DEF LifeInv, Reachable, Alive, Live, TypeOK
<1>6. CASE sem_obtain_return(p)
  <2>1. UNCHANGED <<current, ready, owner, waitQueue>> /\ pc' = [pc EXCEPT ![p] = "user"]
    BY <1>6 DEF sem_obtain_return
  <2> QED
    BY <1>1, <1>2, <2>1, Zenon DEF LifeInv, Reachable, Runnable, Queued, Alive, Live, TypeOK
<1>7. ASSUME NEW s \in Semaphore, sem_release(p, s)
      PROVE  LifeInv'
  <2>1. UNCHANGED <<current, ready>> /\ pc[p] = "user"
    BY <1>7 DEF sem_release
  <2>2. CASE UNCHANGED <<waitQueue, pc>> /\ (UNCHANGED owner \/ owner' = [owner EXCEPT ![s] = NULL])
    BY <1>2, <2>1, <2>2, Zenon DEF LifeInv, Reachable, Runnable, Queued, Alive, TypeOK
  <2>3. CASE /\ waitQueue[s] # <<>>
             /\ owner' = [owner EXCEPT ![s] = Head(waitQueue[s])]
             /\ waitQueue' = [waitQueue EXCEPT ![s] = Tail(@)]
             /\ pc' = [pc EXCEPT ![p] = "wakeup"]
             /\ target' = [target EXCEPT ![p] = Head(waitQueue[s])]
    <3>1. PICK h \in Process :
            /\ h = Head(waitQueue[s])
            /\ \A q : Contains(waitQueue[s], q) <=> q = h \/ Contains(Tail(waitQueue[s]), q)
      BY <2>3, TailContents DEF TypeOK
    <3>2. pc[h] \in {"obtain", "asleep"}
      BY <3>1, Zenon DEF CoopInv, SemInv, SemOK
    <3>3. \A q \in Process : Queued(q) /\ q # h => Queued(q)'
      BY <2>3, <3>1, ZenonT(40) DEF Queued, TypeOK
    <3>4. HandedOver(h)'
      BY <2>3, <3>1, SMTT(30) DEF HandedOver, TypeOK
    <3>5. \A q \in Process : pc'[q] \in Live <=> pc[q] \in Live
      BY <2>1, <2>3, SMTT(30) DEF Live, TypeOK
    <3>6. \A t \in Semaphore : owner'[t] # NULL => pc'[owner'[t]] \in Live
      <4>1. pc'[h] \in Live
        BY <3>1, <3>2, <3>5 DEF Live
      <4> QED
        BY <2>3, <3>1, <3>5, <4>1, Zenon DEF LifeInv, Alive, TypeOK
    <3> QED
      BY <1>2, <2>1, <3>3, <3>4, <3>5, <3>6, Zenon DEF LifeInv, Reachable, Runnable, Alive
  <2> QED
    BY <1>7, <2>2, <2>3, SMTT(30) DEF sem_release
<1> QED
  BY <1>3, <1>4, <1>5, <1>6, <1>7, SMTT(30) DEF SemCall

(* The tail of sem_release() wakes up the one that was handed over to.     *)
LEMMA LifeWakeup ==
  ASSUME TypeOK, CoopInv, LifeInv, NEW p \in Process, sem_release_wakeup(p), UNCHANGED sigVars
  PROVE  LifeInv'
<1>1. /\ current = p /\ pc[p] = "wakeup" /\ UNCHANGED <<owner, waitQueue, wait>>
      /\ pc' = [pc EXCEPT ![p] = "user"]
      /\ proc_wakeup(target[p])
  BY DEF sem_release_wakeup, At, Goto, semVars, sigVars
<1>2. PICK h \in Process : h = target[p]
  BY <1>1, SMTT(30) DEF CoopInv, SchedInv
<1>3. Runnable(h)' /\ \A q \in Process : Runnable(q) => Runnable(q)'
  BY <1>1, <1>2, WakeupKeeps
<1>4. \A q \in Process : HandedOver(q) => q = h
  BY <1>1, <1>2, Zenon DEF CoopInv, SchedInv, Midway, HandedOver
<1> QED
  BY <1>1, <1>3, <1>4, Zenon DEF LifeInv, Reachable, Queued, Alive, Live, TypeOK
===============================================================================
