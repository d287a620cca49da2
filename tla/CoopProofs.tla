------------------------------ MODULE CoopProofs ------------------------------
(***************************************************************************)
(* The cooperative kernel, with or without priorities, for any number of   *)
(* processes, semaphores and signals: mutual exclusion, the integrity of   *)
(* the lists, no signal slept through, no process forgotten, and           *)
(* semaphores that are granted in the order of the calls.                  *)
(***************************************************************************)
EXTENDS CoopStepProofs

(* sig_waitSignal(), entered and resumed.                                  *)
LEMMA CoopWaitLoop ==
  ASSUME TypeOK, CoopInv, NEW p \in Process, NEW m, current = p, pc[p] \in {"user", "sigwait"},
         sig_waitSignal_loop(p, m), UNCHANGED semVars
  PROVE  CoopInv'
<1>1. /\ UNCHANGED <<zombie, target>>
      /\ \A q \in Process : q # p => pc'[q] = pc[q] /\ wait'[q] = wait[q]
      /\ pc'[p] \in {"user", "sigwait"}
  BY DEF TypeOK, sig_waitSignal_loop, Goto
<1>2. SemInv' /\ \A q : Queued(q)' <=> Queued(q)
  <2>1. \A q \in Process : pc'[q] = pc[q] \/ {pc[q], pc'[q]} \cap {"obtain", "asleep"} = {}
    BY <1>1
  <2> QED
    BY <2>1, SemStable DEF CoopInv
<1>3. \A q \in Process : pc'[q] \notin Midway /\ pc'[q] # "reap" /\ pc'[q] # "wakeup"
  BY <1>1 DEF CoopInv, SchedInv, Midway
<1>4. target[p] = NULL /\ ~Contains(zombie, p) /\ wait[p] = {} /\ ~Contains(ready, p)
  BY DEF CoopInv, SchedInv, Runnable
<1>5. CASE UNCHANGED <<wait, current, ready>>
  BY <1>1, <1>2, <1>3, <1>4, <1>5 DEF CoopInv, SchedInv, Runnable, Live
<1>6. CASE proc_switch /\ pc'[p] = "sigwait"
  <2>1. CpuMoves({}) /\ Stays({}) /\ \A q \in Process : current' = q => Contains(ready, q)
    BY <1>6, ScheduleMoves DEF CoopInv, SchedInv, proc_switch
  <2>2. ~Runnable(p)'
    BY <1>4, <2>1 DEF Runnable, Stays
  <2> QED
    BY <1>1, <1>2, <1>3, <1>4, <1>6, <2>1, <2>2 DEF CoopInv, SchedInv, CpuMoves
<1>7. UNCHANGED <<wait, current, ready>> \/ (proc_switch /\ pc'[p] = "sigwait")
  BY DEF TypeOK, sig_waitSignal_loop, Goto
<1> QED
  BY <1>5, <1>6, <1>7

(* Signals delivered to q by a process or by an interrupt handler, that    *)
(* make q runnable if it was waiting for them and nobody else.             *)
LEMMA CoopDeliver ==
  ASSUME TypeOK, CoopInv, NEW q \in Process, NEW m, ClearWait(q, m),
         UNCHANGED <<pc, zombie, target, semVars>>,
         CpuMoves(IF Awaken(q, m) THEN {q} ELSE {}),
         Stays(IF Awaken(q, m) THEN {current, q} ELSE {}),
         current # current' => Awaken(q, m) /\ pc[current] = "user"
  PROVE  CoopInv'
<1>1. SemInv' /\ \A r : Queued(r)' <=> Queued(r)
  BY SemStable DEF CoopInv
<1>2. /\ \A r \in Process : r # q => wait'[r] = wait[r]
      /\ wait'[q] = IF Awaken(q, m) THEN {} ELSE wait[q]
  BY DEF TypeOK, ClearWait
<1>3. Awaken(q, m) => wait[q] # {} /\ pc[q] = "sigwait"
  BY DEF Awaken, CoopInv, SchedInv
<1>4. \A r \in Process : current' # current => pc[r] \notin Midway
  BY DEF CoopInv, SchedInv, Midway
<1>5. ASSUME NEW r \in Process, pc[r] = "wakeup"
      PROVE  ~Contains(ready', target[r])
  BY <1>3, <1>4, <1>5, SMTT(30) DEF CoopInv, SchedInv, Stays, Midway, Runnable
<1>6. SchedInv'
  BY <1>1, <1>2, <1>3, <1>4, <1>5 DEF CoopInv, SchedInv, CpuMoves, Live
<1> QED
  BY <1>1, <1>6 DEF CoopInv

(* The calls that send, post, wait for and check signals.                  *)
LEMMA CoopSignal ==
  ASSUME TypeOK, CoopInv, NEW p \in Process,
         SignalCall(p) \/ sig_waitSignal_resume(p), UNCHANGED semVars
  PROVE  CoopInv'
<1> USE DEF Calls, At
<1>1. ASSUME NEW m \in Mask, sig_waitSignal(p, m)
      PROVE  CoopInv'
  BY <1>1, CoopWaitLoop DEF sig_waitSignal
<1>2. CASE sig_waitSignal_resume(p)
  BY <1>2, CoopWaitLoop DEF sig_waitSignal_resume
<1>3. ASSUME NEW m \in Mask, sig_checkSignal(p, m)
      PROVE  CoopInv'
  <2>1. UNCHANGED <<current, ready, zombie, pc, target, wait>>
    BY <1>3 DEF sig_checkSignal, procVars
  <2>2. SemInv' /\ \A r : Queued(r)' <=> Queued(r)
    BY <2>1, SemStable DEF CoopInv
  <2> QED
    BY <2>1, <2>2 DEF CoopInv, SchedInv, Runnable
<1>4. ASSUME NEW m \in Mask, NEW q \in Process, sig_sendSignal(p, q, m)
      PROVE  CoopInv'
  <2>1. /\ current = p /\ pc[p] = "user" /\ ClearWait(q, m)
        /\ UNCHANGED <<pc, zombie, target>>
    BY <1>4 DEF sig_sendSignal
  <2>2. CASE Awaken(q, m)
    <3>1. q # p /\ ~Contains(ready, q) /\ ~Contains(ready, p) /\ Distinct(ready)
      <4>1. wait[q] # {}
        BY <2>2 DEF Awaken
      <4> QED
        BY <2>1, <4>1 DEF CoopInv, SchedInv, Runnable
    <3>2. CpuMoves({q}) /\ Stays({current, q})
      BY <1>4, <2>1, <2>2, <3>1, WakeupMoves DEF sig_sendSignal
    <3> QED
      BY <2>1, <2>2, <3>2, CoopDeliver, Zenon
  <2>3. CASE ~Awaken(q, m)
    <3>1. UNCHANGED <<current, ready>>
      BY <1>4, <2>3 DEF sig_sendSignal
    <3>2. CpuMoves({}) /\ Stays({})
      BY <3>1 DEF CoopInv, SchedInv, CpuMoves, Stays, Runnable
    <3> QED
      BY <2>1, <2>3, <3>1, <3>2, CoopDeliver, Zenon
  <2> QED
    BY <2>2, <2>3
<1>5. ASSUME NEW m \in Mask, NEW q \in Process, sig_postSignal(p, q, m)
      PROVE  CoopInv'
  <2>1. /\ ready' = Posted(q, m) /\ current' = current /\ ClearWait(q, m)
        /\ UNCHANGED <<pc, zombie, target>>
    BY <1>5 DEF sig_postSignal
  <2>2. /\ CpuMoves(IF Awaken(q, m) THEN {q} ELSE {})
        /\ Stays(IF Awaken(q, m) THEN {q} ELSE {})
    BY <2>1, PostedMoves DEF CoopInv
  <2>3. Stays(IF Awaken(q, m) THEN {current, q} ELSE {})
    BY <2>2 DEF Stays
  <2> QED
    BY <2>1, <2>2, <2>3, CoopDeliver
<1> QED
  BY <1>1, <1>2, <1>3, <1>4, <1>5 DEF SignalCall

(* main() is running, and the processes it has created are ready.          *)
LEMMA CoopInit ==
  Init => CoopInv
<1> SUFFICES ASSUME Init
             PROVE  CoopInv
  OBVIOUS
<1> USE DEF Init, ProcInit, StartReady, StartPc, SemInit, SignalInit
<1>1. \A q : ~Contains(<<>>, q)
  BY DEF Contains
<1>2. Distinct(<<>>)
  BY DEF Distinct
<1>3. \A q : ~Queued(q)
  BY <1>1 DEF Queued
<1>4. Distinct(ready) /\ \A q : Contains(ready, q) => q \in Started
  <2>1. ready \in [1..Cardinality(Started) -> Started] /\ ready \in Seq(Process)
    BY TypeInit DEF TypeOK
  <2>2. 1..Len(ready) = 1..Cardinality(Started)
    BY <2>1, LenProperties
  <2> QED
    BY <2>1, <2>2, Zenon DEF Contains
<1>5. SchedInv
  BY <1>1, <1>2, <1>3, <1>4, KernelAssumption, ProcAssumption
     DEF KernelAssumption, ProcAssumption, SchedInv, Runnable, Midway, Live
<1>6. SemInv
  BY <1>1, <1>2 DEF SemInv, SemOK, WaiterOK
<1> QED
  BY <1>5, <1>6 DEF CoopInv

LEMMA CoopReset == bassert => CoopInv'
  BY ResetStarts, CoopInit, PTL

(* Every step of the cooperative kernel preserves the invariant.           *)
LEMMA CoopStep ==
  ASSUME ~PREEMPT, TypeOK, CoopInv, [Next]_kernelVars
  PROVE  CoopInv'
<1>1. ASSUME NEW p \in Process, Call(p)
      PROVE  CoopInv'
  <2>1. ASSUME NEW s \in Semaphore, sem_attempt(p, s) \/ sem_obtain(p, s), UNCHANGED sigVars
        PROVE  CoopInv'
    BY <2>1, CoopLock DEF sem_attempt, sem_obtain
  <2> QED
    BY <1>1, <2>1, CoopProcCall, CoopEnqueue, CoopRelease, CoopSignal, SMTT(30) DEF Call, SemCall
<1>2. ASSUME NEW p \in Process, Continue(p)
      PROVE  CoopInv'
  BY <1>2, CoopProcContinue, CoopNewProcess, CoopSleep, CoopReturn, CoopWakeup, CoopSignal
     DEF Continue, NewProcess, SemContinue
<1>3. CASE Idle
  <2>1. current = NULL /\ UNCHANGED <<zombie, pc, target, semVars, wait>>
    BY <1>3 DEF Idle, proc_schedule_idle, Idling, sigVars
  <2>2. CpuMoves({}) /\ Stays({})
    BY <1>3, ScheduleMoves DEF CoopInv, SchedInv, Idle, proc_schedule_idle
  <2>3. SemInv' /\ \A r : Queued(r)' <=> Queued(r)
    BY <2>1, SemStable DEF CoopInv
  <2>4. NULL \notin Process
    BY ProcAssumption DEF ProcAssumption
  <2> QED
    BY <2>1, <2>2, <2>3, <2>4, SMTT(30) DEF CoopInv, SchedInv, CpuMoves, Stays, Midway
<1>4. CASE timer_isr
  <2>1. UNCHANGED <<current, ready, zombie, pc, target, semVars, wait>>
    BY <1>4, IsrExitStays, Zenon DEF timer_isr, sigVars
  <2>2. SemInv' /\ \A r : Queued(r)' <=> Queued(r)
    BY <2>1, SemStable DEF CoopInv
  <2> QED
    BY <2>1, <2>2 DEF CoopInv, SchedInv, Runnable
<1>5. ASSUME NEW q \in Process, NEW m \in Mask, NEW t \in BOOLEAN, isr_post(q, m, t)
      PROVE  CoopInv'
  <2>1. /\ ready' = Posted(q, m) /\ current' = current /\ ClearWait(q, m)
        /\ UNCHANGED <<pc, zombie, target, semVars>>
    BY <1>5, IsrExitStays DEF isr_post
  <2>2. /\ CpuMoves(IF Awaken(q, m) THEN {q} ELSE {})
        /\ Stays(IF Awaken(q, m) THEN {q} ELSE {})
    BY <2>1, PostedMoves DEF CoopInv
  <2>3. Stays(IF Awaken(q, m) THEN {current, q} ELSE {})
    BY <2>2 DEF Stays
  <2> QED
    BY <2>1, <2>2, <2>3, CoopDeliver
<1>6. CASE UNCHANGED kernelVars
  <2>1. UNCHANGED <<current, ready, zombie, pc, target, semVars, wait>>
    BY <1>6 DEF kernelVars, procVars, sigVars
  <2>2. SemInv' /\ \A r : Queued(r)' <=> Queued(r)
    BY <2>1, SemStable DEF CoopInv
  <2> QED
    BY <2>1, <2>2, Zenon DEF CoopInv, SchedInv, Runnable
<1> QED
  BY <1>1, <1>2, <1>3, <1>4, <1>5, <1>6, CoopReset, SMTT(30) DEF Next, PostingIsr

(* What the processes of the cooperative kernel rely on follows from it:   *)
(* the owner of a semaphore is alone with it ...                           *)
LEMMA CoopExcludes ==
  ASSUME TypeOK, CoopInv
  PROVE  MutualExclusion
<1> SUFFICES ASSUME NEW s \in Semaphore
             PROVE  /\ \A p \in Process : held[s][p] > 0 => owner[s] = p /\ nest[s] = held[s][p]
                    /\ owner[s] = NULL => nest[s] = 0 /\ waitQueue[s] = <<>>
  BY DEF MutualExclusion
<1>1. SemOK(s)
  BY DEF CoopInv, SemInv
<1>2. ASSUME NEW p \in Process, held[s][p] > 0
      PROVE  ~Granted(p, s)
  BY <1>2 DEF CoopInv, SemInv, WaiterOK, Granted
<1> QED
  BY <1>1, <1>2, ProcAssumption DEF ProcAssumption, SemOK

(* ... and no link is in two lists.                                        *)
LEMMA CoopLinks ==
  ASSUME TypeOK, CoopInv
  PROVE  LinkOnce
<1>1. ~Contains(ready, current)
  <2>1. Contains(ready, current) => current \in Process
    BY DEF TypeOK, Contains
  <2> QED
    BY <2>1 DEF CoopInv, SchedInv
<1>2. ASSUME NEW x \in DOMAIN ListOf
      PROVE  ListOf[x] \in Seq(Process) /\ Distinct(ListOf[x])
  BY DEF ListOf, TypeOK, CoopInv, SchedInv, SemInv, SemOK
<1>3. ASSUME NEW x \in DOMAIN ListOf, NEW y \in DOMAIN ListOf, NEW p \in Process,
             Contains(ListOf[x], p), Contains(ListOf[y], p)
      PROVE  x = y
  <2>1. \A q \in Process : Contains(ready, q) => ~Queued(q) /\ ~Contains(zombie, q)
    <3>1. \A q \in Process : Contains(ready, q) => current # q /\ pc[q] \notin Midway
      BY DEF CoopInv, SchedInv
    <3>2. \A q \in Process : Queued(q) => pc[q] \in {"obtain", "asleep"}
      BY NotQueued DEF CoopInv
    <3> QED
      BY <3>1, <3>2, SMTT(30) DEF CoopInv, SchedInv, Runnable, Live, Midway
  <2>2. \A q \in Process : Contains(zombie, q) => ~Queued(q)
    BY NotQueued DEF CoopInv, SchedInv
  <2>3. \A s, t \in Semaphore : Contains(waitQueue[s], p) /\ Contains(waitQueue[t], p) => s = t
    <3>1. \A s \in Semaphore : Contains(waitQueue[s], p) => wanted[p] = s
      BY Zenon DEF CoopInv, SemInv, SemOK
    <3> QED
      BY <3>1, Zenon
  <2>4. "ready" \notin Semaphore /\ "zombie" \notin Semaphore
    BY KernelAssumption DEF KernelAssumption
  <2>5. \A z \in DOMAIN ListOf :
          \/ z = "ready" /\ ListOf[z] = ready
          \/ z = "zombie" /\ ListOf[z] = zombie
          \/ z \in Semaphore /\ ListOf[z] = waitQueue[z]
    BY <2>4 DEF ListOf
  <2>6. \A s \in Semaphore : Contains(waitQueue[s], p) => Queued(p)
    BY DEF Queued
  <2> HIDE DEF ListOf
  <2> QED
    BY <1>3, <2>1, <2>2, <2>3, <2>5, <2>6
<1>4. ASSUME NEW x \in DOMAIN ListOf, NEW y \in DOMAIN ListOf,
             NEW i \in DOMAIN ListOf[x], NEW j \in DOMAIN ListOf[y],
             ListOf[x][i] = ListOf[y][j]
      PROVE  x = y /\ i = j
  <2>1. \A z \in DOMAIN ListOf : DOMAIN ListOf[z] = 1..Len(ListOf[z])
    BY <1>2
  <2>2. /\ ListOf[x][i] \in Process
        /\ Contains(ListOf[x], ListOf[x][i]) /\ Contains(ListOf[y], ListOf[x][i])
    BY <1>2, <1>4, <2>1 DEF Contains
  <2>3. x = y
    BY <1>3, <2>2
  <2> QED
    BY <1>2, <1>4, <2>1, <2>3, Zenon DEF Distinct
<1> QED
  BY <1>1, <1>4 DEF LinkOnce

(* The invariant of the cooperative kernel: who is midway in a call has    *)
(* the CPU, who sleeps in sem_obtain() is queued or is the owner already,  *)
(* and who is runnable waits for nothing.                                  *)
THEOREM CoopInvariant == ~PREEMPT /\ Spec => []CoopInv
<1>1. CASE ~PREEMPT
  <2>1. CoopInv /\ TypeOK /\ [Next]_kernelVars => CoopInv'
    BY <1>1, CoopStep
  <2> QED
    BY <2>1, CoopInit, TypeCorrect, PTL DEF Spec
<1> QED
  BY <1>1

(* In the cooperative kernel a process that came back from sem_obtain() or *)
(* sem_attempt() is the owner, alone, and the nesting count is the number  *)
(* of its obtains.                                                         *)
THEOREM Exclusion == ~PREEMPT /\ Spec => []MutualExclusion
<1>1. CoopInv /\ TypeOK => MutualExclusion
  BY CoopExcludes
<1> QED
  BY <1>1, CoopInvariant, TypeCorrect, PTL

(* In the cooperative kernel a process is never in two of the ready list,  *)
(* the zombie list and the wait queues, nor twice in one of them, and the  *)
(* running process is not in the ready list.                               *)
THEOREM Links == ~PREEMPT /\ Spec => []LinkOnce
<1>1. CoopInv /\ TypeOK => LinkOnce
  BY CoopLinks
<1> QED
  BY <1>1, CoopInvariant, TypeCorrect, PTL
-----------------------------------------------------------------------------
(* In the cooperative kernel CoopInv says who is awake.                    *)
LEMMA CoopAwake ==
  ASSUME CoopInv
  PROVE  AwakeInv
  BY DEF CoopInv, SchedInv, AwakeInv

(* NoLostWakeup is MaskInv, and what CoopInv says of who is runnable.      *)
LEMMA CoopWakes ==
  ASSUME TypeOK, CoopInv, MaskInv
  PROVE  NoLostWakeup
<1> SUFFICES ASSUME NEW p \in Process, wait[p] # {}
             PROVE  pc[p] = "sigwait" /\ current # p /\ ~Linked(p)
  BY DEF NoLostWakeup, MaskInv
<1>1. pc[p] = "sigwait" /\ ~Runnable(p)
  BY DEF CoopInv, SchedInv
<1>2. ~Contains(ready, p) /\ ~Contains(zombie, p) /\ ~Queued(p)
  BY <1>1, NotQueued DEF Runnable, CoopInv, SchedInv
<1>3. ~Linked(p)
  BY <1>2, KernelAssumption, Zenon DEF KernelAssumption, Linked, ListOf, Queued
<1> QED
  BY <1>1, <1>3 DEF Runnable

(* In the cooperative kernel no wake-up is lost: a process never sleeps on *)
(* a signal that it has received, and one that wakes up has one of its     *)
(* signals, whoever sends them and whenever interrupts post them.          *)
THEOREM Wakeups == ~PREEMPT /\ Spec => []NoLostWakeup
<1>1. Init => MaskInv
  BY MasksInit
<1>2. CoopInv /\ TypeOK /\ MaskInv /\ [Next]_kernelVars => MaskInv'
  BY MasksStep, CoopAwake
<1>3. CoopInv /\ TypeOK /\ MaskInv => NoLostWakeup
  BY CoopWakes
<1> QED
  BY <1>1, <1>2, <1>3, CoopInvariant, TypeCorrect, PTL DEF Spec

-----------------------------------------------------------------------------
(* Signals delivered to q: it loses its wait mask only by becoming         *)
(* runnable.                                                               *)
LEMMA LifeDeliver ==
  ASSUME TypeOK, LifeInv, NEW q \in Process, NEW m, ClearWait(q, m),
         UNCHANGED <<pc, target, semVars>>,
         Awaken(q, m) => Runnable(q)', \A r \in Process : Runnable(r) => Runnable(r)'
  PROVE  LifeInv'
<1>1. /\ \A r \in Process : r # q => wait'[r] = wait[r]
      /\ ~Awaken(q, m) => wait'[q] = wait[q]
  BY DEF TypeOK, ClearWait
<1>2. UNCHANGED owner /\ \A r : (Queued(r)' <=> Queued(r)) /\ (HandedOver(r)' <=> HandedOver(r))
  BY DEF semVars, Queued, HandedOver
<1> QED
  BY <1>1, <1>2 DEF LifeInv, Reachable, Alive

(* sig_postSignal() and the interrupt handlers.                            *)
LEMMA PostedKeeps ==
  ASSUME TypeOK, NEW q \in Process, NEW m, ready' = Posted(q, m), current' = current
  PROVE  /\ Awaken(q, m) => Runnable(q)'
         /\ \A r \in Process : Runnable(r) => Runnable(r)'
<1>1. CASE Awaken(q, m)
  <2>1. \A r : Contains(ready', r) <=> Contains(ready, r) \/ r = q
    BY <1>1, EnqueueProperties, Zenon DEF Posted, TypeOK
  <2> QED
    BY <2>1 DEF Runnable
<1>2. CASE ~Awaken(q, m)
  BY <1>2 DEF Posted, Runnable
<1> QED
  BY <1>1, <1>2

(* sig_waitSignal() gives the CPU away only with its wait mask set.        *)
LEMMA LifeWaitLoop ==
  ASSUME TypeOK, CoopInv, MaskInv, LifeInv, NEW p \in Process, NEW m, current = p,
         pc[p] \in {"user", "sigwait"}, UNCHANGED semVars,
         sig_waitSignal_loop(p, m), m \in Mask \/ (pc[p] = "sigwait" /\ m = sigs[p])
  PROVE  LifeInv'
<1>1. \A q \in Process : ~HandedOver(q)
  BY NoHandOver
<1>2. UNCHANGED owner /\ \A q : Queued(q)' <=> Queued(q)
  BY DEF semVars, Queued
<1>3. CASE recv[p] \cap m # {}
  <2>1. UNCHANGED <<wait, current, ready>> /\ pc' = [pc EXCEPT ![p] = "user"]
    BY <1>3 DEF sig_waitSignal_loop, Goto
  <2> QED
    BY <1>1, <1>2, <2>1 DEF LifeInv, Reachable, Runnable, Alive, Live, TypeOK
<1>4. CASE recv[p] \cap m = {}
  <2>1. wait'[p] # {} /\ \A q \in Process : q # p => wait'[q] = wait[q]
    <3>1. m # {}
      BY <1>4, MaskNotEmpty, CoopAwake
    <3>2. wait' = [wait EXCEPT ![p] = m]
      BY <1>4 DEF sig_waitSignal_loop
    <3> QED
      BY <3>1, <3>2, SMTT(30) DEF TypeOK
  <2>2. proc_schedule(ready) /\ pc' = [pc EXCEPT ![p] = "sigwait"]
    BY <1>4 DEF sig_waitSignal_loop, Goto, proc_switch
  <2>3. \A q \in Process : Runnable(q) /\ q # p => Runnable(q)'
    BY <2>2, ScheduleKeeps DEF Runnable
  <2> QED
    BY <1>1, <1>2, <2>1, <2>2, <2>3, Zenon DEF LifeInv, Reachable, Alive, Live, TypeOK
<1> QED
  BY <1>3, <1>4

(* The calls of signals.                                                   *)
LEMMA LifeSignal ==
  ASSUME TypeOK, CoopInv, MaskInv, LifeInv, NEW p \in Process,
         SignalCall(p) \/ sig_waitSignal_resume(p), UNCHANGED semVars
  PROVE  LifeInv'
<1> USE DEF Calls, At
<1>1. ASSUME NEW m \in Mask, sig_waitSignal(p, m)
      PROVE  LifeInv'
  BY <1>1, LifeWaitLoop DEF sig_waitSignal
<1>2. CASE sig_waitSignal_resume(p)
  BY <1>2, LifeWaitLoop DEF sig_waitSignal_resume
<1>3. ASSUME NEW m \in Mask, sig_checkSignal(p, m)
      PROVE  LifeInv'
  BY <1>3 DEF sig_checkSignal, procVars, semVars, LifeInv, Reachable, Runnable, Queued,
              HandedOver, Alive
<1>4. ASSUME NEW m \in Mask, NEW q \in Process, sig_sendSignal(p, q, m)
      PROVE  LifeInv'
  <2>1. /\ Awaken(q, m) => Runnable(q)'
        /\ \A r \in Process : Runnable(r) => Runnable(r)'
    BY <1>4, WakeupKeeps DEF sig_sendSignal, Runnable
  <2> QED
    BY <1>4, <2>1, LifeDeliver DEF sig_sendSignal
<1>5. ASSUME NEW m \in Mask, NEW q \in Process, sig_postSignal(p, q, m)
      PROVE  LifeInv'
  BY <1>5, PostedKeeps, LifeDeliver DEF sig_postSignal
<1> QED
  BY <1>1, <1>2, <1>3, <1>4, <1>5, SMTT(30) DEF SignalCall

(* At the start every live process is Main or ready.                       *)
LEMMA LifeInit ==
  Init => LifeInv
<1> SUFFICES ASSUME Init
             PROVE  LifeInv
  OBVIOUS
<1> USE DEF Init, ProcInit, StartPc, SemInit
<1>1. \A p \in Started : Contains(ready, p)
  BY StartedReady, SMTT(30)
<1> QED
  BY <1>1, KernelAssumption DEF KernelAssumption, LifeInv, Reachable, Runnable, Alive, Live

LEMMA LifeReset == bassert => LifeInv'
  BY ResetStarts, LifeInit, PTL

(* Every step of the cooperative kernel keeps everybody reachable.         *)
LEMMA LifeStep ==
  ASSUME TypeOK, CoopInv, MaskInv, LifeInv, ~PREEMPT, [Next]_kernelVars
  PROVE  LifeInv'
<1>1. ASSUME NEW p \in Process, Call(p)
      PROVE  LifeInv'
  BY <1>1, LifeProcCall, LifeSem, LifeSignal DEF Call
<1>2. ASSUME NEW p \in Process, Continue(p)
      PROVE  LifeInv'
  BY <1>2, LifeProcContinue, LifeNewProcess, LifeSem, LifeWakeup, LifeSignal
     DEF Continue, NewProcess, SemContinue
<1>3. CASE Idle
  <2>1. current = NULL /\ UNCHANGED <<pc, target, semVars, wait>> /\ proc_schedule(ready)
    BY <1>3 DEF Idle, proc_schedule_idle, Idling, sigVars
  <2>2. \A q \in Process : Runnable(q) => Runnable(q)'
    BY <2>1, ScheduleKeeps, ProcAssumption DEF ProcAssumption, Runnable
  <2> QED
    BY <2>1, <2>2, Zenon DEF LifeInv, Reachable, Queued, HandedOver, Alive, semVars
<1>4. CASE timer_isr \/ UNCHANGED kernelVars
  <2>1. UNCHANGED <<current, ready, pc, target, semVars, wait>>
    BY <1>4, IsrExitStays, Zenon DEF timer_isr, sigVars, kernelVars, procVars
  <2> QED
    BY <2>1 DEF LifeInv, Reachable, Runnable, Queued, HandedOver, Alive, semVars
<1>5. ASSUME NEW q \in Process, NEW m \in Mask, NEW t \in BOOLEAN, isr_post(q, m, t)
      PROVE  LifeInv'
  <2>1. /\ ready' = Posted(q, m) /\ current' = current /\ ClearWait(q, m)
        /\ UNCHANGED <<pc, target, semVars>>
    BY <1>5, IsrExitStays, SMTT(30) DEF isr_post
  <2> QED
    BY <2>1, PostedKeeps, LifeDeliver
<1> QED
  BY <1>1, <1>2, <1>3, <1>4, <1>5, LifeReset, SMTT(30) DEF Next, PostingIsr

(* NoneForgotten is LifeInv, and what CoopInv says of the queues.          *)
LEMMA CoopRemembers ==
  ASSUME TypeOK, CoopInv, LifeInv
  PROVE  NoneForgotten
<1>1. ASSUME NEW p \in Process, NEW s \in Semaphore, Contains(waitQueue[s], p)
      PROVE  owner[s] \notin {NULL, p} /\ Alive(owner[s])
  <2>1. waitQueue[s] # <<>>
    BY <1>1 DEF Contains
  <2> QED
    BY <1>1, <2>1 DEF CoopInv, SemInv, SemOK, LifeInv
<1> QED
  BY <1>1, SMTT(30) DEF NoneForgotten, LifeInv, Reachable, Runnable, Queued

(* In the cooperative kernel no live process is forgotten: it runs, is     *)
(* ready, waits for a semaphore that a live process owns, has been handed  *)
(* one by a process that is about to wake it up, or sleeps with its wait   *)
(* mask set.                                                               *)
THEOREM Remembered == ~PREEMPT /\ Spec => []NoneForgotten
<1>1. Init => MaskInv /\ LifeInv
  BY LifeInit, MasksInit
<1>2. CASE ~PREEMPT
  <2>1. CoopInv /\ TypeOK /\ MaskInv /\ LifeInv /\ [Next]_kernelVars => MaskInv' /\ LifeInv'
    BY <1>2, MasksStep, CoopAwake, LifeStep
  <2>2. CoopInv /\ TypeOK /\ LifeInv => NoneForgotten
    BY CoopRemembers
  <2> QED
    BY <1>1, <2>1, <2>2, CoopInvariant, TypeCorrect, PTL DEF Spec
<1> QED
  BY <1>2
-----------------------------------------------------------------------------
(* The processes in line for every semaphore, as the Lock sees them.       *)
Line == [s \in Semaphore |-> InLine(s)]

(* What InLine() is: the queue, behind the new owner that has not come     *)
(* back from sem_obtain() yet.                                             *)
LEMMA LineIs ==
  ASSUME TypeOK, NEW s \in Semaphore
  PROVE  /\ owner[s] = NULL \/ held[s][owner[s]] > 0 => InLine(s) = waitQueue[s]
         /\ owner[s] # NULL /\ held[s][owner[s]] = 0 => InLine(s) = <<owner[s]>> \o waitQueue[s]
<1>1. waitQueue[s] \in Seq(Process)
  BY DEF TypeOK
<1>2. <<>> \o waitQueue[s] = waitQueue[s]
  BY <1>1, ConcatEmptySeq
<1>3. CASE owner[s] = NULL
  BY <1>2, <1>3, SMTT(30) DEF InLine
<1>4. CASE owner[s] # NULL
  <2>1. held[s][owner[s]] \in Nat
    BY <1>4 DEF TypeOK
  <2>2. CASE held[s][owner[s]] = 0
    BY <1>4, <2>2 DEF InLine
  <2>3. CASE held[s][owner[s]] # 0
    BY <1>2, <1>4, <2>3 DEF InLine
  <2> QED
    BY <2>1, <2>2, <2>3, <1>4, SMTT(30)
<1> QED
  BY <1>3, <1>4

(* The first in line, and the others.                                      *)
LEMMA FirstInLine ==
  ASSUME NEW S, NEW x \in S, NEW q \in Seq(S)
  PROVE  /\ <<x>> \o q # <<>>
         /\ Head(<<x>> \o q) = x
         /\ Tail(<<x>> \o q) = q
<1> DEFINE l == <<x>> \o q
<1>1. l \in Seq(S) /\ Len(l) = 1 + Len(q) /\ l[1] = x /\ \A i \in 1..Len(q) : l[i + 1] = q[i]
  <2>1. <<x>> \in Seq(S) /\ Len(<<x>>) = 1 /\ <<x>>[1] = x
    OBVIOUS
  <2>2. Len(q) \in Nat
    BY LenProperties
  <2> QED
    BY <2>1, <2>2, ConcatProperties
<1> HIDE DEF l
<1>2. Len(q) \in Nat
  BY LenProperties
<1>3. l # <<>> /\ Head(l) = x
  BY <1>1, <1>2
<1>4. Tail(l) \in Seq(S) /\ Len(Tail(l)) = Len(q) /\ \A i \in 1..Len(Tail(l)) : Tail(l)[i] = l[i + 1]
  BY <1>1, <1>2, <1>3, HeadTailProperties, SMTT(30)
<1>5. Tail(l) = q
  BY <1>1, <1>4, SeqEqual
<1> QED
  BY <1>3, <1>5 DEF l

(* A process at the end of the queue is at the end of the line.            *)
LEMMA LastInLine ==
  ASSUME NEW S, NEW x \in S, NEW y \in S, NEW q \in Seq(S)
  PROVE  <<x>> \o Append(q, y) = Append(<<x>> \o q, y)
<1>1. <<x>> \in Seq(S) /\ <<y>> \in Seq(S) /\ <<x>> \o q \in Seq(S)
  BY ConcatProperties
<1>2. Append(q, y) = q \o <<y>> /\ Append(<<x>> \o q, y) = (<<x>> \o q) \o <<y>>
  BY <1>1, AppendIsConcat
<1> QED
  BY <1>1, <1>2, ConcatAssociative

(* The queue is its head and the others.                                   *)
LEMMA HeadAndOthers ==
  ASSUME NEW S, NEW q \in Seq(S), q # <<>>
  PROVE  Head(q) \in S /\ Tail(q) \in Seq(S) /\ <<Head(q)>> \o Tail(q) = q
<1>1. Head(q) \in S /\ Tail(q) \in Seq(S)
  BY HeadTailProperties
<1>2. Tail(q) = SubSeq(q, 2, Len(q)) /\ q = SubSeq(q, 1, Len(q)) /\ Head(q) = q[1]
  BY TailIsSubSeq, SubSeqFull
<1>3. 1 \in 1..Len(q) /\ Len(q) \in 1..Len(q)
  BY EmptySeq
<1>4. SubSeq(q, 1, Len(q)) = <<q[1]>> \o SubSeq(q, 2, Len(q))
  BY <1>3, SubSeqRecursiveFirst, SMTT(30)
<1> QED
  BY <1>1, <1>2, <1>4

(* Nobody is inside a semaphore that has no owner, or whose owner has yet  *)
(* to come back from sem_obtain().                                         *)
LEMMA Inside ==
  ASSUME TypeOK, CoopInv, NEW s \in Semaphore
  PROVE  /\ owner[s] \in Process \cup {NULL}
         /\ \A p \in Process : held[s][p] \in Nat /\ (held[s][p] > 0 => owner[s] = p)
         /\ owner[s] = NULL => InLine(s) = <<>>
<1>1. owner[s] = NULL => waitQueue[s] = <<>>
  BY Zenon DEF CoopInv, SemInv, SemOK
<1>2. owner[s] = NULL => InLine(s) = <<>>
  BY <1>1, LineIs, Zenon
<1>3. owner[s] \in Process \cup {NULL} /\ \A p \in Process : held[s][p] \in Nat
  BY DEF TypeOK
<1> QED
  BY <1>2, <1>3, SMTT(30) DEF CoopInv, SemInv, SemOK

(* sem_attempt() and sem_obtain() enter a lock that is free or one's own.  *)
LEMMA LockEnter ==
  ASSUME TypeOK, CoopInv, NEW p \in Process, NEW s \in Semaphore,
         Calls(p), Available(p, s), Lock(p, s)
  PROVE  SemLock!Enter(p, s)
<1>1. /\ owner' = [owner EXCEPT ![s] = p]
      /\ held' = [held EXCEPT ![s][p] = @ + 1]
      /\ waitQueue' = waitQueue
      /\ owner[s] = NULL \/ owner[s] = p
  BY DEF Lock, Available
<1>2. p # NULL /\ ~Granted(p, s)
  BY ProcAssumption, SMTT(30) DEF ProcAssumption, Calls, Granted
<1>3. owner[s] = p => held[s][p] > 0
  <2>1. SemOK(s)
    BY Zenon DEF CoopInv, SemInv
  <2> QED
    BY <1>2, <2>1 DEF SemOK
<1>4. held[s][p] > 0 \/ ((\A q \in Process : ~(held[s][q] > 0)) /\ Line[s] = <<>>)
  BY <1>1, <1>2, <1>3, Inside, ProcAssumption, SMTT(30) DEF ProcAssumption, Line
<1>5. ASSUME NEW t \in Semaphore
      PROVE  InLine(t)' = InLine(t)
  <2>1. CASE t # s
    BY <1>1, <2>1 DEF InLine, TypeOK
  <2>2. CASE t = s
    <3>1. owner'[t] = p /\ held'[t][p] # 0
      BY <1>1, <2>2 DEF TypeOK
    <3>2. InLine(t)' = <<>> \o waitQueue'[t]
      BY <3>1, Zenon DEF InLine
    <3>3. <<>> \o waitQueue[t] = waitQueue[t]
      BY ConcatEmptySeq DEF TypeOK
    <3> QED
      BY <1>1, <1>3, <2>2, <3>2, <3>3, LineIs, Zenon
  <2> QED
    BY <2>1, <2>2, SMTT(30)
<1>6. Line' = Line
  BY <1>5 DEF Line
<1> QED
  BY <1>1, <1>4, <1>6 DEF SemLock!Enter, SemLock!Inside, SemLock!Empty, Line

(* sem_obtain() of somebody else's semaphore joins the end of the line.    *)
LEMMA LockQueue ==
  ASSUME TypeOK, CoopInv, NEW p \in Process, NEW s \in Semaphore, sem_obtain_enqueue(p, s)
  PROVE  SemLock!Queue(p, s)
<1>1. /\ owner[s] # NULL /\ owner[s] # p
      /\ waitQueue' = [waitQueue EXCEPT ![s] = Append(@, p)]
      /\ UNCHANGED <<owner, held>>
  BY DEF sem_obtain_enqueue, Available
<1>2. waitQueue[s] \in Seq(Process) /\ owner[s] \in Process /\ held[s][owner[s]] \in Nat
  BY <1>1, Inside, SMTT(30) DEF TypeOK
<1>3. waitQueue'[s] = Append(waitQueue[s], p)
  BY <1>1 DEF TypeOK
<1>4. InLine(s)' = Append(InLine(s), p)
  <2>1. CASE held[s][owner[s]] = 0
    <3>1. InLine(s) = <<owner[s]>> \o waitQueue[s] /\ InLine(s)' = <<owner[s]>> \o waitQueue'[s]
      BY <1>1, <2>1 DEF InLine
    <3> QED
      BY <1>2, <1>3, <3>1, LastInLine, SMTT(30)
  <2>2. CASE held[s][owner[s]] # 0
    <3>1. InLine(s) = <<>> \o waitQueue[s] /\ InLine(s)' = <<>> \o waitQueue'[s]
      BY <1>1, <2>2 DEF InLine
    <3>2. waitQueue'[s] \in Seq(Process)
      BY <1>2, <1>3, AppendProperties
    <3> QED
      BY <1>2, <1>3, <3>1, <3>2, ConcatEmptySeq
  <2> QED
    BY <2>1, <2>2
<1>5. \A t \in Semaphore : t # s => InLine(t)' = InLine(t)
  BY <1>1, Zenon DEF InLine, TypeOK
<1>6. Line' = [Line EXCEPT ![s] = Append(@, p)]
  BY <1>4, <1>5, Zenon DEF Line
<1>7. ~(held[s][p] > 0)
  BY <1>1, Inside, Zenon
<1>8. (\E q \in Process : held[s][q] > 0) \/ Line[s] # <<>>
  <2>1. CASE held[s][owner[s]] = 0
    <3>1. InLine(s) = <<owner[s]>> \o waitQueue[s]
      BY <1>1, <2>1, LineIs, SMTT(30)
    <3> QED
      BY <1>2, <3>1, FirstInLine, SMTT(30) DEF Line
  <2>2. CASE held[s][owner[s]] # 0
    BY <1>2, <2>2
  <2> QED
    BY <2>1, <2>2
<1> QED
  BY <1>1, <1>6, <1>7, <1>8, Zenon DEF SemLock!Queue, SemLock!Inside, SemLock!Empty, Line

(* sem_obtain() comes back: the first in line has the lock.                *)
LEMMA LockGrant ==
  ASSUME TypeOK, CoopInv, NEW p \in Process, sem_obtain_return(p)
  PROVE  \E s \in Semaphore : SemLock!Grant(s)
<1>0. /\ current = p /\ pc[p] = "asleep"
      /\ held' = [held EXCEPT ![wanted[p]][p] = @ + 1]
      /\ UNCHANGED <<owner, waitQueue>>
  BY DEF sem_obtain_return, At
<1>1. PICK s \in Semaphore : s = wanted[p] /\ held[s][p] = 0 /\ owner[s] = p
  BY <1>0 DEF CoopInv, SchedInv, SemInv, WaiterOK, Runnable
<1>2. held[s][p] = 0 /\ owner[s] = p /\ held' = [held EXCEPT ![s][p] = @ + 1]
  BY <1>0, <1>1, SMTT(30)
<1>3. waitQueue[s] \in Seq(Process) /\ p # NULL
  BY <1>2, ProcAssumption, SMTT(30) DEF TypeOK, ProcAssumption
<1>4. Line[s] = <<p>> \o waitQueue[s]
  BY <1>2, <1>3, LineIs DEF Line
<1>5. Line[s] # <<>> /\ Head(Line[s]) = p /\ Tail(Line[s]) = waitQueue[s]
  BY <1>3, <1>4, FirstInLine, Zenon
<1>6. \A q \in Process : ~(held[s][q] > 0)
  BY <1>2, Inside
<1>7. held' = [held EXCEPT ![s][p] = 1]
  BY <1>2 DEF TypeOK
<1>8. InLine(s)' = waitQueue[s]
  <2>1. held'[s][p] # 0
    BY <1>2, <1>7, SMTT(30) DEF TypeOK
  <2>2. InLine(s)' = <<>> \o waitQueue[s]
    BY <1>0, <1>2, <2>1, SMTT(30) DEF InLine
  <2> QED
    BY <1>3, <2>2, ConcatEmptySeq, SMTT(30)
<1>9. \A t \in Semaphore : t # s => InLine(t)' = InLine(t)
  BY <1>0, <1>2, Zenon DEF InLine, TypeOK
<1>10. Line' = [Line EXCEPT ![s] = Tail(@)]
  BY <1>2, <1>5, <1>8, <1>9, Zenon DEF Line
<1> QED
  BY <1>2, <1>5, <1>6, <1>7, <1>10, Zenon DEF SemLock!Grant, SemLock!Inside, SemLock!Empty, Line

(* sem_release() leaves the lock; who it hands the semaphore over to was   *)
(* first in the queue and is still first in line.                          *)
LEMMA LockLeave ==
  ASSUME TypeOK, CoopInv, NEW p \in Process, NEW s \in Semaphore, sem_release(p, s)
  PROVE  SemLock!Leave(p, s)
<1>1. /\ pc[p] = "user" /\ held[s][p] > 0
      /\ held' = [held EXCEPT ![s][p] = @ - 1]
  BY DEF sem_release, Calls
<1>2. p # NULL /\ owner[s] = p /\ nest[s] = held[s][p]
  BY <1>1, ProcAssumption, SMTT(30) DEF ProcAssumption, CoopInv, SemInv, SemOK, Granted
<1>3. waitQueue[s] \in Seq(Process) /\ held[s][p] \in Nat /\ InLine(s) = waitQueue[s]
  BY <1>1, <1>2, LineIs, Zenon DEF TypeOK
<1>4. <<>> \o waitQueue[s] = waitQueue[s]
  BY <1>3, ConcatEmptySeq, SMTT(30)
<1>5. held'[s][p] = held[s][p] - 1 /\ \A q \in Process : q # p => held'[s][q] = held[s][q]
  BY <1>1, SMTT(30) DEF TypeOK
<1>6. InLine(s)' = waitQueue[s]
  <2>1. CASE nest[s] > 1
    <3>1. UNCHANGED <<owner, waitQueue>> /\ held'[s][p] # 0
      BY <1>2, <1>3, <1>5, <2>1 DEF sem_release
    <3> QED
      BY <1>2, <1>4, <3>1, Zenon DEF InLine
  <2>2. CASE ~(nest[s] > 1) /\ waitQueue[s] = <<>>
    <3>1. owner'[s] = NULL /\ waitQueue' = waitQueue
      BY <2>2 DEF sem_release, TypeOK
    <3> QED
      BY <1>4, <3>1, Zenon DEF InLine
  <2>3. CASE ~(nest[s] > 1) /\ waitQueue[s] # <<>>
    <3>1. PICK h : h = Head(waitQueue[s])
      BY SMTT(30)
    <3>2. h \in Process /\ h # NULL /\ <<h>> \o Tail(waitQueue[s]) = waitQueue[s]
      BY <1>3, <2>3, <3>1, HeadAndOthers, ProcAssumption DEF ProcAssumption
    <3>3. owner'[s] = h /\ waitQueue'[s] = Tail(waitQueue[s])
      BY <2>3, <3>1, SMTT(30) DEF sem_release, TypeOK
    <3>4. Contains(waitQueue[s], h)
      BY <1>3, <2>3, <3>1, TailContents, Zenon
    <3>5. h # p
      BY <1>2, <3>2, <3>4, Zenon DEF CoopInv, SemInv, SemOK
    <3>6. held[s][h] \in Nat /\ ~(held[s][h] > 0)
      BY <1>2, <3>2, <3>5, Inside, Zenon
    <3>7. held[s][h] = 0
      BY <3>6
    <3>8. held'[s][h] = 0
      BY <1>5, <3>2, <3>5, <3>7, Zenon
    <3> QED
      BY <3>2, <3>3, <3>8, Zenon DEF InLine
  <2> QED
    BY <2>1, <2>2, <2>3
<1>7. ASSUME NEW t \in Semaphore, t # s
      PROVE  InLine(t)' = InLine(t)
  <2>1. owner'[t] = owner[t] /\ waitQueue'[t] = waitQueue[t] /\ held'[t] = held[t]
    BY <1>7 DEF sem_release, TypeOK
  <2> QED
    BY <2>1, Zenon DEF InLine
<1>8. Line' = Line
  BY <1>3, <1>6, <1>7, Zenon DEF Line
<1> QED
  BY <1>1, <1>8 DEF SemLock!Leave, SemLock!Inside, Line

(* sem_obtain() by the owner while others wait: the reset empties the      *)
(* semaphores and their queues.                                            *)
LEMMA LockReset ==
  ASSUME TypeOK, CoopInv, bassert
  PROVE  SemLock!Next
<1>1. PICK p \in Process, s \in Semaphore : sem_obtain_asserts(p, s)
  BY Zenon DEF bassert
<1>2. Calls(p) /\ owner[s] \in {NULL, p} /\ waitQueue[s] # <<>>
  BY <1>1, Zenon DEF sem_obtain_asserts, Available
<1>3. held[s][p] > 0
  <2>1. SemOK(s)
    BY Zenon DEF CoopInv, SemInv
  <2>2. p # NULL /\ ~Granted(p, s) /\ owner[s] = p
    BY <1>2, <2>1, ProcAssumption DEF ProcAssumption, Calls, Granted, SemOK
  <2> QED
    BY <2>1, <2>2 DEF SemOK
<1>4. InLine(s) # <<>>
  <2>1. waitQueue[s] \in Seq(Process) /\ owner[s] \in Process \cup {NULL}
    BY DEF TypeOK
  <2> QED
    BY <1>2, <2>1 DEF InLine
<1>5. /\ owner' = [t \in Semaphore |-> NULL]
      /\ waitQueue' = [t \in Semaphore |-> <<>>]
      /\ held' = [t \in Semaphore |-> [q \in Process |-> 0]]
  BY Zenon DEF bassert, SemReset
<1>6. ASSUME NEW t \in Semaphore
      PROVE  InLine(t)' = <<>>
  <2>1. owner'[t] = NULL /\ waitQueue'[t] = <<>>
    BY <1>5
  <2>2. InLine(t)' = <<>> \o <<>>
    BY <2>1, Zenon DEF InLine
  <2> QED
    BY <2>2
<1>7. SemLock!StartOver(p, s)
  <2>1. Line[s] # <<>> /\ Line' = [t \in Semaphore |-> <<>>]
    BY <1>4, <1>6, Zenon DEF Line
  <2> QED
    BY <1>3, <1>5, <2>1, Zenon DEF SemLock!StartOver, SemLock!Inside, Line
<1> QED
  BY <1>7, Zenon DEF SemLock!Next

(* Every step of the cooperative kernel is one of these, or leaves the     *)
(* semaphores alone.                                                       *)
LEMMA LockStep ==
  ASSUME TypeOK, CoopInv, [Next]_kernelVars
  PROVE  SemLock!Next \/ UNCHANGED <<held, Line>>
<1>1. CASE UNCHANGED semVars
  BY <1>1 DEF semVars, Line, InLine
<1>2. ASSUME NEW p \in Process, SemCall(p)
      PROVE  SemLock!Next
  BY <1>2, LockEnter, LockQueue, LockLeave, Zenon DEF SemCall, sem_attempt, sem_obtain, SemLock!Next
<1>3. ASSUME NEW p \in Process, SemContinue(p)
      PROVE  SemLock!Next \/ UNCHANGED semVars
  BY <1>3, LockGrant DEF SemContinue, sem_obtain_switch, sem_release_wakeup, SemLock!Next
<1>4. \/ \E p \in Process : SemCall(p) \/ SemContinue(p)
      \/ bassert
      \/ UNCHANGED semVars
  BY Zenon DEF Next, Call, Continue, Idle, timer_isr, PostingIsr, isr_post, kernelVars, semVars
<1> QED
  BY <1>1, <1>2, <1>3, <1>4, LockReset

(* In the cooperative kernel a semaphore is a Lock: the processes get it   *)
(* one at a time and in the order of their calls, although sem_release()   *)
(* and sem_obtain() hand it over in several steps.  It starts over when    *)
(* the owner calls sem_obtain() again while others wait, which an          *)
(* assertion in sem_obtain() (bertos/kern/sem.c) answers with a reset.     *)
THEOREM IsLock == ~PREEMPT /\ Spec => ImplementsLock
<1>1. Init => SemLock!Init
  <2> SUFFICES ASSUME Init, NEW s \in Semaphore
               PROVE  InLine(s) = <<>>
    BY DEF Init, SemInit, SemLock!Init
  <2>1. owner[s] = NULL /\ waitQueue[s] = <<>>
    BY DEF Init, SemInit
  <2>2. TypeOK
    BY TypeInit
  <2> QED
    BY <2>1, <2>2, LineIs, Zenon
<1>2. CoopInv /\ TypeOK /\ [Next]_kernelVars => [SemLock!Next]_<<held, Line>>
  BY LockStep
<1> QED
  BY <1>1, <1>2, CoopInvariant, TypeCorrect, PTL DEF Spec, ImplementsLock, SemLock!Spec, Line
(* In the cooperative kernel the ready list is sorted by priority whenever *)
(* no process is inside proc_setPri(), whatever the processes and the      *)
(* interrupts do, as long as no interrupt posts a signal in a system that  *)
(* changes priorities.                                                     *)
THEOREM Priorities == ~PREEMPT /\ SetPriUndisturbed /\ Spec => []ReadySorted
<1>1. CASE ~PREEMPT /\ SetPriUndisturbed
  <2>1. Init => SortInv
    BY SortInit, Zenon DEF SortInv, Settled
  <2>2. SortInv /\ CoopInv /\ TypeOK /\ [Next]_kernelVars => SortInv'
    BY <1>1, SortStep
  <2>3. SortInv /\ TypeOK => ReadySorted
    <3>1. TypeOK => DOMAIN ready = 1..Len(ready)
      BY DEF TypeOK
    <3> QED
      BY <3>1, Zenon DEF SortInv, Settled, Sorted, ReadySorted
  <2> QED
    BY <1>1, <2>1, <2>2, <2>3, CoopInvariant, TypeCorrect, PTL DEF Spec
<1> QED
  BY <1>1

===============================================================================
