----------------------------- MODULE SignalProofs -----------------------------
(***************************************************************************)
(* The kernel without semaphores, cooperative or preemptive: for any       *)
(* number of processes and signals the links of the lists stay whole, no   *)
(* process is forgotten and none sleeps through a signal; and the ready    *)
(* list stays sorted while the priorities do not change.                   *)
(*                                                                         *)
(* A process loses the CPU wherever interrupts are enabled, so that        *)
(* several of them may be midway in proc_new() or in proc_setPri() at a    *)
(* time.                                                                   *)
(***************************************************************************)
EXTENDS KernelProofs

(* The ready list holds nobody twice, and not the running process.         *)
Tidy ==
  /\ Distinct(ready)
  /\ \A p \in Process : Contains(ready, p) => current # p

(* A live process is runnable or has its wait mask set, never both; two    *)
(* processes in proc_freeZombies() hold different zombies.                 *)
LiveInv ==
  \A p \in Process :
    /\ pc[p] \notin {"obtain", "asleep", "wakeup"}
    /\ Alive(p) <=> Runnable(p) \/ wait[p] # {}
    /\ wait[p] # {} => ~Runnable(p) /\ pc[p] = "sigwait"

ReapInv ==
  /\ Distinct(zombie)
  /\ \A p \in Process :
       /\ Contains(zombie, p) => pc[p] \in {"exit", "zombie"}
       /\ target[p] # NULL => pc[p] \in {"setPri", "reap"}
       /\ pc[p] = "reap" /\ target[p] # NULL => pc[target[p]] = "reaping"
  /\ \A p, q \in Process :
       pc[p] = "reap" /\ target[p] # NULL /\ pc[q] = "reap" /\ target[q] = target[p] => p = q

SignalInv == Tidy /\ LiveInv /\ ReapInv

(* The processes of S, and no other, run or are ready after the step.      *)
Runs(S) == Tidy' /\ \A p \in Process : Runnable(p)' <=> p \in S

Ran == {p \in Process : Runnable(p)}

(* proc_schedule() with the ready list l.                                  *)
LEMMA ScheduleRuns ==
  ASSUME NEW l \in Seq(Process), Distinct(l), proc_schedule(l)
  PROVE  Tidy' /\ \A p \in Process : Runnable(p)' <=> Contains(l, p)
<1>1. CASE l = <<>>
  <2>1. current' = NULL /\ ready' = l /\ NULL \notin Process
    BY <1>1, ProcAssumption DEF ProcAssumption, proc_schedule
  <2> QED
    BY <2>1, Zenon DEF Tidy, Runnable
<1>2. CASE l # <<>>
  <2>1. current' = Head(l) /\ ready' = Tail(l)
    BY <1>2 DEF proc_schedule
  <2>2. /\ \A q : Contains(l, q) <=> q = Head(l) \/ Contains(Tail(l), q)
        /\ Distinct(Tail(l)) /\ ~Contains(Tail(l), Head(l))
    BY <1>2, TailContents
  <2> QED
    BY <2>1, <2>2 DEF Tidy, Runnable
<1> QED
  BY <1>1, <1>2

(* proc_switchTo() with the ready list l.                                  *)
LEMMA SwitchToRuns ==
  ASSUME current \in Process, NEW l \in Seq(Process), NEW p \in Process, Distinct(l),
         ~Contains(l, current), ~Contains(l, p), p # current, proc_switchTo(p, l)
  PROVE  Tidy' /\ \A q \in Process : Runnable(q)' <=> Contains(l, q) \/ q = current \/ q = p
<1>1. /\ \A q : Contains(ready', q) <=> Contains(l, q) \/ q = current
      /\ Distinct(ready') /\ current' = p
  BY EnqueueProperties, Zenon DEF proc_switchTo
<1> QED
  BY <1>1 DEF Tidy, Runnable

(* proc_wakeup() makes p runnable.                                         *)
LEMMA WakeupRuns ==
  ASSUME TypeOK, Tidy, current \in Process, NEW p \in Process, ~Runnable(p), proc_wakeup(p)
  PROVE  Runs(Ran \cup {p})
<1>1. ready \in Seq(Process) /\ ~Contains(ready, p) /\ p # current /\ ~Contains(ready, current)
  BY DEF TypeOK, Tidy, Runnable
<1>2. CASE proc_switchTo(p, ready)
  <2>1. Tidy' /\ \A q \in Process : Runnable(q)' <=> Contains(ready, q) \/ q = current \/ q = p
    BY <1>1, <1>2, SwitchToRuns DEF Tidy
  <2> QED
    BY <2>1 DEF Runs, Ran, Runnable
<1>3. CASE ready' = SCHED_ENQUEUE_HEAD(ready, p, pri) /\ current' = current
  <2>1. Distinct(ready') /\ \A q : Contains(ready', q) <=> Contains(ready, q) \/ q = p
    BY <1>1, <1>3, EnqueueProperties, Zenon DEF Tidy
  <2> QED
    BY <1>1, <1>3, <2>1 DEF Runs, Ran, Runnable, Tidy
<1> QED
  BY <1>2, <1>3 DEF proc_wakeup

(* The return from an interrupt that leaves the ready list l: the process  *)
(* that loses the CPU goes back into the list.                             *)
LEMMA IsrExitRuns ==
  ASSUME TypeOK, NEW l \in Seq(Process), Distinct(l), ~Contains(l, current),
         NEW n, NEW t, IsrExit(l, n, t)
  PROVE  Tidy' /\ \A p \in Process : Runnable(p)' <=> current = p \/ Contains(l, p)
<1>1. CASE proc_needPreempt(l, n) /\ proc_preempt(l)
  <2>1. current \in Process
    BY <1>1 DEF TypeOK, proc_needPreempt
  <2>2. PICK r : r = SCHED_ENQUEUE(l, current, pri)
    BY Zenon
  <2>3. r \in Seq(Process) /\ Distinct(r) /\ \A q : Contains(r, q) <=> Contains(l, q) \/ q = current
    BY <2>1, <2>2, EnqueueProperties, Zenon
  <2>4. Tidy' /\ \A p \in Process : Runnable(p)' <=> Contains(r, p)
    BY <1>1, <2>2, <2>3, ScheduleRuns DEF proc_preempt
  <2> QED
    BY <2>3, <2>4, Zenon
<1>2. CASE ready' = l /\ current' = current
  BY <1>2 DEF Tidy, Runnable
<1> QED
  BY <1>1, <1>2 DEF IsrExit

(* A step that only moves the CPU from one runnable process to another.    *)
LEMMA SignalCpu ==
  ASSUME SignalInv, Runs(Ran), UNCHANGED <<zombie, pc, target, wait>>
  PROVE  SignalInv'
<1>1. \A p \in Process : (Runnable(p)' <=> Runnable(p)) /\ (Alive(p)' <=> Alive(p))
  BY Zenon DEF Runs, Ran, Alive
<1>2. LiveInv'
  BY <1>1, Zenon DEF SignalInv, LiveInv
<1>3. ReapInv'
  BY Zenon DEF SignalInv, ReapInv
<1> QED
  BY <1>2, <1>3, Zenon DEF SignalInv, Runs

(* A process that runs goes from one place in the kernel to another.       *)
LEMMA SignalLive ==
  ASSUME TypeOK, SignalInv, NEW p \in Process, current = p,
         NEW label \in {"user", "setPri", "reap", "create", "sigwait"},
         pc' = [pc EXCEPT ![p] = label], UNCHANGED <<current, wait>>,
         Distinct(ready'), \A q : Contains(ready', q) <=> Contains(ready, q)
  PROVE  Tidy' /\ LiveInv'
<1>1. \A q \in Process : Runnable(q)' <=> Runnable(q)
  BY Zenon DEF Runnable
<1>2. \A q \in Process : q # p => pc'[q] = pc[q]
  BY DEF TypeOK
<1>3. pc'[p] = label /\ Runnable(p) /\ wait[p] = {}
  BY Zenon DEF TypeOK, Runnable, SignalInv, LiveInv
<1>4. label \in Live /\ label \notin {"obtain", "asleep", "wakeup"}
  BY Zenon DEF Live
<1>5. Tidy'
  BY Zenon DEF SignalInv, Tidy
<1> QED
  BY <1>1, <1>2, <1>3, <1>4, <1>5, Zenon DEF SignalInv, LiveInv, Alive

(* The calls of the scheduler.                                             *)
LEMMA SignalProcCall ==
  ASSUME TypeOK, SignalInv, NEW p \in Process, ProcCall(p), UNCHANGED sigVars
  PROVE  SignalInv'
<1> USE DEF Calls, Goto, sigVars
<1>0. current = p /\ pc[p] = "user" /\ current \in Process
  BY DEF ProcCall, proc_yield, proc_forbid, proc_permit, proc_setPri, Exits, proc_exit, proc_new
<1>2. CASE proc_yield(p)
  <2>1. /\ \A q : Contains(ready, q) <=> q = Head(ready) \/ Contains(Tail(ready), q)
        /\ Distinct(Tail(ready)) /\ ~Contains(Tail(ready), Head(ready))
        /\ Tail(ready) \in Seq(Process) /\ Head(ready) \in Process
    BY <1>2, TailContents DEF TypeOK, SignalInv, Tidy, proc_yield
  <2>2. ~Contains(Tail(ready), current) /\ Head(ready) # current
    BY <1>0, <2>1 DEF SignalInv, Tidy
  <2>3. /\ Tidy'
        /\ \A q \in Process :
             Runnable(q)' <=> Contains(Tail(ready), q) \/ q = current \/ q = Head(ready)
    BY <1>0, <1>2, <2>1, <2>2, SwitchToRuns, Zenon DEF proc_yield
  <2>4. Runs(Ran)
    BY <2>1, <2>3 DEF Runs, Ran, Runnable
  <2> QED
    BY <1>2, <2>4, SignalCpu DEF proc_yield
<1>3. CASE proc_forbid(p) \/ proc_permit(p)
  <2>1. UNCHANGED <<current, ready, zombie, pc, target, wait>>
    BY <1>3 DEF proc_forbid, proc_permit
  <2> QED
    BY <2>1, Zenon DEF SignalInv, Tidy, LiveInv, ReapInv, Runnable, Alive
<1>4. ASSUME NEW q \in Process, NEW n \in Pris, proc_setPri(p, q, n)
      PROVE  SignalInv'
  <2>1. UNCHANGED <<current, ready, zombie, wait>>
    BY <1>4 DEF proc_setPri
  <2>2. CASE UNCHANGED <<pc, target>>
    BY <2>1, <2>2, Zenon DEF SignalInv, Tidy, LiveInv, ReapInv, Runnable, Alive
  <2>3. CASE /\ pc' = [pc EXCEPT ![p] = "setPri"]
             /\ target' = [target EXCEPT ![p] = q]
    <3>1. Tidy' /\ LiveInv'
      BY <1>0, <2>1, <2>3, SignalLive, Zenon DEF SignalInv, Tidy
    <3>2. ReapInv'
      BY <1>0, <2>1, <2>3, Zenon DEF SignalInv, ReapInv, TypeOK
    <3> QED
      BY <3>1, <3>2 DEF SignalInv
  <2> QED
    BY <1>4, <2>2, <2>3 DEF proc_setPri
<1>5. CASE Exits(p)
  <2>1. /\ zombie' = Append(zombie, p) /\ current' = NULL /\ UNCHANGED <<ready, wait, target>>
        /\ pc' = [pc EXCEPT ![p] = "exit"]
    BY <1>5 DEF Exits, proc_exit
  <2>2. /\ Distinct(zombie')
        /\ \A q : Contains(zombie', q) <=> Contains(zombie, q) \/ q = p
    <3>1. zombie \in Seq(Process) /\ Distinct(zombie) /\ ~Contains(zombie, p)
      BY <1>0, Zenon DEF SignalInv, ReapInv, TypeOK
    <3> QED
      BY <2>1, <3>1, AppendContents
  <2>3. NULL \notin Process
    BY ProcAssumption DEF ProcAssumption
  <2>4. Tidy' /\ \A q \in Process : Runnable(q)' <=> Runnable(q) /\ q # p
    BY <1>0, <2>1, <2>3 DEF SignalInv, Tidy, Runnable
  <2>5. pc'[p] = "exit" /\ \A q \in Process : q # p => pc'[q] = pc[q]
    BY <2>1 DEF TypeOK
  <2>6. LiveInv'
    BY <1>0, <2>1, <2>4, <2>5 DEF SignalInv, LiveInv, Alive, Live, Runnable
  <2>7. ReapInv'
    BY <1>0, <2>1, <2>2, <2>5 DEF SignalInv, ReapInv
  <2> QED
    BY <2>4, <2>6, <2>7 DEF SignalInv
<1>6. CASE proc_new(p)
  <2>1. UNCHANGED <<current, ready, zombie, wait, target>> /\ pc' = [pc EXCEPT ![p] = "reap"]
    BY <1>6 DEF proc_new
  <2>2. Tidy' /\ LiveInv'
    BY <1>0, <2>1, SignalLive, Zenon DEF SignalInv, Tidy
  <2>3. ReapInv'
    BY <1>0, <2>1, Zenon DEF SignalInv, ReapInv, TypeOK
  <2> QED
    BY <2>2, <2>3 DEF SignalInv
<1> QED
  BY <1>2, <1>3, <1>4, <1>5, <1>6 DEF ProcCall

(* What a process holds in a local variable.                               *)
LEMMA TargetType ==
  ASSUME TypeOK
  PROVE  \A p \in Process : target[p] # NULL => target[p] \in Process
  BY DEF TypeOK

(* The rests of the calls of the scheduler: another process may be in the  *)
(* same call, with another zombie.                                         *)
LEMMA SignalProcContinue ==
  ASSUME TypeOK, SignalInv, NEW p \in Process, ProcContinue(p), UNCHANGED sigVars
  PROVE  SignalInv'
<1> USE DEF At, Goto, sigVars
<1>1. CASE proc_setPri_reenqueue(p)
  <2>1. /\ current = p /\ pc[p] = "setPri" /\ UNCHANGED <<current, zombie, wait>>
        /\ pc' = [pc EXCEPT ![p] = "user"]
        /\ target' = [target EXCEPT ![p] = NULL]
    BY <1>1 DEF proc_setPri_reenqueue
  <2>2. Distinct(ready') /\ \A q : Contains(ready', q) <=> Contains(ready, q)
    <3>1. ready \in Seq(Process) /\ Distinct(ready)
      BY DEF TypeOK, SignalInv, Tidy
    <3>2. ready' = sched_reenqueue(ready, target[p], pri)
      BY <1>1 DEF proc_setPri_reenqueue
    <3> QED
      BY <3>1, <3>2, ReenqueueContents
  <2>3. Tidy' /\ LiveInv'
    BY <2>1, <2>2, SignalLive, Zenon
  <2>4. ReapInv'
    BY <2>1, Zenon DEF SignalInv, ReapInv, TypeOK
  <2> QED
    BY <2>3, <2>4 DEF SignalInv
<1>2. CASE proc_exit_switch(p)
  <2>1. /\ current = NULL /\ pc[p] = "exit" /\ UNCHANGED <<zombie, target, wait>>
        /\ pc' = [pc EXCEPT ![p] = "zombie"] /\ proc_schedule(ready)
    BY <1>2 DEF proc_exit_switch, proc_switch
  <2>2. Tidy' /\ \A q \in Process : Runnable(q)' <=> Contains(ready, q)
    BY <2>1, ScheduleRuns DEF SignalInv, Tidy, TypeOK
  <2>3. \A q \in Process : Runnable(q)' <=> Runnable(q)
    BY <2>1, <2>2, ProcAssumption DEF ProcAssumption, Runnable
  <2>4. pc'[p] = "zombie" /\ \A q \in Process : q # p => pc'[q] = pc[q]
    BY <2>1 DEF TypeOK
  <2>5. LiveInv'
    BY <2>1, <2>3, <2>4 DEF SignalInv, LiveInv, Alive, Live
  <2>6. ReapInv'
    BY <2>1, <2>4 DEF SignalInv, ReapInv, TypeOK
  <2> QED
    BY <2>2, <2>5, <2>6 DEF SignalInv
<1>3. CASE proc_freeZombies_remHead(p)
  <2>1. /\ current = p /\ pc[p] = "reap" /\ target[p] = NULL
        /\ UNCHANGED <<current, ready, wait>>
    BY <1>3 DEF proc_freeZombies_remHead
  <2>2. CASE zombie = <<>>
    <3>1. UNCHANGED <<zombie, target>> /\ pc' = [pc EXCEPT ![p] = "create"]
      BY <1>3, <2>2 DEF proc_freeZombies_remHead
    <3>2. Tidy' /\ LiveInv'
      BY <2>1, <3>1, SignalLive, Zenon DEF SignalInv, Tidy
    <3>3. ReapInv'
      BY <2>1, <3>1, Zenon DEF SignalInv, ReapInv, TypeOK
    <3> QED
      BY <3>2, <3>3 DEF SignalInv
  <2>3. CASE zombie # <<>>
    <3>1. PICK z : z = Head(zombie)
      BY Zenon
    <3>2. /\ zombie' = Tail(zombie) /\ target' = [target EXCEPT ![p] = z]
          /\ pc' = [pc EXCEPT ![z] = "reaping"]
      BY <1>3, <2>3, <3>1 DEF proc_freeZombies_remHead
    <3>3. /\ z \in Process
          /\ \A q : Contains(zombie, q) <=> q = z \/ Contains(zombie', q)
          /\ Distinct(zombie') /\ ~Contains(zombie', z)
      BY <2>3, <3>1, <3>2, TailContents DEF SignalInv, ReapInv, TypeOK
    <3>4. pc[z] \in {"exit", "zombie"}
      BY <3>3, Zenon DEF SignalInv, ReapInv
    <3>5. /\ pc'[z] = "reaping" /\ \A q \in Process : q # z => pc'[q] = pc[q]
          /\ target'[p] = z /\ \A q \in Process : q # p => target'[q] = target[q]
      BY <3>2, <3>3 DEF TypeOK
    <3>6. Tidy' /\ \A q \in Process : Runnable(q)' <=> Runnable(q)
      BY <2>1, Zenon DEF SignalInv, Tidy, Runnable
    <3>7. LiveInv'
      BY <2>1, <3>3, <3>4, <3>5, <3>6 DEF SignalInv, LiveInv, Alive, Live
    <3>8. \A q \in Process : q # p /\ pc[q] = "reap" /\ target[q] # NULL => target[q] # z
      BY <3>4, Zenon DEF SignalInv, ReapInv
    <3>9. ReapInv'
      <4>1. \A q \in Process : Contains(zombie', q) => pc'[q] \in {"exit", "zombie"}
        BY <3>3, <3>5, Zenon DEF SignalInv, ReapInv
      <4>2. \A q \in Process : target'[q] # NULL => pc'[q] \in {"setPri", "reap"}
        BY <2>1, <3>4, <3>5 DEF SignalInv, ReapInv
      <4>3. ASSUME NEW q \in Process, pc'[q] = "reap", target'[q] # NULL
            PROVE  pc'[target'[q]] = "reaping" /\ (q # p => target'[q] # z)
        <5>1. CASE q = p
          BY <3>5, <5>1
        <5>2. CASE q # p
          <6>1. pc[q] = "reap" /\ target'[q] = target[q] /\ target[q] # NULL
            BY <3>5, <4>3, <5>2
          <6>2. target[q] \in Process /\ pc[target[q]] = "reaping" /\ target[q] # z
            BY <3>8, <5>2, <6>1, TargetType DEF SignalInv, ReapInv
          <6> QED
            BY <3>5, <6>1, <6>2
        <5> QED
          BY <5>1, <5>2
      <4>4. ASSUME NEW q \in Process, NEW r \in Process, pc'[q] = "reap", target'[q] # NULL,
                   pc'[r] = "reap", target'[r] = target'[q]
            PROVE  q = r
        <5>1. pc[q] = "reap" /\ pc[r] = "reap"
          BY <3>5, <4>4
        <5>2. CASE q # p /\ r # p
          BY <3>5, <4>4, <5>1, <5>2 DEF SignalInv, ReapInv
        <5>3. CASE q = p \/ r = p
          BY <3>5, <4>3, <4>4, <5>3, Zenon
        <5> QED
          BY <5>2, <5>3
      <4> QED
        BY <3>3, <4>1, <4>2, <4>3, <4>4, Zenon DEF ReapInv
    <3> QED
      BY <3>6, <3>7, <3>9 DEF SignalInv
  <2> QED
    BY <2>2, <2>3
<1>4. CASE proc_freeZombies_free(p)
  <2>1. /\ current = p /\ pc[p] = "reap" /\ target[p] # NULL
        /\ UNCHANGED <<current, ready, zombie, wait>>
        /\ target' = [target EXCEPT ![p] = NULL]
    BY <1>4 DEF proc_freeZombies_free
  <2>2. PICK label \in {"gone", "free"} : pc' = [pc EXCEPT ![target[p]] = label]
    BY <1>4, Zenon DEF proc_freeZombies_free
  <2>3. PICK z \in Process : z = target[p] /\ pc[z] = "reaping"
    BY <2>1 DEF SignalInv, ReapInv, TypeOK
  <2>4. /\ pc'[z] = label /\ \A q \in Process : q # z => pc'[q] = pc[q]
        /\ target'[p] = NULL /\ \A q \in Process : q # p => target'[q] = target[q]
    BY <2>1, <2>2, <2>3 DEF TypeOK
  <2>5. Tidy' /\ \A q \in Process : Runnable(q)' <=> Runnable(q)
    BY <2>1, Zenon DEF SignalInv, Tidy, Runnable
  <2>6. LiveInv'
    BY <2>1, <2>3, <2>4, <2>5 DEF SignalInv, LiveInv, Alive, Live
  <2>7. \A q \in Process : q # p /\ pc[q] = "reap" => target[q] # z
    BY <2>1, <2>3, Zenon DEF SignalInv, ReapInv
  <2>8. ReapInv'
    <3>1. \A q \in Process : Contains(zombie', q) => pc'[q] \in {"exit", "zombie"}
      BY <2>1, <2>3, <2>4 DEF SignalInv, ReapInv
    <3>2. \A q \in Process : target'[q] # NULL => pc'[q] \in {"setPri", "reap"}
      BY <2>1, <2>3, <2>4 DEF SignalInv, ReapInv
    <3>3. ASSUME NEW q \in Process, pc'[q] = "reap", target'[q] # NULL
          PROVE  /\ q # p /\ pc[q] = "reap" /\ target'[q] = target[q]
                 /\ pc'[target'[q]] = "reaping"
      <4>1. q # p /\ pc[q] = "reap" /\ target'[q] = target[q] /\ target[q] # NULL
        BY <2>4, <3>3
      <4>2. target[q] \in Process /\ pc[target[q]] = "reaping" /\ target[q] # z
        BY <2>7, <4>1, TargetType DEF SignalInv, ReapInv
      <4> QED
        BY <2>4, <4>1, <4>2
    <3>4. ASSUME NEW q \in Process, NEW r \in Process, pc'[q] = "reap", target'[q] # NULL,
                 pc'[r] = "reap", target'[r] = target'[q]
          PROVE  q = r
      <4>1. target'[r] # NULL
        BY <3>4
      <4>2. pc[q] = "reap" /\ target'[q] = target[q] /\ pc[r] = "reap" /\ target'[r] = target[r]
        BY <3>3, <3>4, <4>1
      <4> QED
        BY <3>4, <4>2 DEF SignalInv, ReapInv
    <3>5. Distinct(zombie')
      BY <2>1, Zenon DEF SignalInv, ReapInv
    <3> QED
      BY <3>1, <3>2, <3>3, <3>4, <3>5, Zenon DEF ReapInv
  <2> QED
    BY <2>5, <2>6, <2>8 DEF SignalInv
<1>5. CASE proc_new_fails(p)
  <2>1. /\ current = p /\ pc[p] = "create" /\ UNCHANGED <<current, ready, zombie, target, wait>>
        /\ pc' = [pc EXCEPT ![p] = "user"]
    BY <1>5 DEF proc_new_fails
  <2>2. Tidy' /\ LiveInv'
    BY <2>1, SignalLive, Zenon DEF SignalInv, Tidy
  <2>3. ReapInv'
    BY <2>1, Zenon DEF SignalInv, ReapInv, TypeOK
  <2> QED
    BY <2>2, <2>3 DEF SignalInv
<1> QED
  BY <1>1, <1>2, <1>3, <1>4, <1>5 DEF ProcContinue

(* A new process.                                                          *)
LEMMA SignalNewProcess ==
  ASSUME TypeOK, SignalInv, NEW p \in Process, NEW q \in Process,
         proc_new_enqueue(p, q), ClearSignals(q)
  PROVE  SignalInv'
<1>1. /\ current = p /\ pc[p] = "create" /\ pc[q] = "free"
      /\ UNCHANGED <<current, zombie, target>>
      /\ pc' = [pc EXCEPT ![p] = "user", ![q] = "user"]
      /\ wait' = [wait EXCEPT ![q] = {}]
  BY DEF proc_new_enqueue, At, ClearSignals
<1>2. ~Runnable(q) /\ wait[q] = {} /\ q # p
  BY <1>1 DEF SignalInv, LiveInv, Alive, Live
<1>3. ready \in Seq(Process) /\ Distinct(ready) /\ ~Contains(ready, q)
  BY <1>2 DEF TypeOK, SignalInv, Tidy, Runnable
<1>4. PICK pr : ready' = SCHED_ENQUEUE(ready, q, pr)
  BY DEF proc_new_enqueue
<1>5. Distinct(ready') /\ \A r : Contains(ready', r) <=> Contains(ready, r) \/ r = q
  BY <1>3, <1>4, EnqueueProperties
<1>6. Tidy' /\ \A r \in Process : Runnable(r)' <=> Runnable(r) \/ r = q
  BY <1>1, <1>2, <1>5 DEF SignalInv, Tidy, Runnable
<1>7. /\ pc'[p] = "user" /\ pc'[q] = "user" /\ wait'[q] = {}
      /\ \A r \in Process : (r # q => wait'[r] = wait[r]) /\ (r \notin {p, q} => pc'[r] = pc[r])
  BY <1>1, <1>2 DEF TypeOK
<1>8. LiveInv'
  BY <1>1, <1>6, <1>7, Zenon DEF SignalInv, LiveInv, Alive, Live, Runnable
<1>9. ReapInv'
  <2>1. ReapInv
    BY Zenon DEF SignalInv
  <2>2. ASSUME NEW r \in Process
        PROVE  /\ Contains(zombie, r) => pc'[r] \in {"exit", "zombie"}
               /\ target[r] # NULL => pc'[r] \in {"setPri", "reap"}
               /\ pc'[r] = "reap" /\ target[r] # NULL => pc'[target[r]] = "reaping"
    <3>1. /\ Contains(zombie, r) => pc[r] \in {"exit", "zombie"}
          /\ target[r] # NULL => pc[r] \in {"setPri", "reap"}
          /\ pc[r] = "reap" /\ target[r] # NULL => pc[target[r]] = "reaping"
      BY <2>1, Zenon DEF ReapInv
    <3>2. CASE r \in {p, q}
      BY <1>1, <1>7, <3>1, <3>2, Zenon
    <3>3. CASE r \notin {p, q}
      BY <1>1, <1>7, <3>1, <3>3, TargetType, Zenon
    <3> QED
      BY <3>2, <3>3, Zenon
  <2>3. \A r \in Process : pc'[r] = "reap" => pc[r] = "reap"
    BY <1>1, <1>7, Zenon
  <2> QED
    BY <1>1, <2>1, <2>2, <2>3, Zenon DEF ReapInv
<1> QED
  BY <1>6, <1>8, <1>9 DEF SignalInv

(* Signals delivered to q by a process or by an interrupt handler: q       *)
(* becomes runnable if it was waiting for them, and nobody else does.      *)
LEMMA SignalDeliver ==
  ASSUME TypeOK, SignalInv, NEW q \in Process, NEW m, ClearWait(q, m),
         UNCHANGED <<pc, zombie, target>>,
         Runs(IF Awaken(q, m) THEN Ran \cup {q} ELSE Ran)
  PROVE  SignalInv'
<1>1. /\ \A r \in Process : r # q => wait'[r] = wait[r]
      /\ wait'[q] = IF Awaken(q, m) THEN {} ELSE wait[q]
  BY DEF TypeOK, ClearWait
<1>2. \A r \in Process : Alive(r)' <=> Alive(r)
  BY DEF Alive
<1>3. ReapInv'
  BY Zenon DEF SignalInv, ReapInv
<1>4. CASE Awaken(q, m)
  <2>1. wait[q] # {}
    BY <1>4 DEF Awaken
  <2>2. \A r \in Process : Runnable(r)' <=> Runnable(r) \/ r = q
    BY <1>4 DEF Runs, Ran
  <2>3. wait'[q] = {}
    BY <1>1, <1>4
  <2>4. LiveInv'
    BY <1>1, <1>2, <2>1, <2>2, <2>3 DEF SignalInv, LiveInv
  <2> QED
    BY <1>3, <2>4 DEF SignalInv, Runs
<1>5. CASE ~Awaken(q, m)
  <2>1. \A r \in Process : (Runnable(r)' <=> Runnable(r)) /\ wait'[r] = wait[r]
    BY <1>1, <1>5 DEF Runs, Ran
  <2>2. LiveInv'
    BY <1>2, <2>1 DEF SignalInv, LiveInv
  <2> QED
    BY <1>3, <2>2 DEF SignalInv, Runs
<1> QED
  BY <1>4, <1>5

(* The list that sig_postSignal() leaves.                                  *)
LEMMA PostedRuns ==
  ASSUME TypeOK, SignalInv, NEW q \in Process, NEW m
  PROVE  /\ Posted(q, m) \in Seq(Process) /\ Distinct(Posted(q, m))
         /\ ~Contains(Posted(q, m), current)
         /\ \A r \in Process :
              Contains(Posted(q, m), r) <=> Contains(ready, r) \/ (Awaken(q, m) /\ r = q)
<1>0. ready \in Seq(Process) /\ Distinct(ready) /\ ~Contains(ready, current)
  <2>1. Contains(ready, current) => current \in Process
    BY DEF TypeOK, Contains
  <2> QED
    BY <2>1, Zenon DEF TypeOK, SignalInv, Tidy
<1>1. CASE Awaken(q, m)
  <2>1. wait[q] # {}
    BY <1>1 DEF Awaken
  <2>2. ~Contains(ready, q) /\ current # q
    BY <2>1 DEF SignalInv, LiveInv, Runnable
  <2>3. PICK l : l = SCHED_ENQUEUE_HEAD(ready, q, pri)
    BY Zenon
  <2>4. l \in Seq(Process) /\ Distinct(l) /\ \A r : Contains(l, r) <=> Contains(ready, r) \/ r = q
    BY <1>0, <2>2, <2>3, EnqueueProperties, Zenon
  <2>5. Posted(q, m) = l
    BY <1>1, <2>3 DEF Posted
  <2> QED
    BY <1>0, <1>1, <2>2, <2>4, <2>5, Zenon
<1>2. CASE ~Awaken(q, m)
  <2>1. Posted(q, m) = ready
    BY <1>2 DEF Posted
  <2> QED
    BY <1>0, <1>2, <2>1, Zenon
<1> QED
  BY <1>1, <1>2

(* sig_waitSignal(), entered and resumed: the process that gives the CPU   *)
(* away has its wait mask set.                                             *)
LEMMA SignalWaitLoop ==
  ASSUME TypeOK, SignalInv, MaskInv, NEW p \in Process, NEW m, current = p,
         pc[p] \in {"user", "sigwait"}, sig_waitSignal_loop(p, m),
         m \in Mask \/ (pc[p] = "sigwait" /\ m = sigs[p])
  PROVE  SignalInv'
<1>1. AwakeInv
  BY DEF SignalInv, LiveInv, AwakeInv
<1>2. UNCHANGED <<zombie, target>> /\ \A q \in Process : q # p => pc'[q] = pc[q]
  BY DEF TypeOK, sig_waitSignal_loop, Goto
<1>3. pc'[p] \in {"user", "sigwait"}
  BY DEF TypeOK, sig_waitSignal_loop, Goto
<1>4. ReapInv'
  <2>1. target[p] = NULL
    BY Zenon DEF SignalInv, ReapInv
  <2>2. \A q \in Process : target[q] # NULL => target[q] \in Process /\ q # p
    BY <2>1, TargetType
  <2>3. \A q \in Process : pc[q] = "reap" /\ target[q] # NULL => target[q] # p
    BY DEF SignalInv, ReapInv
  <2>4. ~Contains(zombie, p)
    BY Zenon DEF SignalInv, ReapInv
  <2> QED
    BY <1>2, <2>1, <2>2, <2>3, <2>4, <1>3, Zenon DEF SignalInv, ReapInv
<1>5. CASE recv[p] \cap m # {}
  <2>1. UNCHANGED <<wait, current, ready>> /\ pc' = [pc EXCEPT ![p] = "user"]
    BY <1>5 DEF sig_waitSignal_loop, Goto
  <2>2. Tidy' /\ LiveInv'
    BY <2>1, SignalLive, Zenon DEF SignalInv, Tidy
  <2> QED
    BY <1>4, <2>2 DEF SignalInv
<1>6. CASE recv[p] \cap m = {}
  <2>1. wait'[p] # {} /\ \A q \in Process : q # p => wait'[q] = wait[q]
    <3>1. m # {}
      BY <1>1, <1>6, MaskNotEmpty
    <3>2. wait' = [wait EXCEPT ![p] = m]
      BY <1>6 DEF sig_waitSignal_loop
    <3> QED
      BY <3>1, <3>2 DEF TypeOK
  <2>2. proc_schedule(ready) /\ pc'[p] = "sigwait"
    BY <1>6 DEF TypeOK, sig_waitSignal_loop, Goto, proc_switch
  <2>3. Tidy' /\ \A q \in Process : Runnable(q)' <=> Contains(ready, q)
    BY <2>2, ScheduleRuns DEF SignalInv, Tidy, TypeOK
  <2>4. \A q \in Process : Runnable(q)' <=> Runnable(q) /\ q # p
    BY <2>3 DEF SignalInv, Tidy, Runnable
  <2>5. LiveInv'
    BY <1>2, <2>1, <2>2, <2>4 DEF SignalInv, LiveInv, Alive, Live
  <2> QED
    BY <1>4, <2>3, <2>5 DEF SignalInv
<1> QED
  BY <1>5, <1>6

(* The calls that send, post, wait for and check signals.                  *)
LEMMA SignalSignal ==
  ASSUME TypeOK, SignalInv, MaskInv, NEW p \in Process,
         SignalCall(p) \/ sig_waitSignal_resume(p)
  PROVE  SignalInv'
<1> USE DEF Calls, At
<1>1. ASSUME NEW m \in Mask, sig_waitSignal(p, m)
      PROVE  SignalInv'
  BY <1>1, SignalWaitLoop DEF sig_waitSignal
<1>2. CASE sig_waitSignal_resume(p)
  BY <1>2, SignalWaitLoop DEF sig_waitSignal_resume
<1>3. ASSUME NEW m \in Mask, sig_checkSignal(p, m)
      PROVE  SignalInv'
  <2>1. UNCHANGED <<current, ready, zombie, pc, target, wait>>
    BY <1>3 DEF sig_checkSignal, procVars
  <2> QED
    BY <2>1, Zenon DEF SignalInv, Tidy, LiveInv, ReapInv, Runnable, Alive
<1>4. ASSUME NEW m \in Mask, NEW q \in Process, sig_sendSignal(p, q, m)
      PROVE  SignalInv'
  <2>1. current = p /\ ClearWait(q, m) /\ UNCHANGED <<pc, zombie, target>>
    BY <1>4 DEF sig_sendSignal
  <2>2. CASE Awaken(q, m)
    <3>1. wait[q] # {}
      BY <2>2 DEF Awaken
    <3>2. ~Runnable(q)
      BY <3>1 DEF SignalInv, LiveInv
    <3>3. Runs(Ran \cup {q})
      BY <1>4, <2>1, <2>2, <3>2, WakeupRuns DEF sig_sendSignal, SignalInv
    <3> QED
      BY <2>1, <2>2, <3>3, SignalDeliver, Zenon
  <2>3. CASE ~Awaken(q, m)
    <3>1. UNCHANGED <<current, ready>>
      BY <1>4, <2>3 DEF sig_sendSignal
    <3>2. Runs(Ran)
      BY <3>1 DEF SignalInv, Tidy, Runs, Ran, Runnable
    <3> QED
      BY <2>1, <2>3, <3>2, SignalDeliver, Zenon
  <2> QED
    BY <2>2, <2>3
<1>5. ASSUME NEW m \in Mask, NEW q \in Process, sig_postSignal(p, q, m)
      PROVE  SignalInv'
  <2>1. /\ ready' = Posted(q, m) /\ current' = current /\ ClearWait(q, m)
        /\ UNCHANGED <<pc, zombie, target>>
    BY <1>5 DEF sig_postSignal
  <2>2. Tidy' /\ \A r \in Process : Runnable(r)' <=> Runnable(r) \/ (Awaken(q, m) /\ r = q)
    <3>1. /\ Distinct(ready') /\ ~Contains(ready', current')
          /\ \A r \in Process : Contains(ready', r) <=> Contains(ready, r) \/ (Awaken(q, m) /\ r = q)
      BY <2>1, PostedRuns
    <3> QED
      BY <2>1, <3>1, Zenon DEF Tidy, Runnable
  <2>3. Runs(IF Awaken(q, m) THEN Ran \cup {q} ELSE Ran)
    BY <2>2 DEF Runs, Ran
  <2> QED
    BY <2>1, <2>3, SignalDeliver, Zenon
<1> QED
  BY <1>1, <1>2, <1>3, <1>4, <1>5 DEF SignalCall

(* Without semaphores nobody is in the middle of their calls.              *)
LEMMA NoSemCall ==
  ASSUME Semaphore = {}, LiveInv, NEW p \in Process
  PROVE  ~SemCall(p) /\ ~SemContinue(p)
<1>1. ~SemCall(p)
  BY Zenon DEF SemCall
<1>2. pc[p] \notin {"obtain", "asleep", "wakeup"}
  BY DEF LiveInv
<1> QED
  BY <1>1, <1>2 DEF SemContinue, sem_obtain_switch, sem_obtain_return, sem_release_wakeup, At

(* Every step of the kernel keeps the invariant, an interrupt that takes   *)
(* the CPU away included.                                                  *)
LEMMA SignalStep ==
  ASSUME Semaphore = {}, TypeOK, SignalInv, MaskInv, [Next]_kernelVars
  PROVE  SignalInv'
<1>1. ASSUME NEW p \in Process, Call(p)
      PROVE  SignalInv'
  BY <1>1, SignalProcCall, NoSemCall, SignalSignal DEF Call, SignalInv
<1>2. ASSUME NEW p \in Process, Continue(p)
      PROVE  SignalInv'
  BY <1>2, SignalProcContinue, SignalNewProcess, NoSemCall, SignalSignal
     DEF Continue, NewProcess, SignalInv
<1>3. CASE Idle
  <2>1. current = NULL /\ UNCHANGED <<zombie, pc, target, wait>> /\ proc_schedule(ready)
    BY <1>3 DEF Idle, proc_schedule_idle, Idling, sigVars
  <2>2. Tidy' /\ \A p \in Process : Runnable(p)' <=> Contains(ready, p)
    BY <2>1, ScheduleRuns DEF SignalInv, Tidy, TypeOK
  <2>3. Runs(Ran)
    BY <2>1, <2>2, ProcAssumption DEF ProcAssumption, Runs, Ran, Runnable
  <2> QED
    BY <2>1, <2>3, SignalCpu
<1>4. CASE timer_isr
  <2>1. IsrExit(ready, proc_decQuantum, TRUE) /\ UNCHANGED <<zombie, pc, target, wait>>
    BY <1>4, Zenon DEF timer_isr, sigVars
  <2>2. ready \in Seq(Process) /\ Distinct(ready) /\ ~Contains(ready, current)
    <3>1. Contains(ready, current) => current \in Process
      BY DEF TypeOK, Contains
    <3> QED
      BY <3>1, Zenon DEF TypeOK, SignalInv, Tidy
  <2>3. Tidy' /\ \A p \in Process : Runnable(p)' <=> current = p \/ Contains(ready, p)
    BY <2>1, <2>2, IsrExitRuns, Zenon
  <2>4. Runs(Ran)
    BY <2>3 DEF Runs, Ran, Runnable
  <2> QED
    BY <2>1, <2>4, SignalCpu
<1>5. ASSUME NEW q \in Process, NEW m \in Mask, NEW t \in BOOLEAN, isr_post(q, m, t)
      PROVE  SignalInv'
  <2>1. PICK n : IsrExit(Posted(q, m), n, t)
    BY <1>5 DEF isr_post
  <2>2. ClearWait(q, m) /\ UNCHANGED <<zombie, pc, target>>
    BY <1>5 DEF isr_post
  <2>3. PICK l : l = Posted(q, m)
    BY Zenon
  <2>4. /\ l \in Seq(Process) /\ Distinct(l) /\ ~Contains(l, current)
        /\ \A r \in Process : Contains(l, r) <=> Contains(ready, r) \/ (Awaken(q, m) /\ r = q)
    BY <2>3, PostedRuns, Zenon
  <2>5. Tidy' /\ \A p \in Process : Runnable(p)' <=> current = p \/ Contains(l, p)
    BY <2>1, <2>3, <2>4, IsrExitRuns, Zenon
  <2>6. Runs(IF Awaken(q, m) THEN Ran \cup {q} ELSE Ran)
    BY <2>4, <2>5 DEF Runs, Ran, Runnable
  <2> QED
    BY <2>2, <2>6, SignalDeliver, Zenon
<1>6. CASE UNCHANGED kernelVars
  <2>1. UNCHANGED <<current, ready, zombie, pc, target, wait>>
    BY <1>6 DEF kernelVars, procVars, sigVars
  <2> QED
    BY <2>1, Zenon DEF SignalInv, Tidy, LiveInv, ReapInv, Runnable, Alive
<1>7. ~bassert
  BY Zenon DEF bassert
<1> QED
  BY <1>1, <1>2, <1>3, <1>4, <1>5, <1>6, <1>7 DEF Next, PostingIsr

(* main() is running, and the processes it has created are ready.          *)
LEMMA SignalStart ==
  ASSUME Init
  PROVE  SignalInv /\ MaskInv
<1> USE DEF Init, ProcInit, StartReady, StartPc, SignalInit
<1>1. \A p \in Process : Alive(p) => Runnable(p)
  <2>1. \A p \in Process : Alive(p) => p = Main \/ p \in Started
    BY DEF Alive, Live
  <2>2. \A p \in Started : Contains(ready, p)
    BY StartedReady
  <2> QED
    BY <2>1, <2>2 DEF Runnable
<1>2. \A p : Contains(ready, p) => p \in Started
  <2>1. ready \in [1..Cardinality(Started) -> Started] /\ ready \in Seq(Process)
    BY TypeInit DEF TypeOK
  <2>2. \A i \in 1..Len(ready) : ready[i] \in Started
    BY <2>1, LenProperties, Zenon
  <2> QED
    BY <2>2 DEF Contains
<1>3. Tidy
  BY <1>2, KernelAssumption DEF KernelAssumption, Tidy
<1>4. LiveInv
  BY <1>1, <1>2, KernelAssumption, ProcAssumption
     DEF KernelAssumption, ProcAssumption, LiveInv, Runnable, Alive, Live
<1>5. ReapInv
  BY DEF ReapInv, Contains, Distinct
<1>6. MaskInv
  BY DEF MaskInv
<1> QED
  BY <1>3, <1>4, <1>5, <1>6 DEF SignalInv

(* The invariant of the kernel without semaphores.                         *)
LEMMA SignalInvariance == Semaphore = {} /\ Spec => [](SignalInv /\ MaskInv)
<1>1. CASE Semaphore = {}
  <2>1. Init => SignalInv /\ MaskInv
    BY SignalStart
  <2>2. SignalInv => AwakeInv
    BY DEF SignalInv, LiveInv, AwakeInv
  <2>3. TypeOK /\ SignalInv /\ MaskInv /\ [Next]_kernelVars => SignalInv' /\ MaskInv'
    BY <1>1, <2>2, SignalStep, MasksStep
  <2> QED
    BY <2>1, <2>3, TypeCorrect, PTL DEF Spec
<1> QED
  BY <1>1

(* The lists of the kernel, when there are no semaphores.                  *)
LEMMA TwoLists ==
  ASSUME Semaphore = {}
  PROVE  /\ DOMAIN ListOf = {"ready", "zombie"}
         /\ ListOf["ready"] = ready /\ ListOf["zombie"] = zombie
  BY DEF ListOf

(* Without semaphores no link is in two lists, nor twice in one, wherever  *)
(* an interrupt takes the CPU away from a process that is in proc_new(),   *)
(* proc_setPri() or sig_post().                                            *)
THEOREM PreemptLinks == Semaphore = {} /\ Spec => []LinkOnce
<1>1. CASE Semaphore = {}
  <2>1. ASSUME TypeOK, SignalInv
        PROVE  LinkOnce
    <3>1. ready \in Seq(Process) /\ zombie \in Seq(Process)
      BY <2>1 DEF TypeOK
    <3>2. \A p \in Process : ~(Contains(ready, p) /\ Contains(zombie, p))
      <4>1. \A p \in Process : Contains(ready, p) => pc[p] \in Live
        BY <2>1, Zenon DEF SignalInv, LiveInv, Runnable, Alive
      <4>2. \A p \in Process : Contains(zombie, p) => pc[p] \notin Live
        BY <2>1 DEF SignalInv, ReapInv, Live
      <4> QED
        BY <4>1, <4>2, Zenon
    <3>3. \A i \in 1..Len(ready), j \in 1..Len(zombie) : ready[i] # zombie[j]
      BY <3>1, <3>2 DEF Contains
    <3>4. DOMAIN ready = 1..Len(ready) /\ DOMAIN zombie = 1..Len(zombie)
      BY <3>1
    <3>5. ~Contains(ready, current)
      <4>1. Contains(ready, current) => current \in Process
        BY <3>1 DEF Contains
      <4> QED
        BY <2>1, <4>1, Zenon DEF SignalInv, Tidy
    <3>6. Distinct(ready) /\ Distinct(zombie)
      BY <2>1 DEF SignalInv, Tidy, ReapInv
    <3>7. ASSUME NEW x \in DOMAIN ListOf, NEW y \in DOMAIN ListOf,
                 NEW i \in DOMAIN ListOf[x], NEW j \in DOMAIN ListOf[y],
                 ListOf[x][i] = ListOf[y][j]
          PROVE  x = y /\ i = j
      <4>1. x \in {"ready", "zombie"} /\ y \in {"ready", "zombie"}
        BY <1>1, <3>7, TwoLists, Zenon
      <4>2. CASE x = "ready" /\ y = "ready"
        BY <1>1, <3>4, <3>6, <3>7, <4>2, TwoLists, Zenon DEF Distinct
      <4>3. CASE x = "zombie" /\ y = "zombie"
        BY <1>1, <3>4, <3>6, <3>7, <4>3, TwoLists, Zenon DEF Distinct
      <4>4. CASE x = "ready" /\ y = "zombie"
        BY <1>1, <3>3, <3>4, <3>7, <4>4, TwoLists, Zenon
      <4>5. CASE x = "zombie" /\ y = "ready"
        BY <1>1, <3>3, <3>4, <3>7, <4>5, TwoLists, Zenon
      <4> QED
        BY <4>1, <4>2, <4>3, <4>4, <4>5, Zenon
    <3> QED
      BY <3>5, <3>7 DEF LinkOnce
  <2> QED
    BY <1>1, <2>1, SignalInvariance, TypeCorrect, PTL
<1> QED
  BY <1>1

(* Without semaphores no live process is forgotten: it runs, is ready, or  *)
(* sleeps with its wait mask set, with or without preemption.              *)
THEOREM PreemptRemembers == Semaphore = {} /\ Spec => []NoneForgotten
<1>1. SignalInv => NoneForgotten
  BY DEF SignalInv, LiveInv, NoneForgotten, Runnable
<1> QED
  BY <1>1, SignalInvariance, PTL

(* Without semaphores no wake-up is lost, with or without preemption:      *)
(* sig_waitSignal() tests what was received and goes to sleep in one       *)
(* stretch with interrupts disabled.                                       *)
THEOREM PreemptWakeups == Semaphore = {} /\ Spec => []NoLostWakeup
<1>1. CASE Semaphore = {}
  <2>1. ASSUME SignalInv, MaskInv
        PROVE  NoLostWakeup
    <3> SUFFICES ASSUME NEW p \in Process, wait[p] # {}
                 PROVE  pc[p] = "sigwait" /\ current # p /\ ~Linked(p)
      BY <2>1 DEF NoLostWakeup, MaskInv
    <3>1. pc[p] = "sigwait" /\ ~Runnable(p)
      BY <2>1 DEF SignalInv, LiveInv
    <3>2. ~Contains(zombie, p)
      BY <2>1, <3>1 DEF SignalInv, ReapInv
    <3>3. ~Linked(p)
      BY <1>1, <3>1, <3>2, TwoLists, Zenon DEF Linked, Runnable
    <3> QED
      BY <3>1, <3>3 DEF Runnable
  <2> QED
    BY <1>1, <2>1, SignalInvariance, PTL
<1> QED
  BY <1>1

(* The return from an interrupt keeps the order of the list it leaves.     *)
LEMMA IsrExitSorted ==
  ASSUME TypeOK, NEW l \in Seq(Process), Sorted(l, pri), NEW n, NEW t, IsrExit(l, n, t)
  PROVE  Sorted(ready', pri)
<1>1. CASE proc_needPreempt(l, n) /\ proc_preempt(l)
  <2>1. current \in Process
    BY <1>1 DEF TypeOK, proc_needPreempt
  <2>2. PICK r : r = SCHED_ENQUEUE(l, current, pri)
    BY Zenon
  <2>3. r \in Seq(Process) /\ Sorted(r, pri)
    BY <2>1, <2>2, EnqueueProperties, EnqueueSorted, Zenon DEF TypeOK
  <2>4. ready' = r \/ (r # <<>> /\ ready' = Tail(r))
    BY <1>1, <2>2, Zenon DEF proc_preempt, proc_schedule
  <2> QED
    BY <2>3, <2>4, TailSorted, Zenon
<1>2. CASE ready' = l
  BY <1>2
<1> QED
  BY <1>1, <1>2 DEF IsrExit

(* Every step keeps the order of the ready list, as long as nobody changes *)
(* the priority of a process that has started.                             *)
LEMMA FixedStep ==
  ASSUME Semaphore = {}, "setPri" \notin Ops, TypeOK, SignalInv, Settled, Sorted(ready, pri),
         [Next]_kernelVars
  PROVE  Settled' /\ Sorted(ready, pri)'
<1> USE DEF Calls, At, Goto
<1>0. ready \in Seq(Process) /\ pri \in [Process -> Int]
  BY DEF TypeOK
<1>1. ASSUME NEW p \in Process, ProcCall(p)
      PROVE  Settled' /\ Sorted(ready, pri)'
  <2>1. CASE proc_yield(p)
    <3>1. Tail(ready) \in Seq(Process) /\ Sorted(Tail(ready), pri)
      BY <1>0, <2>1, TailSorted DEF proc_yield
    <3>2. Sorted(ready', pri)
      BY <2>1, <3>1, SwitchToSorted, Zenon DEF proc_yield
    <3> QED
      BY <2>1, <3>2, Zenon DEF proc_yield, Settled
  <2>2. CASE proc_forbid(p) \/ proc_permit(p)
    BY <2>2, Zenon DEF proc_forbid, proc_permit, Settled
  <2>3. CASE Exits(p) \/ proc_new(p)
    <3>1. \E x : x # "setPri" /\ pc' = [pc EXCEPT ![p] = x]
      BY <2>3, Zenon DEF Exits, proc_exit, proc_new
    <3>2. ready' = ready /\ pri' = pri
      BY <2>3 DEF Exits, proc_exit, proc_new
    <3> QED
      BY <3>1, <3>2, StaysSettled, Zenon
  <2> QED
    BY <1>1, <2>1, <2>2, <2>3 DEF ProcCall
<1>2. ASSUME NEW p \in Process, ProcContinue(p)
      PROVE  Settled' /\ Sorted(ready, pri)'
  <2>1. CASE proc_exit_switch(p)
    <3>1. Sorted(ready', pri)
      BY <2>1, ScheduleSorted, Zenon DEF proc_exit_switch, proc_switch
    <3>2. Settled' /\ pri' = pri
      BY <2>1, StaysSettled, Zenon DEF proc_exit_switch
    <3> QED
      BY <3>1, <3>2, Zenon
  <2>2. CASE proc_freeZombies_remHead(p) \/ proc_freeZombies_free(p) \/ proc_new_fails(p)
    <3>1. zombie # <<>> => Head(zombie) \in Process
      BY DEF TypeOK
    <3>2. \E q \in Process : \E x : x # "setPri" /\ pc' = [pc EXCEPT ![q] = x]
      BY <2>2, <3>1, TargetType, Zenon
         DEF proc_freeZombies_remHead, proc_freeZombies_free, proc_new_fails
    <3>3. ready' = ready /\ pri' = pri
      BY <2>2 DEF proc_freeZombies_remHead, proc_freeZombies_free, proc_new_fails
    <3> QED
      BY <3>2, <3>3, StaysSettled, Zenon
  <2>3. ~proc_setPri_reenqueue(p)
    BY DEF proc_setPri_reenqueue, Settled
  <2> QED
    BY <1>2, <2>1, <2>2, <2>3 DEF ProcContinue
<1>3. ASSUME NEW p \in Process, NEW q \in Process, proc_new_enqueue(p, q)
      PROVE  Settled' /\ Sorted(ready, pri)'
  <2>1. /\ pc[q] = "free" /\ pri' = [pri EXCEPT ![q] = 0]
        /\ ready' = SCHED_ENQUEUE(ready, q, pri') /\ pri' \in [Process -> Int]
    BY <1>0, <1>3, SMTT(30) DEF proc_new_enqueue
  <2>2. ~Contains(ready, q)
    BY <2>1 DEF SignalInv, LiveInv, Alive, Live, Runnable
  <2>3. Sorted(ready, pri')
    BY <1>0, <2>1, <2>2, NewPriority, Zenon
  <2>4. Sorted(ready', pri')
    BY <1>0, <2>1, <2>3, EnqueueSorted, Zenon
  <2>5. Settled'
    BY <1>3, SMTT(30) DEF proc_new_enqueue, TypeOK, Settled
  <2> QED
    BY <2>4, <2>5, Zenon
<1>4. ASSUME NEW p \in Process, SignalCall(p) \/ sig_waitSignal_resume(p)
      PROVE  Settled' /\ Sorted(ready, pri)'
  <2>1. ASSUME NEW m, sig_waitSignal_loop(p, m)
        PROVE  Settled' /\ Sorted(ready, pri)'
    <3>1. pri' = pri /\ \E x : x # "setPri" /\ pc' = [pc EXCEPT ![p] = x]
      BY <2>1, Zenon DEF sig_waitSignal_loop
    <3>2. ready' = ready \/ proc_schedule(ready)
      BY <2>1, Zenon DEF sig_waitSignal_loop, proc_switch
    <3> QED
      BY <3>1, <3>2, ScheduleSorted, StaysSettled, Zenon
  <2>2. ASSUME NEW m, sig_checkSignal(p, m)
        PROVE  Settled' /\ Sorted(ready, pri)'
    BY <2>2, Zenon DEF sig_checkSignal, procVars, Settled
  <2>3. ASSUME NEW m, NEW q \in Process, sig_sendSignal(p, q, m)
        PROVE  Settled' /\ Sorted(ready, pri)'
    <3>1. current \in Process /\ UNCHANGED <<pc, pri>> /\ (ready' = ready \/ proc_wakeup(q))
      BY <2>3 DEF sig_sendSignal
    <3> QED
      BY <3>1, WakeupSorted, Zenon DEF Settled
  <2>4. ASSUME NEW m, NEW q \in Process, sig_postSignal(p, q, m)
        PROVE  Settled' /\ Sorted(ready, pri)'
    BY <2>4, PostedSorted, Zenon DEF sig_postSignal, Settled
  <2> QED
    BY <1>4, <2>1, <2>2, <2>3, <2>4
       DEF SignalCall, sig_waitSignal, sig_waitSignal_resume
<1>5. CASE Idle \/ UNCHANGED kernelVars
  <2>1. UNCHANGED <<pc, pri>> /\ (ready' = ready \/ proc_schedule(ready))
    BY <1>5, Zenon DEF Idle, proc_schedule_idle, kernelVars, procVars
  <2> QED
    BY <2>1, ScheduleSorted, Zenon DEF Settled
<1>6. CASE timer_isr
  <2>1. UNCHANGED <<pc, pri>> /\ IsrExit(ready, proc_decQuantum, TRUE)
    BY <1>6, Zenon DEF timer_isr
  <2>2. Sorted(ready', pri)
    BY <1>0, <2>1, IsrExitSorted, Zenon
  <2> QED
    BY <2>1, <2>2, Zenon DEF Settled
<1>7. ASSUME NEW q \in Process, NEW m \in Mask, NEW t \in BOOLEAN, isr_post(q, m, t)
      PROVE  Settled' /\ Sorted(ready, pri)'
  <2>1. UNCHANGED <<pc, pri>> /\ \E n : IsrExit(Posted(q, m), n, t)
    BY <1>7, Zenon DEF isr_post
  <2>2. Posted(q, m) \in Seq(Process) /\ Sorted(Posted(q, m), pri)
    BY PostedRuns, PostedSorted, Zenon
  <2>3. Sorted(ready', pri)
    BY <2>1, <2>2, IsrExitSorted, Zenon
  <2> QED
    BY <2>1, <2>3, Zenon DEF Settled
<1>8. \A p \in Process : ~SemCall(p) /\ ~SemContinue(p)
  BY NoSemCall, Zenon DEF SignalInv
<1>9. ~bassert
  BY Zenon DEF bassert
<1> QED
  BY <1>1, <1>2, <1>3, <1>4, <1>5, <1>6, <1>7, <1>8, <1>9
     DEF Next, Call, Continue, NewProcess, PostingIsr

(* Without semaphores, and with priorities that are set before the         *)
(* processes start, the ready list is sorted by priority at every moment,  *)
(* also when an interrupt posts signals and preempts a process.            *)
THEOREM PreemptPriorities ==
  Semaphore = {} /\ "setPri" \notin Ops /\ Spec => []ReadySorted
<1>1. CASE Semaphore = {} /\ "setPri" \notin Ops
  <2>1. Init => Settled /\ Sorted(ready, pri)
    BY SortInit
  <2>2. TypeOK /\ SignalInv /\ Settled /\ Sorted(ready, pri) /\ [Next]_kernelVars
          => Settled' /\ Sorted(ready, pri)'
    BY <1>1, FixedStep
  <2>3. TypeOK /\ Settled /\ Sorted(ready, pri) => ReadySorted
    <3>1. TypeOK => DOMAIN ready = 1..Len(ready)
      BY DEF TypeOK
    <3> QED
      BY <3>1, Zenon DEF Sorted, ReadySorted
  <2> QED
    BY <1>1, <2>1, <2>2, <2>3, SignalInvariance, TypeCorrect, PTL DEF Spec
<1> QED
  BY <1>1
===============================================================================
