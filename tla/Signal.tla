-------------------------------- MODULE Signal --------------------------------
(***************************************************************************)
(* The signals of bertos/kern/signal.c: a mask of received signals and a   *)
(* mask of awaited ones in every process.  A mask is a set of signals.     *)
(***************************************************************************)
EXTENDS Proc

CONSTANTS SigBits   \* the signal bits the processes use

Mask == (SUBSET SigBits) \ {{}}

VARIABLES
  recv,   \* recv[p]: p->sig.recv
  wait,   \* wait[p]: p->sig.wait
  sigs    \* sigs[p]: the argument of the sig_wait() p is in

sigVars == <<recv, wait, sigs>>

SignalInit ==
  /\ recv = [p \in Process |-> {}]
  /\ wait = [p \in Process |-> {}]
  /\ sigs = [p \in Process |-> {}]

SignalReset ==
  /\ recv' = [p \in Process |-> {}]
  /\ wait' = [p \in Process |-> {}]
  /\ sigs' = [p \in Process |-> {}]

(* mutant: the wait mask is set without testing what has been received *)
sig_waitSignal_loop_mutant(p, m) ==
  /\ IF pc[p] = "sigwait"
     THEN /\ recv' = [recv EXCEPT ![p] = @ \ m]
          /\ sigs' = [sigs EXCEPT ![p] = {}]
          /\ Goto(p, "user")
          /\ UNCHANGED <<wait, current, ready, quantum>>
     ELSE /\ wait' = [wait EXCEPT ![p] = m]
          /\ sigs' = [sigs EXCEPT ![p] = m]
          /\ Goto(p, "sigwait")
          /\ proc_switch
          /\ UNCHANGED recv
  /\ UNCHANGED <<pri, preempt, zombie, target>>

(* The loop of sig_waitSignal(), entered and resumed with interrupts       *)
(* disabled: take the signals that are there, or set the wait mask and     *)
(* switch to another process.                                              *)
sig_waitSignal_loop(p, m) ==
  /\ IF recv[p] \cap m # {}
     THEN /\ recv' = [recv EXCEPT ![p] = @ \ m]
          /\ sigs' = [sigs EXCEPT ![p] = {}]
          /\ Goto(p, "user")
          /\ UNCHANGED <<wait, current, ready, quantum>>
     ELSE /\ wait' = [wait EXCEPT ![p] = m]
          /\ sigs' = [sigs EXCEPT ![p] = m]
          /\ Goto(p, "sigwait")
          /\ proc_switch
          /\ UNCHANGED recv
  /\ UNCHANGED <<pri, preempt, zombie, target>>

sig_waitSignal(p, m) ==
  /\ Calls(p)
  /\ proc_preemptAllowed
  /\ sig_waitSignal_loop(p, m)

sig_waitSignal_resume(p) ==
  /\ At(p, "sigwait")
  /\ sig_waitSignal_loop(p, sigs[p])

sig_checkSignal(p, m) ==
  /\ Calls(p)
  /\ recv[p] \cap m # {}
  /\ recv' = [recv EXCEPT ![p] = @ \ m]
  /\ UNCHANGED <<wait, sigs>>
  /\ UNCHANGED procVars

(* __sig_signal() with the signals m for q, up to the wake-up. *)
Deliver(q, m) == recv' = [recv EXCEPT ![q] = @ \cup m]

Awaken(q, m) == (recv[q] \cup m) \cap wait[q] # {}

(* mutant: the wait mask survives the wake-up *)
ClearWait_mutant(q, m) == UNCHANGED wait

ClearWait(q, m) == wait' = [wait EXCEPT ![q] = IF Awaken(q, m) THEN {} ELSE @]

sig_sendSignal(p, q, m) ==
  /\ Calls(p)
  /\ proc_preemptAllowed
  /\ Alive(q)
  /\ Deliver(q, m)
  /\ ClearWait(q, m)
  /\ IF Awaken(q, m) THEN proc_wakeup(q) ELSE UNCHANGED <<current, ready, quantum>>
  /\ UNCHANGED <<sigs, pri, preempt, zombie, pc, target>>

(* mutant: the process is awoken but not made ready *)
Posted_mutant(q, m) == ready

(* The ready list that sig_postSignal() leaves. *)
Posted(q, m) == IF Awaken(q, m) THEN SCHED_ENQUEUE_HEAD(ready, q, pri) ELSE ready

sig_postSignal(p, q, m) ==
  /\ Calls(p)
  /\ Alive(q)
  /\ Deliver(q, m)
  /\ ClearWait(q, m)
  /\ ready' = Posted(q, m)
  /\ UNCHANGED <<current, quantum, sigs, pri, preempt, zombie, pc, target>>

(* proc_initStruct() clears the masks of a new process. *)
ClearSignals(p) ==
  /\ recv' = [recv EXCEPT ![p] = {}]
  /\ wait' = [wait EXCEPT ![p] = {}]
  /\ UNCHANGED sigs
===============================================================================
