-------------------------------- MODULE Preempt --------------------------------
(***************************************************************************)
(* The preemption counter of bertos/kern/proc.h, one memory access at a    *)
(* time.  proc_forbid() and proc_permit() change preempt_count with a      *)
(* plain read and a plain write, with interrupts enabled: between the two, *)
(* the timer interrupt can give the CPU to another process that changes    *)
(* the counter as well.  A long comment in proc_forbid() argues that this  *)
(* is harmless; the invariants here are that argument.                     *)
(***************************************************************************)
EXTENDS Integers

CONSTANTS
  Process,   \* the processes
  MaxDepth   \* bound: nesting of proc_forbid() in one process

ASSUME PreemptAssumption == Process # {} /\ MaxDepth \in Nat

VARIABLES
  current,   \* current_process
  count,     \* preempt_count
  step,      \* step[p]: "run", or the access after which p writes the counter
  reg,       \* reg[p]: the register p has read preempt_count into
  depth      \* history: the proc_forbid() of p that p has not permitted yet

countVars == <<current, count, step, reg, depth>>

CountInit ==
  /\ current \in Process
  /\ count = 0
  /\ step = [p \in Process |-> "run"]
  /\ reg = [p \in Process |-> 0]
  /\ depth = [p \in Process |-> 0]

ReadCount(p, next) ==
  /\ current = p
  /\ step[p] = "run"
  /\ reg' = [reg EXCEPT ![p] = count]
  /\ step' = [step EXCEPT ![p] = next]
  /\ UNCHANGED <<current, count, depth>>

WriteCount(p, label, n) ==
  /\ current = p
  /\ step[p] = label
  /\ count' = reg[p] + n
  /\ depth' = [depth EXCEPT ![p] = @ + n]
  /\ step' = [step EXCEPT ![p] = "run"]
  /\ UNCHANGED <<current, reg>>

proc_forbid_read(p) == depth[p] < MaxDepth /\ ReadCount(p, "forbid")

proc_forbid_write(p) == WriteCount(p, "forbid", 1)

(* proc_permit() matches a proc_forbid() of the same process. *)
proc_permit_read(p) == depth[p] > 0 /\ ReadCount(p, "permit")

proc_permit_write(p) == WriteCount(p, "permit", -1)

(* mutant: the CPU is taken from a process in its outermost section *)
proc_preemptAllowed_mutant == count <= 1

proc_preemptAllowed == count = 0

(* The CPU goes to another process, in proc_preempt() or because current   *)
(* calls proc_switch() or proc_yield(): never unless preemption is allowed.*)
context_switch(q) ==
  /\ proc_preemptAllowed
  /\ q # current
  /\ current' = q
  /\ UNCHANGED <<count, step, reg, depth>>

CountNext ==
  \E p \in Process :
    \/ proc_forbid_read(p)
    \/ proc_forbid_write(p)
    \/ proc_permit_read(p)
    \/ proc_permit_write(p)
    \/ context_switch(p)

CountSpec == CountInit /\ [][CountNext]_countVars
-----------------------------------------------------------------------------
CountTypes ==
  /\ current \in Process
  /\ count \in Nat
  /\ step \in [Process -> {"run", "forbid", "permit"}]
  /\ reg \in [Process -> Nat]
  /\ depth \in [Process -> Nat]

(* The counter is exact: it is the number of open proc_forbid() calls of   *)
(* the running process, and no other process has any.  So a section        *)
(* between proc_forbid() and proc_permit() runs alone, and preemption is   *)
(* allowed again exactly when the last section is closed.                  *)
CountExact ==
  /\ count = depth[current]
  /\ \A p \in Process : p # current => depth[p] = 0

(* "What we had originally read from memory happens to be valid": what the *)
(* running process has read is what is in memory when it writes it back.   *)
ReadStillValid == step[current] # "run" => reg[current] = count

(* The inductive form: a process that lost the CPU after reading was       *)
(* about to forbid preemption, and it had read 0.                          *)
CountInv ==
  /\ CountTypes
  /\ CountExact
  /\ ReadStillValid
  /\ step[current] = "permit" => count > 0
  /\ \A p \in Process : p # current =>
       /\ step[p] \in {"run", "forbid"}
       /\ step[p] = "forbid" => reg[p] = 0
===============================================================================
