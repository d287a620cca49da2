\* The cooperative kernel with everything but interrupts that post: processes
\* that come and go, priorities that change, a semaphore and signals.
SPECIFICATION Spec
CONSTANTS
  NULL = NULL
  Main = p1
  Process = {p1, p2, p3}
  Started = {p2, p3}
  Semaphore = {s1}
  SigBits = {a}
  Pris = {0, 1}
  PREEMPT = FALSE
  PRI = TRUE
  QUANTUM = 0
  MaxForbid = 0
  MaxNest = 2
  Ops = {"yield", "attempt", "setPri", "exit", "new", "wait", "check", "send", "post"}
INVARIANTS NoneForgotten NoLostWakeup ReadySorted MutualExclusion CoopInv
PROPERTIES ImplementsLock
