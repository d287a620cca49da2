\* The preemptive kernel: signals, forbidden sections, interrupts that post,
\* processes that come and go and change each other's priorities.
SPECIFICATION Spec
CONSTANTS
  NULL = NULL
  Main = p1
  Process = {p1, p2, p3}
  Started = {p2}
  Semaphore = {}
  SigBits = {a}
  Pris = {0, 1}
  PREEMPT = TRUE
  PRI = TRUE
  QUANTUM = 1
  MaxForbid = 1
  MaxNest = 1
  Ops = {"yield", "forbid", "setPri", "exit", "new", "wait", "check", "send", "post", "isr"}
INVARIANTS TypeOK LinkOnce NoneForgotten NoLostWakeup
