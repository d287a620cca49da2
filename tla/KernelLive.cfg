\* Cooperative processes that share a semaphore and release it.
SPECIFICATION CoopSpec
CONSTANTS
  NULL = NULL
  Main = p1
  Process = {p1, p2, p3, p4}
  Started = {p2, p3, p4}
  Semaphore = {s1}
  SigBits = {a}
  Pris = {0}
  PREEMPT = FALSE
  PRI = FALSE
  QUANTUM = 0
  MaxForbid = 0
  MaxNest = 1
  Ops = {"yield", "attempt"}
PROPERTIES SemaphoreGranted ReadyRuns
