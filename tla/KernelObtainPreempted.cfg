\* sem_obtain() interrupted by the timer.
SPECIFICATION Spec
CONSTANTS
  NULL = NULL
  Main = p1
  Process = {p1, p2, p3}
  Started = {p2, p3}
  Semaphore = {s1}
  SigBits = {a}
  Pris = {0}
  PREEMPT = TRUE
  PRI = FALSE
  QUANTUM = 1
  MaxForbid = 0
  MaxNest = 1
  Ops = {}
INVARIANTS WakesOnlyByRelease
