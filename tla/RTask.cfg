\* Two one-shot timers and a periodic one; the counter wraps every 16 ticks.
SPECIFICATION RTaskSpec
CONSTANTS
  Timers = {t1, t2, t3}
  Periodic = {t3}
  W = 4
  Delays = {3, 4}
  MaxLate = 1
INVARIANTS QueueSorted OnTime TakesDueTask
PROPERTIES AllExpire
