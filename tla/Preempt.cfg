\* Three processes that nest proc_forbid() twice.
SPECIFICATION CountSpec
CONSTANTS
  Process = {p1, p2, p3}
  MaxDepth = 2
INVARIANTS CountExact ReadStillValid CountInv
