\* Two events that are waited for together, and one that is waited for alone.
SPECIFICATION FairSpec
CONSTANTS
  NEvents = 3
  Firing = {0, 1, 2}
  Waited = {2}
  Lengths = {1, 2}
  Ops = {"wait", "waitTimeout", "select", "selectTimeout", "delay"}
INVARIANTS OnlyWhatHappened StackTimer NoStaleTimeout NoLostWakeup
PROPERTIES TimeoutEnds
