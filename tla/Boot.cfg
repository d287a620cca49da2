SPECIFICATION BootSpec
CONSTANTS
  Files = {2, 3, 4}
  Accepted = {3, 4}
  Packet = 3
  Buffer = 2
  MaxFaults = 2
  Sector = 2
  Erased = Erased
  Garbage = Garbage
INVARIANTS RunsWholeFirmware PagesInPlace
PROPERTIES BoardStarts
CHECK_DEADLOCK FALSE
