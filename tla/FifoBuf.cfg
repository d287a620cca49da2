\* A buffer of four bytes and two characters.
SPECIFICATION Spec
CONSTANTS
  Char = {x, y}
  End = 3
INVARIANTS IInv
PROPERTIES ImplementsQueue
