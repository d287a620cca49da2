\* One configuration variable and one unknown key; the counter wraps every
\* 4 calls.
SPECIFICATION ConfigSpec
CONSTANTS
  Keys = {k1, k2}
  Texts = {1, 5, w}
  Missing = Missing
  Torn = Torn
  Half = 2
  Known = {k1}
  Words = {w}
  Min = 0
  Max = 2
  Default = 0
INVARIANTS Recoverable
PROPERTIES StartsAsItRan
