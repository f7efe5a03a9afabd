CONSTANTS
  s1 = s1
  s2 = s2
  k1 = k1
  k2 = k2
  NoMatch = NoMatch
  NoFunction = NoFunction
  Selector = {s1, s2}
  Payable = {}
  ValLen = 2
  MaxOps = 3
  Slot = {k1, k2}
  SlotWidth <- MCSlotWidth
  WordLen = 2
  ByteVal = {0, 1}
  StrLen = 1
SPECIFICATION Spec
INVARIANTS
  DispatchCorrect
