CONSTANTS
  k1 = k1
  k2 = k2
  Slot = {k1, k2}
  SlotWidth <- MCSlotWidth
  WordLen = 3
  ByteVal = {0, 1}
  StrLen = 1
SPECIFICATION StorageSpec
INVARIANTS
  StorageTypeOK
  HighBytesZero
PROPERTIES
  AbstractStorage
