CONSTANTS
  ValLen = 2
  ByteVal = {0, 1}
  AddrLen = 2
  Len64 = 1
  Len160 = 1
  StrLen = 1
  Header = 1
  MaxOps = 3
SPECIFICATION Spec
INVARIANT RecoverDigestOrder
