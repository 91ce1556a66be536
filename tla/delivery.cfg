CONSTANTS
  Bits = {"E", "F", "H", "I", "N", "Z", "V", "C"}
  MemSize = 5
  NRegs = 1
  Dp = 1
  Code <- MCCode
  Software = {}
  Vec <- MCVec
  Lines = {"irq", "firq"}
  Guest <- MCGuest
  Main <- MCMain
  Handler <- MCHandler
  Reloads = {3}
  Chars <- MCChars
  RxMax = 2
  MaxHold = 1
  MaxPeriod = 255
  MaxFed = 3
SPECIFICATION Spec
INVARIANTS TypeOK EchoInOrder
PROPERTIES AllEchoed MainGoesOn ExpiryServed SpuriousOnce
