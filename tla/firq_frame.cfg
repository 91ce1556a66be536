CONSTANTS
  Bits <- MCBits
  MemSize = 9
  NRegs = 1
  Dp = 1
  Code <- MCCode
  Software = {}
  Vec <- MCVec
  Lines = {"firq", "irq"}
  Data <- MCData
  Masks <- MCOpenMasks
  Lists <- MCLists
  Stacks = {8}
  Blocks <- MCBlocks
  Top = 8
SPECIFICATION Spec
PROPERTIES ReturnsToCaller
