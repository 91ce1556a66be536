CONSTANTS
  Bits <- MCBits
  MemSize = 9
  NRegs = 1
  Dp = 1
  Code <- MCCode
  Software = {"swi"}
  Vec <- MCVec
  Lines = {"irq"}
  Data <- MCData
  Masks <- MCMasks
  Lists <- MCLists
  Stacks = {8}
  Blocks <- MCBlocks
  Top = 8
SPECIFICATION Spec
INVARIANTS TypeOK ShadowIsCallStack SavedIntact
PROPERTIES ReturnsToCaller ImplementsCallStack
