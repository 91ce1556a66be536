CONSTANTS
  Bits <- MCBits
  MemSize = 5
  NRegs = 1
  Dp = 1
  Code <- MCCode
  Software = {"swi2"}
  Vec <- MCVec
  Lines = {"nmi", "firq", "irq"}
  Data <- MCData
  Masks <- MCMasks
  Lists <- MCLists
  Stacks = {4}
  Blocks <- MCBlocks
  MaxSteps = 3
SPECIFICATION Spec
INVARIANTS TypeOK WholeEntryResumes FastEntryResumes
PROPERTIES StepLeavesNoneWaiting LatchedUntilServed
