CONSTANTS
  SectorSize = 2
  Bytes = {0, 1}
  Radix = 2
  Digits = 2
  MaxCount = 2
  MaxHold = 1
  Resets = TRUE
  Images <- MCImages
  MaxJobs = 2
SPECIFICATION Spec
INVARIANTS TypeOK ReadDelivers WriteLands
PROPERTIES LineFalls ImplementsDisk
