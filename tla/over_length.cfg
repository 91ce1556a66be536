SPECIFICATION ListingSpec
CONSTANTS
  Programs <- CallingThroughTable
  Windows <- SomeWindows
PROPERTY
  CallsReturnBelow
CHECK_DEADLOCK FALSE
