SPECIFICATION ListingSpec
CONSTANTS
  Programs <- SomePrograms
  Windows <- SomeWindows
INVARIANTS
  NotStale
  WindowRight
PROPERTY
  ListedAsExecuted
CHECK_DEADLOCK FALSE
