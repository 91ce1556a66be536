CONSTANTS
  Size = 4
  Programs <- MCPrograms
  Interrupts = {"nmi"}
  Handler <- MCHandler
  Limits = {0, 3}
  Ignores = {1}
  Places = {2, 3}
  MaxBps = 2
  MaxHits = 1
  MaxDepth = 1
SPECIFICATION Spec
INVARIANTS TypeOK CallerWaits NeverRunsPast
PROPERTIES CountersFollowStops Terminates
