CONSTANTS
  Pages = 2
  PageSize = 16
  Frames = 2
  Tasks = 2
  Words = 65536
  WindowBase = 20
  Script <- MCScript
  ConsoleBase = 16
  Codes = {1, 18}
  Operands = {2, 16, 22, 25}
  Stored = {7}
  Configs <- MCConfigs
  Images <- MCImages
  MaxSetup = 1
  Watches <- MCWatches
  Attachments <- MCAttachments
  MaxStep = 3
SPECIFICATION Spec
INVARIANTS TypeOK Noticed
PROPERTIES SparesMemory ActionsLand FramesProtected StatusTells
CHECK_DEADLOCK FALSE
