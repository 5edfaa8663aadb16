SPECIFICATION Spec
CONSTANTS
  MaxCalls = 2
  MaxSessions = 1
  MaxTakes = 1
  Bodies <- FirmwareBodies
  Command <- ReadFirmware
INVARIANT AnswerIsOwn
CHECK_DEADLOCK FALSE
