SPECIFICATION Spec
CONSTANTS
  MaxCalls = 2
  MaxSessions = 1
  MaxTakes = 3
  Bodies <- FirmwareBodies
  Command <- ReadFirmware
INVARIANT ReplyIsGenuine
CHECK_DEADLOCK FALSE
