SPECIFICATION Spec
CONSTANTS
  MaxCalls = 2
  MaxSessions = 2
  MaxTakes = 1
  Bodies <- ServiceBodies
  Command <- ReadFirmware
INVARIANT TypeOK
PROPERTIES ImplementsService EveryCallEnds
CHECK_DEADLOCK FALSE
