SPECIFICATION Spec
CONSTANTS
  MaxSocks = 2
  FrameUnits = 1
  SpawnMayFail = FALSE
  SubscribeWhileConnected = FALSE
INVARIANT ShutdownSurvives
