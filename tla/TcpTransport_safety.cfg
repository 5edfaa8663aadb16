SPECIFICATION Spec
CONSTANTS
  MaxSocks = 3
  FrameUnits = 2
  SpawnMayFail = TRUE
  SubscribeWhileConnected = TRUE
INVARIANTS TypeOK ConnectedIsLive ReaderOwnsItsSocket ClosedExactlyOnce DestroyedClean
