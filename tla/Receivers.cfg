SPECIFICATION FairSysSpec
CONSTANTS
  MaxSocks = 2
  FrameUnits = 1
  SpawnMayFail = FALSE
  SubscribeWhileConnected = FALSE
  mcb = mcb
  keyboard = keyboard
  Nobody = Nobody
  Listeners <- MCListeners
INVARIANTS SysTypeOK NobodyMisled LastIsServed CallbackNeverTorn
PROPERTIES ImplementsSession CallsReturn LossIsNoticed
