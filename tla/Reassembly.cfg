SPECIFICATION FairSpec
CONSTANTS
  MaxFrames = 2
  MaxNoise = 5
  Frames <- MCFrames
  NoiseBytes <- MCNoise
INVARIANTS TypeOK KeepsLessThanAFrame IntactFramesArrive CleanStreamArrives
PROPERTIES ImplementsScanner CallbackReturns
CHECK_DEADLOCK FALSE
