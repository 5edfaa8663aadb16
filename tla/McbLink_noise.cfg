SPECIFICATION Spec
CONSTANTS
  Cmds <- MCCmds
  Payloads <- MCPayloads
  NoiseBytes <- MCNoise
INVARIANTS ParseStaysInside DamageIsDetected KnownFramesArrive
