SPECIFICATION Spec
CONSTANTS
  Cmds <- MCCmds
  Payloads <- MCPayloads
  NoiseBytes <- MCNoise
INVARIANT WholeFrameReceived
