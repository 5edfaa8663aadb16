SPECIFICATION Spec
CONSTANTS
  rs232 = rs232
  rs485 = rs485
  Objects <- Ports
  MaxDescriptors = 3
INVARIANTS TypeOK ConnectedIsConfigured HoldsItsOwn ForgottenOnlyByRetry
