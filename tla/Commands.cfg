SPECIFICATION Spec
CONSTANTS
  MaxCalls = 2
  MaxChanges = 1
  Factory <- MCFactory
  Others <- MCOthers
  Ports <- MCPorts
  Octets <- MCOctets
  Words <- MCWords
  Clocks <- MCClocks
INVARIANTS TypeOK InStep
PROPERTY ImplementsControl
CHECK_DEADLOCK FALSE
