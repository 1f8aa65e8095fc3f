\* Statements of headers and comments that the daemon does not keep; one at a time.
SPECIFICATION DaemonSpec
CONSTANTS
  Messages <- MCMessages
  Capacity = 4
  MaxPackets = 3
  MaxNoise = 1
  MaxConnections = 2
INVARIANTS
  StoppedAlwaysTold
\*  CarplayAfterAuth
\* PROPERTIES
\*  CallerSeesSignal
\*  SignalEnds
CHECK_DEADLOCK FALSE
