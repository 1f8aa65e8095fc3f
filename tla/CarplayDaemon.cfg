CONSTANTS
  Messages <- MCMessages
  Capacity = 4
  MaxPackets = 3
  MaxNoise = 1
  MaxConnections = 2
SPECIFICATION DaemonSpec
PROPERTIES
  SessionSound
  ImplementsFifo
  SignalInCallEnds
CHECK_DEADLOCK FALSE
