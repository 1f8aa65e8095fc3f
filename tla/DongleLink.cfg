SPECIFICATION LinkSpec
CONSTANTS
  MaxRetry = 1
  MaxConns = 3
  MaxOutages = 1
  MaxCar = 3
  MaxWrites = 2
INVARIANTS
  PipeInOrder
  FlagSettles
PROPERTIES
  TunnelComesBack
CHECK_DEADLOCK FALSE
