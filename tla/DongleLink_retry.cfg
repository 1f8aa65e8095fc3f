SPECIFICATION LinkSpec
CONSTANTS
  MaxRetry = 1
  MaxConns = 3
  MaxOutages = 1
  MaxCar = 3
  MaxWrites = 2
PROPERTIES
  WifiComesBack
CHECK_DEADLOCK FALSE
