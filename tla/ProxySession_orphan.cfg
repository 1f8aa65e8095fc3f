SPECIFICATION Spec
CONSTANTS
  MaxSessions = 2
  MaxRestarts = 0
  MaxCrashes = 0
  Cap = 1
PROPERTIES
  CompositorReachesCar
