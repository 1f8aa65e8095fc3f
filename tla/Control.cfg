SPECIFICATION MCSpec
CONSTANTS
  Scripts <- MCScripts
  Torn = {"remote"}
  MaxClients = 2
  MaxRestarts = 1
  MaxLives = 2
  MaxLinks = 3
INVARIANTS
  ClientsServed
  ForcedUnlessOverruled
PROPERTIES
  ModesNeverGoBack
