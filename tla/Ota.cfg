SPECIFICATION Spec
CONSTANTS
  Releases <- MCReleases
  MaxFailures = 2
  MaxUploads = 1
INVARIANTS
  BootsWholeImage
PROPERTIES
  UpdatesForward
  UpdateArrives
