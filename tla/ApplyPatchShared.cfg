\* Jobs 4 and 5 share a source.
CONSTANTS
  app = app
  lib = lib
  newlib = newlib
  boot = boot
  conf = conf
  newconf = newconf
  other = other
  radio = radio
  image = image
  recovery = recovery
  N = 7
  Paths <- AllPaths
  Partitions <- Mtd
  Source <- Sources
  Target <- Targets
  Asserted <- Seven
  PatchIndex <- Second
  MaxStarts = 3
SPECIFICATION Spec
INVARIANT SharedSurvive
