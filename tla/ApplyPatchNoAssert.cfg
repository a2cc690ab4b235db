\* The script asserts nothing.
CONSTANTS
  app = app
  lib = lib
  newlib = newlib
  boot = boot
  conf = conf
  newconf = newconf
  other = other
  radio = radio
  image = image
  recovery = recovery
  N = 7
  Paths <- AllPaths
  Partitions <- Mtd
  Source <- Sources
  Target <- Targets
  Asserted <- Nobody
  PatchIndex <- Second
  MaxStarts = 3
SPECIFICATION Spec
INVARIANT UnassertedSurvive
