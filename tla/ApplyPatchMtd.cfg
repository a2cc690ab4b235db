\* The partition's turn is interrupted.
CONSTANTS
  app = app
  lib = lib
  newlib = newlib
  boot = boot
  conf = conf
  newconf = newconf
  other = other
  radio = radio
  image = image
  recovery = recovery
  N = 7
  Paths <- AllPaths
  Partitions <- Mtd
  Source <- Sources
  Target <- Targets
  Asserted <- Four
  PatchIndex <- Second
  MaxStarts = 3
SPECIFICATION Spec
INVARIANT PartitionsSurvive
