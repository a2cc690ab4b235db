\* The source's hash is the first of the list.
CONSTANTS
  app = app
  lib = lib
  newlib = newlib
  boot = boot
  conf = conf
  newconf = newconf
  other = other
  radio = radio
  image = image
  recovery = recovery
  N = 7
  Paths <- AllPaths
  Partitions <- Mtd
  Source <- Sources
  Target <- Targets
  Asserted <- Four
  PatchIndex <- First
  MaxStarts = 3
SPECIFICATION FairSpec
PROPERTY RunPatchesFiles
