\* Seven jobs, six starts of the script; job 4 is that of line 591, job 5 shares
\* its source, and the last three may fail.
CONSTANTS
  app = app
  lib = lib
  newlib = newlib
  boot = boot
  conf = conf
  newconf = newconf
  other = other
  radio = radio
  image = image
  recovery = recovery
  N = 7
  Paths <- AllPaths
  Partitions <- Mtd
  Source <- Sources
  Target <- Targets
  Asserted <- Four
  PatchIndex <- Second
  MaxStarts = 6
SPECIFICATION FairSpec
INVARIANTS TypeOK NothingLost DoneIsPatched
PROPERTIES LostOnlyOnResume RunPatchesFiles
