SPECIFICATION FairSpec
CONSTANTS
  kernel = kernel
  rootfs = rootfs
  app = app
  v1 = v1
  v2 = v2
  v3 = v3
  TornA = TornA
  TornB = TornB
  NoFile = NoFile
  NoId = NoId
  BootNames = {rootfs}
  DataNames = {rootfs}
  SquashNames = {rootfs}
  Versions = {v1, v2}
  BadVersions = {}
  Partitions = FALSE
  WriteErrors = FALSE
  SkipVerification = FALSE
  Exclusive = TRUE
  AllowForce = TRUE
  Packages <- MCPackages
INVARIANTS
  IdSound
PROPERTIES
  UpdateNotLost
  UpdateApplied
