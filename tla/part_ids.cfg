SPECIFICATION Spec
CONSTANTS
  kernel = kernel
  rootfs = rootfs
  app = app
  v1 = v1
  v2 = v2
  v3 = v3
  TornA = TornA
  TornB = TornB
  NoFile = NoFile
  NoId = NoId
  BootNames = {kernel}
  DataNames = {app}
  SquashNames = {app}
  Versions = {v1, v2}
  BadVersions = {}
  Partitions = TRUE
  WriteErrors = FALSE
  SkipVerification = FALSE
  Exclusive = TRUE
  AllowForce = FALSE
  Packages <- MCPackages
INVARIANTS
  IdSound
