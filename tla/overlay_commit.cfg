SPECIFICATION Spec
CONSTANTS
  ShippedSize = 1
  DiskSize = 2
  MaxEdits = 1
  SecureBoot = FALSE
  SecureOrder <- MCNoSecure
  DualBoot = TRUE
  MaxFaults = 2
INVARIANTS
  CommitPersists
