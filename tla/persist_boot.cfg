SPECIFICATION FairSpec
CONSTANTS
  ShippedSize = 1
  DiskSize = 2
  MaxEdits = 1
  SecureBoot = TRUE
  SecureOrder <- MCSecure
  DualBoot = TRUE
  MaxFaults = 3
INVARIANTS
  TypeOK
  KeysKept
  WritableRootEnds
  SecureStart
PROPERTIES
  Settles
