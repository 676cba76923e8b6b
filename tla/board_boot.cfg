SPECIFICATION Spec
CONSTANTS
  MaxFaults = 2
  Strappings <- MCStrappings
INVARIANTS
  TypeOK
  MemoryAsConfigured
  SupplyBeforeLoadIfPmic
  HangHasCause
  DetectedShipped
  StrapsTold
  ConsoleAgrees
  EthernetClocks
  NoGigabit
  UsbReady
CHECK_DEADLOCK FALSE
