SPECIFICATION Spec
CONSTANTS
  Situations <- MCSituations
  MaxBoots = 3
  MaxRetries = 1
  MaxFaults = 1
INVARIANTS
  TypeOK
  OneHalf
  DecisionSaved
  SavedClean
  SecureFromFit
  PxeDisabledHonoured
  ConfOfBoard
  PromptHasCause
PROPERTIES
  DecisionIsMmcargs
CHECK_DEADLOCK FALSE
