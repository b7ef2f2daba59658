SPECIFICATION FairSpec
CONSTANTS
  Intents = {i1, i2}
  Nothing = Nothing
  None = None
  Malformed = Malformed
  MaxRate = 2
  GuardrailsEnabled = TRUE
  IsReal = TRUE
  UpfShaping = TRUE
  Recorded <- MCRecorded
  Targets <- MCTargets
  Settings <- MCSettings
  Amendments <- MCAmendments
  MaxCalls = 3
  MaxDirectives = 3
  MaxFaults = 1
INVARIANTS
  CoreTypeOK
  UpfHoldsAnActivePolicy
  EnforcingInv
PROPERTIES
  KeepsTheContract
  AppliedHoldsTarget
  RestoredOnRevert
  RecordedOnlyWhatIsInForce
  ReportsChangeNothing
  DirectivesEnd
CHECK_DEADLOCK FALSE
