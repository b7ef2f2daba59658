SPECIFICATION FairSpec
CONSTANTS
  i1 = i1
  i2 = i2
  Intents <- MCIntents
  SliceOf <- MCSliceOf
  Nothing = Nothing
  None = None
  Malformed = Malformed
  Unreserved = Unreserved
  Unknown = Unknown
  MaxRate = 14
  GuardrailsEnabled = TRUE
  IsReal = TRUE
  PrbTotal = 6
  MbpsPerPrb = 2
  Throughputs = {5, 7, 13, 15}
  Usage = {0, 1}
  MaxPuts = 2
  MaxCalls = 2
  MaxDirectives = 3
  MaxFaults = 1
CHECK_DEADLOCK FALSE
INVARIANTS
  RanTypeOK
  ReservationsFit
  AdmittedUpToRounding
  SlicerKnowsTheGnb
  GnbHoldsTheTable
  PushInv
PROPERTIES
  KeepsTheContract
  RestoredOnRevert
  DirectivesEnd
