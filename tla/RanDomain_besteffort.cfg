SPECIFICATION Spec
CONSTANTS
  i1 = i1
  i2 = i2
  Intents <- MCIntents
  SliceOf <- MCSliceOf
  Nothing = Nothing
  None = None
  Malformed = Malformed
  Unreserved = Unreserved
  Unknown = Unknown
  MaxRate = 10000
  GuardrailsEnabled = TRUE
  IsReal = TRUE
  PrbTotal = 51
  MbpsPerPrb = 4
  Throughputs = {100, 200}
  Usage = {0}
  MaxPuts = 2
  MaxCalls = 2
  MaxDirectives = 3
  MaxFaults = 0
CHECK_DEADLOCK FALSE
INVARIANT AdmittedIsEnforceable
