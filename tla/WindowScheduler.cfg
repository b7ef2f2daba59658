SPECIFICATION FairSpec
CONSTANTS
  Intents = {i1, i2}
  Scheduler = sched
  Callers = {sched}
  NoCaller = NoCaller
  NoIntent = NoIntent
  MaxFaults = 2
INVARIANTS
  TypeOK
  NotBeforeWindow
  InForceInBothDomains
  NoLateApply
  RevertedMeansReleased
  IInv
PROPERTIES
  KeepsTheGuarantee
  ActivationIsDecided
  NothingLeftBehind
