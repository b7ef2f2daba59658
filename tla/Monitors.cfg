SPECIFICATION FairSpec
CONSTANTS
  MCNewestIntent = 1
  Intents <- MCIntents
  None = None
  Nothing = Nothing
  Predictions = {15}
  Targets = {None, 10}
  Levels = {5, 10}
  NLags = 2
  MinTrainingRows = 1
  HistoryLimit = 4
  MaxStaleness = 1
  Horizon = 2
  DefaultInterval = 1
  Uc1Cooldown = 2
  Asks = {10}
  MaxEvents = 2
  Streak = 2
  SlaCooldown = 2
  SlaMaxAge = 0
  Deployments <- MCDeployments
CHECK_DEADLOCK FALSE
INVARIANTS
  MonitorsTypeOK
  OneEventPerCooldown
PROPERTIES
  ExhaustionIsReported
  ReportsAreForecasts
  EventsSettle
  BreachIsReported
