SPECIFICATION OrchestratorSpec
CONSTANTS
  Intents = {i1}
  Requests = {r1}
  Scheduler = sched
  Callers = {sched, r1}
  NoCaller = NoCaller
  NoIntent = NoIntent
  Habits = {"early", "claims", "gives up", "impatient", "reverts", "slow", "raises", "restarts"}
  MaxFaults = 1
INVARIANTS
  OrchestratorTypeOK
  NotBeforeWindow
PROPERTY SchedulerOwnsScheduled
