SPECIFICATION OrchestratorSpec
CONSTANTS
  Intents = {i1}
  Requests = {r1}
  Scheduler = sched
  Callers = {sched, r1}
  NoCaller = NoCaller
  NoIntent = NoIntent
  Habits = {"slow"}
  MaxFaults = 0
PROPERTY FailedOnlyByADirective
