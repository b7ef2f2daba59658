SPECIFICATION OrchestratorSpec
CONSTANTS
  Intents = {i1}
  Requests = {r1, r2}
  Scheduler = sched
  Callers = {sched, r1, r2}
  NoCaller = NoCaller
  NoIntent = NoIntent
  Habits = {"repeats", "slow"}
  MaxFaults = 0
INVARIANT ReversionIsCorrect
