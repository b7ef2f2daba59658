SPECIFICATION OrchestratorSpec
CONSTANTS
  Intents = {i1}
  Requests = {r1, r2}
  Scheduler = sched
  Callers = {sched, r1, r2}
  NoCaller = NoCaller
  NoIntent = NoIntent
  Habits = {"events", "repeats"}
  MaxFaults = 0
SYMMETRY RequestSymmetry
INVARIANTS
  OwnershipInv
  NothingUntracked
