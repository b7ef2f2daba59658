SPECIFICATION Spec
CONSTANTS
  Threads = {t1, t2}
  Agents <- MCAgents
CHECK_DEADLOCK FALSE
INVARIANT DiscoveredHasRoutes
