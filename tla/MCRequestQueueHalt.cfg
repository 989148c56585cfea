\* One thread is killed in its call: halt keeps the mutex the worker needs to stop.
SPECIFICATION FairSpec
CONSTANTS
  c = c  d = d  h = h
  Callers = {d}
  Helpers = {}
  NoThread = NoThread
  NumPriorities = 3
  Priority <- MCPriority
  Asks <- MCMortal
  Comparable = {"read", "log"}
  MaxRequests = 2
  Mortal <- MCMortal
  Unwinding = {}
  Stale = {}
PROPERTIES HaltReturns
CHECK_DEADLOCK FALSE
