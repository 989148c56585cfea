\* A caller and a helper share requests, another caller is killed and its requests
\* shared, and the first unwinds: two threads take requests back.
SPECIFICATION FairSpec
CONSTANTS
  c = c  d = d  h = h
  Callers = {c, d}
  Helpers = {h}
  NoThread = NoThread
  NumPriorities = 3
  Priority <- MCPriority
  Asks <- MCAsks
  Comparable = {"read", "log"}
  MaxRequests = 2
  Mortal <- MCMortal
  Unwinding <- MCUnwinding
  Stale = {d}
INVARIANTS TypeOK QueuedAreCounted NoUseAfterFree
PROPERTIES ImplementsService CallsReturn
CHECK_DEADLOCK FALSE
