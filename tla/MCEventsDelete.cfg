\* A guard ends when its event is in the queue.
SPECIFICATION Spec
CONSTANTS
  Signals = {"int"}
  Kernel = {"interrupt"}
  Unmapped = {}
  GuardEvent = "guard"
  MaxNested = 4
  MaxDepth = 1
  MaxQueued = 2
  MaxExpired = 1
  Jumps = FALSE
INVARIANT DeletedOnce
