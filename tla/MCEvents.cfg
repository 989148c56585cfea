\* Nested handlers up to and beyond the limit, longjmp, guards that time out,
\* refused stacks, and execve.
SPECIFICATION Spec
CONSTANTS
  Signals = {"int"}
  Kernel = {"interrupt", "old"}
  Unmapped = {"old"}
  GuardEvent = "guard"
  MaxNested = 3
  MaxDepth = 2
  MaxQueued = 2
  MaxExpired = 1
  Jumps = TRUE
INVARIANTS TypeOK MaskIsOwn
PROPERTIES ResumesInterrupted GuardCancelsOwnCode PassedOverKept
