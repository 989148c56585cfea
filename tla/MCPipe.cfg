\* One reader, which also polls, and one writer, which writes more than the pipe holds,
\* closes the pipe and opens it again.
SPECIFICATION FairSpec
CONSTANTS
  r = r  w = w
  Readers = {r}
  Writers = {w}
  NoThread = NoThread
  PipeBufMax = 2
  Sizes = {1, 3}
  Polling = {r}
  Unwinding = {w}
  Kinds = {TRUE, FALSE}
  MaxBytes = 3
  MaxReopens = 1
INVARIANTS BytesInOrder CapacityKept DeletedOnce NoStaleEvent
PROPERTIES EOFMeansDrained PollWoken 
CHECK_DEADLOCK FALSE
