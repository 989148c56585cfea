\* Timeouts, signals, direct switches and unwinding; a and b share two units, of
\* which a can make new ones.
SPECIFICATION SemSpec
CONSTANTS
  a = a  b = b  c = c
  Idle = idle
  Threads = {idle, a, b}
  Detachable = {}
  Mortal = {}
  Killers = {a}
  WakeStates = {"Ready", "Sleeping"}
  NumPriorities = 1
  Priority <- MCPriority
  Events = {Interrupt, signal}
  Interrupt = Interrupt
  MaxQueued = 1
  NoThread = NoThread
  Boot = a
  BootReady <- MCBootTwo
  Initial = 1
  Amounts = {1, 2}
  Timeouts = {TRUE}
  Producers = {a}
  MaxValue = 2
  Signals = {signal}
  Unwindable = {b}
INVARIANTS WaitQueueSound
PROPERTIES ImplementsCountingSemaphore UsesScheduler
