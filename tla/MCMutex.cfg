\* Three threads and a Mutex, no timeouts, no events.
SPECIFICATION SemFairSpec
CONSTANTS
  a = a  b = b  c = c
  Idle = idle
  Threads = {idle, a, b, c}
  Detachable = {}
  Mortal = {}
  Killers = {}
  WakeStates = {"Ready", "Sleeping"}
  NumPriorities = 1
  Priority <- MCPriority
  Events = {Interrupt}
  Interrupt = Interrupt
  MaxQueued = 1
  NoThread = NoThread
  Boot = a
  BootReady <- MCBootThree
  Initial = 1
  Amounts = {1}
  Timeouts = {FALSE}
  Producers = {}
  MaxValue = 0
  Signals = {}
  Unwindable = {}
INVARIANTS NoLostWakeup MutualExclusion
PROPERTIES WaiterWoken ReadyRuns
