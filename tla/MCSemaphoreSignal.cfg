\* A waiter has a signal to handle when it goes to sleep.
SPECIFICATION SemSpec
CONSTANTS
  a = a  b = b  c = c
  Idle = idle
  Threads = {idle, a, b}
  Detachable = {}
  Mortal = {}
  Killers = {}
  WakeStates = {"Ready", "Sleeping"}
  NumPriorities = 1
  Priority <- MCPriority
  Events = {Interrupt, signal}
  Interrupt = Interrupt
  MaxQueued = 1
  NoThread = NoThread
  Boot = a
  BootReady <- MCBootTwo
  Initial = 1
  Amounts = {1}
  Timeouts = {FALSE}
  Producers = {}
  MaxValue = 0
  Signals = {signal}
  Unwindable = {}
INVARIANT NoLostWakeup
