\* A killed process dies while its thread is still in a ready queue.
SPECIFICATION SchedSpec
CONSTANTS
  a = a  b = b  c = c
  Idle = idle
  Threads = {idle, a, b, c}
  Detachable = {}
  Mortal = {b}
  Killers = {a}
  WakeStates = {"Sleeping"}
  NumPriorities = 1
  Priority <- MCPriority
  Events = {Interrupt}
  Interrupt = Interrupt
  MaxQueued = 1
  NoThread = NoThread
  Boot = a
  BootReady <- MCBootReady
INVARIANT ZombieNeverRuns
