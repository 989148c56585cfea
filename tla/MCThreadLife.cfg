\* Two threads join or detach a third, one of them in spite of events.
SPECIFICATION LifeFairSpec
CONSTANTS
  a = a  b = b  c = c
  Idle = idle
  Threads = {idle, a, b, c}
  Detachable = {b, c}
  Mortal = {b, c}
  Killers = {}
  WakeStates = {"Ready", "Running", "Sleeping"}
  NumPriorities = 1
  Priority <- MCPriority
  Events = {Interrupt}
  Interrupt = Interrupt
  MaxQueued = 1
  NoThread = NoThread
  Boot = a
  BootReady <- MCBootReady
  Owners <- MCOwners
  Signalled = {a}
INVARIANTS JoinDeletesExited DetachedHasNoWaiter WaiterIsJoining
PROPERTIES LifeUsesScheduler JoinerWoken
