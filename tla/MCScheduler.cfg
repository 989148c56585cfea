\* Signals, exits and thread creation on two priorities.
SPECIFICATION SchedSpec
CONSTANTS
  a = a  b = b  c = c
  Idle = idle
  Threads = {idle, a, b, c}
  Detachable = {b}
  Mortal = {b}
  Killers = {a}
  WakeStates = {"Ready", "Sleeping", "Suspended", "Zombie", "AwaitingJoin"}
  NumPriorities = 2
  Priority <- MCTwoPriority
  Events = {Interrupt}
  Interrupt = Interrupt
  MaxQueued = 1
  NoThread = NoThread
  Boot = a
  BootReady <- MCBootReady
INVARIANTS SchedTypeOK ReadyIsQueued ReadyQueuesSound CurrentIsRunning
