CONSTANTS
  a = a
  b = b
  Client = {a, b}
  Owner = {a}
  Launcher = Launcher
  Self = Self
  NoConn = NoConn
  MaxFd = 8
  Commands <- AnyCommand
  Faults = {}
SPECIFICATION Spec
INVARIANTS TerminatedMeansReleased   StopReachesListener
PROPERTIES ImplementsLifecycle
