CONSTANTS
  a = a
  b = b
  Client = {a, b}
  Owner = {a, b}
  Launcher = Launcher
  Self = Self
  NoConn = NoConn
  MaxFd = 8
  Commands <- TerminateOrDescribe
  Faults = {}
SPECIFICATION Spec
SYMMETRY SymClients
CHECK_DEADLOCK FALSE
INVARIANT StopReachesListener
