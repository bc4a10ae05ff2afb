CONSTANTS
  a = a
  b = b
  Client = {a}
  Owner = {a}
  Launcher = Launcher
  Self = Self
  NoConn = NoConn
  MaxFd = 4
  Commands <- TerminateOrDescribe
  Faults = {"die", "delete", "signal", "hangup", "runfail", "pcrfail"}
SPECIFICATION FairSpec
PROPERTIES   ClientsReturn
