CONSTANTS
  Proc = {"p1", "p2"}
  Describe = {"d"}
  TerminateAll = {"t"}
  MaxInstances = 1
  Others = {"p2"}
SPECIFICATION FairSpec
INVARIANTS
  SuccessIsComplete
  LiveSocketsKept

  
