CONSTANTS
  e1 = e1
  e2 = e2
  Enclave = {e1, e2}
  Cpu <- SixCpus
  Siblings <- PairSiblings
  Node <- OneNode
  NrCores = 3
  CpuLists <- NoLists
  BootList <- TwoCores
  MinMem = 1
  Faults = {"request", "copy"}
SPECIFICATION FairSpec
INVARIANTS NoCpuLost
PROPERTIES  ExitIsReported ReleaseCompletes
