CONSTANTS
  e1 = e1
  e2 = e2
  Enclave = {e1, e2}
  Cpu <- SixCpus
  Siblings <- PairSiblings
  Node <- OneNode
  NrCores = 3
  CpuLists <- SomeLists
  BootList <- TwoCores
  MinMem = 1
  Faults = {"request", "timeout", "param", "copy"}
SPECIFICATION Spec
SYMMETRY SymEnclaves
INVARIANTS NoCpuShared WholeCores RunsOnWholeCores
