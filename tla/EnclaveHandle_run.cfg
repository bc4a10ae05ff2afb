CONSTANTS
  W64 = 64
  W32 = 16
  MiB = 2
  TimeoutBlock = 6
  MinuteMs = 5
  HugePages <- PageMap
  Offset = 6
  Args <- SomeArgs
  PoolFiles <- SomePools
  CpuSets <- SomeCpus
  FreePages <- SomePages
  EifSizes = {0, 1, 3, 7}
  MinMem = 12
  Thread = {t1, t2}
SPECIFICATION Spec
INVARIANTS ClearedMeansReleased RunningIsIntact AllocationIsTight ImageInPlace CpusAsRequested
PROPERTIES UnmapAfterStop 
