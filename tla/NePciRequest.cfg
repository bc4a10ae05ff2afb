CONSTANTS
  Caller = {"worker", "ioctl", "release"}
  MaxRequests = 4
SPECIFICATION FairSpec
INVARIANTS
  ReplyLag
PROPERTY
  RequestReturns
