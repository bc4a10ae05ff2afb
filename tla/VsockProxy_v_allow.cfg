CONSTANTS
  c1 = c1
  c2 = c2
  Conn = {c1, c2}
  NumWorkers = {0, 1}
  IpAddrType = {"v4"}
  Configs <- SomeConfigs
  Answers <- SomeAnswers
  AliasAnswers <- SomeAliases
  Host = "host"
  Port = 443
  BuffSize = 2
  Window = 2
  MaxSend <- OneTalks
  Leaving <- OneCloses
  MaxTime = 1
SPECIFICATION Spec
INVARIANT IpMatchAllows
