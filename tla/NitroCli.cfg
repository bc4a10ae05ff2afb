CONSTANTS
  p1 = p1
  p2 = p2
  Cli = {p1, p2}
  Process = {p1, p2}
  Builders <- AllOrNone
  Image <- Images
  NoImage <- Nothing
  Registry <- Good
  BuildArgs <- SomeBuilds
  MaxRetags = 1
  Commands <- SomeCommands
  NoName <- NotGiven
  Stem <- Hello
  AutoCid = {7, 8}
  BufferSize = 2
  MaxOutput = 3
  Running <- SomeRunning
SPECIFICATION Spec
INVARIANTS OneImagePerFile SameNameMeansRace ConsoleIsComplete ConsoleIsOwn
PROPERTIES ConsoleEnds
