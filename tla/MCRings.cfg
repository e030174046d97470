SPECIFICATION RingsSpec
CONSTANTS
  N = 4
  Batch = 2
  MaxPushes = 10
  Holdoff = 3
  Wrap = 32
  Modulus = 64
  MaxTime = 10
  Period = 2
  Delay = 1
  FirstUp = 6
  Cycle = 13
  MaxClock = 12
  LogSlots = 2
  Poll = 2
  Slack = 0
  Latency = 1
  MinGap = 2
  Mode = {"raw", "plain"}
  Gone = 3
  MaxTexts = 1
  MaxStale = 3
  Wide = {TRUE, FALSE}
INVARIANTS
  HeapExported
  LastingLowTold
  CardTrue
  FramesTrue
PROPERTIES
  OncePerExcursion
  HoldoffKept
