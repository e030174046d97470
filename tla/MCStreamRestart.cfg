SPECIFICATION StRestartSpec
CONSTANTS
  LogSlots = 2
  Poll = 2
  Slack = 0
  Latency = 1
  MinGap = 2
  Mode = {"raw", "plain"}
  Gone = 3
  MaxTexts = 1
  MaxStale = 3
  Wide = {TRUE, FALSE}
INVARIANT
  BodyOfHeader
