SPECIFICATION HistorySpec
CONSTANTS
  Quarter = 3
  FirstQh = 10
  MaxTime = 11
  MaxBoots = 2
  MaxPosts = 1
  Contention = FALSE
  MaxSteps = 0
  Faults = FALSE
  TabRange = {"day", "week", "year"}
  Clocked = TRUE
  MaxRecords = 3
  Ranges = {1, 2}
  Energy = {0, 1}
  Plausible = 1
  MarkLost = FALSE
  MaxBars = 5
  MaxPoints = 3
  MaxQh = 5
  NoValue = NoValue
  Silent = Silent
  Off = Off
  Power <- MCPower
  PerQuarter = 2
  Window = 4
  MaxTicks = 7
INVARIANTS
  DatesRight
  EveryInterval
  HistShown
  GapsDrawn
  
  HourDrawn
