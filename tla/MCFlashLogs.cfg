SPECIFICATION FlashSpec
CONSTANTS
  Sectors = 3
  Slots = 2
  MaxAppends = 9
  MaxDamage = 0
  RecordFaults = FALSE
  ClockSyncs = TRUE
  Cap = 3
  FoldWindow = 3
  FlushPeriod = 1
  MaxRepeat = 2
  Events = {wifi, meter}
  Reasons = {panic}
  MaxSeconds = 4
  MaxBoots = 2
  MaxImages = 1
  MaxEntries = 3
  MaxFaults = 1
SYMMETRY EventSymmetry
INVARIANTS
  ExportFaithful
  FaultsContained
  EventsKept
  EventsDated
PROPERTIES
  UpdateRecorded
