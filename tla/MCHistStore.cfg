SPECIFICATION Spec
CONSTANTS
  Sectors = 3
  Slots = 2
  MaxAppends = 9
  MaxDamage = 1
  RecordFaults = FALSE
  ClockSyncs = TRUE
INVARIANTS
  IInv
  VirginWrites
  DatesRecords
  LogKept
PROPERTIES
  DatedStays
  ImplementsLog
