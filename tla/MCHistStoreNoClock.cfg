SPECIFICATION Spec
CONSTANTS
  Sectors = 2
  Slots = 2
  MaxAppends = 7
  MaxDamage = 0
  RecordFaults = FALSE
  ClockSyncs = FALSE
INVARIANT
  VirginWrites
