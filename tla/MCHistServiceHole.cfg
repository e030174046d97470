SPECIFICATION Spec
CONSTANTS
  Quarter = 3
  FirstQh = 10
  MaxTime = 14
  MaxBoots = 0
  MaxPosts = 0
  Contention = TRUE
  MaxSteps = 0
  Faults = FALSE
INVARIANTS
  NoHoles
