SPECIFICATION FairSpec
CONSTANTS
  Quarter = 2
  FirstQh = 10
  MaxTime = 4
  MaxBoots = 1
  MaxPosts = 1
  Contention = TRUE
  MaxSteps = 1
  Faults = TRUE
INVARIANTS
  UndatedTracked
  SamplesOnce
PROPERTY
  Backdated
