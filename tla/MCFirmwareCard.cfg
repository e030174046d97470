SPECIFICATION FwSpec
CONSTANTS
  Image <- MCImage
  Factory <- MCFactory
  Release <- MCRelease
  File <- MCFile
  OtaAuth = TRUE
  Patient = TRUE
  Misses = 2
  MaxFlows = 2
  RestartTimeout = 2
  RebootTimeout = 2
  RelTimeout = 2
INVARIANTS FwTypeOK
PROPERTIES BackMeansRestarted VerdictRight BusyEnds
