SPECIFICATION WzSpec
CONSTANTS
  Preset <- MCPreset
  Lines <- MCLines
  Patient = TRUE
  MaxCalls = 2
INVARIANT
  FixLeads
