SPECIFICATION PagesSpec
CONSTANTS
  Preset <- MCPreset
  Lines <- MCLines
  Patient = TRUE
  MaxCalls = 2
  Template = {"json", "short", "long", "broken"}
  Compiling = {"json", "short", "long"}
  Accepted = {"json", "short"}
  Password = {"p", "q"}
  Hasty = FALSE
  MaxRequests = 2
  LANGS = {"de", "fr"}
  Ref = "de"
  Key = {"save", "count"}
  Kind = {"text", "function"}
  Part = {"card", "tab"}
  Screen = {"device", "live"}
  Story = {"one", "two"}
  SECTIONS = {"Steps", "Notes"}
  REQUIRED_SECTIONS = {"Steps"}
  Start <- MCStart
  MaxEdits = 4
INVARIANTS
  PagesTypeOK
  StepsPersisted
  ChoiceKept
  
  BuildsComplete
PROPERTIES
  KeyPolicy
  PasswordKept
