SPECIFICATION PublishSpec
CONSTANTS
  topic = topic
  first = first
  second = second
  Topics = {topic}
  Ids = {first, second}
  Offered <- MCOffered
  Uploads = {"bare"}
  MaxPosts = 2
  MaxMeters = 1
  MaxLosses = 1
  MaxClients = 2
  Reg <- MCReg
  IsText <- MCText
  Name <- MCName
  Unit <- MCUnit
  Device <- MCDevice
  Meters <- MCMeters
  Pieces <- MCPieces
  MaxPieces = 3
  TPL_MAX = 3
  MAX_TOKENS = 2
  NUM_MAX = 2
  TS_LEN = 1
  SMID_MAX = 2
  BUF = 14
INVARIANTS
  SettingsInForce
  AvailabilityTrue
  TemplateSafe
