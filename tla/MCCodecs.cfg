SPECIFICATION Spec
CONSTANTS
  MaxFieldCount = 40
  MaxFieldLength = 100000
  MaxChainLength = 100000
  Fragment = 28000
  Chunk = 16384
  MaxPacket = 90000
  MaxText = 64
  MaxTotalText = 100
  MaxControls = 3
  MaxControlLength = 16
  MaxTotalControl = 32
  MaxEnvelopeFields = 30
  MaxPreamble = 4
  MaxPreambleLength = 40
  MaxRows = 20
  MaxNodes = 5
  MaxEdges = 14
  MaxDepth = 3
INVARIANTS AnswersHonest RepliesHonest MetadataAgrees
CHECK_DEADLOCK FALSE
