SPECIFICATION Spec
CONSTANTS
  None = None
  Number <- Numerals
  Address <- NoAddress
  SchemaFile <- NoFiles
  ServerListFile <- NoFiles
  MaxMessages = 2
  MaxConVars = 2
  MaxPlayers <- AnyByte
  PartySizes = {1, 2, 3, 4, 6, 8, 12, 24, 255}
  MaxFields = 4
  Strings <- AnyString
  GROUP_BITS = 3
  MAX_VARINT_32_BYTES = 4
  U32_BITS = 10
  MaxReason = 2
  MaxConVarPart = 3
  MaxText = 4
CHECK_DEADLOCK FALSE
INVARIANT LastSettingWins
INVARIANT KnotsApart
INVARIANT ScoreBounded
INVARIANT NoRoomCosts
INVARIANT MessagesSurvive
INVARIANT NumbersSurvive
PROPERTY PeaksAtIdeal
