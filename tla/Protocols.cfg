SPECIFICATION ProtocolsSpec
CONSTANTS
  Codecs = {"vmess", "legacy", "ss", "snell", "ssr", "shadowtls", "ws", "tlsobfs", "httpobfs"}
  Frames = 3
  Limit = 3
  Chunks = 2
  NoOne = NoOne
INVARIANTS
  
  DialogIsClean
  
  TunnelsAreKept
PROPERTIES
  ImplementsRecordStream
  
CHECK_DEADLOCK FALSE
