SPECIFICATION FairSpec
CONSTANTS
  Logs <- SelfLogs
  TxHash <- SelfHash
  Sender <- SelfSender
  Receiver <- SelfReceiver
  Value <- SelfValue
  Method <- Direct
  MaxColumn = 1000
  NullMembers = {}
  Members = {"M"}
  Manager = "M"
  PendingLogs = {}
  RpcType = "ws"
  StrictSql = FALSE
  WEB3_RESTORE_START_BLOCK = 4697004
  WEB3_BLOCK_OFFSET = 0
  Faults = {"crash", "wsclose", "reject", "null", "lag", "reorg"}
  MaxFaults = 2
  MaxBlocks = 2
PROPERTY MinedIsRecorded
CHECK_DEADLOCK FALSE
