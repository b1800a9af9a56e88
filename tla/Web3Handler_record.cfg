SPECIFICATION Spec
CONSTANTS
  Logs <- OneLogs
  TxHash <- OneHash
  Sender <- OneSender
  Receiver <- OneReceiver
  Value <- OneValue
  Method <- Direct
  MaxColumn = 1000
  NullMembers = {}
  Members = {"m1"}
  Manager = "M"
  PendingLogs = {}
  RpcType = "http"
  StrictSql = TRUE
  WEB3_RESTORE_START_BLOCK = 4697004
  WEB3_BLOCK_OFFSET = 0
  Faults = {}
  MaxFaults = 0
  MaxBlocks = 2
INVARIANT DepositsRecorded
