SPECIFICATION Spec
CONSTANTS
  Logs <- TwoInLogs
  TxHash <- TwoInHash
  Sender <- TwoInSender
  Receiver <- TwoInReceiver
  Value <- TwoInValue
  Method <- Direct
  MaxColumn = 1000
  NullMembers = {}
  Members = {"m1"}
  Manager = "M"
  PendingLogs = {}
  RpcType = "http"
  StrictSql = FALSE
  WEB3_RESTORE_START_BLOCK = 4697004
  WEB3_BLOCK_OFFSET = 0
  Faults = {}
  MaxFaults = 0
  MaxBlocks = 2
PROPERTY WalletNeverShrinks
