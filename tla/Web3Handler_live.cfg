SPECIFICATION FairSpec
CONSTANTS
  Logs <- InOutLogs
  TxHash <- InOutHash
  Sender <- InOutSender
  Receiver <- InOutReceiver
  Value <- InOutValue
  Method <- Direct
  MaxColumn = 1000
  NullMembers = {}
  Members = {"m1", "m2"}
  Manager = "M"
  PendingLogs = {"w1"}
  RpcType = "http"
  StrictSql = FALSE
  WEB3_RESTORE_START_BLOCK = 4697004
  WEB3_BLOCK_OFFSET = 0
  Faults = {"lag", "null", "reorg"}
  MaxFaults = 1
  MaxBlocks = 2
INVARIANTS
  DepositsCredited
  DepositsRecorded
  SettledByRow
PROPERTIES
  ImplementsIntake
  SettledIsFinal
  LinkedIsSettled
