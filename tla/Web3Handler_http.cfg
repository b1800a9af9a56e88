SPECIFICATION Spec
CONSTANTS
  Logs <- ManagerLogs
  TxHash <- ManagerHash
  Sender <- ManagerSender
  Receiver <- ManagerReceiver
  Value <- ManagerValue
  Method <- ByContract
  MaxColumn = 1000
  NullMembers = {}
  Members = {"M"}
  Manager = "M"
  PendingLogs = {}
  RpcType = "http"
  StrictSql = FALSE
  WEB3_RESTORE_START_BLOCK = 5
  WEB3_BLOCK_OFFSET = 1
  Faults = {"crash", "reject", "reorg", "noDb", "lag"}
  MaxFaults = 2
  MaxBlocks = 3
INVARIANTS
  TypeOK
  UniqueRows
  FreshLookup
  WalletBackedByRows
  CheckpointSafe
PROPERTIES
  DispatchIsNew
  RowIsFinal
