SPECIFICATION BackendSpec
CONSTANTS
  Requests <- MCRequests
  Via <- MCVia
  From <- MCFrom
  To <- MCTo
  Amount <- MCAmount
  InputFee <- NoFee
  GasFee = 0
  After <- MCAfter
  Ether <- NoEther
  N = 3
  MaxUint = 7
  INITIAL_SUPPLY = 3
  RpcType = "http"
  Faults = {"send", "crash"}
  MaxFaults = 1
  Members = {1, 2, 3}
  WEB3_RESTORE_START_BLOCK = 4697004
  WEB3_BLOCK_OFFSET = 0
  MaxBlocks = 3
  IntakeFaults = {"crash", "reject"}
  MaxIntakeFaults = 1
INVARIANTS
  SettledIsPaid
  CreditedIsMoved
  LinkedIsSent
