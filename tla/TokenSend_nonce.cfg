SPECIFICATION Spec
CONSTANTS
  Requests <- ChainRequests
  Via <- ChainVia
  From <- ChainFrom
  To <- ChainTo
  Amount <- ChainAmount
  InputFee <- NoFee
  GasFee = 0
  After <- ChainAfter
  Ether <- NoEther
  N = 3
  MaxUint = 7
  INITIAL_SUPPLY = 4
  RpcType = "http"
  Faults = {}
  MaxFaults = 0
INVARIANTS
  HashIsPending
CHECK_DEADLOCK FALSE
