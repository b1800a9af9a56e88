SPECIFICATION FairSpec
CONSTANTS
  Requests <- MixRequests
  Via <- MixVia
  From <- MixFrom
  To <- MixTo
  Amount <- MixAmount
  InputFee <- MixFee
  GasFee = 1
  After <- MixAfter
  Ether <- MixEther
  N = 3
  MaxUint = 7
  INITIAL_SUPPLY = 4
  RpcType = "ws"
  Faults = {"findOne", "getGasPrice", "getBalance", "balanceOf", "signTransaction", "send", "wsclose", "crash"}
  MaxFaults = 1
INVARIANTS
  TypeOK
  PendingIsKept
  RevertedByRace
  NodeRefusesByRace
  ErrorIsNotSent
PROPERTIES
  Answered
  HashIsMined
CHECK_DEADLOCK FALSE
