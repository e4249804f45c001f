SPECIFICATION FairSpec
CONSTANTS
  Servers = {"https", "quic"}
  Quic = "quic"
  ServerOrder <- MCOrder
  Tcp = {"tcp"}
  TcpConfigs <- MCTcpConfigs
  ChanCap = 1
INVARIANTS
  TypeOK
PROPERTIES
  ServiceKept
  ShutdownCompletes
  FailureStops
CHECK_DEADLOCK FALSE
