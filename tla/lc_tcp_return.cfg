SPECIFICATION Spec
CONSTANTS
  Servers = {"https", "quic"}
  Quic = "quic"
  ServerOrder <- MCOrder
  Tcp = {"tcp"}
  TcpConfigs <- MCTcpConfigs
  ChanCap = 1
INVARIANT EndsAfterHandlers
CHECK_DEADLOCK FALSE
