SPECIFICATION SessionsSpec
CONSTANTS
  Conns = {"c1", "c2"}
  NULL = "null"
  TLS = FALSE
  MAX_INFLIGHT = 1
  IdSpace = 2
  RX_BUF_SIZE = 4
  CHUNK = 8
  KEEPALIVE = 2
  PING_TIMEOUT = 2
  CONNECT_TIMEOUT = 2
  BrokerPackets <- SessionPackets
  CallsInCallback = TRUE
  MaxConnects = 2
  MaxIn = 2
  MaxIds = 2
INVARIANTS NoOrphan
CHECK_DEADLOCK FALSE
