CONSTANTS
  TX_POOL_COUNT = 3
  RX_BUF_SIZE = 2
  MSS = 1
  SeqSpace = 32
  ISS_STEP = 10
  RTO_INIT = 1
  RTO_LIMIT = 1
  MAX_RETRIES = 2
  TIME_WAIT_TICKS = 1
  IDLE_REAP_TICKS = 1
  Peer = peer
  Port = 7
  Bytes = {1, 2}
  ReadSizes = {1}
  CapA = 3
  CapB = 2
  Lossy = TRUE
  Duplicates = TRUE
  Closers = {}
  Payloads <- OneByte
  MaxStream = 2
  MaxAccepts = 2
SPECIFICATION MCSpec
INVARIANTS StreamPrefix AckedWasReceived HandshakeIsCurrent
CHECK_DEADLOCK FALSE
PROPERTIES SlotReclaimed
