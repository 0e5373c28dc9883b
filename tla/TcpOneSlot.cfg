CONSTANTS
  MAX_CONNS = 1
  MAX_LISTENERS = 1
  TX_POOL_COUNT = 2
  RX_BUF_SIZE = 2
  MSS = 1
  SeqSpace = 8
  ISS_INIT = 0
  ISS_STEP = 4
  RTO_INIT = 1
  RTO_LIMIT = 1
  MAX_RETRIES = 1
  TIME_WAIT_TICKS = 1
  IDLE_REAP_TICKS = 1
  Remotes = {r1}
  Ports = {0, 7}
  Reserved = {}
  ECHO_PORT = 7
  Bytes = {1}
  Payloads <- OnePayload
  ReadSizes = {1}
  Inputs <- OneSlotInputs
  WireCap = 0
  Lossy = TRUE
SPECIFICATION Spec
INVARIANTS TypeOK RingWindow TxCoversUnacked TerminalNotice
