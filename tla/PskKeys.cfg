SPECIFICATION PskSpec
CONSTANTS
  NULL = NULL
  IpConst <- IpValues
  StationConst <- StationValues
  LifeConst <- LifeValues
  RouterConst <- RouterValues
  ServerConst <- ServerValues
  ClientConst <- ClientValues
  RestartConst <- RestartValues
  TftpConst <- TftpValues
  DnsConst <- DnsValues
  DhcpConst <- DhcpValues
  DhcpsConst <- DhcpsValues
  HttpConst <- HttpValues
  SlipConst <- SlipValues
INVARIANT AppKeysOverFinished
CHECK_DEADLOCK FALSE
