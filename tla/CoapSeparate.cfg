SPECIFICATION ClientSpec
CONSTANTS
  NULL = NULL
  IpConst <- IpValues
  StationConst <- StationValues
  LifeConst <- LifeValues
  RouterConst <- RouterValues
  ServerConst <- ServerValues
  ClientConst <- ClientValues
  RestartConst <- RestartValues
  TftpConst <- TftpValues
  DnsConst <- DnsValues
  DhcpConst <- DhcpValues
  DhcpsConst <- DhcpsValues
  HttpConst <- HttpValues
  SlipConst <- SlipValues
PROPERTIES SeparateHeard
CHECK_DEADLOCK FALSE
