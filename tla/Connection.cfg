SPECIFICATION Spec
CONSTANTS
  Asked = {"HTTP", "HTTPS", "CONNECT:80", "CONNECT:25", "SOCKS4", "SOCKS5"}
  MaxTries = 2
  PreferConnect = TRUE
  DomainLength = 9
  MaxRequests = 4
CHECK_DEADLOCK FALSE
INVARIANTS
  SocketsOwned
  ErrorRateIsARate
  TunnelIsClean
PROPERTIES
  TunnelAlteredOnlyBehindSocks
