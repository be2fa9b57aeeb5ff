CONSTANTS
  Pkt <- MCPkt
  PktNode <- MCPktNode
  Frame <- MCFrame
  Si <- MCSi
  PuntConfigs <- MCPuntConfigs
  InjectNexts <- MCInjectNexts
  InjectTags <- MCInjectTags
  MaxDisp = 2
  HostIsNetworkByteOrder = FALSE

SPECIFICATION Spec

INVARIANT TypeOK
INVARIANT PuntRewrite
INVARIANT RoundTrip
