SPECIFICATION WSSpec
CONSTANTS
  u1 = u1
  u2 = u2
  p1 = p1
  CallIDs <- MCCallIDs
  PeerIDs <- MCPeerIDs
  MaxReceived = 2
INVARIANTS
  PendingIffTimer
  PendingIsReachable
  AnsweredOnce
PROPERTIES
  RefinesRequestReply
