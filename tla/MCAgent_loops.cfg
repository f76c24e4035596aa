\* Two connections and Receive compete for the packets of one socket.
SPECIFICATION FairSpec
CONSTANTS
  None = None
  Threads = {t1}
  IpLists <- OneIp
  Ports <- OnePort
  Remotes = {r1, r2}
  Handlers = {h1}
  MaxSockets = 1
  MaxConns = 2
  MaxRemotes = 1
  MaxPackets = 2
INVARIANTS
  OneLateCall
  OneMissedUnlessShared
PROPERTIES
  LoopsEnd
CHECK_DEADLOCK FALSE
