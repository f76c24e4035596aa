\* Gathering again, closing and connecting, without packets.
SPECIFICATION Spec
CONSTANTS
  None = None
  Threads = {t1, t2}
  IpLists <- TwoIps
  Ports <- TwoPorts
  Remotes = {r1}
  Handlers = {}
  MaxSockets = 3
  MaxConns = 1
  MaxRemotes = 1
  MaxPackets = 0
SYMMETRY ThreadSymmetry
INVARIANTS
  TypeOK
  ListenersAreLatest
  PairedUnlessClosed
CHECK_DEADLOCK FALSE
