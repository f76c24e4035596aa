\* The client, one other peer, channels of capacity two and one signal.
SPECIFICATION BoundedSpec
CONSTANTS
  None = None
  Me = me
  Conns = {me, x}
  Dests = {me}
  SendCap = 2
  MaxMsgs = 1
  App = {a}
  Pump = pump
  Handlers = {h1}
  SignalOps <- Nothing
  PeerOps <- Nothing
  MaxReads = 6
  MaxCalls = 1
INVARIANTS
  PeersLagBehind
  SenderIsListed
PROPERTIES
  ClientSpec
  PeersConverge
CHECK_DEADLOCK FALSE
